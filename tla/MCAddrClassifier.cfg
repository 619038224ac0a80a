\* Every pair of classified endpoint types for the flow and for the inner
\* GTP endpoints, under both IP versions; a detected and an undetected
\* flow; plugin expressions on the flow's local and other sides.
CONSTANTS
    TunnelCode <- MCTunnelCode
    Flows <- MCFlows
    Exprs <- MCSideExprs
    AppTags <- MCAppTags
    ProtoTags <- MCProtoTags
    Unknown = 0
    HaveRegex = TRUE
    CtMarkBuild = TRUE

SPECIFICATION ParserSpec

INVARIANT TypeOK
INVARIANT InsideIsLocal
INVARIANT DirectionSymmetric
INVARIANT LocalIsInside
