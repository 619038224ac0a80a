\* One predicate of every rule family on both flows.
CONSTANTS
    TunnelCode <- MCTunnelCode
    Flows <- MCFlows
    Exprs <- MCAllExprs
    AppTags <- MCAppTags
    ProtoTags <- MCProtoTags
    Unknown = 0
    HaveRegex = TRUE
    CtMarkBuild = TRUE

SPECIFICATION ParserSpec

INVARIANT ExprMatchesReference
