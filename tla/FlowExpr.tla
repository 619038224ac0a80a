------------------------------- MODULE FlowExpr -------------------------------
(***************************************************************************)
(* ndFlowParser (nd-flow-expr.cpp): plugins match flows against filter    *)
(* expressions.  Parse picks the flow's local and other endpoints from    *)
(* the lower_map UpdateLowerMaps computed (AddrClassifier), then the      *)
(* Bison parser reduces the expression bottom-up, each rule's semantic     *)
(* action computing its value from one flow field.  The LALR tables and   *)
(* the lexer are not modelled: an expression is given as its parse tree,  *)
(* a leaf [f, c, v] naming the rule family f (the grammar nonterminal),   *)
(* the comparison c ("bare", "not", "eq", "ne", "ge", "le", "gt", "lt")   *)
(* and the value token v, without the quotes the actions strip; an inner  *)
(* node [op, l, r] is BOOL_OR or BOOL_AND.                                 *)
(***************************************************************************)
EXTENDS AddrClassifier, Functions

CONSTANTS
    TunnelCode,  \* [Tunnels -> Nat]: the values of ndFlow's TUNNEL_* enum
    Flows,       \* the fields of the flow the detection left
    Exprs,       \* parse trees of the expressions plugins evaluate
    AppTags,     \* categories[TYPE_APP].tag: tag -> id
    ProtoTags,   \* categories[TYPE_PROTO].tag: tag -> id
    Unknown,     \* ND_CAT_UNKNOWN
    HaveRegex,   \* HAVE_WORKING_REGEX
    CtMarkBuild  \* _ND_USE_CONNTRACK and _ND_WITH_CONNTRACK_MDATA

ASSUME TunnelCode \in [Tunnels -> Nat] /\ TunnelCode["none"] # TunnelCode["gtp"]
ASSUME {HaveRegex, CtMarkBuild} \subseteq BOOLEAN

VARIABLES
    fl,      \* the flow's fields other than those AddrClassifier models
    parsed,  \* <<e, lm>>: the expression last parsed and the lower_map then
    result,  \* the value Parse returned
    hung     \* Parse never returned

parserVars == <<fl, parsed, result, hung>>
allVars == <<rec, ipVersion, tunnel, updated, fl, parsed, result, hung>>

\* ndFlow's OTHER_* enum, in declaration order (nd-flow.cpp 718-721).
OtherCode == [t \in OtherTypes |->
                CASE t = "unknown" -> 0 [] t = "unsupported" -> 1
                  [] t = "local" -> 2 [] t = "multicast" -> 3
                  [] t = "broadcast" -> 4 [] t = "remote" -> 5
                  [] t = "error" -> 6]

-----------------------------------------------------------------------------
(* The shapes the semantic actions share.                                  *)

\* A numeric field: bare is non-zero, ! is zero, then the six comparisons
\* with the VALUE_NUMBER.
NumRule(c, x, n) ==
    CASE c = "bare" -> x # 0   [] c = "not" -> x = 0
      [] c = "eq"   -> x = n   [] c = "ne"  -> x # n
      [] c = "ge"   -> x >= n  [] c = "le"  -> x <= n
      [] c = "gt"   -> x > n   [] c = "lt"  -> x < n

\* A boolean flag compared with VALUE_TRUE or VALUE_FALSE.
FlagRule(c, b, v) ==
    CASE c = "bare" -> b [] c = "not" -> ~b [] c = "eq" -> b = v [] c = "ne" -> b # v

\* ndCategories::LookupTag: the id of a tag, ND_CAT_UNKNOWN for a tag the
\* index does not have.
LookupTag(idx, t) == IF t \in DOMAIN idx THEN idx[t] ELSE Unknown

\* is_addr_equal: the literal, an address or a CIDR network of the flow
\* address's family, is abstracted to the addresses it denotes (none when
\* it does not parse or is of the other family).
IsAddrEqual(a, lit) == a \in lit

-----------------------------------------------------------------------------
(* The semantic actions, one operator per nonterminal.                     *)

ExprIpProto(c, n) == NumRule(c, fl.ip_protocol, n)

ExprIpVersion(c, n) == NumRule(c, ipVersion, n)

ExprIpNat(c, v) == FlagRule(c, fl.ip_nat, v)

ExprVlanId(c, n) == NumRule(c, fl.vlan_id, n)

\* Known is "not OTHER_UNKNOWN"; the value tokens name the OTHER_* enum.
ExprOtherType(c, v) ==
    LET ot == rec["flow"].ot IN
    CASE c = "bare" -> ot # "unknown" [] c = "not" -> ot = "unknown"
      [] c = "eq"   -> ot = v         [] c = "ne"  -> ot # v

\* strncasecmp of the endpoint's MAC string with VALUE_ADDR_MAC.
ExprMac(c, mac, v) == IF c = "eq" THEN mac = v ELSE mac # v

ExprIp(c, a, lit) == IF c = "eq" THEN IsAddrEqual(a, lit) ELSE ~IsAddrEqual(a, lit)

ExprPort(c, n, port) == NumRule(c, port, n)

\* `tunnel_type == t`: it compares the flow's other_type with
\* ndFlow::TUNNEL_<t>.
ExprTunnelTypeEqual(t) == OtherCode[rec["flow"].ot] = TunnelCode[t]

ExprTunnelTypeNotEqual(t) == OtherCode[rec["flow"].ot] # TunnelCode[t]

\* Bare and ! test tunnel_type against TUNNEL_NONE.
ExprTunnelType(c, t) ==
    CASE c = "bare" -> tunnel # "none" [] c = "not" -> tunnel = "none"
      [] c = "eq"   -> ExprTunnelTypeEqual(t)
      [] c = "ne"   -> ExprTunnelTypeNotEqual(t)

ExprDetectionGuessed(c, v) == FlagRule(c, fl.guessed, v)

ExprDetectionUpdated(c, v) == FlagRule(c, fl.det_updated, v)

\* Bare and ! test detected_application against 0, and == / != compare
\* it with the number.
ExprApp(c, n) == NumRule(c, fl.app, n)

\* A non-empty application name matches the search when it is equal to it,
\* or when the part after its first '.' is.  Names are label sequences.
AppNameMatch(app, s) == app # <<>> /\ (app = s \/ (Len(app) > 1 /\ Tail(app) = s))

ExprAppName(c, s) == IF c = "eq" THEN AppNameMatch(fl.app_name, s)
                     ELSE ~AppNameMatch(fl.app_name, s)

\* `category == t` holds when the tag's id is the application, domain or
\* network category; `category != t` when it differs from any of them.
ExprCategory(c, t) ==
    LET id == LookupTag(AppTags, t)
        ids == {fl.cat.application, fl.cat.domain, fl.cat.network}
    IN IF c = "eq" THEN id \in ids ELSE \E x \in ids : id # x

ExprRisks(c, v) ==
    CASE c = "bare" -> fl.risks # {} [] c = "not" -> fl.risks = {}
      [] c = "eq"   -> v \in fl.risks [] c = "ne"  -> v \notin fl.risks

\* The three nDPI risk scores share the numeric rules.
ExprNdpiRiskScore(c, n, x) == NumRule(c, x, n)

\* app_category, domain_category and network_category compare the tag's
\* id in the application index with one category of the flow.
ExprCategoryField(c, t, id) ==
    IF c = "eq" THEN LookupTag(AppTags, t) = id ELSE LookupTag(AppTags, t) # id

ExprProto(c, n) == NumRule(c, fl.proto, n)

\* A protocol name: == needs a non-empty name equal to the search; !=
\* holds for an empty name and otherwise when strncasecmp is non-zero.
ExprProtoName(c, s) ==
    IF c = "eq" THEN fl.proto_name # "" /\ fl.proto_name = s
    ELSE fl.proto_name = "" \/ fl.proto_name # s

ExprProtoCategory(c, t) ==
    IF c = "eq" THEN LookupTag(ProtoTags, t) = fl.cat.protocol
    ELSE LookupTag(ProtoTags, t) # fl.cat.protocol

ExprDetectedHostname(c, s) ==
    LET h == fl.host IN
    CASE c = "bare" -> h # "" [] c = "not" -> h = ""
      [] c = "eq"   -> h # "" /\ s = h
      [] c = "ne"   -> h = "" \/ s # h

RECURSIVE StripLoopHangs(_)
\* The loop meant to strip the regex's prefix: while the text has a ':',
\* erase(0, p) removes the characters before the first one.  The ':'
\* stays, so once the body leaves the text as it was the loop never ends.
StripLoopHangs(rx) ==
    IF ":" \notin Range(rx) THEN FALSE
    ELSE LET p == Min({i \in 1..Len(rx) : rx[i] = ":"})
             rest == SubSeq(rx, p, Len(rx))
         IN rest = rx \/ StripLoopHangs(rest)

\* `hostname == rx:...` with a value [text, hosts]: regex_search of the
\* stripped text, the hosts it matches, on a non-empty hostname; false
\* without regex support.  `!=` with a regex is true whatever the name.
ExprHostnameRegex(c, v) ==
    IF c = "ne" THEN TRUE
    ELSE HaveRegex /\ fl.host # "" /\ fl.host \in v.hosts

RegexHangs(c, v) ==
    c = "eq" /\ HaveRegex /\ fl.host # "" /\ StripLoopHangs(v.text)

\* The conntrack mark; every fwmark rule is false in a build without it.
ExprFwmark(c, n) == CtMarkBuild /\ NumRule(c, fl.ct_mark, n)

\* ssl_version and ssl_cipher share the numeric rules.
ExprSsl(c, n, x) == NumRule(c, x, n)

ExprOrigin(c, v, o) ==
    CASE c = "bare" -> o # "unknown" [] c = "not" -> o = "unknown"
      [] c = "eq"   -> o = v         [] c = "ne"  -> o # v

-----------------------------------------------------------------------------
\* Mutant: the LOWER_OTHER branch of Parse's origin switch is a copy of the
\* LOWER_LOCAL one.
ParserContextPasted(lm, f) ==
    [local  |-> IF lm = "local" THEN f.lower ELSE f.upper,
     other  |-> IF lm = "local" THEN f.upper ELSE f.lower,
     origin |-> CASE f.origin = "lower" -> "local"
                  [] f.origin = "upper" -> "other"
                  [] OTHER -> "unknown"]

\* Parse's switch on lower_map: the local endpoint is the lower one for
\* LOWER_LOCAL and the upper one for LOWER_OTHER, and the flow's origin
\* (which endpoint sent the first packet) becomes local or other.
ParserContext(lm, f) ==
    [local  |-> IF lm = "local" THEN f.lower ELSE f.upper,
     other  |-> IF lm = "local" THEN f.upper ELSE f.lower,
     origin |-> CASE f.origin = "unknown" -> "unknown"
                  [] (f.origin = "lower") = (lm = "local") -> "local"
                  [] OTHER -> "other"]

\* The reduction of one leaf: the semantic action of its rule.
ExprLeaf(e, cx) ==
    CASE e.f = "ip_proto"          -> ExprIpProto(e.c, e.v)
      [] e.f = "ip_version"        -> ExprIpVersion(e.c, e.v)
      [] e.f = "ip_nat"            -> ExprIpNat(e.c, e.v)
      [] e.f = "vlan_id"           -> ExprVlanId(e.c, e.v)
      [] e.f = "other_type"        -> ExprOtherType(e.c, e.v)
      [] e.f = "local_mac"         -> ExprMac(e.c, cx.local.mac, e.v)
      [] e.f = "other_mac"         -> ExprMac(e.c, cx.other.mac, e.v)
      [] e.f = "local_ip"          -> ExprIp(e.c, cx.local.ip, e.v)
      [] e.f = "other_ip"          -> ExprIp(e.c, cx.other.ip, e.v)
      [] e.f = "local_port"        -> ExprPort(e.c, e.v, cx.local.port)
      [] e.f = "other_port"        -> ExprPort(e.c, e.v, cx.other.port)
      [] e.f = "tunnel_type"       -> ExprTunnelType(e.c, e.v)
      [] e.f = "detection_guessed" -> ExprDetectionGuessed(e.c, e.v)
      [] e.f = "detection_updated" -> ExprDetectionUpdated(e.c, e.v)
      [] e.f = "app"               -> ExprApp(e.c, e.v)
      [] e.f = "app_name"          -> ExprAppName(e.c, e.v)
      [] e.f = "category"          -> ExprCategory(e.c, e.v)
      [] e.f = "risks"             -> ExprRisks(e.c, e.v)
      [] e.f = "ndpi_risk_score"   -> ExprNdpiRiskScore(e.c, e.v, fl.score)
      [] e.f = "ndpi_risk_score_client" -> ExprNdpiRiskScore(e.c, e.v, fl.score_client)
      [] e.f = "ndpi_risk_score_server" -> ExprNdpiRiskScore(e.c, e.v, fl.score_server)
      [] e.f = "app_category"      -> ExprCategoryField(e.c, e.v, fl.cat.application)
      [] e.f = "domain_category"   -> ExprCategoryField(e.c, e.v, fl.cat.domain)
      [] e.f = "network_category"  -> ExprCategoryField(e.c, e.v, fl.cat.network)
      [] e.f = "proto"             -> ExprProto(e.c, e.v)
      [] e.f = "proto_name"        -> ExprProtoName(e.c, e.v)
      [] e.f = "proto_category"    -> ExprProtoCategory(e.c, e.v)
      [] e.f = "detected_hostname" -> ExprDetectedHostname(e.c, e.v)
      [] e.f = "detected_hostname_rx" -> ExprHostnameRegex(e.c, e.v)
      [] e.f = "fwmark"            -> ExprFwmark(e.c, e.v)
      [] e.f = "ssl_version"       -> ExprSsl(e.c, e.v, fl.ssl_version)
      [] e.f = "ssl_cipher"        -> ExprSsl(e.c, e.v, fl.ssl_cipher)
      [] e.f = "origin"            -> ExprOrigin(e.c, e.v, cx.origin)

IsNode(e) == "op" \in DOMAIN e

RECURSIVE Evaluate(_, _)
\* expr: expr BOOL_OR expr | expr BOOL_AND expr | '(' expr ')': the
\* parser reduces both operands before the operator, whatever the first
\* one's value.
Evaluate(e, cx) ==
    IF ~IsNode(e) THEN ExprLeaf(e, cx)
    ELSE IF e.op = "or" THEN Evaluate(e.l, cx) \/ Evaluate(e.r, cx)
    ELSE Evaluate(e.l, cx) /\ Evaluate(e.r, cx)

RECURSIVE ParseHangs(_)
\* Some leaf's action never returns.
ParseHangs(e) ==
    IF IsNode(e) THEN ParseHangs(e.l) \/ ParseHangs(e.r)
    ELSE e.f = "detected_hostname_rx" /\ RegexHangs(e.c, e.v)

-----------------------------------------------------------------------------
ParserInit ==
    /\ Init
    /\ fl \in Flows
    /\ parsed = <<>>
    /\ result = FALSE
    /\ hung = FALSE

\* ndFlowParser::Parse(flow, expr): expr_result is cleared; a flow whose
\* lower_map is unknown returns false at once; otherwise the expression is
\* parsed against the local/other view of the flow and its value returned.
Parse(e) ==
    LET lm == rec["flow"].lm IN
    /\ rec["flow"].lt # "none"
    /\ ~hung
    /\ parsed' = <<e, lm>>
    /\ hung' = (lm # "unknown" /\ ParseHangs(e))
    /\ result' = IF lm = "unknown" \/ hung' THEN FALSE
                 ELSE Evaluate(e, ParserContext(lm, fl))
    /\ UNCHANGED <<rec, ipVersion, tunnel, updated, fl>>

ParserNext ==
    \/ ClassifyEndpoints /\ UNCHANGED parserVars
    \/ UpdateLowerMaps /\ UNCHANGED parserVars
    \/ \E e \in Exprs : Parse(e)

ParserSpec == ParserInit /\ [][ParserNext]_allVars

-----------------------------------------------------------------------------
(* Reference: what an expression says of a flow, read off the field each *)
(* predicate names.                                                        *)

TagsOf(idx, ids) == {t \in DOMAIN idx : idx[t] \in ids}

FieldValue(f, cx) ==
    [ip_proto |-> fl.ip_protocol, ip_version |-> ipVersion,
     ip_nat |-> fl.ip_nat, vlan_id |-> fl.vlan_id,
     other_type |-> rec["flow"].ot,
     local_mac |-> cx.local.mac, other_mac |-> cx.other.mac,
     local_ip |-> cx.local.ip, other_ip |-> cx.other.ip,
     local_port |-> cx.local.port, other_port |-> cx.other.port,
     tunnel_type |-> tunnel,
     detection_guessed |-> fl.guessed, detection_updated |-> fl.det_updated,
     app |-> fl.app, app_name |-> fl.app_name,
     category |-> TagsOf(AppTags, {fl.cat.application, fl.cat.domain,
                                   fl.cat.network}),
     risks |-> fl.risks, ndpi_risk_score |-> fl.score,
     ndpi_risk_score_client |-> fl.score_client,
     ndpi_risk_score_server |-> fl.score_server,
     app_category |-> TagsOf(AppTags, {fl.cat.application}),
     domain_category |-> TagsOf(AppTags, {fl.cat.domain}),
     network_category |-> TagsOf(AppTags, {fl.cat.network}),
     proto |-> fl.proto, proto_name |-> fl.proto_name,
     proto_category |-> TagsOf(ProtoTags, {fl.cat.protocol}),
     detected_hostname |-> fl.host, detected_hostname_rx |-> fl.host,
     fwmark |-> fl.ct_mark, ssl_version |-> fl.ssl_version,
     ssl_cipher |-> fl.ssl_cipher, origin |-> cx.origin][f]

\* The value a bare predicate tests the field against.
NoValue(f) ==
    CASE f \in {"ip_nat", "detection_guessed", "detection_updated"} -> FALSE
      [] f \in {"other_type", "origin"} -> "unknown"
      [] f = "tunnel_type" -> "none"
      [] f \in {"risks"} -> {}
      [] f = "app_name" -> <<>>
      [] f \in {"proto_name", "detected_hostname"} -> ""
      [] OTHER -> 0

CategoryFamilies == {"category", "app_category", "domain_category",
                     "network_category", "proto_category"}

\* The field has the value the predicate names.
RefHolds(f, x, v) ==
    CASE f \in CategoryFamilies \cup {"risks"} -> v \in x
      [] f \in {"local_ip", "other_ip"} -> x \in v
      [] f = "app_name" -> x # <<>> /\ v \in {x, Tail(x)}
      [] f = "detected_hostname_rx" -> x \in v.hosts
      [] OTHER -> x = v

RECURSIVE RefEval(_, _)
RefEval(e, cx) ==
    IF IsNode(e)
      THEN IF e.op = "or" THEN RefEval(e.l, cx) \/ RefEval(e.r, cx)
                          ELSE RefEval(e.l, cx) /\ RefEval(e.r, cx)
      ELSE LET x == FieldValue(e.f, cx) IN
           CASE e.c = "bare" -> x # NoValue(e.f)
             [] e.c = "not"  -> x = NoValue(e.f)
             [] e.c = "eq"   -> RefHolds(e.f, x, e.v)
             [] e.c = "ne"   -> ~RefHolds(e.f, x, e.v)
             [] e.c = "ge"   -> x >= e.v
             [] e.c = "le"   -> x <= e.v
             [] e.c = "gt"   -> x > e.v
             [] e.c = "lt"   -> x < e.v

-----------------------------------------------------------------------------
(* Properties.                                                             *)

(* Parse's local side is the inside side: for a flow GetLowerMap has      *)
(* mapped, with exactly one endpoint local or local-net, every local_*    *)
(* predicate reads that endpoint and every other_* predicate the other,   *)
(* and `origin == local` holds exactly when the inside endpoint opened   *)
(* the flow.  It takes GetLowerMap's else-if chain and Parse's two        *)
(* switches together.                                                     *)
LocalIsInside ==
    LET r == rec["flow"]
        in == IF r.lt \in Inside THEN "lower" ELSE "upper"
        out == IF in = "lower" THEN "upper" ELSE "lower"
        cx == ParserContext(r.lm, fl)
    IN /\ r.lm # "unknown"
       /\ (r.lt \in Inside) # (r.ut \in Inside)
       => /\ cx.local = fl[in]
          /\ cx.other = fl[out]
          /\ (cx.origin = "local") <=> (fl.origin = in)

(* Parse answers every expression on a mapped flow, and its answer is     *)
(* what the expression says of the flow: each predicate compares the     *)
(* field it names, `!=` is the negation of `==`, and a category tag the   *)
(* index does not have names no category.                                 *)
ExprMatchesReference ==
    parsed # <<>> /\ parsed[2] # "unknown" =>
        /\ ~hung
        /\ result = RefEval(parsed[1], ParserContext(parsed[2], fl))

====
