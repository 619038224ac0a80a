---------------------------- MODULE AddrClassifier ----------------------------
(***************************************************************************)
(* The lower map of a flow (nd-flow.cpp): from the address types of its   *)
(* lower and upper endpoints, ndFlow::GetLowerMap derives which side is   *)
(* local (lower_map) and what the other side is (other_type).             *)
(* UpdateLowerMaps computes it once for the flow and once for the inner   *)
(* addresses of a GTP tunnel.  The flow-expression parser (FlowExpr)     *)
(* reads these fields.                                                     *)
(***************************************************************************)
EXTENDS Naturals, Sequences, FiniteSets, FiniteSetsExt

\* ndAddr::Type: atNONE is the value a record is constructed with; the
\* address classifier returns one of the others (spec 4.1).
AddrTypes == {"none", "local", "localnet", "reserved", "multicast",
              "broadcast", "other", "error"}
ClassTypes == AddrTypes \ {"none"}
Inside == {"local", "localnet"}
LowerMaps == {"unknown", "local", "other"}
OtherTypes == {"unknown", "unsupported", "local", "multicast", "broadcast",
               "remote", "error"}
Tunnels == {"none", "gtp"}
IpVersions == {4, 6}
Records == {"flow", "gtp"}

VARIABLES
    rec,       \* rec[r]: lower_type, upper_type, lower_map, other_type
    ipVersion, \* ip_version of the flow
    tunnel,    \* tunnel_type of the flow
    updated    \* UpdateLowerMaps has run on the flow

vars == <<rec, ipVersion, tunnel, updated>>

AnyType == ClassTypes

\* The else-if chain of GetLowerMap, first match wins.  A row assigns
\* lower_map (or leaves it, "keep") and other_type.
LowerMapRules == <<
  [lt |-> {"error"}, ut |-> AnyType, v |-> IpVersions, lm |-> "keep", ot |-> "error"],
  [lt |-> AnyType, ut |-> {"error"}, v |-> IpVersions, lm |-> "keep", ot |-> "error"],
  [lt |-> {"local"}, ut |-> {"local"}, v |-> IpVersions, lm |-> "local", ot |-> "local"],
  [lt |-> {"local"}, ut |-> {"localnet"}, v |-> IpVersions, lm |-> "local", ot |-> "local"],
  [lt |-> {"localnet"}, ut |-> {"local"}, v |-> IpVersions, lm |-> "local", ot |-> "local"],
  [lt |-> {"multicast"}, ut |-> AnyType, v |-> IpVersions, lm |-> "other", ot |-> "multicast"],
  [lt |-> AnyType, ut |-> {"multicast"}, v |-> IpVersions, lm |-> "local", ot |-> "multicast"],
  [lt |-> {"broadcast"}, ut |-> AnyType, v |-> IpVersions, lm |-> "other", ot |-> "broadcast"],
  [lt |-> AnyType, ut |-> {"broadcast"}, v |-> IpVersions, lm |-> "local", ot |-> "broadcast"],
  [lt |-> {"reserved"}, ut |-> {"localnet"}, v |-> IpVersions, lm |-> "other", ot |-> "local"],
  [lt |-> {"localnet"}, ut |-> {"reserved"}, v |-> IpVersions, lm |-> "local", ot |-> "local"],
  [lt |-> {"reserved"}, ut |-> {"reserved"}, v |-> {4}, lm |-> "local", ot |-> "local"],
  [lt |-> {"reserved"}, ut |-> {"local"}, v |-> IpVersions, lm |-> "other", ot |-> "remote"],
  [lt |-> {"local"}, ut |-> {"reserved"}, v |-> IpVersions, lm |-> "local", ot |-> "remote"],
  [lt |-> {"localnet"}, ut |-> {"localnet"}, v |-> IpVersions, lm |-> "local", ot |-> "local"],
  [lt |-> {"other"}, ut |-> AnyType, v |-> IpVersions, lm |-> "other", ot |-> "remote"],
  [lt |-> AnyType, ut |-> {"other"}, v |-> IpVersions, lm |-> "local", ot |-> "remote"]
>>

\* Mutant: the error branch assigns OTHER_ERROR to lm instead of ot.
OutcomeErrorToLm(r, lm0, ot0) ==
    [lm |-> IF r.lm = "keep" THEN "error" ELSE r.lm, ot |-> r.ot]

\* Mutant: the upper-broadcast branch is a copy of the lower one.
OutcomeBroadcastPasted(r, lm0, ot0) ==
    [lm |-> CASE r.lm = "keep" -> lm0
              [] r.ot = "broadcast" -> "other"
              [] OTHER -> r.lm,
     ot |-> r.ot]

\* Mutant: the reserved/local-net branch is a copy of the next one.
OutcomeReservedPasted(r, lm0, ot0) ==
    [lm |-> CASE r.lm = "keep" -> lm0
              [] r.ot = "local" -> "local"
              [] OTHER -> r.lm,
     ot |-> r.ot]

\* The assignments of a matching row; a row that keeps lm leaves it at
\* its value before the call.
Outcome(r, lm0, ot0) ==
    [lm |-> IF r.lm = "keep" THEN lm0 ELSE r.lm, ot |-> r.ot]

\* GetLowerMap(lt, ut, lm, ot) with this flow's ip_version v: no matching
\* row leaves both outputs as they were.
GetLowerMap(lt, ut, v, lm0, ot0) ==
    LET hits == {i \in DOMAIN LowerMapRules :
                   /\ lt \in LowerMapRules[i].lt
                   /\ ut \in LowerMapRules[i].ut
                   /\ v \in LowerMapRules[i].v}
    IN IF hits = {} THEN [lm |-> lm0, ot |-> ot0]
                    ELSE Outcome(LowerMapRules[Min(hits)], lm0, ot0)

-----------------------------------------------------------------------------
\* The constructor: lower_map LOWER_UNKNOWN, other_type OTHER_UNKNOWN,
\* address types atNONE, tunnel_type TUNNEL_NONE, ip_version 0; the
\* zeroed gtp fields have the same values.
Init ==
    /\ rec = [r \in Records |-> [lt |-> "none", ut |-> "none",
                                 lm |-> "unknown", ot |-> "unknown"]]
    /\ ipVersion = 0
    /\ tunnel = "none"
    /\ updated = FALSE

\* A capture thread builds the flow from its packet: IP version, tunnel,
\* and the classifier's types of both endpoints and of the inner
\* endpoints of a GTP tunnel (spec 4.6 step 6).
ClassifyEndpoints ==
    /\ rec["flow"].lt = "none"
    /\ \E l, u \in ClassTypes, t \in Tunnels, gl, gu \in ClassTypes,
          v \in IpVersions :
          /\ ipVersion' = v
          /\ tunnel' = t
          /\ rec' = [rec EXCEPT !["flow"].lt = l, !["flow"].ut = u,
                                !["gtp"].lt = IF t = "gtp" THEN gl ELSE @,
                                !["gtp"].ut = IF t = "gtp" THEN gu ELSE @]
    /\ UNCHANGED updated

\* ndFlow::UpdateLowerMaps: GetLowerMap for the flow while its lower_map
\* is unknown, and for the GTP addresses while theirs is.
UpdateLowerMaps ==
    LET Map(r) == GetLowerMap(rec[r].lt, rec[r].ut, ipVersion,
                              rec[r].lm, rec[r].ot)
        Due(r) == rec[r].lm = "unknown" /\ (r = "gtp" => tunnel = "gtp")
    IN
    /\ rec["flow"].lt # "none"
    /\ rec' = [r \in Records |->
                 IF Due(r) THEN [rec[r] EXCEPT !.lm = Map(r).lm,
                                               !.ot = Map(r).ot]
                           ELSE rec[r]]
    /\ updated' = TRUE
    /\ UNCHANGED <<ipVersion, tunnel>>

Next == ClassifyEndpoints \/ UpdateLowerMaps

Spec == Init /\ [][Next]_vars

-----------------------------------------------------------------------------
(* Properties.                                                             *)

TypeOK ==
    /\ rec \in [Records -> [lt : AddrTypes, ut : AddrTypes,
                            lm : LowerMaps, ot : OtherTypes]]
    /\ ipVersion \in {0} \cup IpVersions
    /\ tunnel \in Tunnels
    /\ updated \in BOOLEAN

(* Inside wins (spec 4.1: ties break in favour of the LAN side being     *)
(* lower_map = local): once GetLowerMap has set the lower map of a record *)
(* with exactly one endpoint inside (local or local-net), lower_map is    *)
(* local exactly when that endpoint is the lower one.                     *)
InsideIsLocal ==
    \A r \in Records :
        /\ rec[r].lm # "unknown"
        /\ (rec[r].lt \in Inside) # (rec[r].ut \in Inside)
        => (rec[r].lm = "local" <=> rec[r].lt \in Inside)

Flip(lm) == IF lm = "local" THEN "other" ELSE "local"

(* The lower map follows the endpoints, not their order: for a record    *)
(* with two distinct endpoint types that is not purely local, the lower   *)
(* map its swapped endpoints would get keeps other_type and names the     *)
(* other side.  The canonical order of a flow's endpoints is by address   *)
(* bytes, so either order occurs for the same pair of types.              *)
DirectionSymmetric ==
    \A r \in Records :
        LET b == GetLowerMap(rec[r].ut, rec[r].lt, ipVersion,
                             "unknown", "unknown")
        IN /\ rec[r].lm # "unknown"
           /\ rec[r].lt # rec[r].ut
           /\ rec[r].ot \notin {"local", "error"}
           => b.ot = rec[r].ot /\ b.lm = Flip(rec[r].lm)

====
