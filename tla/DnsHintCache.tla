------------------------------ MODULE DnsHintCache ------------------------------
(***************************************************************************)
(* ndDNSHintCache (nd-dhc.hpp): a map from an address key to a pair        *)
(* (expiry, hostname) under one mutex.  Only the class declaration and     *)
(* GetSize are in the repository's sources; Insert, Lookup and Purge are   *)
(* modelled from spec 4.4: insert sets the entry with expiry now + TTL,   *)
(* lookup answers only an entry that has not expired and does not refresh *)
(* it, purge removes every entry whose expiry is before now.  Every        *)
(* operation holds the mutex for its whole body, so each is one step.      *)
(*                                                                         *)
(* The clock `now` belongs to the module that instantiates this one.       *)
(***************************************************************************)
EXTENDS Naturals, FiniteSets, TLC

CONSTANTS
    Keys,    \* address keys (a textual address or its digest)
    Hosts,   \* hostnames
    Ttl      \* ttl_dns_entry

VARIABLES
    hints,   \* map_ar: key -> [exp, host], a function on the keys present
    now      \* time(NULL)

NoHints == [k \in {} |-> k]

Hint == [exp : Nat, host : Hosts]

\* Insert(key, hostname): map_ar[key] = (now + ttl_dns_entry, hostname).
Insert(k, h) == hints' = (k :> [exp |-> now + Ttl, host |-> h]) @@ hints

\* An entry whose expiry lies before now.
Expired(k) == k \in DOMAIN hints /\ hints[k].exp < now

\* Lookup(key, hostname): the hostname of a present entry that has not
\* expired; the entry is left as it is.
Lookup(k) == IF k \in DOMAIN hints /\ ~Expired(k) THEN {hints[k].host} ELSE {}

\* Purge(): erase every entry with expiry < now.
Purge == hints' = [k \in {x \in DOMAIN hints : ~Expired(x)} |-> hints[k]]

\* GetSize(): map_ar.size() under the lock.
GetSize == Cardinality(DOMAIN hints)

====
