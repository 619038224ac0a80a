---------------------------- MODULE BoundedCache ----------------------------
(***************************************************************************)
(* What the flow hash cache promises its users (spec 4.3 and 5): a map    *)
(* from primary digests to metadata digests that holds at most Capacity  *)
(* entries.  A push of a new key stores it, evicting older entries only   *)
(* when the map is full; a push of a present key, and every lookup, leave *)
(* the map as it is.  What was saved is what a restart loads back (spec   *)
(* property 4, the save/load round trip).                                  *)
(***************************************************************************)
EXTENDS Naturals, FiniteSets

CONSTANTS Keys, Values, Capacity

VARIABLES
    cache,  \* the entries a lookup can find: a function on a set of keys
    saved   \* the entries of the last save

EmptyMap == [k \in {} |-> k]

\* A new key k is stored with value v.  A full map first drops some of
\* its entries, leaving room for k.
Put(k, v) ==
    /\ k \notin DOMAIN cache
    /\ \E keep \in SUBSET DOMAIN cache :
          /\ keep # DOMAIN cache => Cardinality(DOMAIN cache) = Capacity
          /\ Cardinality(keep) < Capacity
          /\ cache' = [x \in keep \cup {k} |-> IF x = k THEN v ELSE cache[x]]
    /\ UNCHANGED saved

Save ==
    /\ saved' = cache
    /\ UNCHANGED cache

Restart ==
    /\ cache' = saved
    /\ UNCHANGED saved

Init ==
    /\ cache = EmptyMap
    /\ saved = EmptyMap

Next ==
    \/ \E k \in Keys, v \in Values : Put(k, v)
    \/ Save
    \/ Restart

Spec == Init /\ [][Next]_<<cache, saved>>

====
