---------------------------- MODULE FlowHashCache ----------------------------
(***************************************************************************)
(* ndFlowHashCache (nd-fhc.cpp): the flow hash cache from a flow's        *)
(* primary digest to its metadata digest.  `index` is the std::list of    *)
(* (key, value) pairs, most recently used first; `lookup` is the          *)
(* unordered_map from a key to its list node, modelled by the value the   *)
(* node holds.  Push and Pop run under the cache mutex and are atomic;    *)
(* Save writes the list front to back; a restart builds an empty cache    *)
(* and Load pushes the saved records in file order.                        *)
(***************************************************************************)
EXTENDS Naturals, Sequences, SequencesExt, FiniteSets

CONSTANTS
    Keys,          \* primary digests
    Values,        \* metadata digests
    CacheSize,     \* cache_size (ndGC.max_fhc)
    PurgeDivisor   \* ndGC.fhc_purge_divisor

ASSUME
    /\ Keys \cap Values = {}
    /\ CacheSize \in Nat
    /\ PurgeDivisor \in Nat \ {0}

VARIABLES
    index,   \* the list, front first
    lookup,  \* the map: key -> value of the node it points to
    file     \* the records of the flow hash cache file, in file order

vars == <<index, lookup, file>>

Entry == Keys \X Values

EmptyMap == [k \in {} |-> k]

\* The keys of the list's nodes.
KeysOf(s) == {s[i][1] : i \in DOMAIN s}

\* The map the nodes of a list define.
AsMap(s) == [k \in KeysOf(s) |-> (CHOOSE e \in ToSet(s) : e[1] = k)[2]]

\* The keys of a list, front first.
KeySeq(s) == [i \in DOMAIN s |-> s[i][1]]

-----------------------------------------------------------------------------
\* Mutant: the eviction count is one short.
EvictCountShort(size) ==
    IF size = CacheSize THEN CacheSize \div PurgeDivisor - 1 ELSE 0

\* Push: lookup.size() == cache_size triggers the eviction of
\* cache_size / fhc_purge_divisor nodes from the back of the list.
EvictCount(size) ==
    IF size = CacheSize THEN CacheSize \div PurgeDivisor ELSE 0

\* Mutant: evicted nodes are popped from the list but stay in the map.
EvictKeepLookup(st, n) ==
    [index |-> SubSeq(st.index, 1, Len(st.index) - n), lookup |-> st.lookup]

\* The eviction loop: n times, the back node's key is erased from the map
\* and the node popped from the list.
Evict(st, n) ==
    LET gone == KeysOf(SubSeq(st.index, Len(st.index) - n + 1, Len(st.index)))
    IN [index |-> SubSeq(st.index, 1, Len(st.index) - n),
        lookup |-> [x \in DOMAIN st.lookup \ gone |-> st.lookup[x]]]

\* ndFlowHashCache::Push on the cache state st = [index, lookup].  A key
\* already present only logs a warning; otherwise the cache is evicted if
\* full and the pair is pushed to the front.
PushOp(st, k, v) ==
    IF k \in DOMAIN st.lookup
      THEN st
      ELSE LET ev == Evict(st, EvictCount(Cardinality(DOMAIN st.lookup)))
           IN [index |-> Cons(<<k, v>>, ev.index),
               lookup |-> [x \in DOMAIN ev.lookup \cup {k} |->
                              IF x = k THEN v ELSE ev.lookup[x]]]

\* Mutant: Pop reads the node's key where it means its value.
MoveToFrontSwapped(s, i) == Cons(<<s[i][1], s[i][1]>>, RemoveAt(s, i))

\* Pop: the hit node is erased and its pair pushed to the front.
MoveToFront(s, i) == Cons(<<s[i][1], s[i][2]>>, RemoveAt(s, i))

\* Load: each record of the file is pushed, in file order, into the
\* newly constructed (empty) cache.
LoadOp(recs) ==
    FoldLeft(LAMBDA st, r : PushOp(st, r[1], r[2]),
             [index |-> <<>>, lookup |-> EmptyMap], recs)

-----------------------------------------------------------------------------
Init ==
    /\ index = <<>>
    /\ lookup = EmptyMap
    /\ file = <<>>

\* A detection thread pushes (primary, metadata) for a classified flow.
Push(k, v) ==
    LET st == PushOp([index |-> index, lookup |-> lookup], k, v) IN
    /\ index' = st.index
    /\ lookup' = st.lookup
    /\ UNCHANGED file

\* A capture thread's lookup of a new flow hits the cache.  A miss
\* changes nothing.
Pop(k) ==
    /\ k \in DOMAIN lookup
    /\ \E i \in DOMAIN index :
          /\ index[i][1] = k
          /\ index' = MoveToFront(index, i)
    /\ UNCHANGED <<lookup, file>>

\* Save writes every node, front to back.
Save ==
    /\ file' = index
    /\ UNCHANGED <<index, lookup>>

\* The agent restarts: the cache is constructed empty and Load reads the
\* file back.
Restart ==
    LET st == LoadOp(file) IN
    /\ index' = st.index
    /\ lookup' = st.lookup
    /\ UNCHANGED file

Next ==
    \/ \E k \in Keys, v \in Values : Push(k, v)
    \/ \E k \in Keys : Pop(k)
    \/ Save
    \/ Restart

Spec == Init /\ [][Next]_vars

-----------------------------------------------------------------------------
(* Properties.                                                             *)

TypeOK ==
    /\ index \in Seq(Entry)
    /\ DOMAIN lookup \subseteq Keys
    /\ \A k \in DOMAIN lookup : lookup[k] \in Values
    /\ file \in Seq(Entry)

(* The map and the list agree (Push's eviction loop and Pop keep them in *)
(* step): every key of the map has exactly one node in the list, holding  *)
(* the value the map points to, and every node is reachable from the map. *)
(* A node evicted from the list but left in the map is a dangling         *)
(* iterator that a later Pop would dereference.                            *)
IndexConsistent ==
    /\ DOMAIN lookup = KeysOf(index)
    /\ Len(index) = Cardinality(KeysOf(index))
    /\ \A i \in DOMAIN index : lookup[index[i][1]] = index[i][2]

\* The cache's contents seen as the abstract bounded map.
BC == INSTANCE BoundedCache
         WITH cache <- AsMap(index), saved <- AsMap(file), Capacity <- CacheSize

(* The cache implements the bounded map of spec 4.3: a push stores a new  *)
(* key and never replaces a present one, eviction happens only when full  *)
(* and leaves at most CacheSize entries, a hit changes no entry, and a    *)
(* restart finds exactly the entries of the last save.                    *)
CacheRefinement == BC!Spec

\* The cache's list order seen as the abstract recency order.
LRU == INSTANCE LruCache WITH lru <- KeySeq(index), savedLru <- KeySeq(file)

(* The cache is an LRU across restarts: its list is the recency order,    *)
(* and Load gives back the order Save wrote, so the entries a full cache  *)
(* evicts after a restart are the least recently used ones.               *)
LruOrder == LRU!Spec

====
