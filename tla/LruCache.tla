------------------------------- MODULE LruCache -------------------------------
(***************************************************************************)
(* The recency order of a least-recently-used cache (spec glossary: the  *)
(* FHC is a bounded LRU).  The keys are kept most recently used first; a  *)
(* use moves a key to the front, a new key enters at the front and        *)
(* eviction only removes keys from the back.  A restart restores the      *)
(* order of the last save.                                                 *)
(***************************************************************************)
EXTENDS Naturals, Sequences, SequencesExt

CONSTANTS Keys

VARIABLES
    lru,       \* the keys present, most recently used first
    savedLru   \* the order at the last save

\* A present key is used and becomes the most recent.
Use(k) ==
    /\ \E i \in DOMAIN lru :
          /\ lru[i] = k
          /\ lru' = Cons(k, RemoveAt(lru, i))
    /\ UNCHANGED savedLru

\* A new key enters at the front after n keys leave from the back.
Insert(k) ==
    /\ ~Contains(lru, k)
    /\ \E n \in 0..Len(lru) : lru' = Cons(k, SubSeq(lru, 1, Len(lru) - n))
    /\ UNCHANGED savedLru

Save ==
    /\ savedLru' = lru
    /\ UNCHANGED lru

Restart ==
    /\ lru' = savedLru
    /\ UNCHANGED savedLru

Init ==
    /\ lru = <<>>
    /\ savedLru = <<>>

Next ==
    \/ \E k \in Keys : Use(k) \/ Insert(k)
    \/ Save
    \/ Restart

Spec == Init /\ [][Next]_<<lru, savedLru>>

====
