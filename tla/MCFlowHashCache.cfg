\* Four flow digests and two metadata digests; a capacity of 3 with a
\* purge divisor of 2 evicts one node whenever the cache is full.
CONSTANTS
    Keys = {k1, k2, k3, k4}
    Values = {v1, v2}
    CacheSize = 3
    PurgeDivisor = 2

SPECIFICATION Spec

INVARIANT TypeOK
INVARIANT IndexConsistent
PROPERTY CacheRefinement
