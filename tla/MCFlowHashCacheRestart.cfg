\* The recency order across a save and a restart.
CONSTANTS
    Keys = {k1, k2, k3, k4}
    Values = {v1, v2}
    CacheSize = 3
    PurgeDivisor = 2

SPECIFICATION Spec

PROPERTY LruOrder
