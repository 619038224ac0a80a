\* The pass run's instance, except that an administrator may remove every
\* file of categories.d.
CONSTANTS
    v1 = v1
    v2 = v2
    Versions = {v1, v2}
    TagIndex <- MCTagIndex
    DotFiles <- MCDotFiles
    Removable <- MCRemovableAll
    DotdCategories = TRUE
    Unknown = 0
    MaxPublish = 1
    MaxOutages = 1
    InitFiles <- MCInitFiles
    InitVersion = v1
    Queries <- MCQueries
    MaxRestarts = 1

SPECIFICATION Spec

INVARIANT DomainsMatchFiles
