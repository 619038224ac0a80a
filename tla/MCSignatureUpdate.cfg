\* Two published versions, one publication, one server outage, one
\* restart; the file of the "ads" category stays in categories.d and the
\* "games" one may be removed and added back.
CONSTANTS
    v1 = v1
    v2 = v2
    Versions = {v1, v2}
    TagIndex <- MCTagIndex
    DotFiles <- MCDotFiles
    Removable <- MCRemovableGames
    DotdCategories = TRUE
    Unknown = 0
    MaxPublish = 1
    MaxOutages = 1
    InitFiles <- MCInitFiles
    InitVersion = v1
    Queries <- MCQueries
    MaxRestarts = 1

SPECIFICATION Spec

INVARIANT TypeOK
INVARIANT InstallReported
INVARIANT DomainsMatchFiles
INVARIANT LookupSuffix
PROPERTY UpdatesPropagate
