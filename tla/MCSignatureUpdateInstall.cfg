\* The pass run's instance: a first start without the files.
CONSTANTS
    v1 = v1
    v2 = v2
    Versions = {v1, v2}
    TagIndex <- MCTagIndex
    DotFiles <- MCDotFiles
    Removable <- MCRemovableGames
    DotdCategories = TRUE
    Unknown = 0
    MaxPublish = 1
    MaxOutages = 1
    InitFiles <- MCInitFiles
    InitVersion = v1
    Queries <- MCQueries
    MaxRestarts = 1

SPECIFICATION Spec

INVARIANT InstalledIsPublished
