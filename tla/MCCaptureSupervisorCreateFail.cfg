CONSTANTS
    Ifaces = {e1, e2}
    Configs <- MCConfigs
    Fanout <- MCFanout
    Absent = Absent
    RunWithoutSources = FALSE
    CreateMayFail = TRUE
    SizeWidth = 8
    MaxEdits = 2
SPECIFICATION Spec
INVARIANT NoOrphanThreads
CHECK_DEADLOCK FALSE
