CONSTANTS
    Ifaces = {e1, e2}
    Configs <- MCConfigs
    Fanout <- MCFanout
    Absent = Absent
    RunWithoutSources = FALSE
    CreateMayFail = FALSE
    SizeWidth = 8
    MaxEdits = 2
SPECIFICATION Spec
INVARIANT ReapCountsAlive
CHECK_DEADLOCK FALSE
