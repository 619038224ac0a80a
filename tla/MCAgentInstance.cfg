\* A TTL of one second and a clock of three let a hint be inserted, be
\* live at its expiry second, expire and be inserted again.  Two edits
\* let an interface be removed and added back, or change its group.
CONSTANTS
    Keys = {k1}
    Hosts = {h1}
    Ttl = 1
    MaxTime = 3
    Ifaces = {e1, e2}
    Configs <- MCConfigs
    Fanout <- MCFanout
    Absent = Absent
    RunWithoutSources = FALSE
    CreateMayFail = FALSE
    SizeWidth = 8
    MaxEdits = 2
    NumDetect = 1
    UseDhc = TRUE
    RunMayFail = TRUE
SPECIFICATION Spec
INVARIANT TypeOK
INVARIANT TablesAgree
INVARIANT NoUseAfterFree
PROPERTY ReloadDiff
PROPERTY ExpiredHintsPurged
PROPERTY CaptureStops
\* The process ends once the instance is destroyed.
CHECK_DEADLOCK FALSE
