\* Is every counted request still on the server or sent to Ganglia, while requests keep arriving during a poll?
CONSTANTS
    m1 = m1
    m2 = m2
    p1 = p1
    p2 = p2
    Procs <- OneProc
    Metrics <- MCMetrics
    NumServers = 2
    MaxCount = 3
    Emits = 3
    MaxArgs = 2
    PageMayBeMalformed = FALSE
    ResetMayFail = FALSE

SPECIFICATION Spec

INVARIANT NoLostCounts

CHECK_DEADLOCK FALSE
