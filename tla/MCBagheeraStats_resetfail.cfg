\* One process runs the script again and again; may the /reset that follows
\* the sends of a page fail (lines 58-64), so that the next run sends it again?
CONSTANTS
    m1 = m1
    m2 = m2
    p1 = p1
    p2 = p2
    Procs <- OneProc
    Metrics <- MCMetrics
    NumServers = 2
    MaxCount = 3
    Emits = 3
    MaxArgs = 2
    PageMayBeMalformed = FALSE
    ResetMayFail = TRUE

SPECIFICATION Spec

INVARIANT NoDoubleReporting

CHECK_DEADLOCK FALSE
