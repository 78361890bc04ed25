\* Two processes run the script, resets succeed and every page is well formed:
\* may two overlapping runs both send the same counts (line 106)?
CONSTANTS
    m1 = m1
    m2 = m2
    p1 = p1
    p2 = p2
    Procs <- TwoProcs
    Metrics <- MCMetrics
    NumServers = 2
    MaxCount = 3
    Emits = 3
    MaxArgs = 2
    PageMayBeMalformed = FALSE
    ResetMayFail = FALSE

SPECIFICATION Spec

INVARIANT NoDoubleReporting

\* The two processes are interchangeable; the property is a safety property.
SYMMETRY ProcSymmetry

CHECK_DEADLOCK FALSE
