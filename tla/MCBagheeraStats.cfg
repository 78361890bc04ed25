\* Two servers, two metrics, three runs of the script, requests counted at
\* any time, stats requests that may fail, resets that succeed.
CONSTANTS
    m1 = m1
    m2 = m2
    p1 = p1
    p2 = p2
    Procs <- OneProc
    Metrics <- MCMetrics
    NumServers = 2
    MaxCount = 3
    Emits = 3
    MaxArgs = 2
    PageMayBeMalformed = FALSE
    ResetMayFail = FALSE


SPECIFICATION Spec

INVARIANT TypeOK
PROPERTY LossyPipe

\* The script has run Emits times and the servers have counted MaxCount requests.
CHECK_DEADLOCK FALSE
