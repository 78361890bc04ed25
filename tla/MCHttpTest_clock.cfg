\* Can a recorded latency be negative when the wall clock is set back?
CONSTANTS
    NArgs <- MCNArgs
    NotInt = NotInt
    NoArg = NoArg
    MaxOpts = 3
    OkStatuses <- MCOkStatuses
    ErrorStatuses <- MCErrorStatuses
    NoStatus = NoStatus
    NoReply = NoReply
    Calls = 2
    MaxClock = 2
    ClockMayStepBack = TRUE

SPECIFICATION Spec

INVARIANT LatencyNonNegative

CHECK_DEADLOCK FALSE
