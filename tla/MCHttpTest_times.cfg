\* Are the statistics of a second call of main() over its own samples only?
CONSTANTS
    NArgs <- MCNArgs
    NotInt = NotInt
    NoArg = NoArg
    MaxOpts = 3
    OkStatuses <- MCOkStatuses
    ErrorStatuses <- MCErrorStatuses
    NoStatus = NoStatus
    NoReply = NoReply
    Calls = 2
    MaxClock = 2
    ClockMayStepBack = TRUE

SPECIFICATION Spec

INVARIANT SamplesOfThisRun

CHECK_DEADLOCK FALSE
