\* Is the recorded code the status the server answered with?
CONSTANTS
    NArgs <- MCNArgs
    NotInt = NotInt
    NoArg = NoArg
    MaxOpts = 3
    OkStatuses <- MCOkStatuses
    ErrorStatuses <- MCErrorStatuses
    NoStatus = NoStatus
    NoReply = NoReply
    Calls = 2
    MaxClock = 2
    ClockMayStepBack = TRUE

SPECIFICATION Spec

INVARIANT RecordsServerStatus

CHECK_DEADLOCK FALSE
