\* Does a run end when the server never answers a POST?
CONSTANTS
    NArgs <- MCNArgs
    NotInt = NotInt
    NoArg = NoArg
    MaxOpts = 3
    OkStatuses <- MCOkStatuses
    ErrorStatuses <- MCErrorStatuses
    NoStatus = NoStatus
    NoReply = NoReply
    Calls = 2
    MaxClock = 2
    ClockMayStepBack = TRUE

SPECIFICATION FairClientSpec

PROPERTY Termination

CHECK_DEADLOCK FALSE
