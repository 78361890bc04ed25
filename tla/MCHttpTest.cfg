\* The load generator with every argument vector of up to three options,
\* every kind of server answer, a clock that may be set back, and main()
\* called twice in one process; the server eventually answers every POST.
CONSTANTS
    NArgs <- MCNArgs
    NotInt = NotInt
    NoArg = NoArg
    MaxOpts = 3
    OkStatuses <- MCOkStatuses
    ErrorStatuses <- MCErrorStatuses
    NoStatus = NoStatus
    NoReply = NoReply
    Calls = 2
    MaxClock = 2
    ClockMayStepBack = TRUE

SPECIFICATION Spec

INVARIANT TypeOK
INVARIANT ReportCounts
PROPERTY SequentialRun

\* The process ends after its last call of main().
CHECK_DEADLOCK FALSE
