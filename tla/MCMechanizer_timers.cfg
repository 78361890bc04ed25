\* telemetry_mechanizer.py: are the timers recorded after a call of run() all measured in that call?
CONSTANTS
    InitFindsReadData = TRUE
    AcceptedCodes <- TelemetryCodes
    OkStatuses <- MCOkStatuses
    ErrorStatuses <- MCErrorStatuses
    NoStatus = NoStatus
    Latencies <- MCLatencies
    MaxRuns = 3
    NoTimer = NoTimer

SPECIFICATION Spec

INVARIANT TimersOfThisRun

\* The agent stops after MaxRuns calls of run(), or never gets to call it.
CHECK_DEADLOCK FALSE
