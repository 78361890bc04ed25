CONSTANTS
    Codes = {200, 500}
    Latencies = {0, 1, 3, 7}
    MaxSamples = 5

SPECIFICATION Spec

INVARIANT TypeOK
INVARIANT PercentilesOrdered
INVARIANT MedianIsP50
INVARIANT StdWithinHalfRange

CHECK_DEADLOCK FALSE
