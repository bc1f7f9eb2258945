SPECIFICATION Spec
CONSTANTS
    r1 = r1 r2 = r2 r3 = r3 Requests <- MCRequests
    Microsecond = 2 Window = 9 Rate = 2 Burst = 2 TTL = 1 MaxClock = 11 Second = 5 MaxAttempts = 2
SYMMETRY Symmetry
INVARIANT RateRespected
PROPERTIES RefusedForCause ContendedMeansBusy
CHECK_DEADLOCK FALSE
