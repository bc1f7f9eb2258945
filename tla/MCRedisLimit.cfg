SPECIFICATION Spec
CONSTANTS
    Requests = {"r1", "r2", "r3"}
    Microsecond = 2 Window = 22 Rate = 1 Burst = 1 TTL = 1 MaxClock = 14 Millisecond = 4
INVARIANT RateRespected
CHECK_DEADLOCK FALSE
