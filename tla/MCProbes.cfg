SPECIFICATION ProbesFairSpec
INVARIANTS LateProbeRefused
PROPERTIES ProbesWithdrawn
CHECK_DEADLOCK FALSE
