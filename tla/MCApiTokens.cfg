SPECIFICATION FairSpec
CONSTANTS Tokens = {"t1"} Replicas = {"a", "b"} Requests = {"q1", "q2", "q3"} Capacity = 1
INVARIANT NoUseForgotten
PROPERTIES LastUsedAdvances UsesAreWritten
CHECK_DEADLOCK FALSE
