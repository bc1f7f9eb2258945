SPECIFICATION FairSpec
CONSTANTS
  Servers = {"grpc", "events"}
  Closers <- FewClosers
INVARIANTS OnlyCrashesReported DatabaseOutlivesWork CompletedMeansClosed
PROPERTIES CrashNoticed ShutdownTerminates
CHECK_DEADLOCK FALSE
