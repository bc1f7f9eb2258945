SPECIFICATION FairSpec
CONSTANTS
  Messages = {1, 2}
  Publishers = {p1}
  Cleaners = {c1}
  BatchSize = 1
  RetryCap = 1
  CleanBatch = 2
  MaxBatches = 1
PROPERTIES EventuallyDelivered EventuallyRemoved
