SPECIFICATION MCSpec
CONSTANTS
  m1 = m1 m2 = m2 k1 = k1 k2 = k2
  Messages <- MCMessages Invalid <- MCInvalid Consumers <- MCConsumers
  MaxCopies = 2
  MaxRetries = 1
  MaxStored = 1
INVARIANTS NoEventLost AckedWasHandled RecordedOnce
PROPERTIES EventuallyHandled
