SPECIFICATION Spec
CONSTANTS
  Messages = {1, 2}
  Publishers = {p1, p2}
  Cleaners = {c1}
  BatchSize = 2
  RetryCap = 1
  CleanBatch = 1
  MaxBatches = 2
INVARIANTS OutboxInv ProcessedWasAccepted
PROPERTIES RowsOnlyAdvance DeletedAfterRetention ImplementsRelay
SYMMETRY Symmetry
