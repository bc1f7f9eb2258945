SPECIFICATION FairSpec
CONSTANTS
  Calls = {c1, c2, c3}
  MaxInflight = 2
INVARIANTS SlotsConserved MessageIntact
PROPERTIES ImplementsPublishCall TimedOutReturns WaitersServed
CHECK_DEADLOCK FALSE
