SPECIFICATION FairAccessSpec
CONSTANTS
  Users = {u1}
  Sessions = {s1}
  Requests = {r1, r2}
  Accesses = {a1}
  MaxVersion = 2
  MaxToken = 3
  CleanLimit = 1
INVARIANTS SessionInv ActiveMeansCurrentPassword RefusedFamilyDead TokensSingleUse LateRequestRefused
PROPERTIES CleanerSparesRenewed ImplementsTokenFamily ExpiredSessionsRemoved
CHECK_DEADLOCK FALSE
