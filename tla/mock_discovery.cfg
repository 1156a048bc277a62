CONSTANTS
  Publisher = {u1, u2}
  Name = {n1, n2}
  Version = {v1, v2}
  None = None
  Capacity = 2
  MaxCalls = 3
SPECIFICATION FairSpec
INVARIANTS
  ViewFollowsServices
  ChangesBlink
  EveryServiceIsOwned
PROPERTY ReaderCatchesUp
\* the application may stop using the browser and the publishers
CHECK_DEADLOCK FALSE
