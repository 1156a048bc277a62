CONSTANTS
  Name = {n1, n2}
  Info = {i1, i2}
  Foreign = {n2}
  Unreadable = {i2}
  None = None
  MaxStarts = 2
  MaxAnnounce = 2
SPECIFICATION FairSpec
INVARIANTS
  SnapshotIsCurrent
PROPERTIES
  DiscoveryConverges
  AbandonedTasksEnd
\* the application may stop using the browser and the publisher
CHECK_DEADLOCK FALSE
