CONSTANTS
  Name = {n1, n2}
  Info = {i1}
  Foreign = {n2}
  Unreadable = {}
  None = None
  MaxStarts = 1
  MaxAnnounce = 1
SPECIFICATION FairSpec
PROPERTY StreamFollowsNetwork
\* the application may stop using the browser and the publisher
CHECK_DEADLOCK FALSE
