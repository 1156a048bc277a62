CONSTANTS
  Client = {c1}
  SamePsk = {c1}
  GoodToken = {c1}
  MaxConnect = 2
  None = None
SPECIFICATION Spec
INVARIANT ConnectMeansAuthenticated
\* the programs end
CHECK_DEADLOCK FALSE
