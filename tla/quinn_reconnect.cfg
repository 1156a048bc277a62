CONSTANTS
  Client = {c1, c2}
  SamePsk = {c1, c2}
  GoodToken = {c1}
  MaxConnect = 2
  None = None
SPECIFICATION Spec
INVARIANT AcceptedIsAuthenticated
\* the programs end
CHECK_DEADLOCK FALSE
