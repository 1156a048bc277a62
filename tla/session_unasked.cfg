CONSTANTS
  Presentation = {p1}
  None = none
  MaxRequests = 1
  CommandBound = 1
  TellBound = 2
SPECIFICATION Spec
INVARIANT StateMeansAuthenticated
CHECK_DEADLOCK FALSE
