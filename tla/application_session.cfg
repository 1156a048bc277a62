CONSTANTS
  Presentation = {p1, p2}
  None = none
  MaxRequests = 2
  CommandBound = 1
  TellBound = 1
SPECIFICATION FairSpec
INVARIANTS
  StateMatchesNetwork
  AuthenticatedByBoth
  CommandsAfterHandshake
  HandshakeUndisturbed
  PresentingIsRunning
PROPERTIES
  HandshakeCompletes
  StartAnswered
\* the user may have no command left and the receiver nothing to tell
CHECK_DEADLOCK FALSE
