CONSTANTS
  Client = {c1, c2}
  SamePsk = {c1}
  GoodToken = {c1, c2}
  MaxConnect = 1
  None = None
SPECIFICATION FairSpec
INVARIANTS
  TypeOK
  ConnectMeansAuthenticated
  StreamsSeparated
  HandshakeProceeds
PROPERTIES
  SessionsImplementAuthentication
  EveryoneIsServed
  RequestAnswered
\* the programs end
CHECK_DEADLOCK FALSE
