CONSTANTS
  Client = client
  Server = server
  Psk = {k1, k2}
  Token = {t1, t2}
  NoToken = NoToken
  None = None
SPECIFICATION FairSpec
INVARIANTS
  KeyConfirmation
  AuthenticatedTogether
  BufferedIsConfirmation
  NoPanic
  CompatibleNeverErrs
  NothingLeftBehind
PROPERTIES
  ImplementsMutualAuthentication
  CompatiblePeersAuthenticate
\* an attempt ends: nothing happens after the verdict
CHECK_DEADLOCK FALSE
