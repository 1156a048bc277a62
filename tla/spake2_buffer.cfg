CONSTANTS
  Client = client
  Server = server
  Psk = {k1, k2}
  Token = {t1, t2}
  NoToken = NoToken
  None = None
SPECIFICATION FairSpec
PROPERTY BufferedDataIsProcessed
CHECK_DEADLOCK FALSE
