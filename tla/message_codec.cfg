CONSTANTS
  Text <- MCText
  Blob <- MCBlob
  Number = {0, 1, 10, 65536}
  PeerType = {"AgentInfoResponse", "AgentInfoEvent", "AgentStatusRequest",
    "AuthCapabilities", "PresentationConnectionMessage", "PresentationStartResponse"}
  PeerText <- MCPeerText
  PeerNumber = {1, 65536}
  Cuttable <- MCCuttable
SPECIFICATION Spec
INVARIANTS
  CutNeverAccepted
  RightDecoder
  AcceptedMeansWhatWasSent
  WellFormedIsAccepted
  AcceptedIsValid
\* an exchange ends with the verdict of the decoder
CHECK_DEADLOCK FALSE
