-------------------------- MODULE MCMessageCodec --------------------------
(* Lengths at and beyond the limits of the decoders, for TLC. *)
EXTENDS MessageCodec

MCText == {[id |-> "x", len |-> 1], [id |-> "y", len |-> MAX_STRING_LEN],
           [id |-> "x", len |-> MAX_STRING_LEN + 1]}

MCPeerText == {[id |-> "y", len |-> MAX_STRING_LEN]}

MCBlob == {[id |-> "x", len |-> 32], [id |-> "y", len |-> MAX_BYTES_LEN],
           [id |-> "x", len |-> MAX_BYTES_LEN + 1]}

\* AgentInfoResponse has the same body and fewer foreign messages
MCCuttable == MessageType \ {"AgentInfoEvent"}
=============================================================================
