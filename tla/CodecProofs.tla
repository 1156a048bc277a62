----------------------------- MODULE CodecProofs -----------------------------
(***************************************************************************)
(* Proofs about MessageCodec: a message is read as what it was sent as,    *)
(* and one whose stream broke off is not accepted.                         *)
(***************************************************************************)
EXTENDS MessageCodec, SequenceTheorems, TLAPS

-----------------------------------------------------------------------------
(* Sequences of units.  Units of different kinds have no common set, so a  *)
(* sequence is said to be one over its own elements.                       *)

IsSeq(s) == s \in Seq({s[i] : i \in DOMAIN s})

(* A sequence over any set is a sequence over its own elements. *)
LEMMA SeqIsSeq ==
  ASSUME NEW S, NEW s \in Seq(S)
  PROVE  IsSeq(s) /\ Len(s) \in Nat /\ DOMAIN s = 1..Len(s)
  BY DEF IsSeq

LEMMA IsSeqFacts ==
  ASSUME NEW s, IsSeq(s)
  PROVE  Len(s) \in Nat /\ DOMAIN s = 1..Len(s)
  BY SeqIsSeq DEF IsSeq

(* A function on 1..n is a sequence of length n. *)
LEMMA FunctionIsSeq ==
  ASSUME NEW n \in Nat, NEW S, NEW s \in [1..n -> S]
  PROVE  IsSeq(s) /\ Len(s) = n
<1>1. s \in Seq(S) /\ Len(s) = n
  OBVIOUS
<1> QED BY <1>1, SeqIsSeq

LEMMA ConcatIsSeq ==
  ASSUME NEW s, NEW t, IsSeq(s), IsSeq(t)
  PROVE  /\ IsSeq(s \o t)
         /\ Len(s \o t) = Len(s) + Len(t)
         /\ \A i \in 1..Len(s) : (s \o t)[i] = s[i]
         /\ \A i \in 1..Len(t) : (s \o t)[Len(s) + i] = t[i]
<1> DEFINE S == {s[i] : i \in DOMAIN s} \cup {t[i] : i \in DOMAIN t}
<1>1. s \in Seq(S) /\ t \in Seq(S)
  BY DEF IsSeq
<1>2. s \o t \in Seq(S)
  BY <1>1
<1>3. IsSeq(s \o t)
  BY <1>2, SeqIsSeq
<1> HIDE DEF S
<1>4. Len(s \o t) = Len(s) + Len(t)
  BY <1>1
<1>5. \A i \in 1..Len(s) : (s \o t)[i] = s[i]
  BY <1>1
<1>6. \A i \in 1..Len(t) : (s \o t)[Len(s) + i] = t[i]
  BY <1>1
<1> QED BY <1>3, <1>4, <1>5, <1>6

LEMMA AppendIsSeq ==
  ASSUME NEW s, NEW u, IsSeq(s)
  PROVE  /\ IsSeq(Append(s, u))
         /\ Len(Append(s, u)) = Len(s) + 1
         /\ \A i \in 1..Len(s) : Append(s, u)[i] = s[i]
<1> DEFINE S == {s[i] : i \in DOMAIN s} \cup {u}
<1>1. s \in Seq(S) /\ u \in S
  BY DEF IsSeq
<1>2. Append(s, u) \in Seq(S)
  BY <1>1
<1>3. IsSeq(Append(s, u))
  BY <1>2, SeqIsSeq
<1> HIDE DEF S
<1> QED BY <1>1, <1>3

(* A sequence without one of its elements is a sequence. *)
LEMMA RemoveIsSeq ==
  ASSUME NEW s, IsSeq(s), NEW i \in DOMAIN s
  PROVE  IsSeq(RemoveAt(s, i))
<1> DEFINE S == {s[j] : j \in DOMAIN s}
<1>1. s \in Seq(S)
  BY DEF IsSeq
<1> HIDE DEF S
<1>2. SubSeq(s, 1, i-1) \in Seq(S)
  BY <1>1
<1>3. SubSeq(s, i+1, Len(s)) \in Seq(S)
  BY <1>1
<1>4. RemoveAt(s, i) \in Seq(S)
  BY <1>2, <1>3 DEF RemoveAt
<1> QED BY <1>4, SeqIsSeq

-----------------------------------------------------------------------------
(* The tables *)

LEMMA TypesOf ==
  /\ DOMAIN ApplicationMessage \cap DOMAIN NetworkMessage = {}
  /\ \A t \in DOMAIN ApplicationMessage : Schema[t] = ApplicationMessage[t]
  /\ \A t \in DOMAIN NetworkMessage : Schema[t] = NetworkMessage[t]
<1>1. DOMAIN ApplicationMessage \cap DOMAIN NetworkMessage = {}
  BY DEF ApplicationMessage, NetworkMessage
<1> QED
  BY <1>1 DEF Schema, MessageType

(* The type keys, as the tables give them. *)
LEMMA TypeKeys ==
  /\ Schema["AgentInfoRequest"].key = 10
  /\ Schema["AgentInfoResponse"].key = 11
  /\ Schema["AgentStatusRequest"].key = 12
  /\ Schema["AgentStatusResponse"].key = 13
  /\ Schema["AgentInfoEvent"].key = 120
  /\ Schema["PresentationUrlAvailabilityRequest"].key = 14
  /\ Schema["PresentationUrlAvailabilityResponse"].key = 15
  /\ Schema["PresentationUrlAvailabilityEvent"].key = 103
  /\ Schema["PresentationStartRequest"].key = 104
  /\ Schema["PresentationStartResponse"].key = 105
  /\ Schema["PresentationTerminationRequest"].key = 106
  /\ Schema["PresentationTerminationResponse"].key = 107
  /\ Schema["PresentationTerminationEvent"].key = 108
  /\ Schema["PresentationConnectionOpenRequest"].key = 109
  /\ Schema["PresentationConnectionOpenResponse"].key = 110
  /\ Schema["PresentationConnectionCloseEvent"].key = 113
  /\ Schema["PresentationConnectionMessage"].key = 16
  /\ Schema["PresentationChangeEvent"].key = 121
  /\ Schema["AuthCapabilities"].key = 1001
  /\ Schema["AuthSpake2Handshake"].key = 1005
  /\ Schema["AuthSpake2Confirmation"].key = 1003
  /\ Schema["AuthStatus"].key = 1004
<1> USE TypesOf DEF ApplicationMessage, NetworkMessage, Body, Within
<1>1. Schema["AgentInfoRequest"].key = 10
  BY DEF AgentInfoRequest
<1>2. Schema["AgentInfoResponse"].key = 11
  BY DEF AgentInfoResponse
<1>3. Schema["AgentStatusRequest"].key = 12
  BY DEF AgentStatusRequest
<1>4. Schema["AgentStatusResponse"].key = 13
  BY DEF AgentStatusResponse
<1>5. Schema["AgentInfoEvent"].key = 120
  BY DEF AgentInfoEvent
<1>6. Schema["PresentationUrlAvailabilityRequest"].key = 14
  BY DEF PresentationUrlAvailabilityRequest
<1>7. Schema["PresentationUrlAvailabilityResponse"].key = 15
  BY DEF PresentationUrlAvailabilityResponse
<1>8. Schema["PresentationUrlAvailabilityEvent"].key = 103
  BY DEF PresentationUrlAvailabilityEvent
<1>9. Schema["PresentationStartRequest"].key = 104
  BY DEF PresentationStartRequest
<1>10. Schema["PresentationStartResponse"].key = 105
  BY DEF PresentationStartResponse
<1>11. Schema["PresentationTerminationRequest"].key = 106
  BY DEF PresentationTerminationRequest
<1>12. Schema["PresentationTerminationResponse"].key = 107
  BY DEF PresentationTerminationResponse
<1>13. Schema["PresentationTerminationEvent"].key = 108
  BY DEF PresentationTerminationEvent
<1>14. Schema["PresentationConnectionOpenRequest"].key = 109
  BY DEF PresentationConnectionOpenRequest
<1>15. Schema["PresentationConnectionOpenResponse"].key = 110
  BY DEF PresentationConnectionOpenResponse
<1>16. Schema["PresentationConnectionCloseEvent"].key = 113
  BY DEF PresentationConnectionCloseEvent
<1>17. Schema["PresentationConnectionMessage"].key = 16
  BY DEF PresentationConnectionMessage
<1>18. Schema["PresentationChangeEvent"].key = 121
  BY DEF PresentationChangeEvent
<1>19. Schema["AuthCapabilities"].key = 1001
  BY DEF AuthCapabilities
<1>20. Schema["AuthSpake2Handshake"].key = 1005
  BY DEF AuthSpake2Handshake
<1>21. Schema["AuthSpake2Confirmation"].key = 1003
  BY DEF AuthSpake2Confirmation
<1>22. Schema["AuthStatus"].key = 1004
  BY DEF AuthStatus
<1> QED
  BY <1>1, <1>2, <1>3, <1>4, <1>5, <1>6, <1>7, <1>8, <1>9, <1>10, <1>11,
    <1>12, <1>13, <1>14, <1>15, <1>16, <1>17, <1>18, <1>19, <1>20, <1>21,
    <1>22

(* No two types of message have the same type key, and none has the key of *)
(* the message that cannot be decoded.                                     *)
LEMMA KeysDistinct ==
  ASSUME NEW t \in MessageType, NEW u \in MessageType, Schema[t].key = Schema[u].key
  PROVE  t = u
  BY TypeKeys DEF MessageType, ApplicationMessage, NetworkMessage

LEMMA NeedKeyUnused ==
  ASSUME NEW t \in MessageType
  PROVE  Schema[t].key # AuthSpake2Need
  BY TypeKeys DEF MessageType, ApplicationMessage, NetworkMessage, AuthSpake2Need

LEMMA TupleIsSeq ==
  ASSUME NEW a, NEW b, NEW c, NEW d, NEW e
  PROVE  /\ IsSeq(<<>>) /\ IsSeq(<<a>>) /\ IsSeq(<<a, b>>) /\ IsSeq(<<a, b, c>>)
         /\ IsSeq(<<a, b, c, d>>) /\ IsSeq(<<a, b, c, d, e>>)
<1> DEFINE S == {a, b, c, d, e}
<1>1. /\ <<>> \in Seq(S) /\ <<a>> \in Seq(S) /\ <<a, b>> \in Seq(S) /\ <<a, b, c>> \in Seq(S)
      /\ <<a, b, c, d>> \in Seq(S) /\ <<a, b, c, d, e>> \in Seq(S)
  OBVIOUS
<1> QED BY <1>1, SeqIsSeq

Shaped(body) == IsSeq(body.lead) /\ IsSeq(body.fields)

(* The units before the body and the fields of a message are sequences. *)
LEMMA SchemaShape ==
  ASSUME NEW t \in MessageType
  PROVE  Shaped(Schema[t])
<1>1. ASSUME NEW key, NEW counts, NEW fields, IsSeq(fields)
      PROVE  Shaped(Body(key, counts, fields))
  BY <1>1, TupleIsSeq DEF Body, Shaped
<1>2. ASSUME NEW key, NEW lead, NEW counts, NEW fields, IsSeq(lead), IsSeq(fields)
      PROVE  Shaped(Within(key, lead, counts, fields))
  BY <1>2 DEF Within, Shaped
<1>3. IsSeq(AgentInfo) /\ IsSeq(StatusFields)
  BY TupleIsSeq DEF AgentInfo, StatusFields
<1>4. Shaped(AgentInfoRequest)
  BY <1>1, TupleIsSeq DEF AgentInfoRequest
<1>5. Shaped(AgentInfoResponse)
  BY <1>2, <1>3, TupleIsSeq DEF AgentInfoResponse
<1>6. Shaped(AgentStatusRequest)
  BY <1>1, <1>3 DEF AgentStatusRequest
<1>7. Shaped(AgentStatusResponse)
  BY <1>1, <1>3 DEF AgentStatusResponse
<1>8. Shaped(AgentInfoEvent)
  BY <1>2, <1>3, TupleIsSeq DEF AgentInfoEvent
<1>9. Shaped(PresentationUrlAvailabilityRequest)
  BY <1>1, TupleIsSeq DEF PresentationUrlAvailabilityRequest
<1>10. Shaped(PresentationUrlAvailabilityResponse)
  BY <1>1, TupleIsSeq DEF PresentationUrlAvailabilityResponse
<1>11. Shaped(PresentationUrlAvailabilityEvent)
  BY <1>1, TupleIsSeq DEF PresentationUrlAvailabilityEvent
<1>12. Shaped(PresentationStartRequest)
  BY <1>1, TupleIsSeq DEF PresentationStartRequest
<1>13. Shaped(PresentationStartResponse)
  BY <1>1, TupleIsSeq DEF PresentationStartResponse
<1>14. Shaped(PresentationTerminationRequest)
  BY <1>1, TupleIsSeq DEF PresentationTerminationRequest
<1>15. Shaped(PresentationTerminationResponse)
  BY <1>1, TupleIsSeq DEF PresentationTerminationResponse
<1>16. Shaped(PresentationTerminationEvent)
  BY <1>1, TupleIsSeq DEF PresentationTerminationEvent
<1>17. Shaped(PresentationConnectionOpenRequest)
  BY <1>1, TupleIsSeq DEF PresentationConnectionOpenRequest
<1>18. Shaped(PresentationConnectionOpenResponse)
  BY <1>1, TupleIsSeq DEF PresentationConnectionOpenResponse
<1>19. Shaped(PresentationConnectionCloseEvent)
  BY <1>1, TupleIsSeq DEF PresentationConnectionCloseEvent
<1>20. Shaped(PresentationConnectionMessage)
  BY <1>1, TupleIsSeq DEF PresentationConnectionMessage
<1>21. Shaped(PresentationChangeEvent)
  BY <1>1, TupleIsSeq DEF PresentationChangeEvent
<1>22. Shaped(AuthCapabilities)
  BY TupleIsSeq DEF AuthCapabilities, Body, Shaped
<1>23. Shaped(AuthSpake2Handshake)
  BY TupleIsSeq DEF AuthSpake2Handshake, Body, Shaped
<1>24. Shaped(AuthSpake2Confirmation)
  BY TupleIsSeq DEF AuthSpake2Confirmation, Body, Shaped
<1>25. Shaped(AuthStatus)
  BY TupleIsSeq DEF AuthStatus, Body, Shaped
<1> QED
  BY TypesOf, <1>4, <1>5, <1>6, <1>7, <1>8, <1>9, <1>10, <1>11, <1>12, <1>13, <1>14, <1>15, <1>16, <1>17, <1>18, <1>19, <1>20, <1>21, <1>22, <1>23, <1>24, <1>25
    DEF MessageType, ApplicationMessage, NetworkMessage

LEMMA ResponseLead ==
  /\ "AgentInfoResponse" \in MessageType
  /\ Len(Schema["AgentInfoResponse"].lead) = 3
  /\ Schema["AgentInfoResponse"].lead[2].is = "field"
<1>1. Schema["AgentInfoResponse"] = AgentInfoResponse /\ "AgentInfoResponse" \in MessageType
  BY TypesOf DEF MessageType, ApplicationMessage
<1>2. AgentInfoResponse.lead = << MapOf(2), Required(0, "request_id", U64), KeyOf(1) >>
  BY DEF AgentInfoResponse, Within
<1> QED BY <1>1, <1>2 DEF Required, Field

-----------------------------------------------------------------------------
(* The frame of a message *)

LEMMA EntriesIsSeq ==
  ASSUME NEW t \in MessageType, NEW m
  PROVE  IsSeq(Entries(t, m))
<1> DEFINE fields == Schema[t].fields
           out == {i \in DOMAIN fields : ~Written(fields[i], m)}
           w == WrittenFields(t, m)
<1>1. IsSeq(fields)
  BY SchemaShape DEF Shaped
<1>3. IsSeq(w)
  <2>1. CASE out = {}
    BY <1>1, <2>1 DEF WrittenFields
  <2>2. CASE out # {}
    <3>1. PICK i \in DOMAIN fields : w = RemoveAt(fields, i)
      BY <2>2 DEF WrittenFields
    <3> QED BY <1>1, <3>1, RemoveIsSeq
  <2> QED BY <2>1, <2>2
<1>4. Len(w) \in Nat /\ DOMAIN w = 1..Len(w)
  BY <1>3, IsSeqFacts
<1> HIDE DEF w
<1>5. DOMAIN Entries(t, m) = 1..Len(w) /\ Entries(t, m) = [i \in 1..Len(w) |-> Entries(t, m)[i]]
  BY <1>4 DEF Entries, w
<1>6. Entries(t, m) \in [1..Len(w) -> {Entries(t, m)[i] : i \in 1..Len(w)}]
  BY <1>5
<1> QED BY <1>4, <1>6, FunctionIsSeq

LEMMA LeadUnitsIsSeq ==
  ASSUME NEW t \in MessageType, NEW m
  PROVE  IsSeq(LeadUnits(t, m)) /\ Len(LeadUnits(t, m)) = Len(Schema[t].lead)
<1> DEFINE n == Len(Schema[t].lead)
           s == LeadUnits(t, m)
<1>1. n \in Nat /\ DOMAIN Schema[t].lead = 1..n
  BY SchemaShape, IsSeqFacts DEF Shaped
<1>2. DOMAIN s = 1..n /\ s = [i \in 1..n |-> s[i]]
  BY <1>1 DEF LeadUnits
<1>3. s \in [1..n -> {s[i] : i \in 1..n}]
  BY <1>2
<1> QED BY <1>1, <1>3, FunctionIsSeq

(* A type key, the units before the body, the head of the body's map and   *)
(* then one unit for each entry that the head counts.                      *)
LEMMA Frame ==
  ASSUME NEW b, NEW lead, NEW h, NEW es, IsSeq(lead), IsSeq(es)
  PROVE  /\ IsSeq(<< b >> \o lead \o << h >> \o es)
         /\ Len(<< b >> \o lead \o << h >> \o es) = Len(lead) + 2 + Len(es)
         /\ (<< b >> \o lead \o << h >> \o es)[1] = b
         /\ (<< b >> \o lead \o << h >> \o es)[Len(lead) + 2] = h
<1> DEFINE w1 == << b >> \o lead
           w2 == w1 \o << h >>
           w  == w2 \o es
           k == Len(lead) + 2
<1>1. IsSeq(<< b >>) /\ IsSeq(<< h >>) /\ Len(<< b >>) = 1 /\ Len(<< h >>) = 1
      /\ << b >>[1] = b /\ << h >>[1] = h
  BY TupleIsSeq
<1>2. Len(lead) \in Nat /\ Len(es) \in Nat
  BY IsSeqFacts
<1>3. IsSeq(w1) /\ Len(w1) = 1 + Len(lead) /\ w1[1] = b
  BY <1>1, ConcatIsSeq
<1>4. IsSeq(w2) /\ Len(w2) = k /\ w2[1] = b /\ w2[k] = h
  <2> HIDE DEF w1
  <2>1. IsSeq(w2) /\ Len(w2) = Len(w1) + 1
    BY <1>1, <1>3, ConcatIsSeq
  <2>2. w2[1] = w1[1]
    BY <1>1, <1>2, <1>3, ConcatIsSeq
  <2>3. w2[Len(w1) + 1] = << h >>[1]
    BY <1>1, <1>3, ConcatIsSeq
  <2> QED BY <1>1, <1>2, <1>3, <2>1, <2>2, <2>3
<1>5. IsSeq(w) /\ Len(w) = k + Len(es) /\ w[1] = w2[1] /\ w[k] = w2[k]
  <2> HIDE DEF w2
  <2>1. IsSeq(w) /\ Len(w) = Len(w2) + Len(es)
    BY <1>4, ConcatIsSeq
  <2>2. \A i \in 1..Len(w2) : w[i] = w2[i]
    BY <1>4, ConcatIsSeq
  <2> QED BY <1>2, <1>4, <2>1, <2>2
<1> QED BY <1>4, <1>5

-----------------------------------------------------------------------------
(* The inductive invariant *)

KeyOnWire(key) == Len(wire) >= 1 /\ DecodeTypeKey(wire[1].bytes) = key

(* A complete message: as many units follow the head of the body's map as  *)
(* the head says.                                                          *)
Framed ==
  /\ KeyOnWire(Schema[type].key)
  /\ Len(wire) >= Body1
  /\ wire[Body1] = MapOf(Len(wire) - Body1)

(* An agent-info-response with its outer keys in the other order. *)
Swapped ==
  /\ type = "AgentInfoResponse"
  /\ KeyOnWire(Schema[type].key)
  /\ Len(wire) >= 3 /\ wire[3] = KeyOf(1)

NeedsPsk == KeyOnWire(AuthSpake2Need) /\ Len(wire) = 1

Unread == {"idle", "writing", "sent", "not_encoded"}

(* How far the decoder is says where in the frame it is: before the map it *)
(* has read the type key and some of the lead, and in the loop the turns   *)
(* it has left are the units that are left.                                *)
Position ==
  /\ pc \in Unread => arrived = 0 /\ pos = 0
  /\ pc = "type" => pos = 0
  /\ pc = "lead" => pos \in 1..Len(Schema[as].lead) /\ (Framed \/ (Swapped /\ pos <= 2))
  /\ pc = "map" => Framed /\ pos = Len(Schema[as].lead) + 1
  /\ pc = "loop" => left = Len(wire) - pos
  /\ pc = "accepted" => pos = Len(wire)

Frames ==
  /\ IsSeq(wire)
  /\ pc = "writing" =>
       /\ KeyOnWire(Schema[type].key)
       /\ Len(wire) >= Body1 /\ wire[Body1] = MapOf(Len(wire) + left - Body1)
  /\ pc \in {"sent", "type"} => Framed \/ Swapped \/ NeedsPsk

Identified ==
  pc \in {"lead", "map", "loop", "accepted"} => as = type /\ type \in Known[reader]

IInv == TypeOK /\ Frames /\ Position /\ Identified

(* What a decoder knows is a type of message. *)
LEMMA KnownTypes ==
  ASSUME NEW r \in DOMAIN Known
  PROVE  Known[r] \subseteq MessageType
  BY DEF Known, MessageType

LEMMA LeadLength ==
  ASSUME NEW t \in MessageType
  PROVE  Len(Schema[t].lead) \in Nat
  BY SchemaShape, IsSeqFacts DEF Shaped

LEMMA InitIInv == Init => IInv
<1> SUFFICES ASSUME Init PROVE IInv
  OBVIOUS
<1>1. IsSeq(wire) /\ Len(wire) = 0
  BY TupleIsSeq DEF Init
<1>2. TypeOK
  BY <1>1 DEF Init, TypeOK, NoFields, Known, PC
<1> QED
  BY <1>1, <1>2 DEF Init, IInv, Frames, Position, Identified, Unread

LEMMA SendKeeps == IInv /\ Send => IInv'
<1> SUFFICES ASSUME IInv, Send PROVE IInv'
  OBVIOUS
<1> USE DEF IInv
<1>t. type \in MessageType /\ Len(Schema[type].lead) \in Nat /\ IsSeq(Schema[type].lead)
  BY LeadLength, SchemaShape DEF TypeOK, Shaped
<1>0. pc = "idle" /\ arrived = 0 /\ pos = 0
  BY DEF Send, Position, Unread
<1>k. ASSUME UNCHANGED <<type, as, reader, got, arrived, pos>>, IsSeq(wire'),
             sender' \in {"own", "peer"}, pc' \in PC, left' \in Nat
      PROVE  TypeOK'
  <2>1. Len(wire') \in Nat
    BY <1>k, IsSeqFacts
  <2>2. (DOMAIN got \subseteq FieldNames(as))'
    BY <1>k DEF TypeOK
  <2>3. (arrived \in 0..Len(wire) /\ pos \in 0..arrived)'
    BY <1>0, <1>k, <2>1
  <2>4. (type \in MessageType /\ as \in MessageType /\ reader \in DOMAIN Known)'
    BY <1>k DEF TypeOK
  <2> QED BY <1>k, <2>2, <2>3, <2>4 DEF TypeOK
<1>1. ASSUME NEW m, Encode(m) PROVE IInv'
  <2>1. /\ IsSeq(wire') /\ Len(wire') = Len(Schema[type].lead) + 2 + Len(Entries(type, m))
        /\ wire'[1] = TypeKey(EncodeTypeKey(Schema[type].key))
        /\ wire'[Len(Schema[type].lead) + 2] = MapOf(Len(Entries(type, m)))
    <3>1. wire' = << TypeKey(EncodeTypeKey(Schema[type].key)) >> \o LeadUnits(type, m)
                    \o << MapOf(Len(Entries(type, m))) >> \o Entries(type, m)
      BY <1>1 DEF Encode, Encoding
    <3>2. IsSeq(LeadUnits(type, m)) /\ IsSeq(Entries(type, m)) /\ Len(LeadUnits(type, m)) = Len(Schema[type].lead)
      BY <1>t, EntriesIsSeq, LeadUnitsIsSeq
    <3> DEFINE b == TypeKey(EncodeTypeKey(Schema[type].key))
               lead == LeadUnits(type, m)
               h == MapOf(Len(Entries(type, m)))
               es == Entries(type, m)
    <3>3. wire' = << b >> \o lead \o << h >> \o es /\ IsSeq(lead) /\ IsSeq(es)
      BY <3>1, <3>2
    <3> HIDE DEF b, lead, h, es
    <3>4. IsSeq(wire') /\ Len(wire') = Len(lead) + 2 + Len(es) /\ wire'[1] = b /\ wire'[Len(lead) + 2] = h
      BY <3>3, Frame
    <3> QED BY <3>2, <3>4 DEF b, lead, h, es
  <2>2. Len(Entries(type, m)) \in Nat
    BY <1>t, EntriesIsSeq, IsSeqFacts
  <2>3. TypeOK'
    BY <1>1, <1>k, <2>1 DEF TypeOK, Encode, PC, decoder
  <2>4. Framed'
    BY <1>1, <2>1, <2>2, <1>t, TypeKeysRoundTrip DEF Encode, Framed, KeyOnWire, Body1, TypeKey, MapOf
  <2> QED
    BY <1>1, <2>1, <2>3, <2>4 DEF Encode, Frames, Position, Identified, Unread, decoder
<1>2. ASSUME NEW m, EncodeFails(m) PROVE IInv'
  <2>1. TypeOK'
    <3>1. wire' = wire /\ IsSeq(wire)
      BY <1>2 DEF EncodeFails, Frames
    <3>2. /\ UNCHANGED <<type, as, reader, got, arrived, pos>>
          /\ sender' \in {"own", "peer"} /\ pc' \in PC /\ left' \in Nat
      BY <1>2 DEF EncodeFails, TypeOK, PC, Done, decoder
    <3>3. IsSeq(wire')
      BY <3>1
    <3> QED BY <1>k, <3>2, <3>3
  <2> QED BY <1>2, <2>1 DEF EncodeFails, Frames, Position, Identified, Unread, decoder
<1>3. ASSUME NEW m, PeerSwaps(m) PROVE IInv'
  <2> DEFINE es == Entries(type, m)
             head == << TypeKey(EncodeTypeKey(Schema[type].key)), MapOf(2), KeyOf(1), MapOf(Len(es)) >>
             last == << LeadUnit(Schema[type].lead[2], m) >>
  <2>1. IsSeq(es) /\ IsSeq(head) /\ IsSeq(last) /\ Len(head) = 4 /\ Len(last) = 1
        /\ head[1] = TypeKey(EncodeTypeKey(Schema[type].key)) /\ head[3] = KeyOf(1)
    BY <1>t, EntriesIsSeq, TupleIsSeq
  <2>2. wire' = head \o es \o last
    BY <1>3 DEF PeerSwaps
  <2> HIDE DEF es, head, last
  <2>3. /\ IsSeq(head \o es) /\ Len(head \o es) = 4 + Len(es)
        /\ (head \o es)[1] = head[1] /\ (head \o es)[3] = head[3]
    <3>1. \A i \in 1..Len(head) : (head \o es)[i] = head[i]
      BY <2>1, ConcatIsSeq, ZenonT(30)
    <3>2. IsSeq(head \o es) /\ Len(head \o es) = Len(head) + Len(es)
      BY <2>1, ConcatIsSeq
    <3> QED BY <2>1, <3>1, <3>2
  <2>4. Len(es) \in Nat
    BY <2>1, IsSeqFacts
  <2>5. IsSeq(wire') /\ Len(wire') = 5 + Len(es) /\ wire'[1] = head[1] /\ wire'[3] = head[3]
    <3> DEFINE h == head \o es
    <3>0. IsSeq(h) /\ wire' = h \o last
      BY <2>2, <2>3
    <3> HIDE DEF h
    <3>1. \A i \in 1..Len(h) : wire'[i] = h[i]
      BY <2>1, <3>0, ConcatIsSeq
    <3>2. IsSeq(wire') /\ Len(wire') = Len(h) + Len(last)
      BY <2>1, <3>0, ConcatIsSeq
    <3> QED BY <2>1, <2>3, <2>4, <3>1, <3>2 DEF h
  <2>6. TypeOK'
    BY <1>3, <1>k, <2>5 DEF TypeOK, PeerSwaps, PC, decoder
  <2>7. Swapped'
    BY <1>3, <2>1, <2>4, <2>5, <1>t, TypeKeysRoundTrip DEF PeerSwaps, Swapped, KeyOnWire, TypeKey
  <2> QED
    BY <1>3, <2>5, <2>6, <2>7 DEF PeerSwaps, Frames, Position, Identified, Unread, decoder
<1>4. ASSUME NEW size \in FittingSizes(Schema[type].key), NEW count \in Nat, PeerBegins(size, count)
      PROVE  IInv'
  <2> DEFINE b == TypeKey(VarInt(Schema[type].key, size))
  <2>1. wire' = << b >> \o Schema[type].lead \o << MapOf(count) >>
    BY <1>4 DEF PeerBegins
  <2>2. /\ IsSeq(wire') /\ Len(wire') = Len(Schema[type].lead) + 2
        /\ wire'[1] = b /\ wire'[Len(Schema[type].lead) + 2] = MapOf(count)
    <3>1. IsSeq(<< b >>) /\ IsSeq(<< MapOf(count) >>) /\ Len(<< b >>) = 1 /\ Len(<< MapOf(count) >>) = 1
          /\ << b >>[1] = b /\ << MapOf(count) >>[1] = MapOf(count)
      BY TupleIsSeq
    <3> DEFINE w1 == << b >> \o Schema[type].lead
    <3>2. IsSeq(w1) /\ Len(w1) = 1 + Len(Schema[type].lead) /\ w1[1] = b
      BY <1>t, <3>1, ConcatIsSeq
    <3>3. wire' = w1 \o << MapOf(count) >>
      BY <2>1
    <3> HIDE DEF w1, b
    <3>4. IsSeq(wire') /\ Len(wire') = Len(w1) + 1
      BY <3>1, <3>2, <3>3, ConcatIsSeq
    <3>5. wire'[1] = w1[1]
      BY <1>t, <3>1, <3>2, <3>3, ConcatIsSeq
    <3>6. wire'[Len(w1) + 1] = << MapOf(count) >>[1]
      BY <3>1, <3>2, <3>3, ConcatIsSeq
    <3> QED BY <1>t, <3>1, <3>2, <3>4, <3>5, <3>6
  <2>3. TypeOK'
    BY <1>4, <1>k, <2>2 DEF TypeOK, PeerBegins, PC
  <2>4. DecodeTypeKey(VarInt(Schema[type].key, size)) = Schema[type].key
    BY <1>t, TypeKeysRoundTrip
  <2>5. Frames'
    <3>1. pc' = "writing" /\ type' = type /\ left' = count /\ Body1' = Body1
      BY <1>4 DEF PeerBegins, Body1
    <3>2. KeyOnWire(Schema[type].key)'
      BY <2>2, <2>4, <3>1 DEF KeyOnWire, TypeKey
    <3>3. Len(wire') = Body1 /\ wire'[Body1].n = count /\ Body1 \in Nat
      BY <2>2, <1>t DEF Body1, MapOf
    <3>. QED
      BY <2>2, <3>1, <3>2, <3>3 DEF Frames
  <2> QED
    BY <1>4, <2>3, <2>5 DEF PeerBegins, Position, Identified, Unread
<1>5. ASSUME PeerNeedsPsk PROVE IInv'
  <2>1. IsSeq(wire') /\ Len(wire') = 1 /\ wire'[1] = TypeKey(EncodeTypeKey(AuthSpake2Need))
    BY <1>5, TupleIsSeq DEF PeerNeedsPsk
  <2>2. NeedsPsk'
    BY <2>1, TypeKeysRoundTrip DEF NeedsPsk, KeyOnWire, TypeKey
  <2>3. TypeOK'
    BY <1>5, <1>k, <2>1 DEF TypeOK, PeerNeedsPsk, PC, decoder
  <2> QED
    BY <1>5, <2>1, <2>2, <2>3 DEF PeerNeedsPsk, Frames, Position, Identified, Unread, decoder
<1>6. ASSUME NEW n \in 0..Len(Schema[type].fields) PROVE n \in Nat
  OBVIOUS
<1> QED
  BY <1>1, <1>2, <1>3, <1>4, <1>5, <1>6 DEF Send

LEMMA WriteKeeps == IInv /\ Write => IInv'
<1> SUFFICES ASSUME IInv, Write PROVE IInv'
  OBVIOUS
<1> USE DEF IInv
<1>0. /\ pc = "writing" /\ arrived = 0 /\ pos = 0 /\ IsSeq(wire) /\ Len(wire) \in Nat /\ left \in Nat
      /\ type \in MessageType /\ Body1 \in Nat /\ Body1 >= 2
  BY LeadLength, IsSeqFacts DEF Write, Position, Unread, Frames, TypeOK, Body1
<1>1. CASE PeerSends
  <2>1. TypeOK'
    BY <1>0, <1>1 DEF PeerSends, TypeOK, PC, input, decoder
  <2>2. Framed'
    BY <1>0, <1>1 DEF PeerSends, Frames, Framed, KeyOnWire, Body1, input, decoder
  <2> QED BY <1>0, <1>1, <2>1, <2>2 DEF PeerSends, Frames, Position, Identified, Unread, input, decoder
<1>2. ASSUME NEW u, PeerWrites(u) PROVE IInv'
  <2>1. /\ IsSeq(wire') /\ Len(wire') = Len(wire) + 1
        /\ \A i \in 1..Len(wire) : wire'[i] = wire[i]
    BY <1>0, <1>2, AppendIsSeq DEF PeerWrites
  <2>2. TypeOK'
    <3>1. (arrived \in 0..Len(wire) /\ pos \in 0..arrived /\ left \in Nat)'
      BY <1>0, <1>2, <2>1 DEF PeerWrites
    <3>2. (DOMAIN got \subseteq FieldNames(as))'
      BY <1>2 DEF PeerWrites, TypeOK
    <3> QED BY <1>2, <3>1, <3>2 DEF PeerWrites, TypeOK
  <2>3. Body1' = Body1
    BY <1>2 DEF PeerWrites, Body1
  <2>4. wire'[1] = wire[1] /\ wire'[Body1] = wire[Body1]
    BY <1>0, <2>1 DEF Frames, KeyOnWire
  <2>5. Frames'
    BY <1>0, <1>2, <2>1, <2>3, <2>4 DEF PeerWrites, Frames, KeyOnWire
  <2> QED BY <1>0, <1>2, <2>2, <2>5 DEF PeerWrites, Position, Identified, Unread
<1> QED BY <1>1, <1>2 DEF Write

LEMMA ReceiveKeeps ==
  ASSUME IInv, NEW r \in DOMAIN Known, NEW n \in 0..Len(wire), Receive(r, n)
  PROVE  IInv'
<1> USE DEF IInv
<1>0. pc = "sent" /\ pos = 0 /\ IsSeq(wire) /\ Len(wire) \in Nat
  BY IsSeqFacts DEF Receive, Position, Unread, Frames
<1>1. TypeOK'
  <2>1. (arrived \in 0..Len(wire) /\ pos \in 0..arrived)'
    BY <1>0 DEF Receive, decoder
  <2>2. (DOMAIN got \subseteq FieldNames(as))'
    BY DEF Receive, TypeOK, decoder
  <2> QED BY <2>1, <2>2 DEF Receive, TypeOK, PC, decoder
<1>2. Frames'
  BY <1>0 DEF Receive, Frames, Framed, Swapped, NeedsPsk, KeyOnWire, Body1, decoder
<1> QED BY <1>0, <1>1, <1>2 DEF Receive, Position, Identified, Unread, decoder

(* Names of fields are kept apart from the rest of the steps. *)
LEMMA CollectionsAreFields ==
  ASSUME NEW t
  PROVE  Collections(t) \subseteq FieldNames(t)
  BY DEF Collections, FieldNames, AllFields

LEMMA RefuseKeeps == IInv /\ Refuse => IInv'
<1> SUFFICES ASSUME IInv, Refuse PROVE IInv'
  OBVIOUS
<1>1. TypeOK'
  <2>1. (DOMAIN got \subseteq FieldNames(as))'
    BY DEF IInv, Refuse, TypeOK, decoder, input
  <2> QED BY <2>1 DEF IInv, Refuse, TypeOK, PC, Done, decoder, input
<1> QED BY <1>1 DEF IInv, Refuse, Frames, Position, Identified, Unread, decoder, input

LEMMA ReadTypeKeyKeeps == IInv /\ ReadTypeKey => IInv'
<1> SUFFICES ASSUME IInv, ReadTypeKey PROVE IInv'
  OBVIOUS
<1> DEFINE key == DecodeTypeKey(Unit.bytes)
<1>0. /\ pc = "type" /\ pos = 0 /\ arrived \in 1..Len(wire) /\ Unit = wire[1]
      /\ IsSeq(wire) /\ Len(wire) \in Nat /\ type \in MessageType /\ reader \in DOMAIN Known
  BY IsSeqFacts DEF IInv, ReadTypeKey, HasUnit, Unit, Position, Frames, TypeOK
<1>1. ASSUME NEW t \in KnownAs(key), as' = t, got' = [n \in Collections(t) |-> <<>>], pos' = pos + 1,
             pc' = IF Schema[t].lead = <<>> THEN "map" ELSE "lead", UNCHANGED <<input, left>>
      PROVE  IInv'
  <2>1. t \in Known[reader] /\ t \in MessageType /\ Schema[t].key = key
    BY <1>0, KnownTypes DEF KnownAs
  <2>2. key # AuthSpake2Need
    BY <2>1, NeedKeyUnused
  <2>3. key = Schema[type].key /\ (Framed \/ Swapped)
    BY <1>0, <2>2 DEF IInv, Frames, Framed, Swapped, NeedsPsk, KeyOnWire
  <2>4. t = type
    BY <1>0, <2>1, <2>3, KeysDistinct
  <2>5. Len(Schema[t].lead) \in Nat /\ (Schema[t].lead # <<>> => Len(Schema[t].lead) >= 1)
        /\ Len(<<>>) = 0
    <3>1. IsSeq(Schema[t].lead)
      BY <2>1, SchemaShape DEF Shaped
    <3> QED BY <3>1 DEF IsSeq
  <2>6. TypeOK'
    <3>1. (DOMAIN got \subseteq FieldNames(as))'
      BY <1>1, CollectionsAreFields
    <3>2. (arrived \in 0..Len(wire) /\ pos \in 0..arrived /\ left \in Nat)'
      BY <1>0, <1>1 DEF input, IInv, TypeOK
    <3> QED BY <1>1, <2>1, <3>1, <3>2 DEF TypeOK, PC, input, IInv
  <2>7. Framed' = Framed /\ Swapped' = Swapped
    BY <1>1 DEF input, Framed, Swapped, KeyOnWire, Body1
  <2>8. Frames' /\ Identified'
    BY <1>0, <1>1, <2>1, <2>4 DEF Frames, Identified, input
  <2>9. Schema[t].lead = <<>> => ~Swapped
    BY <2>4, <2>5, ResponseLead DEF Swapped
  <2>10. Position'
    BY <1>0, <1>1, <2>3, <2>4, <2>5, <2>7, <2>9 DEF Position, Unread
  <2> QED BY <2>6, <2>8, <2>10 DEF IInv
<1>2. CASE Refuse
  BY <1>2, RefuseKeeps
<1>3. CASE pc' = "panicked" /\ UNCHANGED <<input, decoder>>
  <2>1. TypeOK'
    <3>1. (DOMAIN got \subseteq FieldNames(as))'
      BY <1>3 DEF IInv, TypeOK, decoder, input
    <3> QED BY <1>3, <3>1 DEF IInv, TypeOK, PC, Done, decoder, input
  <2> QED BY <1>3, <2>1 DEF IInv, Frames, Position, Identified, Unread, decoder, input
<1> QED BY <1>1, <1>2, <1>3 DEF ReadTypeKey

LEMMA ReadLeadKeeps == IInv /\ ReadLead => IInv'
<1> SUFFICES ASSUME IInv, ReadLead PROVE IInv'
  OBVIOUS
<1> DEFINE l == Schema[as].lead[pos]
           n == Len(Schema[as].lead)
<1>0. /\ pc = "lead" /\ pos \in Nat /\ pos < arrived /\ arrived \in 0..Len(wire)
      /\ IsSeq(wire) /\ Len(wire) \in Nat /\ as \in MessageType
      /\ as = type /\ type \in Known[reader] /\ n \in Nat /\ pos \in 1..n
      /\ Framed \/ (Swapped /\ pos <= 2)
      /\ DOMAIN Schema[as].lead = 1..n
  BY IsSeqFacts, SchemaShape DEF IInv, ReadLead, HasUnit, Position, Frames, TypeOK, Identified, Shaped
<1>1. ASSUME got' = got \/ (l.is = "field" /\ got' = With(got, l.name, Unit.item.v)),
             l.is = "field" => Unit.is = "entry",
             pos' = pos + 1, pc' = (IF pos = n THEN "map" ELSE pc), UNCHANGED <<input, as, left>>
      PROVE  IInv'
  <2>1. (DOMAIN got \subseteq FieldNames(as))'
    <3>1. l.is = "field" => l.name \in FieldNames(as)
      BY <1>0 DEF FieldNames, AllFields, ToSet
    <3> HIDE DEF l
    <3>2. DOMAIN got \subseteq FieldNames(as)
      BY DEF IInv, TypeOK
    <3>3. CASE got' = got
      BY <1>1, <3>2, <3>3
    <3>4. CASE l.is = "field" /\ got' = With(got, l.name, Unit.item.v)
      BY <1>1, <3>1, <3>2, <3>4 DEF With
    <3> QED BY <1>1, <3>3, <3>4
  <2>2. (arrived \in 0..Len(wire) /\ pos \in 0..arrived /\ left \in Nat)'
    BY <1>0, <1>1 DEF input, IInv, TypeOK
  <2>3. TypeOK'
    BY <1>0, <1>1, <2>1, <2>2 DEF TypeOK, PC, input, IInv
  <2>4. Framed' = Framed /\ Swapped' = Swapped
    BY <1>1 DEF input, Framed, Swapped, KeyOnWire, Body1
  <2>5. Frames' /\ Identified'
    BY <1>0, <1>1 DEF Frames, Identified, input
  <2>6. Swapped /\ pos = 2 => FALSE
    <3> SUFFICES ASSUME Swapped, pos = 2 PROVE FALSE
      OBVIOUS
    <3>1. l.is = "field"
      BY <1>0, ResponseLead DEF Swapped
    <3>2. Unit = KeyOf(1)
      BY DEF Swapped, Unit
    <3> QED BY <1>1, <3>1, <3>2 DEF KeyOf
  <2>7. Swapped => n = 3
    BY <1>0, ResponseLead DEF Swapped
  <2>8. Position'
    BY <1>0, <1>1, <2>4, <2>6, <2>7 DEF Position, Unread
  <2> QED BY <2>3, <2>5, <2>8 DEF IInv
<1>2. CASE Refuse
  BY <1>2, RefuseKeeps
<1> QED BY <1>1, <1>2 DEF ReadLead

LEMMA ReadMapKeeps == IInv /\ ReadMap => IInv'
<1> SUFFICES ASSUME IInv, ReadMap PROVE IInv'
  OBVIOUS
<1>0. /\ pc = "map" /\ pos \in Nat /\ pos < arrived /\ arrived \in 0..Len(wire)
      /\ IsSeq(wire) /\ Len(wire) \in Nat /\ as \in MessageType
      /\ as = type /\ type \in Known[reader] /\ Framed /\ pos + 1 = Body1 /\ Body1 \in Nat
  BY IsSeqFacts, LeadLength DEF IInv, ReadMap, HasUnit, Position, Frames, TypeOK, Identified, Body1
<1>1. ASSUME left' = Unit.n, pos' = pos + 1, pc' = "loop", UNCHANGED <<input, as, got>>
      PROVE  IInv'
  <2>1. left' = Len(wire) - pos'
    BY <1>0, <1>1 DEF Unit, Framed, MapOf
  <2>2. (arrived \in 0..Len(wire) /\ pos \in 0..arrived /\ left \in Nat)'
    BY <1>0, <1>1, <2>1 DEF input
  <2>3. (DOMAIN got \subseteq FieldNames(as))'
    BY <1>1 DEF IInv, TypeOK
  <2>4. TypeOK'
    BY <1>0, <1>1, <2>2, <2>3 DEF TypeOK, PC, input, IInv
  <2> QED
    BY <1>0, <1>1, <2>1, <2>4 DEF IInv, Frames, Position, Identified, Unread, input
<1>2. CASE Refuse
  BY <1>2, RefuseKeeps
<1> QED BY <1>1, <1>2 DEF ReadMap

LEMMA ReadEntryKeeps == IInv /\ ReadEntry => IInv'
<1> SUFFICES ASSUME IInv, ReadEntry PROVE IInv'
  OBVIOUS
<1>0. /\ pc = "loop" /\ pos \in Nat /\ pos < arrived /\ arrived \in 0..Len(wire)
      /\ IsSeq(wire) /\ Len(wire) \in Nat /\ left = Len(wire) - pos /\ left > 0
      /\ as = type /\ type \in Known[reader]
  BY IsSeqFacts DEF IInv, ReadEntry, HasUnit, Position, Frames, TypeOK, Identified
<1>1. ASSUME NEW f \in ToSet(Schema[as].fields), got' = Keep(f, got, Unit.item),
             pos' = pos + 1, left' = left - 1, UNCHANGED <<input, pc, as>>
      PROVE  IInv'
  <2>1. (DOMAIN got \subseteq FieldNames(as))'
    <3>1. f.name \in FieldNames(as)
      BY DEF FieldNames, AllFields
    <3>2. DOMAIN got' = DOMAIN got \cup {f.name}
      BY <1>1 DEF Keep, With
    <3>3. DOMAIN got \subseteq FieldNames(as) /\ as' = as
      BY <1>1 DEF IInv, TypeOK
    <3> QED BY <3>1, <3>2, <3>3
  <2>2. (arrived \in 0..Len(wire) /\ pos \in 0..arrived /\ left \in Nat)'
    BY <1>0, <1>1 DEF input
  <2>3. TypeOK'
    BY <1>0, <1>1, <2>1, <2>2 DEF TypeOK, PC, input, IInv
  <2> QED
    BY <1>0, <1>1, <2>3 DEF IInv, Frames, Position, Identified, Unread, input
<1>2. CASE Refuse
  BY <1>2, RefuseKeeps
<1> QED BY <1>1, <1>2 DEF ReadEntry

LEMMA FinishKeeps == IInv /\ Finish => IInv'
<1> SUFFICES ASSUME IInv, Finish PROVE IInv'
  OBVIOUS
<1>1. (DOMAIN got \subseteq FieldNames(as))'
  BY DEF IInv, Finish, TypeOK, decoder, input
<1>2. TypeOK'
  BY <1>1 DEF IInv, Finish, TypeOK, PC, Done, decoder, input
<1>3. Len(wire) \in Nat /\ pos \in Nat
  BY IsSeqFacts DEF IInv, Frames, TypeOK
<1> QED
  BY <1>2, <1>3 DEF IInv, Finish, Frames, Position, Identified, Unread, decoder, input

LEMMA StepKeeps == IInv /\ [Next]_vars => IInv'
<1> SUFFICES ASSUME IInv, [Next]_vars PROVE IInv'
  OBVIOUS
<1>1. CASE Send
  BY <1>1, SendKeeps
<1>2. CASE Write
  BY <1>2, WriteKeeps
<1>3. CASE \E r \in DOMAIN Known, n \in 0..Len(wire) : Receive(r, n)
  BY <1>3, ReceiveKeeps
<1>4. CASE Decode
  BY <1>4, RefuseKeeps, ReadTypeKeyKeeps, ReadLeadKeeps, ReadMapKeeps, ReadEntryKeeps, FinishKeeps
    DEF Decode, EndOfInput
<1>5. CASE UNCHANGED vars
  <2>1. (DOMAIN got \subseteq FieldNames(as))'
    BY <1>5 DEF IInv, TypeOK, vars
  <2>2. TypeOK'
    BY <1>5, <2>1 DEF IInv, TypeOK, vars
  <2>3. Framed' = Framed /\ Swapped' = Swapped /\ NeedsPsk' = NeedsPsk /\ Body1' = Body1
    BY <1>5 DEF vars, Framed, Swapped, NeedsPsk, KeyOnWire, Body1
  <2>4. Frames'
    BY <1>5, <2>3 DEF IInv, Frames, KeyOnWire, vars
  <2> QED BY <1>5, <2>2, <2>3, <2>4 DEF IInv, Position, Identified, vars
<1> QED BY <1>1, <1>2, <1>3, <1>4, <1>5 DEF Next

(* The invariant holds for all texts, byte strings and numbers and for     *)
(* every set of messages that another implementation sends.                *)
THEOREM Invariance == Spec => []IInv
  BY InitIInv, StepKeeps, PTL DEF Spec

(* The decoders of decode_body keep their variables in type and never read *)
(* past the end of what has arrived.                                       *)
THEOREM TypeCorrect == Spec => []TypeOK
<1>1. IInv => TypeOK
  BY DEF IInv
<1> QED BY <1>1, Invariance, PTL

(* ApplicationMessage::decode and NetworkMessage::decode accept a message  *)
(* only as the type it was sent as.                                        *)
THEOREM NeverMistaken == Spec => []RightDecoder
<1>1. IInv => RightDecoder
  BY DEF IInv, Identified, RightDecoder
<1> QED BY <1>1, Invariance, PTL

(* No prefix of a message is accepted: in the loop of decode_body the      *)
(* turns left are the units left, so it ends at the end of the message.    *)
THEOREM NoPrefixAccepted == Spec => []CutNeverAccepted
<1>1. IInv => CutNeverAccepted
  <2> SUFFICES ASSUME IInv, pc = "accepted" PROVE arrived = Len(wire)
    BY DEF CutNeverAccepted
  <2>1. pos = Len(wire) /\ arrived \in 0..Len(wire) /\ pos \in 0..arrived /\ Len(wire) \in Nat
    BY IsSeqFacts DEF IInv, Position, TypeOK, Frames
  <2> QED BY <2>1
<1> QED BY <1>1, Invariance, PTL
=============================================================================
