---------------------------- MODULE SessionProofs ----------------------------
(***************************************************************************)
(* Proofs about ApplicationSession, for every set of presentations and     *)
(* whatever the bounds.  The argument has four parts, one conjunct of the  *)
(* invariant each: what moves app_state is, with an orderly receiver, an   *)
(* answer to a request, and requests are only made once authenticated      *)
(* (Quiet); a status of success                                            *)
(* is only said by a receiver that has verified us (Agreed); our own       *)
(* status goes out before the first request (Behind); and the handshake    *)
(* messages on their way to us are those still to be taken, in order       *)
(* (InOrder).  What a careful user can tell of the presentations of the    *)
(* receiver rests on a second invariant (Course), at the end.              *)
(***************************************************************************)
EXTENDS ApplicationSession, FiniteSetTheorems, TLAPS

UserType ==
  {"PresentationStartRequest", "PresentationTerminationRequest", "PresentationConnectionOpenRequest",
   "PresentationUrlAvailabilityRequest", "AgentStatusRequest", "AgentInfoRequest",
   "PresentationConnectionMessage", "PresentationConnectionCloseEvent"}

PeerType ==
  {"PresentationStartResponse", "PresentationTerminationResponse", "PresentationTerminationEvent",
   "AgentInfoResponse", "AgentStatusResponse", "PresentationUrlAvailabilityResponse",
   "PresentationConnectionOpenResponse"} \cup Unasked

Msg ==
  [type : HandshakeType \cup UserType \cup PeerType, id : Nat,
   presentation : Presentation \cup {None}, ok : BOOLEAN]

Typed ==
  /\ setting \in Setting
  /\ network \in NetworkState /\ app_state \in ApplicationState /\ peer \in PeerState
  /\ toPeer \in Seq(Msg) /\ toUs \in Seq(Msg)
  /\ next_request_id \in Nat /\ garbled \in BOOLEAN

Quiet ==
  /\ \A i \in DOMAIN toPeer : toPeer[i].type \notin HandshakeType => network = "Authenticated"
  /\ setting.orderly => \A i \in DOMAIN toUs : toUs[i].type \in Moving => network = "Authenticated"
  /\ running # {} => network = "Authenticated"
  /\ StateMatchesNetwork

Verified == {"AwaitingStatus", "Authenticated"}

Agreed ==
  /\ \A i \in DOMAIN toPeer : toPeer[i].type \in HandshakeType => setting.carries
  /\ peer \notin {"Idle", "AwaitingCapabilities"} => setting.carries
  /\ peer \in Verified => setting.shares
  /\ \A i \in DOMAIN toUs : toUs[i].type = "AuthStatus" /\ toUs[i].ok => peer \in Verified
  /\ network = "Authenticated" => peer \in Verified

Behind ==
  /\ network \in {"AwaitingStatus", "Authenticated"} /\ setting.carries =>
       \/ peer \in {"Authenticated", "Failed"}
       \/ \E i \in DOMAIN toPeer : toPeer[i].type = "AuthStatus"
  /\ \A i \in DOMAIN toPeer : toPeer[i].type \notin HandshakeType =>
       peer = "Authenticated" \/ \E j \in DOMAIN toPeer : j < i /\ toPeer[j].type = "AuthStatus"

Rank(type) ==
  CASE type = "AuthCapabilities"       -> 1
    [] type = "AuthSpake2Handshake"    -> 2
    [] type = "AuthSpake2Confirmation" -> 3
    [] OTHER                           -> 4

\* how many handshake messages the machine has taken
Taken ==
  CASE network \in {"Idle", "AwaitingCapabilities"}             -> 0
    [] network \in {"InitiatingHandshake", "AwaitingHandshake"} -> 1
    [] network = "AwaitingConfirmation"                         -> 2
    [] network = "AwaitingStatus"                               -> 3
    [] network = "Computing" -> IF request = "FinishWithConfirmation" THEN 2 ELSE 3
    [] OTHER                                                    -> 4

\* how many the receiver has sent
Said ==
  CASE peer = "Idle"                                          -> 0
    [] peer \in {"AwaitingCapabilities", "AwaitingHandshake"} -> 1
    [] peer = "AwaitingConfirmation"                          -> 3
    [] OTHER                                                  -> 4

Computes ==
  network # "Panicked" =>
    /\ request = "Start" <=> network = "InitiatingHandshake"
    /\ request \in {"FinishWithConfirmation", "VerifyConfirmation"} <=> network = "Computing"
    /\ request \in {"none", "Start", "FinishWithConfirmation", "VerifyConfirmation"}

\* the handshake messages in s are those after the first a and up to the b-th, in order
Ordered(s, a, b) ==
  /\ a <= b
  /\ \A i \in DOMAIN s : s[i].type \in HandshakeType => a < Rank(s[i].type) /\ Rank(s[i].type) <= b
  /\ \A i, j \in DOMAIN s :
       i < j /\ s[i].type \in HandshakeType /\ s[j].type \in HandshakeType =>
         Rank(s[i].type) < Rank(s[j].type)
  /\ \A t \in HandshakeType : a < Rank(t) /\ Rank(t) <= b => \E i \in DOMAIN s : s[i].type = t

InOrder ==
  ~garbled =>
    /\ network # "Poisoned"
    /\ network # "Panicked" => Ordered(toUs, Taken, Said)

IInv == Typed /\ Quiet /\ Agreed /\ Behind /\ Computes /\ InOrder

-----------------------------------------------------------------------------
(* Sequences *)

(* What a sequence with one more element holds. *)
LEMMA AppendFacts ==
  ASSUME NEW S, NEW s \in Seq(S), NEW e \in S
  PROVE  /\ Append(s, e) \in Seq(S)
         /\ Len(s) \in Nat /\ DOMAIN s = 1 .. Len(s)
         /\ DOMAIN Append(s, e) = 1 .. Len(s) + 1
         /\ Append(s, e)[Len(s) + 1] = e
         /\ \A i \in 1 .. Len(s) : Append(s, e)[i] = s[i]
  OBVIOUS

(* What is left of a sequence without its first element. *)
LEMMA TailFacts ==
  ASSUME NEW S, NEW s \in Seq(S), s # <<>>
  PROVE  /\ Tail(s) \in Seq(S)
         /\ Head(s) \in S /\ Head(s) = s[1]
         /\ Len(s) \in Nat /\ Len(s) > 0 /\ DOMAIN s = 1 .. Len(s)
         /\ DOMAIN Tail(s) = 1 .. Len(s) - 1
         /\ \A i \in 1 .. Len(s) - 1 : Tail(s)[i] = s[i + 1]
  OBVIOUS

(* Two elements are appended one after the other. *)
LEMMA TwoAppended ==
  ASSUME NEW S, NEW s \in Seq(S), NEW d \in S, NEW e \in S
  PROVE  s \o <<d, e>> = Append(Append(s, d), e)
  OBVIOUS

(* The rank of a handshake message is its place in the exchange. *)
LEMMA RankFacts ==
  /\ \A t \in HandshakeType : Rank(t) \in 1 .. 4
  /\ \A t, u \in HandshakeType : Rank(t) = Rank(u) => t = u
  /\ Rank("AuthCapabilities") = 1 /\ Rank("AuthSpake2Handshake") = 2
  /\ Rank("AuthSpake2Confirmation") = 3 /\ Rank("AuthStatus") = 4
  <1>1. /\ Rank("AuthCapabilities") = 1 /\ Rank("AuthSpake2Handshake") = 2
        /\ Rank("AuthSpake2Confirmation") = 3 /\ Rank("AuthStatus") = 4
    BY DEF Rank
  <1> QED BY <1>1 DEF HandshakeType

(* A message of the application may come last. *)
LEMMA OrderedAppendOther ==
  ASSUME NEW S, NEW s \in Seq(S), NEW e \in S, NEW a, NEW b,
         e.type \notin HandshakeType, Ordered(s, a, b)
  PROVE  Ordered(Append(s, e), a, b)
  BY AppendFacts DEF Ordered

(* So may the handshake message that is next. *)
LEMMA OrderedAppendNext ==
  ASSUME NEW S, NEW s \in Seq(S), NEW e \in S, NEW a \in Nat, NEW b \in Nat,
         e.type \in HandshakeType, Rank(e.type) = b + 1, Ordered(s, a, b)
  PROVE  Ordered(Append(s, e), a, b + 1)
  <1> DEFINE r == Append(s, e)
  <1>1. /\ Len(s) \in Nat /\ DOMAIN s = 1 .. Len(s) /\ DOMAIN r = 1 .. Len(s) + 1
        /\ r[Len(s) + 1] = e /\ \A i \in 1 .. Len(s) : r[i] = s[i]
    BY AppendFacts
  <1> HIDE DEF r
  <1>2. \A t \in HandshakeType : Rank(t) \in Nat
    BY RankFacts
  <1>3. \A i \in DOMAIN r : r[i].type \in HandshakeType => a < Rank(r[i].type) /\ Rank(r[i].type) <= b + 1
    BY <1>1, <1>2 DEF Ordered
  <1>4. \A i, j \in DOMAIN r :
          i < j /\ r[i].type \in HandshakeType /\ r[j].type \in HandshakeType =>
            Rank(r[i].type) < Rank(r[j].type)
    BY <1>1, <1>2, SMTT(30) DEF Ordered
  <1>5. ASSUME NEW t \in HandshakeType, a < Rank(t), Rank(t) <= b + 1
        PROVE  \E i \in DOMAIN r : r[i].type = t
    <2>1. CASE Rank(t) = b + 1
      BY <2>1, <1>1, RankFacts
    <2>2. CASE Rank(t) <= b
      <3>1. PICK i \in DOMAIN s : s[i].type = t
        BY <2>2, <1>5 DEF Ordered
      <3> QED BY <3>1, <1>1
    <2> QED BY <2>1, <2>2, <1>5, <1>2
  <1>6. a <= b + 1
    BY DEF Ordered
  <1> QED BY <1>3, <1>4, <1>5, <1>6 DEF Ordered, r

(* A message of the application may be taken. *)
LEMMA OrderedTailOther ==
  ASSUME NEW S, NEW s \in Seq(S), s # <<>>, NEW a, NEW b,
         Head(s).type \notin HandshakeType, Ordered(s, a, b)
  PROVE  Ordered(Tail(s), a, b)
  <1> DEFINE r == Tail(s)
  <1>1. /\ Head(s) = s[1] /\ Len(s) \in Nat /\ Len(s) > 0 /\ DOMAIN s = 1 .. Len(s)
        /\ DOMAIN r = 1 .. Len(s) - 1 /\ \A i \in 1 .. Len(s) - 1 : r[i] = s[i + 1]
    BY TailFacts
  <1> HIDE DEF r
  <1>2. \A i \in DOMAIN r : r[i].type \in HandshakeType => a < Rank(r[i].type) /\ Rank(r[i].type) <= b
    BY <1>1 DEF Ordered
  <1>3. \A i, j \in DOMAIN r :
          i < j /\ r[i].type \in HandshakeType /\ r[j].type \in HandshakeType =>
            Rank(r[i].type) < Rank(r[j].type)
    <2> TAKE i, j \in DOMAIN r
    <2>1. /\ i + 1 \in DOMAIN s /\ j + 1 \in DOMAIN s /\ (i < j => i + 1 < j + 1)
          /\ r[i] = s[i + 1] /\ r[j] = s[j + 1]
      BY <1>1
    <2> QED BY <2>1 DEF Ordered
  <1>4. ASSUME NEW t \in HandshakeType, a < Rank(t), Rank(t) <= b
        PROVE  \E i \in DOMAIN r : r[i].type = t
    <2>1. PICK i \in DOMAIN s : s[i].type = t
      BY <1>4 DEF Ordered
    <2>2. i - 1 \in DOMAIN r /\ r[i - 1] = s[i]
      BY <2>1, <1>1
    <2> QED BY <2>1, <2>2
  <1> QED BY <1>2, <1>3, <1>4 DEF Ordered, r

(* The first handshake message is the next one to be taken. *)
LEMMA OrderedTailNext ==
  ASSUME NEW S, NEW s \in Seq(S), s # <<>>, NEW a \in Nat, NEW b \in Nat, b <= 4,
         Head(s).type \in HandshakeType, Ordered(s, a, b)
  PROVE  Rank(Head(s).type) = a + 1 /\ Ordered(Tail(s), a + 1, b)
  <1> DEFINE r == Tail(s)
  <1>1. /\ Head(s) = s[1] /\ Len(s) \in Nat /\ Len(s) > 0 /\ DOMAIN s = 1 .. Len(s)
        /\ DOMAIN r = 1 .. Len(s) - 1 /\ \A i \in 1 .. Len(s) - 1 : r[i] = s[i + 1]
    BY TailFacts
  <1> HIDE DEF r
  <1>2. \A t \in HandshakeType : Rank(t) \in Nat
    BY RankFacts
  <1>3. a < Rank(Head(s).type) /\ Rank(Head(s).type) <= b
    BY <1>1 DEF Ordered
  <1>4. PICK t \in HandshakeType : Rank(t) = a + 1
    <2>1. a + 1 \in 1 .. 4
      BY <1>3, <1>2
    <2> QED BY <2>1, RankFacts DEF HandshakeType
  <1>5. PICK k \in DOMAIN s : s[k].type = t
    BY <1>2, <1>3, <1>4 DEF Ordered
  <1>6. k = 1
    BY <1>1, <1>2, <1>3, <1>4, <1>5 DEF Ordered
  <1>7. Rank(Head(s).type) = a + 1
    BY <1>1, <1>4, <1>5, <1>6
  <1>8. \A i \in DOMAIN r : r[i].type \in HandshakeType =>
          a + 1 < Rank(r[i].type) /\ Rank(r[i].type) <= b
    <2> TAKE i \in DOMAIN r
    <2>1. /\ i + 1 \in DOMAIN s /\ 1 \in DOMAIN s /\ 1 < i + 1
          /\ r[i] = s[i + 1]
      BY <1>1
    <2> SUFFICES ASSUME r[i].type \in HandshakeType
                 PROVE  a + 1 < Rank(r[i].type) /\ Rank(r[i].type) <= b
      OBVIOUS
    <2>2. Rank(s[1].type) < Rank(s[i + 1].type) /\ Rank(s[i + 1].type) <= b
      BY <2>1, <1>1 DEF Ordered
    <2>3. Rank(s[1].type) = a + 1
      BY <1>1, <1>7
    <2> QED BY <2>1, <2>2, <2>3
  <1>9. \A i, j \in DOMAIN r :
          i < j /\ r[i].type \in HandshakeType /\ r[j].type \in HandshakeType =>
            Rank(r[i].type) < Rank(r[j].type)
    <2> TAKE i, j \in DOMAIN r
    <2>1. /\ i + 1 \in DOMAIN s /\ j + 1 \in DOMAIN s /\ (i < j => i + 1 < j + 1)
          /\ r[i] = s[i + 1] /\ r[j] = s[j + 1]
      BY <1>1
    <2> QED BY <2>1 DEF Ordered
  <1>10. ASSUME NEW u \in HandshakeType, a + 1 < Rank(u), Rank(u) <= b
         PROVE  \E i \in DOMAIN r : r[i].type = u
    <2>1. PICK i \in DOMAIN s : s[i].type = u
      BY <1>2, <1>10 DEF Ordered
    <2>2. i - 1 \in DOMAIN r /\ r[i - 1] = s[i]
      BY <2>1, <1>1, <1>7, <1>10
    <2> QED BY <2>1, <2>2
  <1> QED BY <1>2, <1>3, <1>7, <1>8, <1>9, <1>10 DEF Ordered, r

-----------------------------------------------------------------------------
(* Steps that concern the machine *)

(* How far the handshake is on each side is a small number. *)
LEMMA CountFacts == Taken \in 0 .. 4 /\ Said \in 0 .. 4
  BY DEF Taken, Said

(* Initially nothing was said. *)
LEMMA InitIInv == Init => IInv
  <1> SUFFICES ASSUME Init PROVE IInv
    OBVIOUS
  <1>1. Typed
    <2>1. setting \in Setting /\ toPeer \in Seq(Msg) /\ toUs \in Seq(Msg)
      BY DEF Init
    <2>2. network \in NetworkState /\ app_state \in ApplicationState /\ peer \in PeerState
      BY DEF Init, NetworkState, ApplicationState, PeerState
    <2>3. next_request_id \in Nat /\ garbled \in BOOLEAN
      BY DEF Init
    <2> QED BY <2>1, <2>2, <2>3 DEF Typed
  <1>2. toPeer = <<>> /\ toUs = <<>> /\ DOMAIN toPeer = {} /\ DOMAIN toUs = {}
    BY DEF Init
  <1>3. Quiet /\ Agreed /\ Behind /\ Computes
    BY <1>2 DEF Init, Quiet, Agreed, Behind, Computes, StateMatchesNetwork, Verified
  <1>4. InOrder
    <2>1. Taken = 0 /\ Said = 0
      BY DEF Init, Taken, Said
    <2>2. \A t \in HandshakeType : Rank(t) \in 1 .. 4
      BY RankFacts
    <2> QED BY <1>2, <2>1, <2>2 DEF InOrder, Ordered, Init
  <1> QED BY <1>1, <1>3, <1>4 DEF IInv

(* A step that only concerns replies, answers and ids keeps the invariant. *)
LEMMA NothingSaid ==
  ASSUME IInv, next_request_id' \in Nat,
         UNCHANGED <<setting, network, request, app_state, peer, running, toPeer, toUs, garbled>>
  PROVE  IInv'
  <1>1. Taken' = Taken /\ Said' = Said
    BY DEF Taken, Said
  <1>2. Typed' /\ Computes'
    BY DEF IInv, Typed, Computes
  <1>3. Quiet' /\ Agreed' /\ Behind'
    BY DEF IInv, Quiet, Agreed, Behind, StateMatchesNetwork
  <1>4. InOrder'
    BY <1>1 DEF IInv, InOrder, Ordered
  <1> QED BY <1>2, <1>3, <1>4 DEF IInv

(* A message of the user is sent behind the status of this machine. *)
LEMMA UserSends ==
  ASSUME IInv, next_request_id' \in Nat, network = "Authenticated",
         NEW m \in Msg, m.type \notin HandshakeType, toPeer' = Append(toPeer, m),
         UNCHANGED <<setting, network, request, app_state, peer, running, toUs, garbled>>
  PROVE  IInv'
  <1>1. Taken' = Taken /\ Said' = Said
    BY DEF Taken, Said
  <1>2. /\ toPeer' \in Seq(Msg) /\ Len(toPeer) \in Nat
        /\ DOMAIN toPeer = 1 .. Len(toPeer) /\ DOMAIN toPeer' = 1 .. Len(toPeer) + 1
        /\ toPeer'[Len(toPeer) + 1] = m /\ \A i \in 1 .. Len(toPeer) : toPeer'[i] = toPeer[i]
    BY AppendFacts DEF IInv, Typed
  <1>3. Typed' /\ Computes'
    BY <1>2 DEF IInv, Typed, Computes
  <1>4. Quiet' /\ Agreed'
    BY <1>2 DEF IInv, Quiet, Agreed, StateMatchesNetwork
  <1>5. Behind'
    <2>1. peer = "Authenticated" \/ \E j \in DOMAIN toPeer : toPeer[j].type = "AuthStatus"
      BY DEF IInv, Behind, Agreed, Verified
    <2>2. ASSUME NEW i \in DOMAIN toPeer', toPeer'[i].type \notin HandshakeType
          PROVE  peer' = "Authenticated"
                   \/ \E j \in DOMAIN toPeer' : j < i /\ toPeer'[j].type = "AuthStatus"
      <3>1. CASE i = Len(toPeer) + 1
        BY <2>1, <3>1, <1>2
      <3>2. CASE i \in DOMAIN toPeer
        BY <2>2, <3>2, <1>2 DEF IInv, Behind
      <3> QED BY <2>2, <3>1, <3>2, <1>2
    <2>3. peer' = "Authenticated" \/ \E j \in DOMAIN toPeer' : toPeer'[j].type = "AuthStatus"
      BY <2>1, <1>2
    <2> QED BY <2>2, <2>3 DEF Behind
  <1>6. InOrder'
    BY <1>1 DEF IInv, InOrder, Ordered
  <1> QED BY <1>3, <1>4, <1>5, <1>6 DEF IInv

(* What the user sends is no part of the handshake. *)
LEMMA UserTypes == \A type \in UserType : type \notin HandshakeType
  BY DEF UserType, HandshakeType

(* Every command keeps the invariant: it is refused or sends a message of  *)
(* the application.                                                        *)
LEMMA CommandStep == IInv /\ Command => IInv'
  <1> SUFFICES ASSUME IInv, Command PROVE IInv'
    OBVIOUS
  <1>1. next_request_id \in Nat /\ NextId(next_request_id) \in Nat
    BY DEF IInv, Typed, NextId
  <1>2. ASSUME NEW type \in UserType, NEW p \in Presentation \cup {None},
               SendRequest(type, p)
        PROVE  IInv'
    <2>1. Message(type, next_request_id, p, TRUE) \in Msg
             /\ Message(type, next_request_id, p, TRUE).type \notin HandshakeType
      BY <1>1, UserTypes DEF Message, Msg
    <2> QED BY <2>1, <1>1, <1>2, UserSends DEF SendRequest, SendData, IsAuthenticated, receiver
  <1>3. CASE \E p \in Presentation :
               StartPresentation(p) \/ TerminatePresentation(p) \/ OpenPresentationConnection(p)
    <2>1. PICK p \in Presentation :
            \/ SendRequest("PresentationStartRequest", p)
            \/ SendRequest("PresentationTerminationRequest", p)
            \/ SendRequest("PresentationConnectionOpenRequest", p)
      BY <1>3 DEF StartPresentation, TerminatePresentation, OpenPresentationConnection
    <2>2. p \in Presentation \cup {None}
      OBVIOUS
    <2> QED BY <1>2, <2>1, <2>2 DEF UserType
  <1>4. CASE CheckUrlAvailability \/ RequestAgentStatus \/ RequestAgentInfo
    <2>1. \/ SendRequest("PresentationUrlAvailabilityRequest", None)
          \/ SendRequest("AgentStatusRequest", None)
          \/ SendRequest("AgentInfoRequest", None)
      BY <1>4 DEF CheckUrlAvailability, RequestAgentStatus, RequestAgentInfo
    <2>2. None \in Presentation \cup {None}
      OBVIOUS
    <2> QED BY <1>2, <2>1, <2>2 DEF UserType
  <1>5. CASE TooManyUrls \/ EncodeFails \/ NotAuthenticated
    BY <1>1, <1>5, NothingSaid
       DEF TooManyUrls, EncodeFails, NotAuthenticated, receiver, machine
  <1>6. ASSUME NEW type \in UserType, IsAuthenticated,
               SendData(Message(type, 0, None, TRUE)),
               UNCHANGED <<setting, machine, waiting, receiver, toUs, garbled>>
        PROVE  IInv'
    <2>1. Message(type, 0, None, TRUE) \in Msg
             /\ Message(type, 0, None, TRUE).type \notin HandshakeType
      BY UserTypes DEF Message, Msg
    <2> QED BY <2>1, <1>1, <1>6, UserSends DEF SendData, IsAuthenticated, receiver, machine
  <1>7. CASE ClosePresentationConnection
    BY <1>6, <1>7 DEF ClosePresentationConnection, UserType
  <1>8. CASE \E fits \in BOOLEAN : SendPresentationMessage(fits)
    <2>1. PICK fits \in BOOLEAN : SendPresentationMessage(fits)
      BY <1>8
    <2>2. CASE fits
      BY <1>6, <2>1, <2>2 DEF SendPresentationMessage, UserType
    <2>3. CASE ~fits
      BY <1>1, <2>1, <2>3, NothingSaid DEF SendPresentationMessage, receiver, machine
    <2> QED BY <2>2, <2>3
  <1> QED BY <1>3, <1>4, <1>5, <1>7, <1>8 DEF Command

(* What taking the first message to us changes and leaves alone. *)
LEMMA TakenFromUs ==
  ASSUME IInv, toUs # <<>>, toUs' = Tail(toUs)
  PROVE  /\ toUs' \in Seq(Msg) /\ toUs \in Seq(Msg)
         /\ 1 \in DOMAIN toUs /\ Head(toUs) = toUs[1] /\ Head(toUs) \in Msg
         /\ \A i \in DOMAIN toUs' : i + 1 \in DOMAIN toUs /\ toUs'[i] = toUs[i + 1]
  BY TailFacts DEF IInv, Typed

(* A message of the application is taken.  It moves app_state, but only an *)
(* orderly receiver's has to answer a request.                             *)
LEMMA ApplicationMessageStep ==
  ASSUME IInv, CanReceive, IsApplicationMessage(Head(toUs)),
         HandleApplicationMessage(Head(toUs)), toUs' = Tail(toUs),
         UNCHANGED <<setting, receiver, garbled>>
  PROVE  IInv'
  <1> DEFINE m == Head(toUs)
  <1>1. /\ toUs' \in Seq(Msg) /\ toUs \in Seq(Msg)
        /\ 1 \in DOMAIN toUs /\ m = toUs[1] /\ m \in Msg
        /\ \A i \in DOMAIN toUs' : i + 1 \in DOMAIN toUs /\ toUs'[i] = toUs[i + 1]
    BY TakenFromUs DEF CanReceive
  <1>2. /\ UNCHANGED <<setting, peer, running, garbled, network, request, next_request_id, toPeer>>
        /\ app_state' = NextApplicationState(m)
    BY DEF HandleApplicationMessage, receiver
  <1>3. m.type \notin HandshakeType
    BY DEF IsApplicationMessage
  <1>4. Taken' = Taken /\ Said' = Said
    BY <1>2 DEF Taken, Said
  <1>5. \/ app_state' = app_state
        \/ app_state' \in {"Presenting", "Authenticated"} /\ m.type \in Moving
    BY <1>2 DEF NextApplicationState, Moving
  <1>6. Typed' /\ Computes'
    BY <1>1, <1>2, <1>5 DEF IInv, Typed, Computes, ApplicationState
  <1>7. setting.orderly /\ m.type \in Moving => network = "Authenticated"
    BY <1>1 DEF IInv, Quiet
  <1> HIDE DEF m
  <1>8. StateMatchesNetwork'
    BY <1>2, <1>5, <1>7 DEF IInv, Quiet, StateMatchesNetwork
  <1>9. Quiet' /\ Agreed' /\ Behind'
    BY <1>1, <1>2, <1>8 DEF IInv, Quiet, Agreed, Behind
  <1>10. InOrder'
    <2>1. Ordered(toUs, Taken, Said) => Ordered(Tail(toUs), Taken, Said)
      BY <1>1, <1>3, OrderedTailOther DEF CanReceive, m
    <2> QED BY <1>2, <1>4, <2>1 DEF IInv, InOrder
  <1> QED BY <1>6, <1>9, <1>10 DEF IInv

(* The state that waits for a message and its rank. *)
LEMMA AwaitedFacts ==
  /\ DOMAIN Awaited = {"AwaitingCapabilities", "AwaitingHandshake", "AwaitingConfirmation", "AwaitingStatus"}
  /\ DOMAIN Next1 = {"AwaitingCapabilities", "AwaitingHandshake", "AwaitingConfirmation"}
  /\ network \in DOMAIN Awaited => Rank(Awaited[network]) = Taken + 1 /\ Awaited[network] \in HandshakeType
  /\ network \in DOMAIN Next1 =>
       /\ Next1[network] = IF network = "AwaitingCapabilities" THEN "InitiatingHandshake" ELSE "Computing"
       /\ Request1[network] = CASE network = "AwaitingCapabilities" -> "Start"
                                [] network = "AwaitingHandshake" -> "FinishWithConfirmation"
                                [] OTHER -> "VerifyConfirmation"
  BY RankFacts DEF Awaited, Next1, Request1, Taken, HandshakeType

(* How the machine changes when it is handed a message. *)
LEMMA NetworkCases ==
  ASSUME NEW m, HandleNetworkData(m), m.type \in HandshakeType \cup {"Undecodable", "Cut"}, request = "none",
         network \in NetworkState
  PROVE  \/ /\ network \in DOMAIN Next1 /\ m.type = Awaited[network]
            /\ network' \in {"InitiatingHandshake", "Computing"} /\ Taken' = Taken + 1
            /\ request' = "Start" <=> network' = "InitiatingHandshake"
            /\ request' \in {"FinishWithConfirmation", "VerifyConfirmation"} <=> network' = "Computing"
            /\ request' \in {"none", "Start", "FinishWithConfirmation", "VerifyConfirmation"}
            /\ app_state' = app_state
         \/ /\ network = "AwaitingStatus" /\ m.type = "AuthStatus" /\ m.ok
            /\ network' = "Authenticated" /\ app_state' = "Authenticated" /\ request' = request
            /\ Taken' = Taken + 1
         \/ /\ network = "AwaitingStatus" /\ m.type = "AuthStatus"
            /\ network' = "Failed" /\ UNCHANGED <<app_state, request>> /\ Taken' = Taken + 1
         \/ /\ network = "Poisoned" \/ (network \in DOMAIN Awaited /\ m.type # Awaited[network])
            /\ network' = "Poisoned" /\ UNCHANGED <<app_state, request>>
         \/ /\ network \in {"Authenticated", "Failed"} /\ UNCHANGED <<network, app_state, request>>
            /\ Taken' = Taken
  <1>1. CASE NetworkProceeds(m)
    <2>1. /\ network \in DOMAIN Next1 /\ m.type = Awaited[network] /\ app_state' = app_state
          /\ network' = Next1[network] /\ request' = Request1[network]
      BY <1>1 DEF NetworkProceeds
    <2>2. CASE network = "AwaitingCapabilities"
      <3>1. network' = "InitiatingHandshake" /\ request' = "Start"
        BY <2>1, <2>2, AwaitedFacts
      <3>2. Taken' = Taken + 1
        BY <2>2, <3>1 DEF Taken
      <3> QED BY <2>1, <3>1, <3>2
    <2>3. CASE network = "AwaitingHandshake"
      <3>1. network' = "Computing" /\ request' = "FinishWithConfirmation"
        BY <2>1, <2>3, AwaitedFacts
      <3>2. Taken' = Taken + 1
        BY <2>3, <3>1 DEF Taken
      <3> QED BY <2>1, <3>1, <3>2
    <2>4. CASE network = "AwaitingConfirmation"
      <3>1. network' = "Computing" /\ request' = "VerifyConfirmation"
        BY <2>1, <2>4, AwaitedFacts
      <3>2. Taken' = Taken + 1
        BY <2>4, <3>1 DEF Taken
      <3> QED BY <2>1, <3>1, <3>2
    <2>5. network \in {"AwaitingCapabilities", "AwaitingHandshake", "AwaitingConfirmation"}
      BY <2>1, AwaitedFacts
    <2> QED BY <2>2, <2>3, <2>4, <2>5
  <1>2. CASE NetworkAuthenticated(m)
    BY <1>2 DEF NetworkAuthenticated, StatusOk, Taken
  <1>3. CASE NetworkFails(m)
    BY <1>3 DEF NetworkFails, Taken
  <1>4. CASE NetworkErrs(m)
    BY <1>4 DEF NetworkErrs
  <1>5. CASE NetworkIgnores
    BY <1>5 DEF NetworkIgnores, Taken
  <1> QED BY <1>1, <1>2, <1>3, <1>4, <1>5 DEF HandleNetworkData

(* What the machine is handed, the first message to us or what is left of  *)
(* it, keeps all parts of the invariant but the order.                     *)
LEMMA NetworkDataKeeps ==
  ASSUME IInv, CanReceive, NEW m, HandleNetworkData(m), m.type \in HandshakeType \cup {"Undecodable", "Cut"},
         m.type = "Cut" \/ m = Head(toUs), toUs' = Tail(toUs), garbled' \in BOOLEAN,
         UNCHANGED <<setting, receiver>>
  PROVE  Typed' /\ Quiet' /\ Agreed' /\ Behind' /\ Computes'
  <1>1. /\ toUs' \in Seq(Msg) /\ toUs \in Seq(Msg)
        /\ 1 \in DOMAIN toUs /\ Head(toUs) = toUs[1] /\ Head(toUs) \in Msg
        /\ \A i \in DOMAIN toUs' : i + 1 \in DOMAIN toUs /\ toUs'[i] = toUs[i + 1]
    BY TakenFromUs DEF CanReceive
  <1>2. UNCHANGED <<setting, peer, running, next_request_id, toPeer>>
    BY DEF HandleNetworkData, receiver
  <1>3. request = "none" /\ network \in NetworkState /\ network # "Panicked"
    BY DEF CanReceive, IInv, Typed
  <1>4. m.type = "AuthStatus" /\ m.ok => peer \in Verified
    BY <1>1 DEF IInv, Agreed
  <1>5. /\ network = "Authenticated" => network' = "Authenticated" /\ app_state' = app_state
        /\ network' = "Authenticated" => network \in {"AwaitingStatus", "Authenticated"} /\ peer \in Verified
        /\ network' = "AwaitingStatus" => network = "AwaitingStatus"
        /\ network' # "Authenticated" => network # "Authenticated" /\ app_state' = app_state
        /\ network' = "Authenticated" /\ network # "Authenticated" => app_state' = "Authenticated"
        /\ network' \in NetworkState /\ app_state' \in ApplicationState
    BY <1>3, <1>4, NetworkCases, AwaitedFacts
       DEF IInv, Agreed, Typed, NetworkState, ApplicationState
  <1>6. Typed'
    BY <1>1, <1>2, <1>5 DEF IInv, Typed
  <1>7. Computes'
    BY <1>3, NetworkCases, AwaitedFacts DEF IInv, Computes
  <1>8. StateMatchesNetwork'
    BY <1>5 DEF IInv, Quiet, StateMatchesNetwork
  <1>9. Quiet'
    BY <1>1, <1>2, <1>5, <1>8 DEF IInv, Quiet
  <1>10. Agreed'
    BY <1>1, <1>2, <1>5 DEF IInv, Agreed
  <1>11. Behind'
    BY <1>2, <1>5 DEF IInv, Behind
  <1> QED BY <1>6, <1>7, <1>9, <1>10, <1>11

(* Handshake messages are taken in their order, so the machine waits for   *)
(* the one it is handed.                                                   *)
LEMMA HandshakeMessageStep ==
  ASSUME IInv, CanReceive, Head(toUs).type \in HandshakeType,
         HandleNetworkData(Head(toUs)), toUs' = Tail(toUs),
         UNCHANGED <<setting, receiver, garbled>>
  PROVE  IInv'
  <1> DEFINE m == Head(toUs)
  <1>1. Typed' /\ Quiet' /\ Agreed' /\ Behind' /\ Computes'
    BY NetworkDataKeeps DEF IInv, Typed
  <1>2. ASSUME ~garbled PROVE network' # "Poisoned" /\ Ordered(toUs', Taken', Said')
    <2>1. toUs \in Seq(Msg) /\ toUs # <<>> /\ Taken \in Nat /\ Said \in Nat /\ Said <= 4
      BY CountFacts DEF IInv, Typed, CanReceive
    <2>2. network # "Poisoned" /\ Ordered(toUs, Taken, Said)
      BY <1>2 DEF IInv, InOrder, CanReceive
    <2>3. Rank(m.type) = Taken + 1 /\ Ordered(toUs', Taken + 1, Said)
      BY <2>1, <2>2, OrderedTailNext
    <2>4. network \in DOMAIN Awaited => m.type = Awaited[network]
      BY <2>3, RankFacts, AwaitedFacts
    <2>5. network \in {"Authenticated", "Failed"} => Taken = 4
      BY DEF Taken
    <2>6. network \notin {"Authenticated", "Failed"}
      BY <2>3, <2>5, RankFacts
    <2>7. Said' = Said
      BY DEF Said, receiver
    <2>8. network' # "Poisoned" /\ Taken' = Taken + 1
      BY <2>2, <2>4, <2>6, NetworkCases, AwaitedFacts DEF CanReceive, IInv, Typed
    <2> QED BY <2>3, <2>7, <2>8
  <1>3. InOrder'
    BY <1>2 DEF InOrder
  <1> QED BY <1>1, <1>3 DEF IInv

(* Data that is received keeps the invariant. *)
LEMMA DataStep == IInv /\ DataReceived => IInv'
  <1> SUFFICES ASSUME IInv, DataReceived PROVE IInv'
    OBVIOUS
  <1>1. Head(toUs) \in Msg
    BY TakenFromUs DEF DataReceived, CanReceive
  <1>2. CanReceive /\ toUs' = Tail(toUs) /\ UNCHANGED <<setting, receiver>> /\ garbled \in BOOLEAN
    BY DEF DataReceived, IInv, Typed
  <1>3. ASSUME Head(toUs).type # "Undecodable" PROVE garbled' = garbled
    BY <1>2, <1>3 DEF DataReceived
  <1>4. CASE IsApplicationMessage(Head(toUs))
    <2>1. garbled' = garbled
      BY <1>3, <1>4 DEF IsApplicationMessage
    <2> QED BY <1>2, <1>4, <2>1, ApplicationMessageStep DEF DataReceived, HandleDataReceived
  <1>5. CASE Head(toUs).type \in HandshakeType
    <2>1. garbled' = garbled /\ ~IsApplicationMessage(Head(toUs))
      BY <1>3, <1>5 DEF IsApplicationMessage, HandshakeType
    <2> QED BY <1>2, <1>5, <2>1, HandshakeMessageStep DEF DataReceived, HandleDataReceived
  <1>6. CASE Head(toUs).type = "Undecodable"
    <2>1. HandleNetworkData(Head(toUs))
      BY <1>6 DEF DataReceived, HandleDataReceived, IsApplicationMessage
    <2>2. garbled'
      BY <1>6 DEF DataReceived
    <2>3. garbled' \in BOOLEAN
      BY <1>2 DEF DataReceived
    <2>4. Typed' /\ Quiet' /\ Agreed' /\ Behind' /\ Computes'
      BY <1>2, <1>6, <2>1, <2>3, NetworkDataKeeps
    <2> QED BY <2>2, <2>4 DEF IInv, InOrder
  <1>7. Head(toUs).type # "Cut"
    BY <1>1 DEF Msg, HandshakeType, UserType, PeerType, Unasked
  <1> QED BY <1>4, <1>5, <1>6, <1>7 DEF IsApplicationMessage

(* So does a stream that breaks off. *)
LEMMA CutStep == IInv /\ CutReceived => IInv'
  <1> SUFFICES ASSUME IInv, CutReceived PROVE IInv'
    OBVIOUS
  <1> DEFINE m == Message("Cut", 0, None, FALSE)
  <1>1. m.type = "Cut" /\ ~IsApplicationMessage(m)
    BY DEF Message, IsApplicationMessage
  <1>2. CanReceive /\ HandleNetworkData(m) /\ toUs' = Tail(toUs) /\ garbled' = TRUE
          /\ UNCHANGED <<setting, receiver>>
    BY <1>1 DEF CutReceived, HandleDataReceived
  <1> HIDE DEF m
  <1>3. Typed' /\ Quiet' /\ Agreed' /\ Behind' /\ Computes'
    BY <1>1, <1>2, NetworkDataKeeps
  <1>4. InOrder'
    BY <1>2 DEF InOrder
  <1> QED BY <1>3, <1>4 DEF IInv

(* A handshake message of ours goes out only if the transport carries it. *)
LEMMA CarriedFacts ==
  ASSUME IInv, NEW type \in HandshakeType, Carried(type)
  PROVE  /\ toPeer' \in Seq(Msg) /\ DOMAIN toPeer \subseteq DOMAIN toPeer'
         /\ \A i \in DOMAIN toPeer : toPeer'[i] = toPeer[i]
         /\ \A i \in DOMAIN toPeer' : i \in DOMAIN toPeer \/ (setting.carries /\ toPeer'[i].type = type)
         /\ setting.carries => \E i \in DOMAIN toPeer' : toPeer'[i].type = type
  <1>1. Auth(type) \in Msg /\ Auth(type).type = type
    BY DEF Auth, Message, Msg
  <1>2. toPeer \in Seq(Msg)
    BY DEF IInv, Typed
  <1>3. CASE setting.carries
    <2>1. toPeer' = Append(toPeer, Auth(type))
      BY <1>3 DEF Carried
    <2>2. /\ toPeer' \in Seq(Msg) /\ Len(toPeer) \in Nat
          /\ DOMAIN toPeer = 1 .. Len(toPeer) /\ DOMAIN toPeer' = 1 .. Len(toPeer) + 1
          /\ toPeer'[Len(toPeer) + 1] = Auth(type) /\ \A i \in 1 .. Len(toPeer) : toPeer'[i] = toPeer[i]
      BY <1>1, <1>2, <2>1, AppendFacts
    <2> QED BY <1>1, <1>3, <2>2
  <1>4. CASE ~setting.carries
    BY <1>2, <1>4 DEF Carried
  <1> QED BY <1>3, <1>4

(* A step of the handshake that sends a message, before authentication.    *)
LEMMA CarriedStep ==
  ASSUME IInv, NEW type \in HandshakeType, Carried(type),
         network # "Authenticated", network' \in NetworkState \ {"Authenticated", "Poisoned", "Panicked"},
         network # "AwaitingStatus", network # "Panicked",
         network' = "AwaitingStatus" => type = "AuthStatus", Taken' = Taken,
         request' = "none", network' \notin {"InitiatingHandshake", "Computing"},
         UNCHANGED <<setting, app_state, next_request_id, receiver, toUs, garbled>>
  PROVE  IInv'
  <1>1. /\ toPeer' \in Seq(Msg) /\ DOMAIN toPeer \subseteq DOMAIN toPeer'
        /\ \A i \in DOMAIN toPeer : toPeer'[i] = toPeer[i]
        /\ \A i \in DOMAIN toPeer' : i \in DOMAIN toPeer \/ (setting.carries /\ toPeer'[i].type = type)
        /\ setting.carries => \E i \in DOMAIN toPeer' : toPeer'[i].type = type
    BY CarriedFacts
  <1>2. UNCHANGED <<peer, running>> /\ Said' = Said
    BY DEF receiver, Said
  <1>3. Typed' /\ Computes'
    BY <1>1, <1>2 DEF IInv, Typed, Computes
  <1>4. Quiet'
    BY <1>1, <1>2 DEF IInv, Quiet, StateMatchesNetwork
  <1>5. Agreed'
    BY <1>1, <1>2 DEF IInv, Agreed
  <1>6. Behind'
    BY <1>1, <1>2 DEF IInv, Behind, Quiet
  <1>7. InOrder'
    BY <1>2 DEF IInv, InOrder, Ordered
  <1> QED BY <1>3, <1>4, <1>5, <1>6, <1>7 DEF IInv

(* Connecting keeps the invariant. *)
LEMMA ConnectStep == IInv /\ TransportConnected => IInv'
  <1> SUFFICES ASSUME IInv, TransportConnected PROVE IInv'
    OBVIOUS
  <1>1. network' = "AwaitingCapabilities" /\ network = "Idle" /\ request' = request
    BY DEF TransportConnected
  <1>2. request' = "none"
    BY <1>1 DEF IInv, Computes
  <1>3. Taken' = Taken
    BY <1>1 DEF Taken
  <1>4. "AuthCapabilities" \in HandshakeType /\ network' \in NetworkState
    BY <1>1 DEF HandshakeType, NetworkState
  <1> QED BY <1>1, <1>2, <1>3, <1>4, CarriedStep DEF TransportConnected

(* The results of the crypto provider keep it. *)
LEMMA CryptoStep == IInv /\ CryptoCompleted => IInv'
  <1> SUFFICES ASSUME IInv, CryptoCompleted PROVE IInv'
    OBVIOUS
  <1>1. /\ network # "Panicked" /\ request' = "none"
        /\ UNCHANGED <<setting, app_state, next_request_id, receiver, toUs, garbled>>
    BY DEF CryptoCompleted
  <1>2. CASE request = "Start" /\ network' = "AwaitingHandshake" /\ Carried("AuthSpake2Handshake")
    <2>1. network = "InitiatingHandshake"
      BY <1>1, <1>2 DEF IInv, Computes
    <2>2. Taken' = Taken
      BY <1>2, <2>1 DEF Taken
    <2>3. "AuthSpake2Handshake" \in HandshakeType /\ network' \in NetworkState
      BY <1>2 DEF HandshakeType, NetworkState
    <2> QED BY <1>1, <1>2, <2>1, <2>2, <2>3, CarriedStep
  <1>3. CASE request = "FinishWithConfirmation" /\ network' = "AwaitingConfirmation"
               /\ Carried("AuthSpake2Confirmation")
    <2>1. network = "Computing"
      BY <1>1, <1>3 DEF IInv, Computes
    <2>2. Taken' = Taken
      BY <1>3, <2>1 DEF Taken
    <2>3. "AuthSpake2Confirmation" \in HandshakeType /\ network' \in NetworkState
      BY <1>3 DEF HandshakeType, NetworkState
    <2> QED BY <1>1, <1>3, <2>1, <2>2, <2>3, CarriedStep
  <1>4. CASE request = "VerifyConfirmation" /\ network' = "AwaitingStatus" /\ Carried("AuthStatus")
    <2>1. network = "Computing"
      BY <1>1, <1>4 DEF IInv, Computes
    <2>2. Taken' = Taken
      BY <1>4, <2>1 DEF Taken
    <2>3. "AuthStatus" \in HandshakeType /\ network' \in NetworkState
      BY <1>4 DEF HandshakeType, NetworkState
    <2> QED BY <1>1, <1>4, <2>1, <2>2, <2>3, CarriedStep
  <1> QED BY <1>2, <1>3, <1>4 DEF CryptoCompleted

(* A stream that is reported stops the machine or leaves it alone. *)
LEMMA StreamStep == IInv /\ StreamReported => IInv'
  <1> SUFFICES ASSUME IInv, StreamReported PROVE IInv'
    OBVIOUS
  <1>1. UNCHANGED <<setting, next_request_id, peer, running, toPeer, toUs, garbled>>
    BY DEF StreamReported, receiver
  <1>2. CASE UNCHANGED <<network, request, app_state>>
    BY <1>1, <1>2, NothingSaid DEF IInv, Typed
  <1>3. CASE /\ network \notin {"Authenticated", "Failed", "Poisoned"}
             /\ network' = "Panicked" /\ UNCHANGED <<request, app_state>>
    <2>1. Typed' /\ Computes' /\ InOrder'
      BY <1>1, <1>3 DEF IInv, Typed, Computes, InOrder, NetworkState
    <2>2. Quiet' /\ Agreed' /\ Behind'
      BY <1>1, <1>3 DEF IInv, Quiet, Agreed, Behind, StateMatchesNetwork
    <2> QED BY <2>1, <2>2 DEF IInv
  <1> QED BY <1>2, <1>3 DEF StreamReported, NetworkIgnores

-----------------------------------------------------------------------------
(* Steps of the receiver *)

(* It connects and says the first message. *)
LEMMA PeerConnectedStep == IInv /\ PeerConnected => IInv'
  <1> SUFFICES ASSUME IInv, PeerConnected PROVE IInv'
    OBVIOUS
  <1> DEFINE e == Auth("AuthCapabilities")
  <1>1. e \in Msg /\ e.type = "AuthCapabilities" /\ e.type \in HandshakeType
    BY DEF Auth, Message, Msg, HandshakeType
  <1>2. /\ UNCHANGED <<setting, network, request, app_state, next_request_id, running, toPeer, garbled>>
        /\ peer = "Idle" /\ peer' = "AwaitingCapabilities" /\ toUs' = Append(toUs, e)
    BY DEF PeerConnected, machine
  <1> HIDE DEF e
  <1>3. toUs \in Seq(Msg)
    BY DEF IInv, Typed
  <1>4. /\ toUs' \in Seq(Msg) /\ Len(toUs) \in Nat
        /\ DOMAIN toUs = 1 .. Len(toUs) /\ DOMAIN toUs' = 1 .. Len(toUs) + 1
        /\ toUs'[Len(toUs) + 1] = e /\ \A i \in 1 .. Len(toUs) : toUs'[i] = toUs[i]
    BY <1>1, <1>2, <1>3, AppendFacts
  <1>5. Typed' /\ Computes'
    BY <1>2, <1>4 DEF IInv, Typed, Computes, PeerState
  <1>6. Quiet' /\ Agreed' /\ Behind'
    BY <1>1, <1>2, <1>4 DEF IInv, Quiet, Agreed, Behind, StateMatchesNetwork, Moving, Verified
  <1>7. InOrder'
    <2>1. Taken' = Taken /\ Said = 0 /\ Said' = Said + 1
      BY <1>2 DEF Taken, Said
    <2>2. Taken \in Nat /\ Said \in Nat
      BY CountFacts
    <2>3. Ordered(toUs, Taken, Said) => Ordered(toUs', Taken, Said + 1)
      BY <1>1, <1>2, <1>3, <2>1, <2>2, RankFacts, OrderedAppendNext
    <2> QED BY <1>2, <2>1, <2>3 DEF IInv, InOrder
  <1> QED BY <1>5, <1>6, <1>7 DEF IInv

(* What taking the first message to the receiver changes and leaves alone. *)
LEMMA TakenFromPeer ==
  ASSUME IInv, toPeer # <<>>, toPeer' = Tail(toPeer)
  PROVE  /\ toPeer' \in Seq(Msg) /\ toPeer \in Seq(Msg)
         /\ 1 \in DOMAIN toPeer /\ Head(toPeer) = toPeer[1] /\ Head(toPeer) \in Msg
         /\ \A i \in DOMAIN toPeer' : i + 1 \in DOMAIN toPeer /\ toPeer'[i] = toPeer[i + 1]
         /\ \A i \in DOMAIN toPeer : i = 1 \/ (i - 1 \in DOMAIN toPeer' /\ toPeer'[i - 1] = toPeer[i])
         /\ \A i \in DOMAIN toPeer : i \in Nat
         /\ \A i \in DOMAIN toPeer' : i \in Nat
  BY TailFacts DEF IInv, Typed

(* Our status is not taken by a receiver that stays in the handshake. *)
LEMMA BehindStep ==
  ASSUME IInv, toPeer # <<>>, toPeer' = Tail(toPeer), UNCHANGED <<setting, network>>,
         peer \in {"Authenticated", "Failed"} => peer' = peer,
         peer \notin {"Authenticated", "Failed"} /\ Head(toPeer).type = "AuthStatus" => peer' = "Authenticated"
  PROVE  Behind'
  <1>1. /\ 1 \in DOMAIN toPeer /\ Head(toPeer) = toPeer[1]
        /\ \A i \in DOMAIN toPeer' : i + 1 \in DOMAIN toPeer /\ toPeer'[i] = toPeer[i + 1]
        /\ \A i \in DOMAIN toPeer : i = 1 \/ (i - 1 \in DOMAIN toPeer' /\ toPeer'[i - 1] = toPeer[i])
        /\ \A i \in DOMAIN toPeer : i \in Nat
        /\ \A i \in DOMAIN toPeer' : i \in Nat
    BY TakenFromPeer
  <1>2. ASSUME network' \in {"AwaitingStatus", "Authenticated"}, setting'.carries
        PROVE  peer' \in {"Authenticated", "Failed"} \/ \E i \in DOMAIN toPeer' : toPeer'[i].type = "AuthStatus"
    <2>1. CASE peer \in {"Authenticated", "Failed"}
      BY <2>1
    <2>2. CASE peer \notin {"Authenticated", "Failed"}
      <3>1. PICK i \in DOMAIN toPeer : toPeer[i].type = "AuthStatus"
        BY <1>2, <2>2 DEF IInv, Behind
      <3> QED BY <1>1, <2>2, <3>1
    <2> QED BY <2>1, <2>2
  <1>3. ASSUME NEW i \in DOMAIN toPeer', toPeer'[i].type \notin HandshakeType
        PROVE  peer' = "Authenticated" \/ \E j \in DOMAIN toPeer' : j < i /\ toPeer'[j].type = "AuthStatus"
    <2>1. i + 1 \in DOMAIN toPeer /\ toPeer'[i] = toPeer[i + 1] /\ i \in Nat
      BY <1>1
    <2>2. network = "Authenticated" /\ peer \in Verified
      BY <2>1, <1>3 DEF IInv, Quiet, Agreed
    <2>3. CASE peer = "Authenticated"
      BY <2>3
    <2>4. CASE peer # "Authenticated"
      <3>1. PICK j \in DOMAIN toPeer : j < i + 1 /\ toPeer[j].type = "AuthStatus"
        BY <2>1, <2>4, <1>3 DEF IInv, Behind
      <3>2. CASE j = 1
        BY <3>1, <3>2, <1>1, <2>2, <2>4 DEF Verified
      <3>3. CASE j # 1
        <4>1. j - 1 \in DOMAIN toPeer' /\ toPeer'[j - 1] = toPeer[j] /\ j \in Nat
          BY <3>3, <1>1
        <4>2. j - 1 < i
          BY <4>1, <3>1, <2>1
        <4> QED BY <4>1, <4>2, <3>1
      <3> QED BY <3>2, <3>3
    <2> QED BY <2>3, <2>4
  <1> QED BY <1>2, <1>3 DEF Behind

(* One message or two more: what is not new was there before. *)
LEMMA GrowsByOne ==
  ASSUME NEW s \in Seq(Msg), NEW e \in Msg
  PROVE  /\ Append(s, e) \in Seq(Msg)
         /\ \A i \in DOMAIN Append(s, e) : (i \in DOMAIN s /\ Append(s, e)[i] = s[i]) \/ Append(s, e)[i] = e
  BY AppendFacts

LEMMA GrowsByTwo ==
  ASSUME NEW s \in Seq(Msg), NEW d \in Msg, NEW e \in Msg
  PROVE  LET r == s \o <<d, e>>
         IN  /\ r \in Seq(Msg)
             /\ \A i \in DOMAIN r : (i \in DOMAIN s /\ r[i] = s[i]) \/ r[i] = d \/ r[i] = e
  <1> DEFINE q == Append(s, d)
  <1> DEFINE r == Append(q, e)
  <1>1. q \in Seq(Msg) /\ \A i \in DOMAIN q : (i \in DOMAIN s /\ q[i] = s[i]) \/ q[i] = d
    BY GrowsByOne
  <1> HIDE DEF q
  <1>2. r \in Seq(Msg) /\ \A i \in DOMAIN r : (i \in DOMAIN q /\ r[i] = q[i]) \/ r[i] = e
    BY <1>1, GrowsByOne
  <1>3. s \o <<d, e>> = r
    BY TwoAppended DEF q, r
  <1> HIDE DEF r
  <1> QED BY <1>1, <1>2, <1>3

Old(i) == i \in DOMAIN toUs /\ toUs'[i] = toUs[i]

(* What a handshake message does at the receiver: it says what is next in  *)
(* the exchange, and success only when it has verified us.                 *)
LEMMA PeerHandshakeCases ==
  ASSUME IInv, NEW m \in Msg, PeerHandshake(m), UNCHANGED <<setting, network, request>>
  PROVE  /\ toUs' \in Seq(Msg) /\ peer' \in PeerState
         /\ \A i \in DOMAIN toUs' : Old(i) \/
              /\ toUs'[i].type \in HandshakeType
              /\ toUs'[i].type = "AuthStatus" /\ toUs'[i].ok => peer' \in Verified
         /\ Ordered(toUs, Taken, Said) => Ordered(toUs', Taken, Said')
         /\ m.type \in HandshakeType \/ (peer = "Failed" /\ peer' = peer)
         /\ peer # "Authenticated" /\ (peer = "Failed" => peer' = peer)
         /\ peer # "Failed" /\ m.type = "AuthStatus" => peer' = "Authenticated"
         /\ peer' \in Verified => peer \in Verified \/ setting.shares
         /\ peer \in Verified => peer' \in Verified
  <1> DEFINE Goal == /\ toUs' \in Seq(Msg)
                     /\ \A i \in DOMAIN toUs' : Old(i) \/
                          /\ toUs'[i].type \in HandshakeType
                          /\ toUs'[i].type = "AuthStatus" /\ toUs'[i].ok => peer' \in Verified
                     /\ Ordered(toUs, Taken, Said) => Ordered(toUs', Taken, Said')
  <1>1. toUs \in Seq(Msg) /\ Taken \in Nat /\ Said \in Nat
    BY CountFacts DEF IInv, Typed
  <1>2. ASSUME NEW type \in HandshakeType PROVE Auth(type) \in Msg /\ Auth(type).type = type
    BY DEF Auth, Message, Msg
  <1>3. CASE peer = "AwaitingCapabilities" /\ m.type = "AuthCapabilities"
               /\ peer' = "AwaitingHandshake" /\ UNCHANGED toUs
    <2>1. Said' = Said
      BY <1>3 DEF Said
    <2>2. Goal
      BY <1>1, <1>3, <2>1 DEF Old
    <2> QED BY <1>3, <2>2 DEF HandshakeType, PeerState, Verified
  <1>4. CASE /\ peer = "AwaitingHandshake" /\ m.type = "AuthSpake2Handshake"
             /\ peer' = "AwaitingConfirmation"
             /\ toUs' = toUs \o <<Auth("AuthSpake2Handshake"), Auth("AuthSpake2Confirmation")>>
    <2> DEFINE d == Auth("AuthSpake2Handshake")
               e == Auth("AuthSpake2Confirmation")
    <2>1. d \in Msg /\ d.type = "AuthSpake2Handshake" /\ d.type \in HandshakeType
      BY <1>2 DEF HandshakeType
    <2>2. e \in Msg /\ e.type = "AuthSpake2Confirmation" /\ e.type \in HandshakeType
      BY <1>2 DEF HandshakeType
    <2>3. Said = 1 /\ Said' = 3
      BY <1>4 DEF Said
    <2>4. toUs' = toUs \o <<d, e>>
      BY <1>4
    <2> HIDE DEF d, e
    <2>5. toUs' \in Seq(Msg) /\ \A i \in DOMAIN toUs' : Old(i) \/ toUs'[i] = d \/ toUs'[i] = e
      BY <1>1, <2>1, <2>2, <2>4, GrowsByTwo DEF Old
    <2>6. ASSUME Ordered(toUs, Taken, 1) PROVE Ordered(toUs', Taken, 3)
      <3>1. Ordered(Append(toUs, d), Taken, 2)
        <4>1. Rank(d.type) = 1 + 1 /\ 1 \in Nat
          BY <2>1, RankFacts
        <4>2. Ordered(Append(toUs, d), Taken, 1 + 1)
          BY <1>1, <2>1, <2>6, <4>1, OrderedAppendNext
        <4>3. 1 + 1 = 2
          OBVIOUS
        <4> QED BY <4>2, <4>3
      <3>2. Append(toUs, d) \in Seq(Msg)
        BY <1>1, <2>1, GrowsByOne
      <3>3. Ordered(Append(Append(toUs, d), e), Taken, 3)
        <4>1. Rank(e.type) = 2 + 1 /\ 2 \in Nat
          BY <2>2, RankFacts
        <4>2. Ordered(Append(Append(toUs, d), e), Taken, 2 + 1)
          BY <1>1, <2>2, <3>1, <3>2, <4>1, OrderedAppendNext
        <4>3. 2 + 1 = 3
          OBVIOUS
        <4> QED BY <4>2, <4>3
      <3>4. toUs \o <<d, e>> = Append(Append(toUs, d), e)
        BY <1>1, <2>1, <2>2, TwoAppended
      <3>5. toUs' = Append(Append(toUs, d), e)
        BY <2>4, <3>4
      <3> QED BY ONLY <3>3, <3>5
    <2>7. Goal
      BY <2>1, <2>2, <2>3, <2>5, <2>6
    <2> QED BY <1>4, <2>7 DEF HandshakeType, PeerState, Verified
  <1>5. ASSUME NEW e \in Msg, e.type = "AuthStatus", e.ok => peer' \in Verified,
               peer = "AwaitingConfirmation", peer' \in {"AwaitingStatus", "Failed"},
               toUs' = Append(toUs, e)
        PROVE  Goal
    <2>1. Said = 3 /\ Said' = 4
      BY <1>5 DEF Said
    <2>2. Rank(e.type) = 3 + 1 /\ e.type \in HandshakeType /\ 3 \in Nat
      BY <1>5, RankFacts DEF HandshakeType
    <2>3. Ordered(toUs, Taken, 3) => Ordered(toUs', Taken, 3 + 1)
      BY <1>1, <1>5, <2>2, OrderedAppendNext
    <2>4. toUs' \in Seq(Msg) /\ \A i \in DOMAIN toUs' : Old(i) \/ toUs'[i] = e
      BY <1>1, <1>5, GrowsByOne DEF Old
    <2>5. 3 + 1 = 4
      OBVIOUS
    <2> QED BY <1>5, <2>1, <2>2, <2>3, <2>4, <2>5
  <1>6. CASE /\ peer = "AwaitingConfirmation" /\ m.type = "AuthSpake2Confirmation" /\ setting.shares
             /\ peer' = "AwaitingStatus" /\ toUs' = Append(toUs, Auth("AuthStatus"))
    <2>1. Auth("AuthStatus") \in Msg /\ Auth("AuthStatus").type = "AuthStatus"
      BY <1>2 DEF HandshakeType
    <2>2. Goal
      BY <1>5, <1>6, <2>1 DEF Verified
    <2> QED BY <1>6, <2>2 DEF HandshakeType, PeerState, Verified
  <1>7. CASE /\ peer = "AwaitingConfirmation" /\ m.type = "AuthSpake2Confirmation"
             /\ peer' = "Failed" /\ toUs' = Append(toUs, Message("AuthStatus", 0, None, FALSE))
    <2> DEFINE e == Message("AuthStatus", 0, None, FALSE)
    <2>1. e \in Msg /\ e.type = "AuthStatus" /\ ~e.ok
      BY DEF Message, Msg, HandshakeType
    <2>2. toUs' = Append(toUs, e)
      BY <1>7
    <2> HIDE DEF e
    <2>3. Goal
      BY <1>5, <1>7, <2>1, <2>2
    <2> QED BY <1>7, <2>3 DEF HandshakeType, PeerState, Verified
  <1>8. CASE peer = "AwaitingStatus" /\ m.type = "AuthStatus" /\ peer' = "Authenticated" /\ UNCHANGED toUs
    <2>1. Said' = Said
      BY <1>8 DEF Said
    <2>2. Goal
      BY <1>1, <1>8, <2>1 DEF Old
    <2> QED BY <1>8, <2>2 DEF HandshakeType, PeerState, Verified
  <1>9. CASE peer = "Failed" /\ UNCHANGED <<peer, toUs>>
    <2>1. Said' = Said
      BY <1>9 DEF Said
    <2>2. Goal
      BY <1>1, <1>9, <2>1 DEF Old
    <2> QED BY <1>9, <2>2 DEF PeerState, Verified
  <1> QED BY <1>3, <1>4, <1>6, <1>7, <1>8, <1>9 DEF PeerHandshake

(* A handshake message at the receiver keeps the invariant. *)
LEMMA PeerHandshakeStep ==
  ASSUME IInv, toPeer # <<>>, PeerHandshake(Head(toPeer)), toPeer' = Tail(toPeer),
         UNCHANGED <<setting, machine, garbled>>
  PROVE  IInv'
  <1> DEFINE m == Head(toPeer)
  <1>1. /\ toPeer' \in Seq(Msg) /\ 1 \in DOMAIN toPeer /\ m = toPeer[1] /\ m \in Msg
        /\ \A i \in DOMAIN toPeer' : i + 1 \in DOMAIN toPeer /\ toPeer'[i] = toPeer[i + 1]
    BY TakenFromPeer
  <1>2. UNCHANGED <<setting, network, request, app_state, next_request_id, running, garbled>>
    BY DEF machine, PeerHandshake
  <1>3. /\ toUs' \in Seq(Msg) /\ peer' \in PeerState
        /\ \A i \in DOMAIN toUs' : Old(i) \/
             /\ toUs'[i].type \in HandshakeType
             /\ toUs'[i].type = "AuthStatus" /\ toUs'[i].ok => peer' \in Verified
        /\ Ordered(toUs, Taken, Said) => Ordered(toUs', Taken, Said')
        /\ m.type \in HandshakeType \/ (peer = "Failed" /\ peer' = peer)
        /\ peer # "Authenticated" /\ (peer = "Failed" => peer' = peer)
        /\ peer # "Failed" /\ m.type = "AuthStatus" => peer' = "Authenticated"
        /\ peer' \in Verified => peer \in Verified \/ setting.shares
        /\ peer \in Verified => peer' \in Verified
    BY <1>1, <1>2, PeerHandshakeCases
  <1> HIDE DEF m
  <1>4. Typed' /\ Computes'
    BY <1>1, <1>2, <1>3 DEF IInv, Typed, Computes
  <1>5. \A i \in DOMAIN toUs' : toUs'[i].type \in Moving => Old(i)
    BY <1>3 DEF Moving, HandshakeType
  <1>6. Quiet'
    BY <1>1, <1>2, <1>5 DEF IInv, Quiet, StateMatchesNetwork, Old
  <1>7. setting.carries \/ peer' = peer
    BY <1>1, <1>3 DEF IInv, Agreed
  <1>8. Agreed'
    BY <1>1, <1>2, <1>3, <1>7 DEF IInv, Agreed, Old
  <1>9. Behind'
    BY <1>2, <1>3, BehindStep DEF m
  <1>10. InOrder'
    <2>1. Taken' = Taken
      BY <1>2 DEF Taken
    <2> QED BY <1>2, <1>3, <2>1 DEF IInv, InOrder
  <1> QED BY <1>4, <1>6, <1>8, <1>9, <1>10 DEF IInv

(* What an authenticated receiver says is no part of the handshake, and it *)
(* answers requests only when they were made.                              *)
LEMMA PeerSays ==
  ASSUME IInv, NEW d \in Msg, NEW e \in Msg,
         d.type \notin HandshakeType, e.type \notin HandshakeType,
         setting.orderly /\ (d.type \in Moving \/ e.type \in Moving) => network = "Authenticated",
         running' # {} => network = "Authenticated",
         toUs' \in {toUs, Append(toUs, d), toUs \o <<d, e>>},
         toPeer' \in Seq(Msg), Behind',
         \A i \in DOMAIN toPeer' : \E j \in DOMAIN toPeer : toPeer'[i] = toPeer[j],
         UNCHANGED <<setting, machine, peer, garbled>>
  PROVE  IInv'
  <1>1. toUs \in Seq(Msg)
    BY DEF IInv, Typed
  <1>2. toUs' \in Seq(Msg) /\ \A i \in DOMAIN toUs' : Old(i) \/ toUs'[i] = d \/ toUs'[i] = e
    <2>1. CASE toUs' = toUs
      BY <1>1, <2>1 DEF Old
    <2>2. CASE toUs' = Append(toUs, d)
      BY <1>1, <2>2, GrowsByOne DEF Old
    <2>3. CASE toUs' = toUs \o <<d, e>>
      BY <1>1, <2>3, GrowsByTwo DEF Old
    <2> QED BY <2>1, <2>2, <2>3
  <1>3. UNCHANGED <<network, request, app_state, next_request_id>>
    BY DEF machine
  <1>4. Typed' /\ Computes'
    BY <1>2, <1>3 DEF IInv, Typed, Computes
  <1>5. Quiet'
    BY <1>2, <1>3 DEF IInv, Quiet, StateMatchesNetwork, Old
  <1>6. Agreed'
    <2>1. d.type # "AuthStatus" /\ e.type # "AuthStatus"
      BY DEF HandshakeType
    <2> QED BY <1>2, <1>3, <2>1 DEF IInv, Agreed, Old
  <1>7. InOrder'
    <2>1. Taken' = Taken /\ Said' = Said
      BY <1>3 DEF Taken, Said
    <2>2. ASSUME Ordered(toUs, Taken, Said) PROVE Ordered(toUs', Taken, Said)
      <3>1. CASE toUs' = toUs
        BY <2>2, <3>1
      <3>2. Ordered(Append(toUs, d), Taken, Said) /\ Append(toUs, d) \in Seq(Msg)
        BY <1>1, <2>2, OrderedAppendOther, GrowsByOne
      <3>3. CASE toUs' = Append(toUs, d)
        BY <3>2, <3>3
      <3>4. Ordered(Append(Append(toUs, d), e), Taken, Said)
        BY <3>2, OrderedAppendOther
      <3>5. toUs \o <<d, e>> = Append(Append(toUs, d), e)
        BY <1>1, TwoAppended
      <3>6. CASE toUs' = toUs \o <<d, e>>
        <4>1. toUs' = Append(Append(toUs, d), e)
          BY <3>5, <3>6
        <4> QED BY ONLY <3>4, <4>1
      <3> QED BY <3>1, <3>3, <3>6
    <2> QED BY <1>3, <2>1, <2>2 DEF IInv, InOrder
  <1> QED BY <1>4, <1>5, <1>6, <1>7 DEF IInv

(* The types of what the receiver says, apart from the handshake. *)
LEMMA PeerTypes ==
  /\ \A type \in PeerType : type \notin HandshakeType
  /\ \A type \in DOMAIN Response : Response[type] \in PeerType \ Moving
  /\ DOMAIN Response \cap HandshakeType = {}
  BY DEF PeerType, Unasked, HandshakeType, Response, Moving

(* So is what we cannot decode. *)
LEMMA UndecodableFacts ==
  /\ Undecodable \in Msg /\ Undecodable.type = "Undecodable"
  /\ "Undecodable" \notin HandshakeType \cup Moving
  BY DEF Undecodable, Message, Msg, PeerType, Unasked, HandshakeType, Moving

(* Its answers keep the invariant. *)
LEMMA PeerAnswersStep ==
  ASSUME IInv, toPeer # <<>>, PeerAnswers(Head(toPeer)), toPeer' = Tail(toPeer),
         UNCHANGED <<setting, machine, garbled>>
  PROVE  IInv'
  <1> DEFINE m == Head(toPeer)
  <1>1. /\ toPeer' \in Seq(Msg) /\ 1 \in DOMAIN toPeer /\ m = toPeer[1] /\ m \in Msg
        /\ \A i \in DOMAIN toPeer' : i + 1 \in DOMAIN toPeer /\ toPeer'[i] = toPeer[i + 1]
    BY TakenFromPeer
  <1>2. \A i \in DOMAIN toPeer' : \E j \in DOMAIN toPeer : toPeer'[i] = toPeer[j]
    BY <1>1
  <1>3. peer = "Authenticated" /\ UNCHANGED peer /\ UNCHANGED network
    BY DEF PeerAnswers, machine
  <1>4. Behind'
    BY <1>3, BehindStep
  <1>5. m.type \notin HandshakeType
    BY PeerTypes DEF PeerAnswers, HandshakeType
  <1>6. network = "Authenticated"
    BY <1>1, <1>5 DEF IInv, Quiet
  <1>7. m.id \in Nat /\ m.presentation \in Presentation \cup {None}
    BY <1>1 DEF Msg
  <1>8. ASSUME NEW type \in PeerType, NEW n \in Nat, NEW ok \in BOOLEAN
        PROVE  /\ Message(type, n, m.presentation, ok) \in Msg
               /\ Message(type, n, m.presentation, ok).type \notin HandshakeType
    BY <1>7, PeerTypes DEF Message, Msg
  <1>9. \E d, e \in Msg : /\ d.type \notin HandshakeType /\ e.type \notin HandshakeType
                          /\ toUs' \in {toUs, Append(toUs, d), toUs \o <<d, e>>}
    <2>1. /\ "PresentationStartResponse" \in PeerType /\ "PresentationTerminationResponse" \in PeerType
          /\ "PresentationTerminationEvent" \in PeerType
      BY DEF PeerType
    <2> HIDE DEF m
    <2>2. CASE \E ok \in BOOLEAN :
                 toUs' = Append(toUs, Message("PresentationStartResponse", m.id, m.presentation, ok))
      BY <2>2, <1>7, <1>8, <2>1
    <2>7. CASE toUs' = Append(toUs, Undecodable)
      BY <2>7, UndecodableFacts
    <2>3. CASE \E ok \in BOOLEAN :
                 toUs' = Append(toUs, Message("PresentationTerminationResponse", m.id, m.presentation, ok))
      BY <2>3, <1>7, <1>8, <2>1
    <2>4. CASE toUs' = toUs \o << Message("PresentationTerminationResponse", m.id, m.presentation, TRUE),
                                  Message("PresentationTerminationEvent", 0, m.presentation, TRUE) >>
      BY <2>4, <1>7, <1>8, <2>1
    <2>5. CASE /\ m.type \in DOMAIN Response
               /\ \E ok \in BOOLEAN : toUs' = Append(toUs, Message(Response[m.type], m.id, m.presentation, ok))
      BY <2>5, <1>7, <1>8, PeerTypes
    <2>6. CASE toUs' = toUs
      BY <2>6, <1>1, <1>5
    <2> QED BY <2>2, <2>3, <2>4, <2>5, <2>6, <2>7 DEF PeerAnswers, m
  <1> HIDE DEF m
  <1> QED BY <1>1, <1>2, <1>3, <1>4, <1>6, <1>9, PeerSays

(* So does what it tells unasked, and the end of a presentation. *)
LEMMA PeerTellsStep ==
  ASSUME IInv,
         (\E p \in Presentation : PeerTerminates(p)) \/ \E type \in Unasked \cup Moving, ok \in BOOLEAN : PeerTells(type, ok)
  PROVE  IInv'
  <1>1. /\ UNCHANGED <<setting, machine, peer, toPeer, garbled>> /\ network' = network
        /\ toPeer \in Seq(Msg)
    BY DEF PeerTerminates, PeerTells, IInv, Typed, receiver, machine
  <1>2. Behind'
    BY <1>1 DEF IInv, Behind
  <1>3. CASE \E p \in Presentation : PeerTerminates(p)
    <2>1. PICK p \in Presentation : PeerTerminates(p)
      BY <1>3
    <2> DEFINE d == Message("PresentationTerminationEvent", 0, p, TRUE)
    <2>2. d \in Msg /\ d.type \notin HandshakeType
      BY DEF Message, Msg, PeerType, HandshakeType
    <2>3. network = "Authenticated"
      BY <2>1 DEF PeerTerminates, IInv, Quiet
    <2>4. toUs' = Append(toUs, d)
      BY <2>1 DEF PeerTerminates
    <2> HIDE DEF d
    <2> QED BY <1>1, <1>2, <2>2, <2>3, <2>4, PeerSays
  <1>4. CASE \E type \in Unasked \cup Moving, ok \in BOOLEAN : PeerTells(type, ok)
    <2>1. PICK type \in Unasked \cup Moving, ok \in BOOLEAN : PeerTells(type, ok)
      BY <1>4
    <2> DEFINE d == Message(type, 0, None, ok)
    <2>2. d \in Msg /\ d.type = type
      BY DEF Message, Msg, PeerType, Moving
    <2>3. type \notin HandshakeType /\ (setting.orderly => type \notin Moving)
      BY <2>1 DEF PeerTells, Unasked, HandshakeType, Moving
    <2>4. toUs' = Append(toUs, d) /\ running' = running
      BY <2>1 DEF PeerTells, receiver
    <2>5. running' # {} => network = "Authenticated"
      BY <2>4 DEF IInv, Quiet
    <2> HIDE DEF d
    <2> QED BY <1>1, <1>2, <2>2, <2>3, <2>4, <2>5, PeerSays
  <1> QED BY <1>3, <1>4

-----------------------------------------------------------------------------
(* The theorems *)

(* Every step keeps the invariant. *)
LEMMA NextIInv == IInv /\ [Next]_vars => IInv'
  <1> SUFFICES ASSUME IInv, [Next]_vars PROVE IInv'
    OBVIOUS
  <1>1. CASE Tick \/ UNCHANGED vars
    BY <1>1, NothingSaid DEF Tick, vars, machine, receiver, IInv, Typed
  <1>2. CASE Command
    BY <1>2, CommandStep
  <1>3. CASE TransportConnected \/ DataReceived \/ CutReceived \/ CryptoCompleted \/ StreamReported
    BY <1>3, ConnectStep, DataStep, CutStep, CryptoStep, StreamStep
  <1>4. CASE PeerConnected
    BY <1>4, PeerConnectedStep
  <1>5. CASE PeerReceives
    <2>1. toPeer # <<>> /\ toPeer' = Tail(toPeer) /\ UNCHANGED <<setting, machine, garbled>>
      BY <1>5 DEF PeerReceives
    <2>2. PeerHandshake(Head(toPeer)) \/ PeerAnswers(Head(toPeer))
      BY <1>5 DEF PeerReceives
    <2> QED BY <2>1, <2>2, PeerHandshakeStep, PeerAnswersStep
  <1>6. CASE (\E p \in Presentation : PeerTerminates(p))
               \/ \E type \in Unasked \cup Moving, ok \in BOOLEAN : PeerTells(type, ok)
    BY <1>6, PeerTellsStep
  <1> QED BY <1>1, <1>2, <1>3, <1>4, <1>5, <1>6 DEF Next, Peer

(* The invariant holds in every state the machine, its driver, its user    *)
(* and the receiver can reach together.                                    *)
THEOREM Invariance == Spec => []IInv
  BY InitIInv, NextIInv, PTL DEF Spec

(* application_state() never says less than is_authenticated(), whatever   *)
(* the receiver tells and whenever; with an orderly one it says the same:  *)
(* what moves app_state then answers a request, which only an              *)
(* authenticated machine sends, or ends what such a request has started.   *)
THEOREM StatesAgree == Spec => []StateMatchesNetwork
  <1>1. IInv => StateMatchesNetwork
    BY DEF IInv, Quiet
  <1> QED BY <1>1, Invariance, PTL

(* The machine that ApplicationStateMachine owns is authenticated only     *)
(* with a receiver that has verified it, and only if a transport carries   *)
(* the handshake messages that handle_network_event drops.                 *)
THEOREM MutualAgreement == Spec => []AuthenticatedByBoth
  <1>1. IInv => AuthenticatedByBoth
    BY DEF IInv, Agreed, Verified, AuthenticatedByBoth
  <1> QED BY <1>1, Invariance, PTL

(* What the user asks for never overtakes the handshake at the receiver.   *)
THEOREM HandshakeFirst == Spec => []CommandsAfterHandshake
  <1>1. ASSUME IInv, toPeer # <<>>, Head(toPeer).type \notin HandshakeType
        PROVE  peer = "Authenticated"
    <2>1. Head(toPeer) = toPeer[1] /\ DOMAIN toPeer = 1 .. Len(toPeer) /\ Len(toPeer) \in Nat
            /\ Len(toPeer) > 0
      BY <1>1, TailFacts DEF IInv, Typed
    <2>2. 1 \in DOMAIN toPeer
      BY <2>1
    <2>3. peer = "Authenticated" \/ \E j \in DOMAIN toPeer : j < 1 /\ toPeer[j].type = "AuthStatus"
      BY <1>1, <2>1, <2>2 DEF IInv, Behind
    <2> QED BY <2>1, <2>3
  <1>2. IInv => CommandsAfterHandshake
    BY <1>1 DEF CommandsAfterHandshake
  <1> QED BY <1>2, Invariance, PTL

(* Unless a stream breaks off or brings what no decoder takes, nothing     *)
(* that is received poisons the handshake machine, however messages of the *)
(* application mix with it.                                                *)
THEOREM Undisturbed == Spec => []HandshakeUndisturbed
  <1>1. IInv => HandshakeUndisturbed
    BY DEF IInv, InOrder, HandshakeUndisturbed
  <1> QED BY <1>1, Invariance, PTL
-----------------------------------------------------------------------------
(* Types *)

CryptoName == {"none", "Start", "FinishWithConfirmation", "VerifyConfirmation"}

StartsNamed(s) ==
  \A i \in DOMAIN s : s[i].type = "PresentationStartRequest" => s[i].presentation \in Presentation

Named ==
  /\ request \in CryptoName /\ waiting \in Nat /\ running \subseteq Presentation
  /\ StartsNamed(toPeer)

(* A message more, or the first one less, leaves the others as they are. *)
LEMMA NamedAppend ==
  ASSUME NEW s \in Seq(Msg), StartsNamed(s), NEW m \in Msg,
         m.type = "PresentationStartRequest" => m.presentation \in Presentation
  PROVE  StartsNamed(Append(s, m))
  <1>1. /\ Len(s) \in Nat /\ DOMAIN s = 1 .. Len(s)
        /\ DOMAIN Append(s, m) = 1 .. Len(s) + 1
        /\ Append(s, m)[Len(s) + 1] = m
        /\ \A i \in 1 .. Len(s) : Append(s, m)[i] = s[i]
    BY AppendFacts
  <1> QED BY <1>1 DEF StartsNamed

LEMMA NamedTail ==
  ASSUME NEW s \in Seq(Msg), StartsNamed(s), s # <<>>
  PROVE  /\ StartsNamed(Tail(s))
         /\ Head(s).type = "PresentationStartRequest" => Head(s).presentation \in Presentation
  <1>1. /\ Head(s) = s[1] /\ Len(s) \in Nat /\ Len(s) > 0 /\ DOMAIN s = 1 .. Len(s)
        /\ DOMAIN Tail(s) = 1 .. Len(s) - 1
        /\ \A i \in 1 .. Len(s) - 1 : Tail(s)[i] = s[i + 1]
    BY TailFacts
  <1> QED BY <1>1 DEF StartsNamed

(* Commands: only StartPresentation sends the request that names a         *)
(* presentation to be run.                                                 *)
LEMMA NamedCommand == IInv /\ Named /\ Command => Named'
  <1> SUFFICES ASSUME IInv, Named, Command PROVE Named'
    OBVIOUS
  <1>0. toPeer \in Seq(Msg) /\ next_request_id \in Nat
    BY DEF IInv, Typed
  <1>k. ASSUME NEW type \in UserType, NEW id \in Nat, NEW p \in Presentation \cup {None},
               toPeer' = Append(toPeer, Message(type, id, p, TRUE)),
               type = "PresentationStartRequest" => p \in Presentation
        PROVE  StartsNamed(toPeer)'
    <2>1. Message(type, id, p, TRUE) \in Msg /\ Message(type, id, p, TRUE).type = type
            /\ Message(type, id, p, TRUE).presentation = p
      BY DEF Message, Msg
    <2>2. StartsNamed(Append(toPeer, Message(type, id, p, TRUE)))
      BY <1>0, <1>k, <2>1, NamedAppend DEF Named
    <2> QED BY <1>k, <2>2
  <1>1. ASSUME NEW p \in Presentation, StartPresentation(p) PROVE Named'
    <2>1. StartsNamed(toPeer)'
      BY <1>0, <1>1, <1>k DEF StartPresentation, SendRequest, SendData, UserType
    <2> QED BY <1>1, <2>1 DEF StartPresentation, SendRequest, receiver, Named
  <1>2. ASSUME NEW p \in Presentation, TerminatePresentation(p) \/ OpenPresentationConnection(p)
        PROVE  Named'
    <2>1. StartsNamed(toPeer)'
      BY <1>0, <1>2, <1>k
         DEF TerminatePresentation, OpenPresentationConnection, SendRequest, SendData, UserType
    <2> QED BY <1>2, <2>1
            DEF TerminatePresentation, OpenPresentationConnection, SendRequest, receiver, Named
  <1>3. CASE CheckUrlAvailability \/ RequestAgentStatus \/ RequestAgentInfo
    <2>1. StartsNamed(toPeer)'
      BY <1>0, <1>3, <1>k
         DEF CheckUrlAvailability, RequestAgentStatus, RequestAgentInfo, SendRequest, SendData, UserType
    <2> QED BY <1>3, <2>1
            DEF CheckUrlAvailability, RequestAgentStatus, RequestAgentInfo, SendRequest, receiver, Named
  <1>4. CASE TooManyUrls \/ EncodeFails \/ NotAuthenticated
    BY <1>4 DEF TooManyUrls, EncodeFails, NotAuthenticated, receiver, machine, Named
  <1>5. CASE ClosePresentationConnection \/ \E fits \in BOOLEAN : SendPresentationMessage(fits)
    <2>1. UNCHANGED <<request, waiting, running>>
      BY <1>5 DEF ClosePresentationConnection, SendPresentationMessage, receiver, machine
    <2>2. StartsNamed(toPeer)'
      <3>1. CASE UNCHANGED toPeer
        BY <3>1 DEF Named
      <3>2. CASE ~UNCHANGED toPeer
        BY <1>5, <1>k, <3>2
           DEF ClosePresentationConnection, SendPresentationMessage, SendData, UserType
      <3> QED BY <3>1, <3>2
    <2> QED BY <2>1, <2>2 DEF Named
  <1> QED BY <1>1, <1>2, <1>3, <1>4, <1>5 DEF Command

(* What the driver feeds, and the messages it carries. *)
LEMMA NamedDriver ==
  ASSUME IInv, Named,
         TransportConnected \/ DataReceived \/ CutReceived \/ CryptoCompleted \/ StreamReported \/ Tick
  PROVE  Named'
  <1>0. toPeer \in Seq(Msg)
    BY DEF IInv, Typed
  <1>k. ASSUME NEW type \in HandshakeType, Carried(type) PROVE StartsNamed(toPeer)'
    <2>1. Auth(type) \in Msg /\ Auth(type).type = type
      BY DEF Auth, Message, Msg
    <2>2. StartsNamed(Append(toPeer, Auth(type)))
      BY <1>0, <2>1, NamedAppend DEF Named, HandshakeType
    <2> QED BY <1>k, <2>2 DEF Carried, Named
  <1>1. CASE TransportConnected
    <2>1. StartsNamed(toPeer)'
      BY <1>1, <1>k DEF TransportConnected, HandshakeType
    <2> QED BY <1>1, <2>1 DEF TransportConnected, receiver, Named
  <1>2. CASE CryptoCompleted
    <2>1. StartsNamed(toPeer)'
      BY <1>2, <1>k DEF CryptoCompleted, HandshakeType
    <2> QED BY <1>2, <2>1 DEF CryptoCompleted, receiver, Named, CryptoName
  <1>3. CASE DataReceived \/ CutReceived
    <2>1. PICK m : HandleDataReceived(m) /\ UNCHANGED running
      BY <1>3 DEF DataReceived, CutReceived, receiver
    <2>2. CASE HandleApplicationMessage(m)
      BY <2>1, <2>2 DEF HandleApplicationMessage, Named
    <2>3. CASE HandleNetworkData(m)
      <3>1. request' \in CryptoName
        BY <2>3 DEF HandleNetworkData, NetworkProceeds, NetworkAuthenticated, NetworkFails,
                    NetworkErrs, NetworkIgnores, Next1, Request1, Named, CryptoName
      <3> QED BY <2>1, <2>3, <3>1 DEF HandleNetworkData, Named
    <2> QED BY <2>1, <2>2, <2>3 DEF HandleDataReceived
  <1>4. CASE StreamReported \/ Tick
    BY <1>4 DEF StreamReported, NetworkIgnores, Tick, receiver, machine, Named
  <1> QED BY <1>1, <1>2, <1>3, <1>4

(* What the receiver does. *)
LEMMA NamedPeer == IInv /\ Named /\ Peer => Named'
  <1> SUFFICES ASSUME IInv, Named, Peer PROVE Named'
    OBVIOUS
  <1>1. CASE PeerReceives
    <2>1. toPeer \in Seq(Msg) /\ toPeer # <<>> /\ UNCHANGED <<request, waiting>>
      BY <1>1 DEF PeerReceives, machine, IInv, Typed
    <2>2. /\ StartsNamed(Tail(toPeer))
          /\ Head(toPeer).type = "PresentationStartRequest" => Head(toPeer).presentation \in Presentation
      BY <2>1, NamedTail DEF Named
    <2>3. running' \subseteq Presentation
      BY <1>1, <2>2 DEF PeerReceives, PeerHandshake, PeerAnswers, Named
    <2>4. toPeer' = Tail(toPeer)
      BY <1>1 DEF PeerReceives
    <2> QED BY <2>1, <2>2, <2>3, <2>4 DEF Named
  <1>2. CASE PeerConnected \/ \E type \in Unasked \cup Moving, ok \in BOOLEAN : PeerTells(type, ok)
    BY <1>2 DEF PeerConnected, PeerTells, receiver, machine, Named
  <1>3. CASE \E p \in Presentation : PeerTerminates(p)
    BY <1>3 DEF PeerTerminates, machine, Named
  <1> QED BY <1>1, <1>2, <1>3 DEF Peer

(* The variables keep their types; the receiver runs nothing but           *)
(* presentations the user has asked for by name.                           *)
THEOREM TypeCorrect == Spec => []TypeOK
  <1>1. Init => Named
    BY DEF Init, Named, CryptoName, StartsNamed
  <1>2. IInv /\ Named /\ [Next]_vars => Named'
    <2>1. Named /\ UNCHANGED vars => Named'
      BY DEF vars, machine, receiver, Named
    <2> QED BY <2>1, NamedCommand, NamedDriver, NamedPeer DEF Next
  <1>3. IInv /\ Named => TypeOK
    BY DEF IInv, Typed, Named, CryptoName, TypeOK
  <1> QED BY <1>1, <1>2, <1>3, Invariance, PTL DEF Spec
-----------------------------------------------------------------------------
(* The course of a presentation.  Each of its three messages, the request, *)
(* the answer and the termination, is on its way at most once; the request *)
(* and the answer never together, the request never with the termination,  *)
(* and the answer goes before the termination.  So whether one is on its   *)
(* way is a bit, and app_state, waiting and what the receiver runs are     *)
(* functions of those bits.  It is an invariant next to IInv for a user    *)
(* who is careful.                                                         *)

StartRequest == "PresentationStartRequest"

StartResponse == "PresentationStartResponse"

Termination == "PresentationTerminationEvent"

Holds(s, type) == \E i \in DOMAIN s : s[i].type = type

Grants(s) == \E i \in DOMAIN s : s[i].type = StartResponse /\ s[i].ok

AtMostOne(s, type) ==
  \A i, j \in DOMAIN s : s[i].type = type /\ s[j].type = type => i = j

\* a termination comes behind the answer to the request it ends
News(s) ==
  /\ AtMostOne(s, StartResponse) /\ AtMostOne(s, Termination)
  /\ \A i, j \in DOMAIN s : s[i].type = StartResponse /\ s[j].type = Termination => i < j

Asked == Holds(toPeer, StartRequest)

Answered == Holds(toUs, StartResponse)

Ended == Holds(toUs, Termination)

\* what app_state will say once the answer has arrived
Presents == app_state = "Presenting" \/ Grants(toUs)

Course ==
  /\ AtMostOne(toPeer, StartRequest) /\ News(toUs)
  /\ Asked => ~Answered /\ ~Ended
  /\ waiting = (IF Asked \/ Answered THEN 1 ELSE 0)
  /\ Asked \/ Answered => app_state = "Authenticated"
  /\ (running # {}) = (Presents /\ ~Ended)
  /\ Ended => Presents
  /\ \A p, q \in running : p = q

Counted == {StartRequest, StartResponse, Termination}

\* r tells of starts and terminations what s does
Alike(s, r) ==
  /\ \A type \in Counted : Holds(r, type) <=> Holds(s, type)
  /\ \A type \in Counted : AtMostOne(s, type) => AtMostOne(r, type)
  /\ Grants(r) <=> Grants(s)
  /\ News(s) => News(r)

(* What one message more, and the first one less, make of a sequence. *)
LEMMA HoldsMore ==
  ASSUME NEW s \in Seq(Msg), NEW m \in Msg
  PROVE  LET r == Append(s, m)
         IN  /\ \A type : Holds(r, type) <=> Holds(s, type) \/ m.type = type
             /\ \A type : AtMostOne(s, type) /\ ~(m.type = type /\ Holds(s, type)) => AtMostOne(r, type)
             /\ Grants(r) <=> Grants(s) \/ (m.type = StartResponse /\ m.ok)
             /\ /\ News(s) /\ (m.type = Termination => ~Holds(s, Termination))
                /\ m.type = StartResponse => ~Holds(s, StartResponse) /\ ~Holds(s, Termination)
                => News(r)
  <1> DEFINE r == Append(s, m)
  <1>1. /\ Len(s) \in Nat /\ DOMAIN s = 1 .. Len(s) /\ DOMAIN r = 1 .. Len(s) + 1
        /\ r[Len(s) + 1] = m /\ \A i \in 1 .. Len(s) : r[i] = s[i]
    BY AppendFacts
  <1> HIDE DEF r
  <1>2. \A type : Holds(r, type) <=> (Holds(s, type) \/ m.type = type)
    BY <1>1 DEF Holds
  <1>3. \A type : AtMostOne(s, type) /\ ~(m.type = type /\ Holds(s, type)) => AtMostOne(r, type)
    BY <1>1 DEF AtMostOne, Holds
  <1>4. Grants(r) <=> (Grants(s) \/ (m.type = StartResponse /\ m.ok))
    BY <1>1 DEF Grants
  <1>5. ASSUME News(s), m.type = Termination => ~Holds(s, Termination),
               m.type = StartResponse => ~Holds(s, StartResponse) /\ ~Holds(s, Termination)
        PROVE  News(r)
    <2>1. AtMostOne(r, StartResponse) /\ AtMostOne(r, Termination)
      BY <1>3, <1>5 DEF News
    <2>2. ASSUME NEW i \in DOMAIN r, NEW j \in DOMAIN r, r[i].type = StartResponse, r[j].type = Termination
          PROVE  i < j
      <3>1. StartResponse # Termination
        BY DEF StartResponse, Termination
      <3>2. CASE i \in DOMAIN s /\ j \in DOMAIN s
        BY <3>2, <2>2, <1>1, <1>5 DEF News
      <3>3. CASE i \in DOMAIN s /\ j = Len(s) + 1
        BY <3>3, <1>1
      <3>4. CASE i = Len(s) + 1 /\ j \in DOMAIN s
        BY <3>4, <2>2, <1>1, <1>5 DEF Holds
      <3> QED BY <3>1, <3>2, <3>3, <3>4, <2>2, <1>1
    <2> QED BY <2>1, <2>2 DEF News
  <1> QED BY <1>2, <1>3, <1>4, <1>5, Zenon DEF r

LEMMA HoldsLess ==
  ASSUME NEW s \in Seq(Msg), s # <<>>
  PROVE  LET r == Tail(s) m == Head(s)
         IN  /\ m \in Msg /\ Holds(s, m.type)
             /\ \A type : m.type # type => (Holds(r, type) <=> Holds(s, type))
             /\ \A type : AtMostOne(s, type) => AtMostOne(r, type) /\ (m.type = type => ~Holds(r, type))
             /\ m.type # StartResponse => (Grants(r) <=> Grants(s))
             /\ m.type = StartResponse /\ News(s) => (Grants(s) <=> m.ok) /\ ~Grants(r)
             /\ m.type = Termination /\ News(s) => ~Holds(s, StartResponse)
             /\ News(s) => News(r)
  <1> DEFINE r == Tail(s)
  <1> DEFINE m == Head(s)
  <1>1. /\ m \in Msg /\ m = s[1] /\ Len(s) \in Nat /\ Len(s) > 0 /\ DOMAIN s = 1 .. Len(s)
        /\ DOMAIN r = 1 .. Len(s) - 1 /\ \A i \in 1 .. Len(s) - 1 : r[i] = s[i + 1]
    BY TailFacts
  <1> HIDE DEF r, m
  <1>2. /\ 1 \in DOMAIN s
        /\ \A i \in DOMAIN r : i + 1 \in DOMAIN s /\ i + 1 # 1 /\ r[i] = s[i + 1]
        /\ \A i \in DOMAIN s : i # 1 => i - 1 \in DOMAIN r /\ r[i - 1] = s[i]
    BY <1>1
  <1>3. /\ Holds(s, m.type)
        /\ \A type : m.type # type => (Holds(r, type) <=> Holds(s, type))
    <2>1. Holds(s, m.type)
      BY <1>1, <1>2 DEF Holds
    <2>2. ASSUME NEW type, m.type # type, Holds(r, type) PROVE Holds(s, type)
      BY <2>2, <1>2 DEF Holds
    <2>3. ASSUME NEW type, m.type # type, Holds(s, type) PROVE Holds(r, type)
      <3>1. PICK i \in DOMAIN s : s[i].type = type
        BY <2>3 DEF Holds
      <3>2. i - 1 \in DOMAIN r /\ r[i - 1] = s[i]
        BY <3>1, <2>3, <1>1, <1>2
      <3> QED BY <3>1, <3>2 DEF Holds
    <2> QED BY <2>1, <2>2, <2>3
  <1>4. \A type : AtMostOne(s, type) => AtMostOne(r, type) /\ (m.type = type => ~Holds(r, type))
    <2> TAKE type
    <2> SUFFICES ASSUME AtMostOne(s, type) PROVE AtMostOne(r, type) /\ (m.type = type => ~Holds(r, type))
      OBVIOUS
    <2>1. ASSUME NEW i \in DOMAIN r, NEW j \in DOMAIN r, r[i].type = type, r[j].type = type
          PROVE  i = j
      <3>1. i + 1 = j + 1
        BY <2>1, <1>2 DEF AtMostOne
      <3> QED BY <3>1, <1>1
    <2>2. m.type = type => ~Holds(r, type)
      BY <1>1, <1>2 DEF AtMostOne, Holds
    <2> QED BY <2>1, <2>2 DEF AtMostOne
  <1>5. m.type # StartResponse => (Grants(r) <=> Grants(s))
    BY <1>1, <1>2 DEF Grants
  <1>6. m.type = StartResponse /\ News(s) => (Grants(s) <=> m.ok) /\ ~Grants(r)
    BY <1>1, <1>2 DEF Grants, News, AtMostOne
  <1>7. m.type = Termination /\ News(s) => ~Holds(s, StartResponse)
    <2> SUFFICES ASSUME m.type = Termination, News(s), NEW i \in DOMAIN s, s[i].type = StartResponse
                 PROVE  FALSE
      BY DEF Holds
    <2>1. i < 1
      BY <1>1, <1>2 DEF News
    <2> QED BY <2>1, <1>1
  <1>8. News(s) => News(r)
    <2> SUFFICES ASSUME News(s) PROVE News(r)
      OBVIOUS
    <2>1. ASSUME NEW i \in DOMAIN r, NEW j \in DOMAIN r, r[i].type = StartResponse, r[j].type = Termination
          PROVE  i < j
      <3>1. i + 1 < j + 1
        BY <2>1, <1>2 DEF News
      <3> QED BY <3>1, <1>1
    <2> QED BY <2>1, <1>4 DEF News
  <1> QED BY <1>1, <1>3, <1>4, <1>5, <1>6, <1>7, <1>8, Zenon DEF r, m

(* Other messages do not matter. *)
LEMMA AlikeMore ==
  ASSUME NEW s \in Seq(Msg), NEW m \in Msg, m.type \notin Counted
  PROVE  Alike(s, Append(s, m))
  BY HoldsMore DEF Alike, Counted

LEMMA AlikeLess ==
  ASSUME NEW s \in Seq(Msg), s # <<>>, Head(s).type \notin Counted
  PROVE  Alike(s, Tail(s))
  BY HoldsLess DEF Alike, Counted

(* A step that says and takes nothing that matters keeps the course. *)
LEMMA CourseKept ==
  ASSUME Course, Alike(toPeer, toPeer'), Alike(toUs, toUs'), UNCHANGED <<running, waiting>>,
         app_state' = app_state \/ (app_state = "Idle" /\ app_state' = "Authenticated")
  PROVE  Course'
  <1>1. /\ (Asked' <=> Asked) /\ (Answered' <=> Answered) /\ (Ended' <=> Ended)
        /\ Grants(toUs') <=> Grants(toUs)
        /\ AtMostOne(toPeer', StartRequest) /\ News(toUs')
    BY DEF Asked, Answered, Ended, Alike, Counted, Course
  <1>2. Presents' <=> Presents
    BY <1>1 DEF Presents
  <1> QED BY <1>1, <1>2 DEF Course


(* Nothing said is alike, too. *)
LEMMA AlikeSame == \A s : Alike(s, s)
  BY DEF Alike

(* Where no message is, none grants a start. *)
LEMMA GrantsHolds == \A s : Grants(s) => Holds(s, StartResponse)
  BY DEF Grants, Holds

(* Of the user's messages only the start request counts. *)
LEMMA CountedTypes ==
  /\ \A type \in UserType : type \in Counted => type = StartRequest
  /\ \A type \in HandshakeType \cup Unasked : type \notin Counted
  /\ \A type \in DOMAIN Response : Response[type] \in PeerType /\ Response[type] \notin Counted
  /\ "PresentationTerminationResponse" \notin Counted
  /\ StartRequest # StartResponse /\ StartRequest # Termination /\ StartResponse # Termination
  /\ StartResponse \in PeerType /\ Termination \in PeerType /\ StartRequest \in UserType
  BY DEF UserType, HandshakeType, Unasked, Counted, StartRequest, StartResponse, Termination, Response, PeerType

(* A careful user asks for a presentation when none is there or about to   *)
(* be.                                                                     *)
LEMMA CourseCommand ==
  ASSUME IInv, Careful, Course, Command
  PROVE  Course'
  <1>0. toPeer \in Seq(Msg) /\ next_request_id \in Nat
    BY DEF IInv, Typed
  <1>k. ASSUME NEW type \in UserType, NEW id \in Nat, NEW p \in Presentation \cup {None},
               toPeer' = Append(toPeer, Message(type, id, p, TRUE)), type # StartRequest
        PROVE  Alike(toPeer, toPeer')
    <2>1. Message(type, id, p, TRUE) \in Msg /\ Message(type, id, p, TRUE).type = type
      BY DEF Message, Msg
    <2>2. type \notin Counted
      BY <1>k, CountedTypes
    <2> QED BY <1>0, <1>k, <2>1, <2>2, AlikeMore
  <1>s. Alike(toUs, toUs)
    BY AlikeSame
  <1>1. ASSUME NEW p \in Presentation, StartPresentation(p) PROVE Course'
    <2> DEFINE m == Message(StartRequest, next_request_id, p, TRUE)
    <2>1. m \in Msg /\ m.type = StartRequest
      BY <1>0 DEF Message, Msg, StartRequest, UserType
    <2>2. /\ app_state = "Authenticated" /\ waiting = 0 /\ waiting' = waiting + 1
          /\ UNCHANGED <<app_state, running, toUs>>
      BY <1>1 DEF StartPresentation, SendRequest, receiver, Careful
    <2>3. toPeer' = Append(toPeer, m)
      BY <1>1 DEF StartPresentation, SendRequest, SendData, StartRequest
    <2>4. ~Asked /\ ~Answered
      BY <2>2 DEF Course
    <2> HIDE DEF m
    <2>5. ~Presents /\ ~Ended /\ running = {}
      BY <2>2, <2>4, GrantsHolds DEF Course, Presents, Answered
    <2>6. Asked' /\ AtMostOne(toPeer, StartRequest)'
      BY <1>0, <2>1, <2>3, <2>4, HoldsMore DEF Asked, Course
    <2>7. ~Answered' /\ ~Ended' /\ ~Presents' /\ News(toUs)'
      BY <2>2, <2>4, <2>5 DEF Answered, Ended, Presents, Course
    <2> QED BY <2>2, <2>5, <2>6, <2>7 DEF Course
  <1>2. ASSUME NEW p \in Presentation, TerminatePresentation(p) \/ OpenPresentationConnection(p)
        PROVE  Course'
    <2>1. Alike(toPeer, toPeer')
      BY <1>0, <1>2, <1>k
         DEF TerminatePresentation, OpenPresentationConnection, SendRequest, SendData, UserType, StartRequest
    <2> QED BY <1>2, <1>s, <2>1, CourseKept
            DEF TerminatePresentation, OpenPresentationConnection, SendRequest, receiver
  <1>3. CASE CheckUrlAvailability \/ RequestAgentStatus \/ RequestAgentInfo
    <2>1. Alike(toPeer, toPeer')
      BY <1>0, <1>3, <1>k
         DEF CheckUrlAvailability, RequestAgentStatus, RequestAgentInfo, SendRequest, SendData, UserType,
             StartRequest
    <2> QED BY <1>3, <1>s, <2>1, CourseKept
            DEF CheckUrlAvailability, RequestAgentStatus, RequestAgentInfo, SendRequest, receiver
  <1>4. CASE TooManyUrls \/ EncodeFails \/ NotAuthenticated
    <2>1. UNCHANGED <<toPeer, toUs, running, waiting, app_state>>
      BY <1>4 DEF TooManyUrls, EncodeFails, NotAuthenticated, receiver, machine
    <2> QED BY <2>1, <1>s, AlikeSame, CourseKept
  <1>5. CASE ClosePresentationConnection \/ \E fits \in BOOLEAN : SendPresentationMessage(fits)
    <2>1. UNCHANGED <<toUs, running, waiting, app_state>>
      BY <1>5 DEF ClosePresentationConnection, SendPresentationMessage, receiver, machine
    <2>2. Alike(toPeer, toPeer')
      <3>1. CASE UNCHANGED toPeer
        BY <3>1, AlikeSame
      <3>2. CASE ~UNCHANGED toPeer
        BY <1>5, <1>k, <3>2
           DEF ClosePresentationConnection, SendPresentationMessage, SendData, UserType, StartRequest
      <3> QED BY <3>1, <3>2
    <2> QED BY <2>1, <2>2, <1>s, CourseKept
  <1> QED BY <1>1, <1>2, <1>3, <1>4, <1>5 DEF Command

(* A message of the application is taken: an answer moves waiting and      *)
(* app_state, and so does a termination, which no answer can be behind.    *)
LEMMA CourseTaken ==
  ASSUME IInv, Course, toUs # <<>>, IsApplicationMessage(Head(toUs)),
         HandleApplicationMessage(Head(toUs)), toUs' = Tail(toUs), UNCHANGED receiver
  PROVE  Course'
  <1> DEFINE m == Head(toUs)
  <1>0. toUs \in Seq(Msg) /\ m \in Msg
    BY TakenFromUs DEF IInv, Typed
  <1>1. /\ UNCHANGED <<toPeer, running>> /\ AtMostOne(toPeer', StartRequest) /\ (Asked' <=> Asked)
        /\ News(toUs) /\ News(toUs') /\ Holds(toUs, m.type)
    BY <1>0, HoldsLess DEF HandleApplicationMessage, receiver, Asked, Course
  <1>2. /\ app_state' = NextApplicationState(m)
        /\ waiting' = IF waiting > 0 /\ ApplicationEvent(m) \in {"PresentationStarted", "PresentationRejected"}
                      THEN waiting - 1 ELSE waiting
    BY DEF HandleApplicationMessage
  <1>3. CASE m.type = StartResponse
    <2>1. Answered /\ ~Answered' /\ (Grants(toUs) <=> m.ok) /\ ~Grants(toUs') /\ (Ended' <=> Ended)
      BY <1>0, <1>1, <1>3, HoldsLess, CountedTypes DEF Answered, Ended, News
    <2>2. ~Asked /\ waiting = 1 /\ app_state = "Authenticated"
      BY <2>1 DEF Course
    <2>3. app_state' = (IF m.ok THEN "Presenting" ELSE app_state) /\ waiting' = 0
      BY <1>2, <1>3, <2>2 DEF NextApplicationState, ApplicationEvent, StartResponse
    <2>4. Presents' <=> Presents
      BY <2>1, <2>2, <2>3 DEF Presents
    <2> QED BY <1>1, <2>1, <2>2, <2>3, <2>4 DEF Course
  <1>4. CASE m.type = Termination
    <2>1. Ended /\ ~Ended' /\ ~Answered /\ ~Answered' /\ ~Grants(toUs) /\ ~Grants(toUs')
      BY <1>0, <1>1, <1>4, HoldsLess, CountedTypes, GrantsHolds DEF Answered, Ended, News
    <2>2. ~Asked /\ waiting = 0 /\ running = {}
      BY <2>1 DEF Course
    <2>3. app_state' = "Authenticated" /\ waiting' = waiting
      BY <1>2, <1>4 DEF NextApplicationState, ApplicationEvent, Termination
    <2>4. ~Presents'
      BY <2>1, <2>3 DEF Presents
    <2> QED BY <1>1, <2>1, <2>2, <2>3, <2>4 DEF Course
  <1>5. CASE m.type \notin {StartResponse, Termination}
    <2>1. app_state' = app_state /\ waiting' = waiting
      BY <1>2, <1>5 DEF NextApplicationState, ApplicationEvent, StartResponse, Termination
    <2>2. /\ Answered' <=> Answered
          /\ Ended' <=> Ended
          /\ Grants(toUs') <=> Grants(toUs)
      BY <1>0, <1>5, HoldsLess DEF Answered, Ended
    <2>3. Presents' <=> Presents
      BY <2>1, <2>2 DEF Presents
    <2> QED BY <1>1, <2>1, <2>2, <2>3 DEF Course
  <1> QED BY <1>3, <1>4, <1>5

(* The rest of the driver's steps only bring app_state to Authenticated. *)
LEMMA CourseDriver ==
  ASSUME IInv, Careful, Careful', Course,
         TransportConnected \/ DataReceived \/ CutReceived \/ CryptoCompleted \/ StreamReported \/ Tick
  PROVE  Course'
  <1>0. toPeer \in Seq(Msg) /\ toUs \in Seq(Msg)
    BY DEF IInv, Typed
  <1>k. ASSUME NEW type \in HandshakeType, Carried(type) PROVE Alike(toPeer, toPeer')
    <2>1. Auth(type) \in Msg /\ Auth(type).type = type
      BY DEF Auth, Message, Msg
    <2> QED BY <1>0, <1>k, <2>1, AlikeMore, AlikeSame, CountedTypes DEF Carried
  <1>s. Alike(toUs, toUs) /\ Alike(toPeer, toPeer)
    BY AlikeSame
  <1>1. CASE TransportConnected
    <2>1. Alike(toPeer, toPeer')
      BY <1>1, <1>k DEF TransportConnected, HandshakeType
    <2> QED BY <1>1, <1>s, <2>1, CourseKept DEF TransportConnected, receiver
  <1>2. CASE CryptoCompleted
    <2>1. Alike(toPeer, toPeer')
      BY <1>2, <1>k DEF CryptoCompleted, HandshakeType
    <2> QED BY <1>2, <1>s, <2>1, CourseKept DEF CryptoCompleted, receiver
  <1>3. CASE DataReceived
    <2> DEFINE m == Head(toUs)
    <2>1. /\ toUs # <<>> /\ toUs' = Tail(toUs) /\ UNCHANGED receiver /\ HandleDataReceived(m)
      BY <1>3 DEF DataReceived, CanReceive
    <2>2. CASE IsApplicationMessage(m)
      BY <2>1, <2>2, CourseTaken DEF HandleDataReceived
    <2>3. CASE ~IsApplicationMessage(m)
      <3>1. HandleNetworkData(m) /\ m.type \in HandshakeType
        <4>1. m \in Msg /\ 1 \in DOMAIN toUs /\ m = toUs[1]
          BY <2>1, TakenFromUs
        <4>2. m.type # "Cut" /\ m.type # "Undecodable"
          BY <4>1 DEF Msg, HandshakeType, UserType, PeerType, Unasked, Careful, InTransit, ToSet
        <4> QED BY <2>1, <2>3, <4>2 DEF HandleDataReceived, IsApplicationMessage
      <3>2. Alike(toUs, toUs')
        BY <1>0, <2>1, <3>1, AlikeLess, CountedTypes
      <3>3. UNCHANGED <<toPeer, waiting, running>>
        BY <2>1, <3>1 DEF HandleNetworkData, receiver
      <3>4. app_state' = app_state \/ (network = "AwaitingStatus" /\ app_state' = "Authenticated")
        BY <3>1 DEF HandleNetworkData, NetworkProceeds, NetworkAuthenticated, NetworkFails,
                    NetworkErrs, NetworkIgnores
      <3>5. network = "AwaitingStatus" => app_state = "Idle"
        BY DEF IInv, Quiet, StateMatchesNetwork, Careful
      <3> QED BY <1>s, <3>2, <3>3, <3>4, <3>5, CourseKept
    <2> QED BY <2>2, <2>3
  <1>4. CASE CutReceived
    BY <1>4 DEF CutReceived, Careful
  <1>5. CASE StreamReported \/ Tick
    <2>1. UNCHANGED <<toPeer, toUs, running, waiting, app_state>>
      BY <1>5 DEF StreamReported, NetworkIgnores, Tick, receiver, machine
    <2> QED BY <2>1, <1>s, CourseKept
  <1> QED BY <1>1, <1>2, <1>3, <1>4, <1>5

(* The receiver ends what it runs: there is nothing else to end until we   *)
(* have heard of it.                                                       *)
LEMMA CourseEnds ==
  ASSUME Course, NEW s \in Seq(Msg), Alike(toUs, s), NEW p \in running, NEW m \in Msg, m.type = Termination,
         toUs' = Append(s, m), running' = running \ {p},
         Alike(toPeer, toPeer'), UNCHANGED <<waiting, app_state>>
  PROVE  Course'
  <1>1. Presents /\ ~Ended /\ running' = {}
    BY DEF Course
  <1>2. ~Asked
    BY <1>1, GrantsHolds DEF Course, Presents, Answered
  <1>3. News(s) /\ ~Holds(s, Termination) /\ (Holds(s, StartResponse) <=> Answered) /\ (Grants(s) <=> Grants(toUs))
    BY <1>1 DEF Alike, Counted, Course, Ended, Answered
  <1>4. News(toUs') /\ Ended' /\ (Answered' <=> Answered) /\ (Grants(toUs') <=> Grants(toUs))
    BY <1>3, HoldsMore, CountedTypes DEF Ended, Answered
  <1>5. (Asked' <=> Asked) /\ AtMostOne(toPeer', StartRequest)
    BY DEF Alike, Counted, Asked, Course
  <1>6. Presents' <=> Presents
    BY <1>4 DEF Presents
  <1> QED BY <1>1, <1>2, <1>4, <1>5, <1>6 DEF Course

(* The receiver takes a message of the handshake. *)
LEMMA CourseHandshake ==
  ASSUME IInv, Course, toPeer # <<>>, PeerHandshake(Head(toPeer)), toPeer' = Tail(toPeer),
         UNCHANGED <<machine, waiting>>
  PROVE  Course'
  <1> DEFINE m == Head(toPeer)
  <1>0. toPeer \in Seq(Msg) /\ toUs \in Seq(Msg) /\ m \in Msg /\ 1 \in DOMAIN toPeer /\ m = toPeer[1]
    BY TakenFromPeer DEF IInv, Typed
  <1>1. m.type \notin Counted
    <2>1. m.type \notin HandshakeType => peer \in Verified
      BY <1>0 DEF IInv, Quiet, Agreed
    <2>2. m.type \in HandshakeType
      BY <2>1 DEF PeerHandshake, Verified, HandshakeType
    <2> QED BY <2>2, CountedTypes
  <1>2. Alike(toPeer, toPeer')
    BY <1>0, <1>1, AlikeLess
  <1>3. ASSUME NEW type \in HandshakeType, NEW ok \in BOOLEAN
        PROVE  Message(type, 0, None, ok) \in Msg /\ Message(type, 0, None, ok).type \notin Counted
    BY CountedTypes DEF Message, Msg
  <1>4. Alike(toUs, toUs')
    <2>1. CASE toUs' = toUs
      BY <2>1, AlikeSame
    <2>2. CASE toUs' = toUs \o <<Auth("AuthSpake2Handshake"), Auth("AuthSpake2Confirmation")>>
      <3> DEFINE d == Auth("AuthSpake2Handshake")
      <3> DEFINE e == Auth("AuthSpake2Confirmation")
      <3>1. d \in Msg /\ e \in Msg /\ d.type \notin Counted /\ e.type \notin Counted
        BY <1>3 DEF Auth, HandshakeType
      <3>2. toUs' = Append(Append(toUs, d), e)
        BY <1>0, <2>2, <3>1, TwoAppended
      <3> HIDE DEF d, e
      <3>3. PICK s : s = Append(toUs, d)
        OBVIOUS
      <3>4. s \in Seq(Msg) /\ Alike(toUs, s)
        BY <1>0, <3>1, <3>3, AlikeMore, AppendFacts
      <3>5. Alike(s, toUs')
        BY <3>1, <3>2, <3>3, <3>4, AlikeMore
      <3> QED BY <3>4, <3>5 DEF Alike
    <2>3. CASE toUs' = Append(toUs, Auth("AuthStatus"))
      BY <1>0, <1>3, <2>3, AlikeMore DEF Auth, HandshakeType
    <2>4. CASE toUs' = Append(toUs, Message("AuthStatus", 0, None, FALSE))
      BY <1>0, <1>3, <2>4, AlikeMore DEF HandshakeType
    <2> QED BY <2>1, <2>2, <2>3, <2>4 DEF PeerHandshake
  <1>5. UNCHANGED <<running, app_state>>
    BY DEF PeerHandshake, machine
  <1> QED BY <1>2, <1>4, <1>5, CourseKept

(* A message that was not added to those on their way may be decoded. *)
LEMMA NotUndecodable ==
  ASSUME IInv, Careful'
  PROVE  toUs' # Append(toUs, Undecodable)
  <1> SUFFICES ASSUME toUs' = Append(toUs, Undecodable) PROVE FALSE
    OBVIOUS
  <1>1. toUs \in Seq(Msg) /\ Undecodable \in Msg /\ Undecodable.type = "Undecodable"
    BY UndecodableFacts DEF IInv, Typed
  <1>2. PICK i \in DOMAIN toUs' : toUs'[i] = Undecodable
    BY <1>1, AppendFacts
  <1> QED BY <1>1, <1>2 DEF Careful, InTransit, ToSet

(* Or it answers the user. *)
LEMMA CourseAnswer ==
  ASSUME IInv, Course, Careful', toPeer # <<>>, PeerAnswers(Head(toPeer)), toPeer' = Tail(toPeer),
         UNCHANGED <<machine, waiting>>
  PROVE  Course'
  <1> DEFINE m == Head(toPeer)
  <1>0. toPeer \in Seq(Msg) /\ toUs \in Seq(Msg) /\ m \in Msg
    BY TakenFromPeer DEF IInv, Typed
  <1>1. UNCHANGED app_state
    BY DEF machine
  <1>2. m.id \in Nat /\ m.presentation \in Presentation \cup {None}
    BY <1>0 DEF Msg
  <1>3. ASSUME NEW type \in PeerType, NEW n \in Nat, NEW ok \in BOOLEAN
        PROVE  /\ Message(type, n, m.presentation, ok) \in Msg
               /\ Message(type, n, m.presentation, ok).type = type
               /\ Message(type, n, m.presentation, ok).ok = ok
    BY <1>2 DEF Message, Msg
  <1>4. CASE m.type = StartRequest
    <2>1. Holds(toPeer, StartRequest) /\ ~Holds(toPeer', StartRequest) /\ AtMostOne(toPeer', StartRequest)
      BY <1>0, <1>4, HoldsLess DEF Course
    <2>2. Asked /\ ~Asked'
      BY <2>1 DEF Asked
    <2>3. ~Answered /\ ~Ended /\ waiting = 1 /\ app_state = "Authenticated" /\ ~Grants(toUs) /\ running = {}
      BY <2>2, GrantsHolds DEF Course, Presents, Answered
    <2>4. PICK ok \in BOOLEAN :
            /\ toUs' = Append(toUs, Message(StartResponse, m.id, m.presentation, ok))
            /\ running' = IF ok THEN {m.presentation} ELSE {}
      <3>1. /\ m.type # "PresentationTerminationRequest"
            /\ m.type \notin {"PresentationConnectionMessage", "PresentationConnectionCloseEvent"}
            /\ m.type \notin DOMAIN Response
        BY <1>4 DEF StartRequest, Response
      <3>2. \/ /\ running' = running \cup {m.presentation}
               /\ toUs' = Append(toUs, Message(StartResponse, m.id, m.presentation, TRUE))
            \/ /\ running' = running
               /\ toUs' = Append(toUs, Message(StartResponse, m.id, m.presentation, FALSE))
        BY <3>1, NotUndecodable DEF PeerAnswers, StartResponse
      <3> HIDE DEF m
      <3> QED BY <3>2, <2>3
    <2> DEFINE d == Message(StartResponse, m.id, m.presentation, ok)
    <2>5. d \in Msg /\ d.type = StartResponse /\ d.ok = ok
      BY <1>2, <1>3, CountedTypes
    <2>6. toUs' = Append(toUs, d)
      BY <2>4
    <2> HIDE DEF d
    <2>7. News(toUs') /\ Answered' /\ ~Ended' /\ (Grants(toUs') <=> ok)
      BY <1>0, <2>3, <2>5, <2>6, HoldsMore, CountedTypes DEF Answered, Ended, Course
    <2>8. Presents' <=> ok
      BY <1>1, <2>3, <2>7 DEF Presents
    <2>9. (running' # {}) = ok /\ \A p, q \in running' : p = q
      BY <2>4
    <2> QED BY <1>1, <2>1, <2>2, <2>3, <2>7, <2>8, <2>9 DEF Course
  <1>5. CASE m.type # StartRequest
    <2>1. Alike(toPeer, toPeer')
      <3>1. m.type \notin Counted
        BY <1>5 DEF PeerAnswers, Counted, Response, StartRequest, StartResponse, Termination
      <3> QED BY <1>0, <3>1, AlikeLess
    <2>2. CASE /\ m.presentation \in running /\ running' = running \ {m.presentation}
               /\ toUs' = toUs \o << Message("PresentationTerminationResponse", m.id, m.presentation, TRUE),
                                     Message("PresentationTerminationEvent", 0, m.presentation, TRUE) >>
      <3> DEFINE d == Message("PresentationTerminationResponse", m.id, m.presentation, TRUE)
      <3> DEFINE e == Message(Termination, 0, m.presentation, TRUE)
      <3>1. d \in Msg /\ e \in Msg /\ d.type \notin Counted /\ e.type = Termination
        <4>1. "PresentationTerminationResponse" \in PeerType
          BY DEF PeerType
        <4>2. d \in Msg /\ d.type = "PresentationTerminationResponse"
          BY <4>1, <1>2, <1>3
        <4>3. e \in Msg /\ e.type = Termination
          BY <1>3, CountedTypes
        <4> QED BY <4>2, <4>3, CountedTypes
      <3>t. toUs' = toUs \o <<d, e>>
        BY <2>2 DEF Termination
      <3> HIDE DEF d, e
      <3>2. toUs' = Append(Append(toUs, d), e)
        BY <1>0, <3>1, <3>t, TwoAppended
      <3>3. PICK s : s = Append(toUs, d)
        OBVIOUS
      <3>4. s \in Seq(Msg) /\ Alike(toUs, s)
        BY <1>0, <3>1, <3>3, AlikeMore, AppendFacts
      <3>5. toUs' = Append(s, e)
        BY <3>2, <3>3
      <3> QED BY <1>1, <2>1, <2>2, <3>1, <3>4, <3>5, CourseEnds
    <2>3. CASE /\ running' = running
               /\ \E type \in PeerType \ Counted, ok \in BOOLEAN :
                    toUs' = Append(toUs, Message(type, m.id, m.presentation, ok))
      <3>1. PICK d \in Msg : d.type \notin Counted /\ toUs' = Append(toUs, d)
        BY <1>2, <1>3, <2>3
      <3>2. Alike(toUs, toUs')
        BY <1>0, <3>1, AlikeMore
      <3> QED BY <1>1, <2>1, <2>3, <3>2, CourseKept
    <2>4. CASE UNCHANGED <<running, toUs>>
      BY <1>1, <2>1, <2>4, AlikeSame, CourseKept
    <2>5. "PresentationTerminationResponse" \in PeerType
      BY DEF PeerType
    <2> QED BY <1>5, <2>2, <2>3, <2>4, <2>5, CountedTypes, NotUndecodable DEF PeerAnswers, StartRequest
  <1> QED BY <1>4, <1>5

(* Everything else the receiver does. *)
LEMMA CoursePeer ==
  ASSUME IInv, Careful, Careful', Course, Peer
  PROVE  Course'
  <1>0. toPeer \in Seq(Msg) /\ toUs \in Seq(Msg)
    BY DEF IInv, Typed
  <1>s. Alike(toUs, toUs) /\ Alike(toPeer, toPeer)
    BY AlikeSame
  <1>1. CASE PeerConnected
    <2> DEFINE d == Auth("AuthCapabilities")
    <2>1. d \in Msg /\ d.type \notin Counted
      BY CountedTypes DEF Auth, Message, Msg, HandshakeType
    <2>2. toUs' = Append(toUs, d) /\ UNCHANGED <<toPeer, running, waiting, app_state>>
      BY <1>1 DEF PeerConnected, machine
    <2> HIDE DEF d
    <2> QED BY <1>0, <1>s, <2>1, <2>2, AlikeMore, CourseKept
  <1>2. CASE PeerReceives
    BY <1>2, CourseHandshake, CourseAnswer DEF PeerReceives
  <1>3. ASSUME NEW p \in Presentation, PeerTerminates(p) PROVE Course'
    <2> DEFINE d == Message(Termination, 0, p, TRUE)
    <2>1. d \in Msg /\ d.type = Termination
      BY CountedTypes DEF Message, Msg
    <2>2. /\ toUs' = Append(toUs, d) /\ UNCHANGED <<toPeer, waiting, app_state>>
          /\ p \in running /\ running' = running \ {p}
      BY <1>3 DEF PeerTerminates, machine, Termination
    <2> HIDE DEF d
    <2> QED BY <1>0, <1>s, <2>1, <2>2, CourseEnds
  <1>4. ASSUME NEW type \in Unasked \cup Moving, NEW ok \in BOOLEAN, PeerTells(type, ok) PROVE Course'
    <2> DEFINE d == Message(type, 0, None, ok)
    <2>0. type \in Unasked
      BY <1>4 DEF PeerTells, Careful
    <2>1. d \in Msg /\ d.type \notin Counted
      BY <2>0, CountedTypes DEF Message, Msg, PeerType
    <2>2. toUs' = Append(toUs, d) /\ UNCHANGED <<toPeer, running, waiting, app_state>>
      BY <1>4 DEF PeerTells, machine, receiver
    <2> HIDE DEF d
    <2> QED BY <1>0, <1>s, <2>1, <2>2, AlikeMore, CourseKept
  <1> QED BY <1>1, <1>2, <1>3, <1>4 DEF Peer

(* Nothing that is said is unsaid: what cannot be decoded stays on its way *)
(* until it is taken, and then garbled tells of it.                        *)
LEMMA UndecodableStays ==
  ASSUME IInv, Next
  PROVE  \/ garbled' /\ UNCHANGED setting
         \/ /\ UNCHANGED <<setting, garbled>>
            /\ \A i \in DOMAIN toUs : toUs[i].type = "Undecodable" =>
                 \E j \in DOMAIN toUs' : toUs'[j].type = "Undecodable"
  <1> DEFINE Goal == \A i \in DOMAIN toUs : toUs[i].type = "Undecodable" =>
                       \E j \in DOMAIN toUs' : toUs'[j].type = "Undecodable"
  <1>0. toUs \in Seq(Msg)
    BY DEF IInv, Typed
  <1>1. CASE Command \/ TransportConnected \/ CryptoCompleted \/ StreamReported \/ Tick
    BY <1>1 DEF Command, StartPresentation, TerminatePresentation, OpenPresentationConnection,
                CheckUrlAvailability, TooManyUrls, EncodeFails, SendPresentationMessage,
                ClosePresentationConnection, RequestAgentStatus, RequestAgentInfo, NotAuthenticated,
                SendRequest, TransportConnected, CryptoCompleted, StreamReported, Tick
  <1>2. CASE CutReceived
    BY <1>2 DEF CutReceived
  <1>3. CASE DataReceived
    <2>1. toUs # <<>> /\ toUs' = Tail(toUs) /\ UNCHANGED setting /\ garbled \in BOOLEAN
      BY <1>3 DEF DataReceived, CanReceive, IInv, Typed
    <2>2. CASE Head(toUs).type = "Undecodable"
      BY <1>3, <2>1, <2>2 DEF DataReceived
    <2>3. CASE Head(toUs).type # "Undecodable"
      <3>1. garbled' = garbled
        BY <1>3, <2>1, <2>3 DEF DataReceived
      <3>2. Goal
        <4> SUFFICES ASSUME NEW i \in DOMAIN toUs, toUs[i].type = "Undecodable"
                     PROVE  \E j \in DOMAIN toUs' : toUs'[j].type = "Undecodable"
          OBVIOUS
        <4>1. i # 1 /\ i - 1 \in DOMAIN toUs' /\ toUs'[i - 1] = toUs[i]
          BY <1>0, <2>1, <2>3, TailFacts
        <4> QED BY <4>1
      <3> QED BY <2>1, <3>1, <3>2
    <2> QED BY <2>2, <2>3
  <1>4. CASE Peer
    <2>1. UNCHANGED <<setting, garbled>>
      BY <1>4 DEF Peer, PeerConnected, PeerReceives, PeerTerminates, PeerTells
    <2>2. \E t : toUs' \in {toUs, Append(toUs, t)} \/ \E u : toUs' = toUs \o <<t, u>>
      BY <1>4 DEF Peer, PeerConnected, PeerReceives, PeerHandshake, PeerAnswers, PeerTerminates, PeerTells
    <2>3. \A i \in DOMAIN toUs : i \in DOMAIN toUs' /\ toUs'[i] = toUs[i]
      <3>1. PICK t, u : toUs' \in {toUs, Append(toUs, t), toUs \o <<t, u>>}
        BY <2>2
      <3>2. toUs \in Seq(Msg \cup {t, u})
        BY <1>0
      <3>3. CASE toUs' = Append(toUs, t)
        BY <3>2, <3>3, AppendFacts
      <3>4. CASE toUs' = toUs \o <<t, u>>
        BY <3>2, <3>4
      <3> QED BY <3>1, <3>3, <3>4
    <2> QED BY <2>1, <2>3
  <1> QED BY <1>1, <1>2, <1>3, <1>4 DEF Next

(* Who keeps to the rules has kept to them. *)
LEMMA CarefulBefore ==
  ASSUME IInv, [Next]_vars, Careful'
  PROVE  Careful
  <1>1. CASE Next
    <2>1. /\ UNCHANGED <<setting, garbled>>
          /\ \A i \in DOMAIN toUs : toUs[i].type = "Undecodable" =>
               \E j \in DOMAIN toUs' : toUs'[j].type = "Undecodable"
      BY <1>1, UndecodableStays DEF Careful
    <2> QED BY <2>1 DEF Careful, InTransit, ToSet
  <1>2. CASE UNCHANGED vars
    BY <1>2 DEF vars, Careful, InTransit, ToSet
  <1> QED BY <1>1, <1>2

(* For a user who starts one presentation at a time, application_state()   *)
(* tells what the receiver runs, up to the answer or the termination that  *)
(* is still on its way, and the receiver never runs two.                   *)
THEOREM PresentingTells == Spec => []PresentingIsRunning
  <1> DEFINE C == Careful => Course
  <1>1. Init => C
    <2> SUFFICES ASSUME Init PROVE Course
      OBVIOUS
    <2>1. DOMAIN toPeer = {} /\ DOMAIN toUs = {} /\ app_state = "Idle" /\ waiting = 0 /\ running = {}
      BY DEF Init
    <2>2. ~Asked /\ ~Answered /\ ~Ended /\ ~Presents
      BY <2>1 DEF Asked, Answered, Ended, Presents, Holds, Grants
    <2> QED BY <2>1, <2>2 DEF Course, AtMostOne, News
  <1>2. IInv /\ C /\ [Next]_vars => C'
    <2> SUFFICES ASSUME IInv, C, [Next]_vars, Careful' PROVE Course'
      OBVIOUS
    <2>1. Careful
      BY CarefulBefore
    <2>2. Course
      BY <2>1
    <2>3. CASE UNCHANGED vars
      <3>1. UNCHANGED <<toPeer, toUs, running, waiting, app_state>>
        BY <2>3 DEF vars, machine, receiver
      <3> QED BY <3>1, <2>2, AlikeSame, CourseKept
    <2> QED BY <2>1, <2>2, <2>3, CourseCommand, CourseDriver, CoursePeer DEF Next
  <1>3. IInv /\ C => PresentingIsRunning
    <2> SUFFICES ASSUME IInv, Careful, Course PROVE PresentingIsRunning
      BY DEF PresentingIsRunning
    <2>1. app_state = "Presenting" /\ running = {} => Ended
      BY DEF Course, Presents
    <2>2. app_state # "Presenting" /\ running # {} => Grants(toUs)
      BY DEF Course, Presents
    <2>3. Cardinality(running) <= 1
      <3>1. CASE running = {}
        BY <3>1, FS_EmptySet
      <3>2. CASE running # {}
        <4>1. PICK p : p \in running
          BY <3>2
        <4>2. running = {p}
          BY <4>1 DEF Course
        <4>3. Cardinality(running) = 1
          BY <4>2, FS_Singleton
        <4> QED BY <4>3
      <3> QED BY <3>1, <3>2
    <2>4. \A i \in DOMAIN toUs : toUs[i] \in InTransit
      BY DEF InTransit, ToSet
    <2> QED BY <2>1, <2>2, <2>3, <2>4
            DEF PresentingIsRunning, Ended, Holds, Grants, StartResponse, Termination
  <1> HIDE DEF C
  <1> QED BY <1>1, <1>2, <1>3, Invariance, PTL DEF Spec
=============================================================================
