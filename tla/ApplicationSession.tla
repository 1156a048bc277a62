------------------------- MODULE ApplicationSession -------------------------
(***************************************************************************)
(* ApplicationStateMachine of openscreen-application/src/lib.rs: the       *)
(* handshake machine it owns, its application state and request ids, the   *)
(* user's commands and the messages of a receiver, which come in the order *)
(* they were sent (a driver reads one stream after the other).             *)
(*                                                                         *)
(* The machine it owns is Spake2StateMachine::default(): an initiator with *)
(* an empty PSK and no token, and nothing can change that.  Its handshake  *)
(* messages are dropped; a transport that knows the results of the crypto  *)
(* requests can send them in its place.  The receiver, the transport and   *)
(* the user are external.  A message is a record of its type and of the    *)
(* fields that matter here; that decoding gives back what was encoded, and *)
(* refuses what was cut, is what MessageCodec shows.  "Undecodable" is a   *)
(* message of the application that ApplicationMessage::decode refuses all  *)
(* the same: a value beyond its limits, or a key it does not know.         *)
(***************************************************************************)
EXTENDS Integers, Sequences, FiniteSets, SequencesExt

CONSTANTS
  Presentation,   \* ids of presentations
  None,           \* no presentation
  MaxRequests,    \* bound: how many request ids the user has taken at the end
  CommandBound,   \* bound: messages on their way to the receiver when the user goes on
  TellBound       \* bound: messages on their way to us when the receiver tells us more

ASSUME SessionAssumption ==
  /\ MaxRequests \in Nat /\ CommandBound \in Nat /\ TellBound \in Nat
  /\ None \notin Presentation

VARIABLES
  setting,           \* how receiver, transport and user behave
  network,           \* state of the handshake machine
  request,           \* its open crypto request
  app_state,
  next_request_id,
  reply,             \* what the last call of handle_input gave: an error, an event or "Ok"
  waiting,           \* the user's: start requests without an answer
  peer,              \* state of the receiver's handshake
  running,           \* the presentations it runs
  toPeer, toUs,      \* messages on their way
  garbled            \* whether a stream to us broke off or brought what is Undecodable

machine == <<network, request, app_state, next_request_id>>
receiver == <<peer, running>>
vars == <<setting, machine, reply, waiting, receiver, toPeer, toUs, garbled>>

(* carries: the transport sends the handshake messages in the machine's    *)
(* place.  shares: the receiver has an empty PSK, too.  orderly: it says   *)
(* nothing of presentations before the handshake is over or unasked.       *)
(* careful: the user starts a presentation only when none is active and    *)
(* none is starting.                                                       *)
Setting == [carries : BOOLEAN, shares : BOOLEAN, orderly : BOOLEAN, careful : BOOLEAN]

NetworkState ==
  {"Idle", "AwaitingCapabilities", "InitiatingHandshake", "AwaitingHandshake", "Computing",
   "AwaitingConfirmation", "AwaitingStatus", "Authenticated", "Failed", "Poisoned", "Panicked"}

ApplicationState == {"Idle", "Authenticated", "Presenting"}

PeerState == {"Idle", "AwaitingCapabilities", "AwaitingHandshake", "AwaitingConfirmation",
              "AwaitingStatus", "Authenticated", "Failed"}

Message(type, id, p, ok) == [type |-> type, id |-> id, presentation |-> p, ok |-> ok]

HandshakeType == {"AuthCapabilities", "AuthSpake2Handshake", "AuthSpake2Confirmation", "AuthStatus"}

Auth(type) == Message(type, 0, None, TRUE)

Undecodable == Message("Undecodable", 0, None, FALSE)

Init ==
  /\ setting \in Setting
  /\ network = "Idle" /\ request = "none"
  /\ app_state = "Idle" /\ next_request_id = 1
  /\ reply = "Ok" /\ waiting = 0
  /\ peer = "Idle" /\ running = {}
  /\ toPeer = <<>> /\ toUs = <<>> /\ garbled = FALSE

-----------------------------------------------------------------------------
(* Commands of the user.  A message that does not fit into the buffer (the *)
(* texts are the user's) is an error after the request id was taken.       *)

(* Mistake: a handler without the check. *)
AlwaysAuthenticated == network # "Panicked"

IsAuthenticated == network = "Authenticated"

NextId(id) == id + 1

CanCommand == network # "Panicked" /\ next_request_id <= MaxRequests /\ Len(toPeer) < CommandBound

NotAuthenticated ==
  /\ CanCommand /\ ~IsAuthenticated
  /\ reply' = "NotAuthenticated"
  /\ UNCHANGED <<setting, machine, waiting, receiver, toPeer, toUs, garbled>>

SendData(m) ==
  /\ toPeer' = Append(toPeer, m)
  /\ reply' = "Ok"

SendRequest(type, p) ==
  /\ CanCommand /\ IsAuthenticated
  /\ next_request_id' = NextId(next_request_id)
  /\ SendData(Message(type, next_request_id, p, TRUE))
  /\ UNCHANGED <<setting, network, request, app_state, receiver, toUs, garbled>>

EncodeFails ==
  /\ CanCommand /\ IsAuthenticated
  /\ next_request_id' = NextId(next_request_id)
  /\ reply' = "EncodeFailed"
  /\ UNCHANGED <<setting, network, request, app_state, waiting, receiver, toPeer, toUs, garbled>>

StartPresentation(p) ==
  /\ setting.careful => app_state = "Authenticated" /\ waiting = 0
  /\ SendRequest("PresentationStartRequest", p)
  /\ waiting' = waiting + 1

TerminatePresentation(p) ==
  SendRequest("PresentationTerminationRequest", p) /\ UNCHANGED waiting

CheckUrlAvailability ==
  SendRequest("PresentationUrlAvailabilityRequest", None) /\ UNCHANGED waiting

\* more than 16 URLs: an error after the id was taken
TooManyUrls ==
  /\ CanCommand /\ IsAuthenticated
  /\ next_request_id' = NextId(next_request_id)
  /\ reply' = "BufferFull"
  /\ UNCHANGED <<setting, network, request, app_state, waiting, receiver, toPeer, toUs, garbled>>

OpenPresentationConnection(p) ==
  SendRequest("PresentationConnectionOpenRequest", p) /\ UNCHANGED waiting

\* these two have no request id
SendPresentationMessage(fits) ==
  /\ CanCommand /\ IsAuthenticated
  /\ IF fits THEN SendData(Message("PresentationConnectionMessage", 0, None, TRUE))
             ELSE reply' = "EncodeFailed" /\ UNCHANGED toPeer
  /\ UNCHANGED <<setting, machine, waiting, receiver, toUs, garbled>>

ClosePresentationConnection ==
  /\ CanCommand /\ IsAuthenticated
  /\ SendData(Message("PresentationConnectionCloseEvent", 0, None, TRUE))
  /\ UNCHANGED <<setting, machine, waiting, receiver, toUs, garbled>>

RequestAgentStatus == SendRequest("AgentStatusRequest", None) /\ UNCHANGED waiting

RequestAgentInfo == SendRequest("AgentInfoRequest", None) /\ UNCHANGED waiting

Command ==
  \/ \E p \in Presentation :
       StartPresentation(p) \/ TerminatePresentation(p) \/ OpenPresentationConnection(p)
  \/ CheckUrlAvailability \/ TooManyUrls \/ EncodeFails
  \/ \E fits \in BOOLEAN : SendPresentationMessage(fits)
  \/ ClosePresentationConnection \/ RequestAgentStatus \/ RequestAgentInfo
  \/ NotAuthenticated

-----------------------------------------------------------------------------
(* Messages of the application.  Who sent them, and whether the handshake  *)
(* is over, is not asked.                                                  *)

(* Mistake: a rejected start is taken for a started one. *)
AnyResponseStarts(m) ==
  CASE m.type = "PresentationStartResponse"    -> "Presenting"
    [] m.type = "PresentationTerminationEvent" -> "Authenticated"
    [] OTHER                                   -> app_state

NextApplicationState(m) ==
  CASE m.type = "PresentationStartResponse" /\ m.ok -> "Presenting"
    [] m.type = "PresentationTerminationEvent"      -> "Authenticated"
    [] OTHER                                        -> app_state

(* Mistake: only success is reported. *)
SuccessOnly(m) ==
  IF m.type = "PresentationStartResponse" /\ m.ok THEN "PresentationStarted" ELSE "Ok"

\* the event that tells of a message, or what the call returns without one
ApplicationEvent(m) ==
  CASE m.type \in {"AgentInfoResponse", "AgentInfoEvent"} -> "AgentInfoChanged"
    [] m.type = "AgentStatusResponse"                     -> "AgentStatusReceived"
    [] m.type = "PresentationStartResponse" ->
         IF m.ok THEN "PresentationStarted" ELSE "PresentationRejected"
    [] m.type = "PresentationTerminationEvent"            -> "PresentationTerminated"
    [] m.type = "PresentationConnectionOpenResponse" ->
         IF m.ok THEN "PresentationConnectionOpened" ELSE "Ok"
    [] m.type = "PresentationConnectionMessage" ->
         IF m.ok THEN "PresentationMessageReceived" ELSE "BufferFull"
    [] m.type = "PresentationConnectionCloseEvent"        -> "PresentationConnectionClosed"
    [] m.type = "PresentationChangeEvent"                 -> "PresentationChanged"
    [] OTHER                                              -> "Ok"

HandleApplicationMessage(m) ==
  /\ app_state' = NextApplicationState(m)
  /\ reply' = ApplicationEvent(m)
  /\ waiting' = IF waiting > 0 /\ reply' \in {"PresentationStarted", "PresentationRejected"}
                THEN waiting - 1 ELSE waiting
  /\ UNCHANGED <<network, request, next_request_id, toPeer>>

-----------------------------------------------------------------------------
(* The handshake machine, as an initiator, and what becomes of its output: *)
(* handle_network_event drops the messages, hands on the crypto requests   *)
(* and keeps app_state in step with the event Authenticated.               *)

\* a handshake message goes out only if the transport makes one of its own
Carried(type) ==
  toPeer' = IF setting.carries THEN Append(toPeer, Auth(type)) ELSE toPeer

TransportConnected ==
  /\ network = "Idle"
  /\ network' = "AwaitingCapabilities"
  /\ Carried("AuthCapabilities")
  /\ reply' = "Ok"
  /\ UNCHANGED <<setting, request, app_state, next_request_id, waiting, receiver, toUs, garbled>>

\* the message each state waits for
Awaited ==
  [ AwaitingCapabilities |-> "AuthCapabilities",
    AwaitingHandshake    |-> "AuthSpake2Handshake",
    AwaitingConfirmation |-> "AuthSpake2Confirmation",
    AwaitingStatus       |-> "AuthStatus" ]

\* the state it leads to and the crypto request that comes with it
Next1 ==
  [ AwaitingCapabilities |-> "InitiatingHandshake",
    AwaitingHandshake    |-> "Computing",
    AwaitingConfirmation |-> "Computing" ]

Request1 ==
  [ AwaitingCapabilities |-> "Start",
    AwaitingHandshake    |-> "FinishWithConfirmation",
    AwaitingConfirmation |-> "VerifyConfirmation" ]

(* Mistake: crypto requests are dropped like the messages. *)
RequestsDropped(m) ==
  /\ network \in DOMAIN Next1 /\ m.type = Awaited[network]
  /\ network' = Next1[network]
  /\ reply' = "Ok"
  /\ UNCHANGED <<request, app_state>>

NetworkProceeds(m) ==
  /\ network \in DOMAIN Next1 /\ m.type = Awaited[network]
  /\ network' = Next1[network]
  /\ request' = Request1[network]
  /\ reply' = "Ok"
  /\ UNCHANGED app_state

(* Mistake: the status is not looked at. *)
AnyStatus(m) == m.type = "AuthStatus"

StatusOk(m) == m.type = "AuthStatus" /\ m.ok

(* Mistake: the event is handed on and app_state forgotten. *)
AuthenticatedEventOnly(m) ==
  /\ network = "AwaitingStatus" /\ StatusOk(m)
  /\ network' = "Authenticated"
  /\ reply' = "Authenticated"
  /\ UNCHANGED <<request, app_state>>

NetworkAuthenticated(m) ==
  /\ network = "AwaitingStatus" /\ StatusOk(m)
  /\ network' = "Authenticated"
  /\ app_state' = "Authenticated"
  /\ reply' = "Authenticated"
  /\ UNCHANGED request

\* Failed comes without an event
NetworkFails(m) ==
  /\ network = "AwaitingStatus" /\ m.type = "AuthStatus" /\ ~StatusOk(m)
  /\ network' = "Failed"
  /\ reply' = "Ok"
  /\ UNCHANGED <<request, app_state>>

NetworkErrs(m) ==
  /\ \/ network = "Poisoned"
     \/ network \in DOMAIN Awaited /\ m.type # Awaited[network]
  /\ network' = "Poisoned"
  /\ reply' = "NetworkError"
  /\ UNCHANGED <<request, app_state>>

\* terminal states take every input
NetworkIgnores ==
  /\ network \in {"Authenticated", "Failed"}
  /\ reply' = "Ok"
  /\ UNCHANGED <<network, request, app_state>>

HandleNetworkData(m) ==
  /\ \/ NetworkProceeds(m) \/ NetworkAuthenticated(m) \/ NetworkFails(m)
     \/ NetworkErrs(m) \/ NetworkIgnores
  /\ UNCHANGED <<next_request_id, waiting, toPeer>>

\* whether ApplicationMessage::decode takes a message
IsApplicationMessage(m) == m.type \notin HandshakeType \cup {"Undecodable", "Cut"}

(* Mistake: while the handshake runs everything is for the network machine. *)
NetworkFirst(m) ==
  IF network \in DOMAIN Awaited \/ ~IsApplicationMessage(m)
  THEN HandleNetworkData(m) ELSE HandleApplicationMessage(m)

HandleDataReceived(m) ==
  IF IsApplicationMessage(m) THEN HandleApplicationMessage(m) ELSE HandleNetworkData(m)

\* the driver feeds data between crypto requests, once the transport is connected
CanReceive == network \notin {"Idle", "Panicked"} /\ request = "none" /\ toUs # <<>>

DataReceived ==
  /\ CanReceive
  /\ HandleDataReceived(Head(toUs))
  /\ toUs' = Tail(toUs)
  /\ garbled' = (garbled \/ Head(toUs).type = "Undecodable")
  /\ UNCHANGED <<setting, receiver>>

\* the stream breaks off; neither decoder takes what there is of the message
CutReceived ==
  /\ CanReceive
  /\ HandleDataReceived(Message("Cut", 0, None, FALSE))
  /\ toUs' = Tail(toUs)
  /\ garbled' = TRUE
  /\ UNCHANGED <<setting, receiver>>

\* an empty result is the success of a verification; a failed one is no input
CryptoCompleted ==
  /\ \/ request = "Start" /\ network' = "AwaitingHandshake" /\ Carried("AuthSpake2Handshake")
     \/ /\ request = "FinishWithConfirmation"
        /\ network' = "AwaitingConfirmation" /\ Carried("AuthSpake2Confirmation")
     \/ /\ request = "VerifyConfirmation" /\ setting.shares
        /\ network' = "AwaitingStatus" /\ Carried("AuthStatus")
  /\ network # "Panicked"
  /\ request' = "none"
  /\ reply' = "Ok"
  /\ UNCHANGED <<setting, app_state, next_request_id, waiting, receiver, toUs, garbled>>

\* StreamOpened and StreamClosed: only terminal states can be told
StreamReported ==
  /\ network # "Panicked"
  /\ \/ NetworkIgnores
     \/ network = "Poisoned" /\ reply' = "NetworkError" /\ UNCHANGED <<network, request, app_state>>
     \/ /\ network \notin {"Authenticated", "Failed", "Poisoned"}
        /\ network' = "Panicked" /\ UNCHANGED <<request, app_state, reply>>
  /\ UNCHANGED <<setting, next_request_id, waiting, receiver, toPeer, toUs, garbled>>

Tick ==
  /\ network # "Panicked"
  /\ reply' = IF network = "Poisoned" THEN "NetworkError" ELSE "Ok"
  /\ UNCHANGED <<setting, machine, waiting, receiver, toPeer, toUs, garbled>>

-----------------------------------------------------------------------------
(* The receiver.  What it says of itself, and its answers, may be more     *)
(* than our decoder takes.                                                 *)

PeerConnected ==
  /\ peer = "Idle"
  /\ peer' = "AwaitingCapabilities"
  /\ toUs' = Append(toUs, Auth("AuthCapabilities"))
  /\ UNCHANGED <<setting, machine, reply, waiting, running, toPeer, garbled>>

PeerHandshake(m) ==
  /\ UNCHANGED running
  /\ \/ /\ peer = "AwaitingCapabilities" /\ m.type = "AuthCapabilities"
        /\ peer' = "AwaitingHandshake" /\ UNCHANGED toUs
     \/ /\ peer = "AwaitingHandshake" /\ m.type = "AuthSpake2Handshake"
        /\ peer' = "AwaitingConfirmation"
        /\ toUs' = toUs \o <<Auth("AuthSpake2Handshake"), Auth("AuthSpake2Confirmation")>>
     \/ /\ peer = "AwaitingConfirmation" /\ m.type = "AuthSpake2Confirmation" /\ setting.shares
        /\ peer' = "AwaitingStatus" /\ toUs' = Append(toUs, Auth("AuthStatus"))
     \/ \* the PSK differs, or the validation took too long
        /\ peer = "AwaitingConfirmation" /\ m.type = "AuthSpake2Confirmation"
        /\ peer' = "Failed" /\ toUs' = Append(toUs, Message("AuthStatus", 0, None, FALSE))
     \/ /\ peer = "AwaitingStatus" /\ m.type = "AuthStatus"
        /\ peer' = "Authenticated" /\ UNCHANGED toUs
     \/ peer = "Failed" /\ UNCHANGED <<peer, toUs>>

Response ==
  [ AgentInfoRequest                   |-> "AgentInfoResponse",
    AgentStatusRequest                 |-> "AgentStatusResponse",
    PresentationUrlAvailabilityRequest |-> "PresentationUrlAvailabilityResponse",
    PresentationConnectionOpenRequest  |-> "PresentationConnectionOpenResponse" ]

PeerAnswers(m) ==
  /\ peer = "Authenticated" /\ UNCHANGED peer
  /\ \/ /\ m.type = "PresentationStartRequest" /\ m.presentation \notin running
        /\ running' = running \cup {m.presentation}
        /\ toUs' = Append(toUs, Message("PresentationStartResponse", m.id, m.presentation, TRUE))
     \/ /\ m.type = "PresentationStartRequest"
        /\ toUs' = Append(toUs, Message("PresentationStartResponse", m.id, m.presentation, FALSE))
        /\ UNCHANGED running
     \/ /\ m.type = "PresentationStartRequest"
        /\ running' = running \cup {m.presentation}
        /\ toUs' = Append(toUs, Undecodable)
     \/ /\ m.type = "PresentationTerminationRequest" /\ m.presentation \in running
        /\ running' = running \ {m.presentation}
        /\ toUs' = toUs \o << Message("PresentationTerminationResponse", m.id, m.presentation, TRUE),
                              Message("PresentationTerminationEvent", 0, m.presentation, TRUE) >>
     \/ /\ m.type = "PresentationTerminationRequest" /\ m.presentation \notin running
        /\ toUs' = Append(toUs, Message("PresentationTerminationResponse", m.id, m.presentation, FALSE))
        /\ UNCHANGED running
     \/ /\ m.type \in DOMAIN Response
        /\ \/ \E ok \in BOOLEAN : toUs' = Append(toUs, Message(Response[m.type], m.id, m.presentation, ok))
           \/ toUs' = Append(toUs, Undecodable)
        /\ UNCHANGED running
     \/ /\ m.type \in {"PresentationConnectionMessage", "PresentationConnectionCloseEvent"}
        /\ UNCHANGED <<running, toUs>>

PeerReceives ==
  /\ toPeer # <<>>
  /\ PeerHandshake(Head(toPeer)) \/ PeerAnswers(Head(toPeer))
  /\ toPeer' = Tail(toPeer)
  /\ UNCHANGED <<setting, machine, reply, waiting, garbled>>

\* its own user ends a presentation
PeerTerminates(p) ==
  /\ peer = "Authenticated" /\ p \in running
  /\ running' = running \ {p}
  /\ toUs' = Append(toUs, Message("PresentationTerminationEvent", 0, p, TRUE))
  /\ UNCHANGED <<setting, machine, reply, waiting, peer, toPeer, garbled>>

(* It tells of changes and sends data, more than an event can hold when ok *)
(* is FALSE, and asks what this machine does not handle.                   *)
Unasked == {"AgentInfoEvent", "PresentationConnectionMessage", "PresentationConnectionCloseEvent",
            "PresentationChangeEvent", "AgentInfoRequest", "Undecodable"}

\* what may be said before the handshake is over
Metadata == {"AgentInfoEvent", "AgentInfoRequest", "Undecodable"}

\* what moves app_state
Moving == {"PresentationStartResponse", "PresentationTerminationEvent"}

(* A receiver that is not orderly says anything at any time, and nothing   *)
(* in this machine asks whether it is authenticated or was asked.          *)
PeerTells(type, ok) ==
  /\ setting.orderly =>
       /\ type \in Unasked
       /\ peer = "Authenticated" \/ (peer # "Idle" /\ type \in Metadata)
  /\ Len(toUs) < TellBound
  /\ type = "Undecodable" => ~ok
  /\ ok \/ type \in {"PresentationConnectionMessage", "PresentationStartResponse", "Undecodable"}
  /\ toUs' = Append(toUs, Message(type, 0, None, ok))
  /\ UNCHANGED <<setting, machine, reply, waiting, receiver, toPeer, garbled>>

Peer ==
  \/ PeerConnected \/ PeerReceives
  \/ \E p \in Presentation : PeerTerminates(p)
  \/ \E type \in Unasked \cup Moving, ok \in BOOLEAN : PeerTells(type, ok)

-----------------------------------------------------------------------------
Next ==
  \/ Command
  \/ TransportConnected \/ DataReceived \/ CutReceived \/ CryptoCompleted
  \/ StreamReported \/ Tick
  \/ Peer

Spec == Init /\ [][Next]_vars

(* The driver connects, delivers and computes as long as there is          *)
(* something to do, and the receiver does its part.  Nothing is assumed of *)
(* the user.                                                               *)
Fairness ==
  /\ WF_vars(TransportConnected)
  /\ WF_vars(DataReceived)
  /\ WF_vars(CryptoCompleted)
  /\ WF_vars(PeerConnected)
  /\ WF_vars(PeerReceives)

FairSpec == Spec /\ Fairness

-----------------------------------------------------------------------------
(* Properties *)

InTransit == ToSet(toUs)

(* The variables keep their types. *)
TypeOK ==
  /\ setting \in Setting
  /\ network \in NetworkState /\ app_state \in ApplicationState /\ peer \in PeerState
  /\ request \in {"none", "Start", "FinishWithConfirmation", "VerifyConfirmation"}
  /\ next_request_id \in Nat /\ waiting \in Nat
  /\ running \subseteq Presentation /\ garbled \in BOOLEAN

(* The two places that remember the authentication agree: whatever is      *)
(* received, application_state() says no less than is_authenticated(), and *)
(* with an orderly receiver no more, although events move the one and      *)
(* messages of the receiver the other.                                     *)
StateMatchesNetwork ==
  /\ network = "Authenticated" => app_state # "Idle"
  /\ setting.orderly /\ app_state # "Idle" => network = "Authenticated"

(* What ApplicationState says of itself: Authenticated and Presenting mean *)
(* that the handshake is over.  The code does not keep to it: a receiver   *)
(* that says unasked that a presentation has started, or is over, makes    *)
(* them so in the middle of the handshake or without one.                  *)
StateMeansAuthenticated == app_state \in {"Authenticated", "Presenting"} => network = "Authenticated"

(* Authenticated is a matter of both sides: the receiver has verified this *)
(* agent, which takes a receiver with the empty PSK of the machine and a   *)
(* transport that sends the messages that the machine's owner drops.       *)
AuthenticatedByBoth ==
  network = "Authenticated" =>
    /\ peer \in {"AwaitingStatus", "Authenticated"}
    /\ setting.carries /\ setting.shares

(* No message of the application reaches a receiver that is still busy     *)
(* with the handshake, where it would be taken for a handshake message.    *)
CommandsAfterHandshake ==
  toPeer # <<>> /\ Head(toPeer).type \notin HandshakeType => peer = "Authenticated"

(* Two things poison the handshake machine: a stream that breaks off, and  *)
(* a message of the application that its decoder refuses and that is taken *)
(* for one of the handshake.  No command, no message in the decoder's      *)
(* reach, asked or not, and no order of the two gets into the way of the   *)
(* handshake.                                                              *)
HandshakeUndisturbed == network = "Poisoned" => garbled

\* user and receiver keep to the rules, and what is said arrives
Careful ==
  /\ setting.careful /\ setting.orderly
  /\ ~garbled /\ \A m \in InTransit : m.type # "Undecodable"

(* For a user who starts one presentation at a time, app_state tells what  *)
(* the receiver runs, up to the messages still on their way.               *)
PresentingIsRunning ==
  Careful =>
    /\ app_state = "Presenting" /\ running = {} =>
         \E m \in InTransit : m.type = "PresentationTerminationEvent"
    /\ app_state # "Presenting" /\ running # {} =>
         \E m \in InTransit : m.type = "PresentationStartResponse" /\ m.ok
    /\ Cardinality(running) <= 1

(* Liveness: a machine whose messages are carried to a receiver with the   *)
(* same PSK is authenticated in the end, if the receiver agrees, no stream *)
(* breaks off or brings what cannot be decoded, and the driver reports     *)
(* none before (it would panic).                                           *)
HandshakeCompletes ==
  (setting.carries /\ setting.shares) ~>
    (network = "Authenticated" \/ peer = "Failed" \/ garbled \/ network = "Panicked")

(* Liveness: who asks for a presentation is told in the end that it has    *)
(* started or was rejected, unless the answer was cut or undecodable.      *)
StartAnswered == waiting > 0 ~> (waiting = 0 \/ garbled \/ ~setting.careful)
=============================================================================
