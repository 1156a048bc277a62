------------------------- MODULE Spake2StateMachine -------------------------
(***************************************************************************)
(* Two openscreen agents authenticate each other over one QUIC connection: *)
(* each runs a Spake2StateMachine (openscreen-network) fed by a driver and *)
(* a CryptoProvider.  The state machine is Sans-IO: it is handed inputs    *)
(* (TransportConnected, DataReceived, CryptoCompleted) and returns outputs *)
(* (SendMessage, RequestCrypto, Event), so cryptography is a request that  *)
(* is answered by a LATER input.  Whether the driver reads the network in  *)
(* between is the variable synchronous, which never changes.               *)
(*                                                                         *)
(* One action is one call of Spake2StateMachine::handle.  Cryptography is  *)
(* symbolic: a key is the record of what it was derived from, a MAC is the *)
(* record of its key and its input, so two are equal exactly when they     *)
(* were computed from equal things.  Tick leaves every state as it is and  *)
(* is the stuttering step.                                                 *)
(***************************************************************************)
EXTENDS Naturals, Sequences

CONSTANTS
  Client, Server,      \* the two agents (the names say nothing of their role)
  Psk,                 \* pre-shared keys an agent can be configured with
  Token,               \* auth-initiation tokens
  NoToken,             \* an empty auth_token
  None                 \* an empty buffer or option

ASSUME PeersDiffer == Client # Server
ASSUME NoTokenIsNoToken == NoToken \notin Token

Peer == {Client, Server}

Other(p) == IF p = Client THEN Server ELSE Client

VARIABLES
  psk, authToken, isResponder,  \* CryptoData set before the attempt starts
  synchronous,                  \* the driver runs crypto before it reads the network
  state,      \* Spake2StateMachine.state
  data,       \* the CryptoData fields the handlers fill
  request,    \* the CryptoRequest the driver has not answered yet
  provider,   \* RustCryptoCryptoProvider.spake2_state
  chan,       \* chan[p]: messages on their way to p, one stream each, in order
  driver      \* is the task that feeds the state machine still running

config == <<psk, authToken, isResponder, synchronous>>
vars == <<psk, authToken, isResponder, synchronous, state, data, request, provider, chan, driver>>

----------------------------------------------------------------------------
(* Values *)

PublicValue == [by : Peer, responder : BOOLEAN]

Handshake == [type : {"handshake"}, token : Token \cup {NoToken}, public : PublicValue]

(* A SPAKE2 key depends on the password and on both public values. *)
Secret == [psk : Psk, initiator : PublicValue, responder : PublicValue]

(* HKDF splits the secret into one confirmation key per role. *)
ConfirmationKey == [secret : Secret, responder : BOOLEAN]

Mac == [key : ConfirmationKey, transcript : Seq(Handshake)]

Confirmation == [type : {"confirmation"}, value : Mac]

Status == [type : {"status"}, status : {"Ok", "AuthenticationFailed"}]

Message == [type : {"capabilities"}] \cup Handshake \cup Confirmation \cup Status

(* What the provider keeps between the two operations of one exchange. *)
Spake2State == [psk : Psk, public : PublicValue]

(* None is told apart from every value an option can hold. *)
ASSUME NoneIsNoValue ==
  /\ None \notin PublicValue
  /\ None \notin Secret
  /\ None \notin Message
  /\ None \notin Spake2State

NoRequest == [op |-> "none"]

CryptoRequest ==
  {NoRequest}
  \cup [op : {"start"}, psk : Psk, responder : BOOLEAN]
  \cup [op : {"finish"}, peerPublic : PublicValue,
        transcript : Seq(Handshake), responder : BOOLEAN]
  \cup [op : {"verify"}, context : Mac, confirmation : Mac]

CryptoData ==
  [public     : PublicValue \cup {None},   \* spake2_public
   ours       : Handshake \cup {None},     \* our_handshake_msg
   theirs     : Handshake \cup {None},     \* peer_handshake_msg, peer_public_temp
   transcript : Seq(Handshake),
   secret     : Secret \cup {None},        \* shared_secret and the derived keys
   pending    : Message \cup {None}]       \* pending_confirmation_bytes

StateName == {"Idle", "AwaitingCapabilities", "InitiatingHandshake",
              "AwaitingHandshake", "GeneratingHandshake", "Computing",
              "AwaitingConfirmation", "AwaitingStatus", "Authenticated",
              "Failed", "Poisoned", "Panicked"}

TypeOK ==
  /\ psk \in [Peer -> Psk]
  /\ authToken \in [Peer -> Token \cup {NoToken}]
  /\ isResponder \in [Peer -> BOOLEAN]
  /\ synchronous \in [Peer -> BOOLEAN]
  /\ state \in [Peer -> StateName]
  /\ data \in [Peer -> CryptoData]
  /\ request \in [Peer -> CryptoRequest]
  /\ provider \in [Peer -> Spake2State \cup {None}]
  /\ chan \in [Peer -> Seq(Message)]
  /\ driver \in [Peer -> {"running", "stopped"}]

----------------------------------------------------------------------------
(* Initially: any configuration, also one that cannot work. *)

EmptyCryptoData ==
  [public |-> None, ours |-> None, theirs |-> None,
   transcript |-> <<>>, secret |-> None, pending |-> None]

Init ==
  /\ psk \in [Peer -> Psk]
  /\ authToken \in [Peer -> Token \cup {NoToken}]
  /\ isResponder \in [Peer -> BOOLEAN]
  /\ synchronous \in [Peer -> BOOLEAN]
  /\ state = [p \in Peer |-> "Idle"]
  /\ data = [p \in Peer |-> EmptyCryptoData]
  /\ request = [p \in Peer |-> NoRequest]
  /\ provider = [p \in Peer |-> None]
  /\ chan = [p \in Peer |-> <<>>]
  /\ driver = [p \in Peer |-> "running"]

----------------------------------------------------------------------------
(* Helpers of the handlers *)

Goto(p, s) == state' = [state EXCEPT ![p] = s]

Send(p, m) == chan' = [chan EXCEPT ![Other(p)] = Append(@, m)]

RequestCrypto(p, r) == request' = [request EXCEPT ![p] = r]

NoCryptoRequested(p) == RequestCrypto(p, NoRequest)

StartRequest(p) ==
  [op |-> "start", psk |-> psk[p], responder |-> isResponder[p]]

FinishRequest(p, peerPublic, transcript) ==
  [op |-> "finish", peerPublic |-> peerPublic,
   transcript |-> transcript, responder |-> isResponder[p]]

(* context = transcript || the confirmation key of the peer's role *)
VerifyRequest(p, secret, confirmation) ==
  [op |-> "verify",
   context |-> [key |-> [secret |-> secret, responder |-> ~isResponder[p]],
                transcript |-> data[p].transcript],
   confirmation |-> confirmation]

(* The inputs a state's handle() has a match arm for; any other is a panic. *)
Handles ==
  [Idle                 |-> {"connected"},
   AwaitingCapabilities |-> {"data"},
   InitiatingHandshake  |-> {"crypto"},
   AwaitingHandshake    |-> {"data"},
   GeneratingHandshake  |-> {"crypto"},
   Computing            |-> {"data", "crypto"},
   AwaitingConfirmation |-> {"data"},
   AwaitingStatus       |-> {"data"},
   Authenticated        |-> {"connected", "data", "crypto"},
   Failed               |-> {"connected", "data", "crypto"},
   Poisoned             |-> {"connected", "data", "crypto"},
   Panicked             |-> {}]

(* The message a state decodes; another one is DecodeFailed. *)
Expects ==
  [AwaitingCapabilities |-> "capabilities",
   AwaitingHandshake    |-> "handshake",
   AwaitingConfirmation |-> "confirmation",
   AwaitingStatus       |-> "status"]

(* Mistake: a handshake without a token passes. *)
TokenAcceptedIfMissing(p, token) ==
  isResponder[p] /\ authToken[p] # NoToken => token \in {NoToken, authToken[p]}

(* A responder that advertises a token insists on it. *)
TokenAccepted(p, token) ==
  isResponder[p] /\ authToken[p] # NoToken => token = authToken[p]

(* The responder has no public value of its own yet. *)
NeedsOwnPublicValue(p) == isResponder[p] /\ data[p].public = None

(* Mistake: the initiator puts the peer's message first. *)
ReversedTranscript(p, m) == <<m, data[p].ours>>

(* our_handshake_msg || peer_handshake_msg; the responder has the reverse. *)
InitiatorTranscript(p, m) == <<data[p].ours, m>>

----------------------------------------------------------------------------
(* Inputs.  The driver hands over TransportConnected first, stops at the   *)
(* first error, and reads the network until the machine is authenticated.  *)

DataReady(p) ==
  /\ driver[p] = "running"
  /\ state[p] \notin {"Idle", "Authenticated"}
  /\ chan[p] # <<>>
  /\ synchronous[p] => request[p] = NoRequest

CryptoReady(p) ==
  /\ driver[p] = "running"
  /\ request[p] # NoRequest

(* Mistake: the stream is read but not taken off the queue. *)
ReceiveAgain(p, s) ==
  /\ DataReady(p)
  /\ state[p] = s
  /\ UNCHANGED chan

(* DataReceived handed to the handler of state s *)
Receive(p, s) ==
  /\ DataReady(p)
  /\ state[p] = s
  /\ chan' = [chan EXCEPT ![p] = Tail(@)]

(* Idle: both sides announce their capabilities. *)
TransportConnected(p) ==
  /\ driver[p] = "running"
  /\ state[p] = "Idle"
  /\ Send(p, [type |-> "capabilities"])
  /\ Goto(p, "AwaitingCapabilities")
  /\ UNCHANGED <<config, data, request, provider, driver>>

(* Mistake: nobody starts the handshake. *)
ReceiveCapabilitiesAndWait(p) ==
  /\ Receive(p, "AwaitingCapabilities")
  /\ Head(chan[p]).type = "capabilities"
  /\ Goto(p, "AwaitingHandshake")
  /\ UNCHANGED <<config, data, request, provider, driver>>

(* AwaitingCapabilities: the initiator asks for its public value. *)
ReceiveCapabilities(p) ==
  /\ Receive(p, "AwaitingCapabilities")
  /\ Head(chan[p]).type = "capabilities"
  /\ IF isResponder[p]
       THEN Goto(p, "AwaitingHandshake") /\ UNCHANGED request
       ELSE /\ Goto(p, "InitiatingHandshake")
            /\ RequestCrypto(p, StartRequest(p))
  /\ UNCHANGED <<config, data, provider, driver>>

(* AwaitingHandshake: a responder without a public value asks for one, the *)
(* other case derives the keys at once.                                    *)
ReceiveHandshake(p) ==
  LET m == Head(chan[p])
      transcript == InitiatorTranscript(p, m)
  IN
  /\ Receive(p, "AwaitingHandshake")
  /\ m.type = "handshake"
  /\ TokenAccepted(p, m.token)
  /\ IF NeedsOwnPublicValue(p)
       THEN /\ Goto(p, "GeneratingHandshake")
            /\ data' = [data EXCEPT ![p].theirs = m]
            /\ RequestCrypto(p, StartRequest(p))
       ELSE /\ Goto(p, "Computing")
            /\ data' = [data EXCEPT ![p].theirs = m, ![p].transcript = transcript]
            /\ RequestCrypto(p, FinishRequest(p, m.public, transcript))
  /\ UNCHANGED <<config, provider, driver>>

(* Computing: whatever arrives is kept for later, the last one wins. *)
BufferData(p) ==
  /\ Receive(p, "Computing")
  /\ data' = [data EXCEPT ![p].pending = Head(chan[p])]
  /\ UNCHANGED <<config, state, request, provider, driver>>

(* AwaitingConfirmation: the peer's confirmation goes to the provider. *)
ReceiveConfirmation(p) ==
  /\ Receive(p, "AwaitingConfirmation")
  /\ Head(chan[p]).type = "confirmation"
  /\ Goto(p, "Computing")
  /\ RequestCrypto(p, VerifyRequest(p, data[p].secret, Head(chan[p]).value))
  /\ UNCHANGED <<config, data, provider, driver>>

(* AwaitingStatus: the peer's verdict decides. *)
ReceiveStatus(p) ==
  /\ Receive(p, "AwaitingStatus")
  /\ Head(chan[p]).type = "status"
  /\ Goto(p, IF Head(chan[p]).status = "Ok" THEN "Authenticated" ELSE "Failed")
  /\ UNCHANGED <<config, data, request, provider, driver>>

(* A handler returns Err: the state was replaced by Poisoned before the    *)
(* call and stays so, and the driver gives the connection up.              *)
RejectData(p) ==
  LET m == Head(chan[p]) IN
  /\ \E s \in DOMAIN Expects :
       /\ Receive(p, s)
       /\ \/ m.type # Expects[s]
          \/ m.type = "handshake" /\ s = "AwaitingHandshake" /\ ~TokenAccepted(p, m.token)
  /\ Goto(p, "Poisoned")
  /\ driver' = [driver EXCEPT ![p] = "stopped"]
  /\ UNCHANGED <<config, data, request, provider>>

----------------------------------------------------------------------------
(* CryptoCompleted *)

Answers(p, s, op) ==
  /\ CryptoReady(p)
  /\ state[p] = s
  /\ request[p].op = op

(* What Spake2Operation::Start computes and keeps. *)
NewPublicValue(p) == [by |-> p, responder |-> request[p].responder]

KeepSpake2State(p) ==
  provider' = [provider EXCEPT ![p] =
                 [psk |-> request[p].psk, public |-> NewPublicValue(p)]]

OwnHandshake(p) ==
  [type |-> "handshake", token |-> authToken[p], public |-> NewPublicValue(p)]

(* Mistake: the handshake is sent a second time. *)
HandshakeRepeated(p) ==
  /\ Answers(p, "InitiatingHandshake", "start")
  /\ KeepSpake2State(p)
  /\ data' = [data EXCEPT ![p].public = NewPublicValue(p), ![p].ours = OwnHandshake(p)]
  /\ chan' = [chan EXCEPT ![Other(p)] = @ \o <<OwnHandshake(p), OwnHandshake(p)>>]
  /\ Goto(p, "AwaitingHandshake")
  /\ NoCryptoRequested(p)
  /\ UNCHANGED <<config, driver>>

(* InitiatingHandshake: the initiator sends its handshake. *)
HandshakeInitiated(p) ==
  /\ Answers(p, "InitiatingHandshake", "start")
  /\ KeepSpake2State(p)
  /\ data' = [data EXCEPT ![p].public = NewPublicValue(p), ![p].ours = OwnHandshake(p)]
  /\ Send(p, OwnHandshake(p))
  /\ Goto(p, "AwaitingHandshake")
  /\ NoCryptoRequested(p)
  /\ UNCHANGED <<config, driver>>

(* GeneratingHandshake: the responder answers and derives the keys. *)
HandshakeGenerated(p) ==
  LET transcript == <<data[p].theirs, OwnHandshake(p)>> IN
  /\ Answers(p, "GeneratingHandshake", "start")
  /\ KeepSpake2State(p)
  /\ data' = [data EXCEPT ![p].public = NewPublicValue(p),
                          ![p].ours = OwnHandshake(p),
                          ![p].transcript = transcript]
  /\ Send(p, OwnHandshake(p))
  /\ Goto(p, "Computing")
  /\ RequestCrypto(p, FinishRequest(p, data[p].theirs.public, transcript))
  /\ UNCHANGED <<config, driver>>

(* SPAKE2 finishes only with a public value of the opposite side. *)
FinishSucceeds(p) ==
  /\ provider[p] # None
  /\ request[p].peerPublic.responder = ~provider[p].public.responder

SharedSecret(p) ==
  LET own == provider[p].public
      peer == request[p].peerPublic
  IN [psk       |-> provider[p].psk,
      initiator |-> IF own.responder THEN peer ELSE own,
      responder |-> IF own.responder THEN own ELSE peer]

OwnConfirmation(p) ==
  [key |-> [secret |-> SharedSecret(p), responder |-> request[p].responder],
   transcript |-> request[p].transcript]

TakeSpake2State(p) == provider' = [provider EXCEPT ![p] = None]

(* Computing, FinishWithConfirmation: send our confirmation, then wait for *)
(* the peer's.                                                             *)
KeysDerived(p) ==
  /\ Answers(p, "Computing", "finish")
  /\ FinishSucceeds(p)
  /\ data[p].pending = None
  /\ TakeSpake2State(p)
  /\ data' = [data EXCEPT ![p].secret = SharedSecret(p)]
  /\ Send(p, [type |-> "confirmation", value |-> OwnConfirmation(p)])
  /\ Goto(p, "AwaitingConfirmation")
  /\ NoCryptoRequested(p)
  /\ UNCHANGED <<config, driver>>

(* ... or, when a message was buffered, decode and verify it right away.   *)
KeysDerivedWithPending(p) ==
  LET pending == data[p].pending IN
  /\ Answers(p, "Computing", "finish")
  /\ FinishSucceeds(p)
  /\ pending # None
  /\ TakeSpake2State(p)
  /\ IF pending.type = "confirmation"
       THEN /\ data' = [data EXCEPT ![p].secret = SharedSecret(p), ![p].pending = None]
            /\ Send(p, [type |-> "confirmation", value |-> OwnConfirmation(p)])
            /\ RequestCrypto(p, VerifyRequest(p, SharedSecret(p), pending.value))
            /\ UNCHANGED <<state, driver>>
       ELSE /\ data' = [data EXCEPT ![p].secret = SharedSecret(p)]
            /\ NoCryptoRequested(p)
            /\ Goto(p, "Poisoned")
            /\ driver' = [driver EXCEPT ![p] = "stopped"]
            /\ UNCHANGED chan
  /\ UNCHANGED config

(* Mistake: the MAC is compared, the key it should be made with is not. *)
TranscriptMatches(p) ==
  request[p].confirmation.transcript = request[p].context.transcript

VerifySucceeds(p) == request[p].confirmation = request[p].context

(* Mistake: done after our own verification, the peer's is not awaited. *)
VerifiedAndDone(p) ==
  /\ Answers(p, "Computing", "verify")
  /\ VerifySucceeds(p)
  /\ Send(p, [type |-> "status", status |-> "Ok"])
  /\ Goto(p, "Authenticated")
  /\ NoCryptoRequested(p)
  /\ UNCHANGED <<config, data, provider, driver>>

(* Computing, VerifyConfirmation: an empty result is success. *)
ConfirmationVerified(p) ==
  /\ Answers(p, "Computing", "verify")
  /\ VerifySucceeds(p)
  /\ Send(p, [type |-> "status", status |-> "Ok"])
  /\ Goto(p, "AwaitingStatus")
  /\ NoCryptoRequested(p)
  /\ UNCHANGED <<config, data, provider, driver>>

(* The provider returns Err: there is no input for that, so the driver     *)
(* gives up and the state machine stays where it is.                       *)
CryptoFailed(p) ==
  /\ CryptoReady(p)
  /\ \/ request[p].op = "finish" /\ ~FinishSucceeds(p)
     \/ request[p].op = "verify" /\ ~VerifySucceeds(p)
  /\ provider' = IF request[p].op = "finish"
                   THEN [provider EXCEPT ![p] = None] ELSE provider
  /\ NoCryptoRequested(p)
  /\ driver' = [driver EXCEPT ![p] = "stopped"]
  /\ UNCHANGED <<config, state, data, chan>>

----------------------------------------------------------------------------
(* handle() panics on an input its state has no arm for. *)
Panic(p) ==
  /\ \E input \in {"data", "crypto"} :
       /\ input = "data" => DataReady(p)
       /\ input = "crypto" => CryptoReady(p)
       /\ input \notin Handles[state[p]]
  /\ Goto(p, "Panicked")
  /\ driver' = [driver EXCEPT ![p] = "stopped"]
  /\ UNCHANGED <<config, data, request, provider, chan>>

(* The driver's authentication timeout, or the loss of the connection. *)
GiveUp(p) ==
  /\ driver[p] = "running"
  /\ state[p] # "Authenticated"
  /\ driver' = [driver EXCEPT ![p] = "stopped"]
  /\ UNCHANGED <<config, state, data, request, provider, chan>>

DataReceived(p) ==
  \/ ReceiveCapabilities(p)
  \/ ReceiveHandshake(p)
  \/ BufferData(p)
  \/ ReceiveConfirmation(p)
  \/ ReceiveStatus(p)
  \/ RejectData(p)

CryptoCompleted(p) ==
  \/ HandshakeInitiated(p)
  \/ HandshakeGenerated(p)
  \/ KeysDerived(p)
  \/ KeysDerivedWithPending(p)
  \/ ConfirmationVerified(p)
  \/ CryptoFailed(p)

(* What the driver is bound to do sooner or later while it runs. *)
Progress(p) ==
  TransportConnected(p) \/ DataReceived(p) \/ CryptoCompleted(p) \/ Panic(p)

Next == \E p \in Peer : Progress(p) \/ GiveUp(p)

Spec == Init /\ [][Next]_vars

(* The drivers poll in a loop, so an input that stays available is handed  *)
(* over; nothing makes a driver give up.                                   *)
FairSpec == Spec /\ \A p \in Peer : WF_vars(Progress(p))

----------------------------------------------------------------------------
(* Properties *)

(* The two configurations fit: same PSK, one initiator and one responder,  *)
(* and the initiator knows the token the responder advertises, if any.     *)
Compatible ==
  /\ psk[Client] = psk[Server]
  /\ isResponder[Client] # isResponder[Server]
  /\ \A p \in Peer : isResponder[p] => authToken[p] \in {NoToken, authToken[Other(p)]}

Verified == {p \in Peer : state[p] \in {"AwaitingStatus", "Authenticated"}}

(* Whoever has verified the peer's confirmation holds the key and the      *)
(* transcript the peer holds, and only compatible peers get that far: a    *)
(* wrong PSK, a wrong token, or two equal roles are always noticed.        *)
KeyConfirmation ==
  \A p \in Verified :
    /\ Compatible
    /\ data[p].secret # None
    /\ data[p].secret = data[Other(p)].secret
    /\ data[p].transcript = data[Other(p)].transcript

(* No side calls itself authenticated before both sides have verified: the *)
(* auth-status exchange really is the second phase of a commit.            *)
AuthenticatedTogether ==
  \A p \in Peer : state[p] = "Authenticated" => Verified = Peer

(* The message kept while FinishWithConfirmation is computed is the peer's *)
(* confirmation, and nothing overwrites it (there is room for one).        *)
BufferedIsConfirmation ==
  \A p \in Peer :
    request[p].op = "finish" /\ data[p].pending # None
      => data[p].pending.type = "confirmation"

(* With one initiator and one responder no order of network input and      *)
(* crypto results reaches one of the panics of the handlers.               *)
NoPanic ==
  isResponder[Client] # isResponder[Server]
    => \A p \in Peer : state[p] # "Panicked"

(* Compatible peers never meet an error: every message is the one the      *)
(* state expects and every crypto operation succeeds, in every order.      *)
CompatibleNeverErrs ==
  Compatible =>
    \A p \in Peer :
      /\ state[p] \notin {"Poisoned", "Failed", "Panicked"}
      /\ request[p].op = "finish" => FinishSucceeds(p)
      /\ request[p].op = "verify" => VerifySucceeds(p)

(* When a side is authenticated the peer's auth-status was the last thing  *)
(* on the way to it: the application never reads a handshake message.      *)
NothingLeftBehind ==
  \A p \in Peer : state[p] = "Authenticated" => chan[p] = <<>>

(* What p's attempt has come to. *)
Outcome ==
  [p \in Peer |->
     IF state[p] = "Authenticated" THEN "authenticated"
     ELSE IF state[p] = "Failed" \/ driver[p] = "stopped" THEN "failed"
     ELSE "pending"]

Authentication == INSTANCE MutualAuthentication WITH
  compatible <- Compatible, verified <- Verified, outcome <- Outcome

(* The handshake implements MutualAuthentication. *)
ImplementsMutualAuthentication == Authentication!Spec

(* Compatible peers authenticate each other, if their drivers keep running *)
(* and answer crypto requests before they read on, as both quinn drivers   *)
(* do.                                                                     *)
CompatiblePeersAuthenticate ==
  (Compatible /\ \A p \in Peer : synchronous[p]) ~>
    (\/ \A p \in Peer : state[p] = "Authenticated"
     \/ \E p \in Peer : driver[p] = "stopped")

(* What computing.rs says of the buffer: "Buffer the raw CBOR bytes and    *)
(* process after crypto completes".                                        *)
BufferedDataIsProcessed ==
  \A p \in Peer :
    (data[p].pending # None) ~> (data[p].pending = None \/ driver[p] = "stopped")
=============================================================================
