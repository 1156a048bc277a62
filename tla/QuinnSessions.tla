--------------------------- MODULE QuinnSessions ---------------------------
(***************************************************************************)
(* The two quinn drivers of openscreen-quinn and the programs on top of    *)
(* them.  Clients call QuinnClient::connect, which dials, runs the         *)
(* handshake under a timeout and returns; then they send one request and   *)
(* wait for the response, as app-sender does.  The server accepts one      *)
(* connection after the other, authenticates it under a timeout, and hands *)
(* it to a handler task, as app-receiver does.                             *)
(*                                                                         *)
(* Both drivers run crypto synchronously, so one action is one turn of a   *)
(* driver's loop: read a stream, feed it to the state machine, run the     *)
(* crypto it asks for, send what it answers.  What the state machine does  *)
(* in a turn is the table of its role below.  The client's machine lives   *)
(* as long as the client, the server makes one per connection.             *)
(***************************************************************************)
EXTENDS Naturals, Sequences

CONSTANTS
  Client,       \* QuinnClient objects
  SamePsk,      \* the clients that have the server's PSK
  GoodToken,    \* the clients that send the token the server advertises
  MaxConnect,   \* bound on the calls of connect() of a client
  None

ASSUME SamePskAssumption == SamePsk \subseteq Client
ASSUME GoodTokenAssumption == GoodToken \subseteq Client
ASSUME MaxConnectAssumption == MaxConnect \in Nat \ {0}

(* The n-th call of connect() of c makes the connection <<c, n>>. *)
Connection == Client \X (1 .. MaxConnect)

ASSUME NoneIsNoConnection == None \notin Connection

VARIABLES
  machine,     \* QuinnClient.network_state
  connection,  \* QuinnClient.connection
  call,        \* where the client's program is
  attempts,    \* calls of connect() so far
  incoming,    \* the server endpoint's queue of incoming connections
  serving,     \* the connection accept() is authenticating
  session,     \* the server's state machine for a connection
  handler,     \* the receiver's task for a connection
  up, down,    \* per connection: streams to the server and to the client
  closed,      \* connections closed by either end
  clientCut,   \* history: the state of the client's machine when a stream
               \* of the connection broke off under it, "none" if none did
  serverCut    \* ... and of the server's

clientVars == <<machine, connection, call, attempts>>
serverVars == <<incoming, serving, session, handler>>
cuts == <<clientCut, serverCut>>
vars == <<clientVars, serverVars, up, down, closed, cuts>>

Message == {"capabilities", "handshake", "confirmation", "status",
            "request", "response"}

MachineState == {"Idle", "AwaitingCapabilities", "AwaitingHandshake",
                 "AwaitingConfirmation", "Computing", "AwaitingStatus",
                 "Authenticated", "Poisoned"}

CallState == {"none", "dialing", "driving", "ok", "awaiting", "done", "error",
              "panicked", "gone"}

(* The states in which a machine waits for a message. *)
Running == {"AwaitingCapabilities", "AwaitingHandshake",
            "AwaitingConfirmation", "AwaitingStatus"}

TypeOK ==
  /\ machine \in [Client -> MachineState]
  /\ connection \in [Client -> Connection \cup {None}]
  /\ call \in [Client -> CallState]
  /\ attempts \in [Client -> 0 .. MaxConnect]
  /\ incoming \in Seq(Connection)
  /\ serving \in Connection \cup {None}
  /\ session \in [Connection -> MachineState]
  /\ handler \in [Connection -> {"none", "receiving", "keeping", "ended"}]
  /\ up \in [Connection -> Seq(Message)]
  /\ down \in [Connection -> Seq(Message)]
  /\ closed \in SUBSET Connection
  /\ clientCut \in [Connection -> Running \cup {"none"}]
  /\ serverCut \in [Connection -> Running \cup {"none"}]

Init ==
  /\ machine = [c \in Client |-> "Idle"]
  /\ connection = [c \in Client |-> None]
  /\ call = [c \in Client |-> "none"]
  /\ attempts = [c \in Client |-> 0]
  /\ incoming = <<>>
  /\ serving = None
  /\ session = [k \in Connection |-> "Idle"]
  /\ handler = [k \in Connection |-> "none"]
  /\ up = [k \in Connection |-> <<>>]
  /\ down = [k \in Connection |-> <<>>]
  /\ closed = {}
  /\ clientCut = [k \in Connection |-> "none"]
  /\ serverCut = [k \in Connection |-> "none"]

----------------------------------------------------------------------------
(* What a machine does with the message it waits for, crypto included. *)

Step(on, next, sends) == [on |-> on, next |-> next, sends |-> sends]

InitiatorStep ==
  [AwaitingCapabilities |-> Step("capabilities", "AwaitingHandshake", <<"handshake">>),
   AwaitingHandshake    |-> Step("handshake", "AwaitingConfirmation", <<"confirmation">>),
   AwaitingConfirmation |-> Step("confirmation", "AwaitingStatus", <<"status">>),
   AwaitingStatus       |-> Step("status", "Authenticated", <<>>)]

(* Mistake: done after the own verification, the client's is not awaited.  *)
ResponderStepNoStatus ==
  [AwaitingCapabilities |-> Step("capabilities", "AwaitingHandshake", <<>>),
   AwaitingHandshake    |-> Step("handshake", "AwaitingConfirmation",
                                 <<"handshake", "confirmation">>),
   AwaitingConfirmation |-> Step("confirmation", "Authenticated", <<"status">>),
   AwaitingStatus       |-> Step("status", "Authenticated", <<>>)]

ResponderStep ==
  [AwaitingCapabilities |-> Step("capabilities", "AwaitingHandshake", <<>>),
   AwaitingHandshake    |-> Step("handshake", "AwaitingConfirmation",
                                 <<"handshake", "confirmation">>),
   AwaitingConfirmation |-> Step("confirmation", "AwaitingStatus", <<"status">>),
   AwaitingStatus       |-> Step("status", "Authenticated", <<>>)]

(* Mistake: the provider's verdict is ignored. *)
VerifiesAnything(c, s) == TRUE

(* A confirmation verifies when both sides have the same PSK. *)
Verifies(c, s) == s = "AwaitingConfirmation" => c \in SamePsk

(* The responder compares the token of the handshake with its own. *)
AcceptsToken(c, s) == s = "AwaitingHandshake" => c \in GoodToken

(* Where the machine is left by a message it does not get through with. *)
Derailed(table, s, m) ==
  IF m = table[s].on /\ s = "AwaitingConfirmation" THEN "Computing" ELSE "Poisoned"

Prefixes(s) == {SubSeq(s, 1, n) : n \in 0 .. Len(s)}

----------------------------------------------------------------------------
(* QuinnClient::connect *)

Dialed(c) == <<c, attempts[c]>>

Return(c, r) == call' = [call EXCEPT ![c] = r]

Connect(c) ==
  /\ call[c] \in {"none", "done", "error"}
  /\ attempts[c] < MaxConnect
  /\ attempts' = [attempts EXCEPT ![c] = @ + 1]
  /\ incoming' = Append(incoming, <<c, attempts[c] + 1>>)
  /\ Return(c, "dialing")
  /\ UNCHANGED <<machine, connection, serving, session, handler, up, down, closed, cuts>>

(* The TLS handshake fails or QUIC gives up: connect returns Err before it *)
(* has touched the machine or the previous connection.                     *)
DialFails(c) ==
  /\ call[c] = "dialing"
  /\ closed' = closed \cup {Dialed(c)}
  /\ Return(c, "error")
  /\ UNCHANGED <<machine, connection, attempts, serverVars, up, down, cuts>>

Waiting(k) == \E i \in DOMAIN incoming : incoming[i] = k

(* The connection is there, which takes a server that has accepted it; the *)
(* handle of the previous one is dropped, which closes it.                 *)
Established(c) ==
  /\ call[c] = "dialing"
  /\ ~Waiting(Dialed(c))
  /\ connection' = [connection EXCEPT ![c] = Dialed(c)]
  /\ closed' = closed \cup ({connection[c]} \ {None})

(* TransportConnected, to a machine that was never used *)
StartHandshake(c) ==
  /\ Established(c)
  /\ machine[c] = "Idle"
  /\ machine' = [machine EXCEPT ![c] = "AwaitingCapabilities"]
  /\ up' = [up EXCEPT ![Dialed(c)] = Append(@, "capabilities")]
  /\ Return(c, "driving")
  /\ UNCHANGED <<attempts, serverVars, down, cuts>>

(* ... to one that is Authenticated, which ignores every input *)
ReuseAuthenticated(c) ==
  /\ Established(c)
  /\ machine[c] = "Authenticated"
  /\ Return(c, "driving")
  /\ UNCHANGED <<machine, attempts, serverVars, up, down, cuts>>

(* ... to one that an earlier attempt left in the middle of the handshake: *)
(* the state's handler panics.                                             *)
ReuseInterrupted(c) ==
  /\ Established(c)
  /\ machine[c] \in Running \cup {"Computing"}
  /\ machine' = [machine EXCEPT ![c] = "Poisoned"]
  /\ Return(c, "panicked")
  /\ UNCHANGED <<attempts, serverVars, up, down, cuts>>

(* ... to one that an earlier attempt left Poisoned: InvalidState *)
ReuseFailed(c) ==
  /\ Established(c)
  /\ machine[c] = "Poisoned"
  /\ Return(c, "error")
  /\ UNCHANGED <<machine, attempts, serverVars, up, down, cuts>>

----------------------------------------------------------------------------
(* QuinnClient::run_until_authenticated *)

(* Mistake: connect returns once it has verified the server's confirmation. *)
ReturnWhenVerified(s) == s \in {"AwaitingStatus", "Authenticated"}

IsAuthenticated(s) == s = "Authenticated"

(* A turn of the loop: a stream is read to its end. *)
ClientTurn(c) ==
  /\ call[c] = "driving"
  /\ machine[c] \in Running
  /\ down[connection[c]] # <<>>
  /\ down' = [down EXCEPT ![connection[c]] = Tail(@)]

ClientUnderstands(c) ==
  /\ Head(down[connection[c]]) = InitiatorStep[machine[c]].on
  /\ Verifies(c, machine[c])

ClientReads(c) ==
  LET step == InitiatorStep[machine[c]] IN
  /\ ClientTurn(c)
  /\ ClientUnderstands(c)
  /\ machine' = [machine EXCEPT ![c] = step.next]
  /\ up' = [up EXCEPT ![connection[c]] = @ \o step.sends]
  /\ Return(c, IF IsAuthenticated(step.next) THEN "ok" ELSE "driving")
  /\ UNCHANGED <<connection, attempts, serverVars, closed, cuts>>

(* The timeout strikes while the answer is being sent. *)
ClientCutOff(c) ==
  LET step == InitiatorStep[machine[c]] IN
  /\ ClientTurn(c)
  /\ ClientUnderstands(c)
  /\ step.sends # <<>>
  /\ machine' = [machine EXCEPT ![c] = step.next]
  /\ Return(c, "error")
  /\ UNCHANGED <<connection, attempts, serverVars, up, closed, cuts>>

(* The state machine or the crypto provider returns Err. *)
ClientRejects(c) ==
  /\ ClientTurn(c)
  /\ ~ClientUnderstands(c)
  /\ machine' = [machine EXCEPT ![c] =
                   Derailed(InitiatorStep, @, Head(down[connection[c]]))]
  /\ Return(c, "error")
  /\ UNCHANGED <<connection, attempts, serverVars, up, closed, cuts>>

(* A stream breaks off while it is read, on its way or because its sender  *)
(* was cut off in the middle of it: the loop takes the error for the end   *)
(* of the stream, and what there is of the message does not decode.        *)
ClientReadsCut(c) ==
  /\ call[c] = "driving"
  /\ machine[c] \in Running
  /\ clientCut' = [clientCut EXCEPT ![connection[c]] = machine[c]]
  /\ machine' = [machine EXCEPT ![c] = "Poisoned"]
  /\ Return(c, "error")
  /\ UNCHANGED <<connection, attempts, serverVars, up, down, closed, serverCut>>

(* The loop looks at is_authenticated() before it waits for a stream. *)
ReturnAuthenticated(c) ==
  /\ call[c] = "driving"
  /\ machine[c] = "Authenticated"
  /\ Return(c, "ok")
  /\ UNCHANGED <<machine, connection, attempts, serverVars, up, down, closed, cuts>>

(* The 30 seconds are over or accept_uni() fails; the connection is kept. *)
ClientGivesUp(c) ==
  /\ call[c] = "driving"
  /\ machine[c] # "Authenticated"
  /\ Return(c, "error")
  /\ UNCHANGED <<machine, connection, attempts, serverVars, up, down, closed, cuts>>

----------------------------------------------------------------------------
(* The sender program *)

SendRequest(c) ==
  /\ call[c] = "ok"
  /\ up' = [up EXCEPT ![connection[c]] = Append(@, "request")]
  /\ Return(c, "awaiting")
  /\ UNCHANGED <<machine, connection, attempts, serverVars, down, closed, cuts>>

ReceiveResponse(c) ==
  /\ call[c] = "awaiting"
  /\ down[connection[c]] # <<>>
  /\ down' = [down EXCEPT ![connection[c]] = Tail(@)]
  /\ Return(c, IF Head(down[connection[c]]) = "response" THEN "done" ELSE "error")
  /\ UNCHANGED <<machine, connection, attempts, serverVars, up, closed, cuts>>

(* Streams that have not arrived are lost when the connection closes. *)
ExchangeFails(c) ==
  /\ call[c] \in {"ok", "awaiting"}
  /\ connection[c] \in closed
  /\ Return(c, "error")
  /\ UNCHANGED <<machine, connection, attempts, serverVars, up, down, closed, cuts>>

(* The program ends and with it the client and its connection. *)
Exit(c) ==
  /\ call[c] \in {"done", "error", "panicked"}
  /\ closed' = closed \cup ({connection[c]} \ {None})
  /\ Return(c, "gone")
  /\ UNCHANGED <<machine, connection, attempts, serverVars, up, down, cuts>>

----------------------------------------------------------------------------
(* QuinnServer::accept *)

(* The endpoint takes the next connection and waits for its TLS handshake. *)
Accept ==
  /\ serving = None
  /\ incoming # <<>>
  /\ serving' = Head(incoming)
  /\ incoming' = Tail(incoming)
  /\ UNCHANGED <<clientVars, session, handler, up, down, closed, cuts>>

(* Mistake: what the new machine wants sent is not sent. *)
GreetSilently(k) ==
  /\ serving = k
  /\ session[k] = "Idle"
  /\ k \notin closed
  /\ session' = [session EXCEPT ![k] = "AwaitingCapabilities"]
  /\ UNCHANGED <<clientVars, incoming, serving, handler, up, down, closed, cuts>>

(* The connection is there: TransportConnected, to a machine of its own. *)
Greet(k) ==
  /\ serving = k
  /\ session[k] = "Idle"
  /\ k \notin closed
  /\ session' = [session EXCEPT ![k] = "AwaitingCapabilities"]
  /\ down' = [down EXCEPT ![k] = Append(@, "capabilities")]
  /\ UNCHANGED <<clientVars, incoming, serving, handler, up, closed, cuts>>

(* Mistake: the connection is looked up after it was given up. *)
RefuseTooLate(k) ==
  /\ serving' = None
  /\ closed' = closed \cup {serving'}

(* accept() returns Err and drops the connection. *)
Refuse(k) ==
  /\ serving' = None
  /\ closed' = closed \cup {k}

(* The TLS handshake or the first message fails.  Neither lies under       *)
(* AUTH_TIMEOUT: what ends them is QUIC's own idle timeout.                *)
AcceptFails(k) ==
  /\ serving = k
  /\ session[k] = "Idle"
  /\ Refuse(k)
  /\ UNCHANGED <<clientVars, incoming, session, handler, up, down, cuts>>

(* drive_authentication reads a stream of the connection it serves. *)
ServerTurn(k) ==
  /\ serving = k
  /\ session[k] # "Idle"
  /\ up[k] # <<>>
  /\ up' = [up EXCEPT ![k] = Tail(@)]

ServerUnderstands(k) ==
  /\ Head(up[k]) = ResponderStep[session[k]].on
  /\ Verifies(k[1], session[k])
  /\ AcceptsToken(k[1], session[k])

ServerReads(k) ==
  LET step == ResponderStep[session[k]] IN
  /\ ServerTurn(k)
  /\ ServerUnderstands(k)
  /\ session' = [session EXCEPT ![k] = step.next]
  /\ down' = [down EXCEPT ![k] = @ \o step.sends]
  /\ IF step.next = "Authenticated"
       THEN /\ serving' = None
            /\ handler' = [handler EXCEPT ![k] = "receiving"]
       ELSE UNCHANGED <<serving, handler>>
  /\ UNCHANGED <<clientVars, incoming, closed, cuts>>

(* The timeout strikes between the messages of the answer. *)
ServerCutOff(k) ==
  LET step == ResponderStep[session[k]] IN
  /\ ServerTurn(k)
  /\ ServerUnderstands(k)
  /\ \E sent \in Prefixes(step.sends) \ {step.sends} :
       down' = [down EXCEPT ![k] = @ \o sent]
  /\ session' = [session EXCEPT ![k] = step.next]
  /\ Refuse(k)
  /\ UNCHANGED <<clientVars, incoming, handler, cuts>>

ServerRejects(k) ==
  /\ ServerTurn(k)
  /\ ~ServerUnderstands(k)
  /\ session' = [session EXCEPT ![k] = Derailed(ResponderStep, @, Head(up[k]))]
  /\ Refuse(k)
  /\ UNCHANGED <<clientVars, incoming, handler, down, cuts>>

(* A stream breaks off while it is read, as in ClientReadsCut.  (What is   *)
(* empty then the server skips: with a later stream the machine errs all   *)
(* the same, and without one ServerGivesUp.)                               *)
ServerReadsCut(k) ==
  /\ serving = k
  /\ session[k] # "Idle"
  /\ up[k] # <<>> \/ connection[k[1]] = k
  /\ serverCut' = [serverCut EXCEPT ![k] = session[k]]
  /\ session' = [session EXCEPT ![k] = "Poisoned"]
  /\ Refuse(k)
  /\ UNCHANGED <<clientVars, incoming, handler, up, down, clientCut>>

(* Mistake: only the loss of the connection ends an authentication. *)
ServerWaitsForever(k) ==
  /\ serving = k
  /\ session[k] # "Idle"
  /\ k \in closed
  /\ Refuse(k)
  /\ UNCHANGED <<clientVars, incoming, session, handler, up, down, cuts>>

(* AUTH_TIMEOUT, or the connection is lost. *)
ServerGivesUp(k) ==
  /\ serving = k
  /\ session[k] # "Idle"
  /\ Refuse(k)
  /\ UNCHANGED <<clientVars, incoming, session, handler, up, down, cuts>>

----------------------------------------------------------------------------
(* The receiver's task for an authenticated connection *)

(* Mistake: the task ends, and drops the connection, with its answer. *)
HandlerAnswersAndLeaves(k) ==
  /\ handler[k] = "receiving"
  /\ up[k] # <<>>
  /\ Head(up[k]) = "request"
  /\ up' = [up EXCEPT ![k] = Tail(@)]
  /\ down' = [down EXCEPT ![k] = Append(@, "response")]
  /\ handler' = [handler EXCEPT ![k] = "ended"]
  /\ closed' = closed \cup {k}
  /\ UNCHANGED <<clientVars, incoming, serving, session, cuts>>

(* The task answers the request; anything else does not decode.            *)
HandlerReceives(k) ==
  /\ handler[k] = "receiving"
  /\ up[k] # <<>>
  /\ up' = [up EXCEPT ![k] = Tail(@)]
  /\ IF Head(up[k]) = "request"
       THEN /\ down' = [down EXCEPT ![k] = Append(@, "response")]
            /\ handler' = [handler EXCEPT ![k] = "keeping"]
            /\ UNCHANGED closed
       ELSE /\ handler' = [handler EXCEPT ![k] = "ended"]
            /\ closed' = closed \cup {k}
            /\ UNCHANGED down
  /\ UNCHANGED <<clientVars, incoming, serving, session, cuts>>

(* The task notices that the connection is closed. *)
HandlerEnds(k) ==
  /\ handler[k] \in {"receiving", "keeping"}
  /\ k \in closed
  /\ handler' = [handler EXCEPT ![k] = "ended"]
  /\ UNCHANGED <<clientVars, incoming, serving, session, up, down, closed, cuts>>

----------------------------------------------------------------------------
ClientProgress(c) ==
  \/ StartHandshake(c) \/ ReuseAuthenticated(c) \/ ReuseInterrupted(c) \/ ReuseFailed(c)
  \/ ClientReads(c) \/ ClientRejects(c) \/ ReturnAuthenticated(c)
  \/ SendRequest(c) \/ ReceiveResponse(c) \/ ExchangeFails(c)

ClientNext(c) ==
  ClientProgress(c) \/ Connect(c) \/ DialFails(c) \/ ClientCutOff(c)
    \/ ClientReadsCut(c) \/ ClientGivesUp(c) \/ Exit(c)

Greeting(k) == Greet(k) \/ AcceptFails(k)

ServerProgress(k) == ServerReads(k) \/ ServerRejects(k)

HandlerNext(k) == HandlerReceives(k) \/ HandlerEnds(k)

Next ==
  \/ \E c \in Client : ClientNext(c)
  \/ Accept
  \/ \E k \in Connection :
       \/ Greeting(k) \/ ServerProgress(k) \/ ServerCutOff(k) \/ ServerReadsCut(k)
       \/ ServerGivesUp(k) \/ HandlerNext(k)

Spec == Init /\ [][Next]_vars

(* The drivers poll in a loop and both timeouts run out; the programs that *)
(* are configured right go on with their script.  Nothing is assumed of    *)
(* the others, which may stall at any point, nor of what ends a dial.  The *)
(* server's wait for a TLS handshake and its first message end, as quinn's *)
(* idle timeout and the stream credit of a quinn peer have it.             *)
Configured == SamePsk \cap GoodToken

FairSpec ==
  /\ Spec
  /\ \A c \in Configured : WF_vars(ClientProgress(c)) /\ WF_vars(ClientGivesUp(c))
  /\ WF_vars(Accept)
  /\ \A k \in Connection :
       /\ WF_vars(Greeting(k))
       /\ WF_vars(ServerProgress(k))
       /\ WF_vars(ServerGivesUp(k))
       /\ WF_vars(HandlerNext(k))

----------------------------------------------------------------------------
(* Properties *)

HasVerified(s) == s \in {"AwaitingStatus", "Authenticated"}

Succeeded(c) == call[c] \in {"ok", "awaiting", "done"}

(* How far an end has come on connection k, also when it was Poisoned by a *)
(* stream that broke off.                                                  *)
ClientAt(k) == IF clientCut[k] = "none" THEN machine[k[1]] ELSE clientCut[k]
ServerAt(k) == IF serverCut[k] = "none" THEN session[k] ELSE serverCut[k]

(* connect(): "Ok(()) - Successfully connected and authenticated".  When   *)
(* it returned Ok, the server has verified the client on THIS connection.  *)
ConnectMeansAuthenticated ==
  \A c \in Client :
    Succeeded(c) => c \in Configured /\ HasVerified(ServerAt(connection[c]))

(* The server hands a connection to the application only when the client   *)
(* at its other end has the PSK and the token and has verified the server, *)
(* whatever timeouts, retries and losses came before.                      *)
AcceptedIsAuthenticated ==
  \A k \in Connection :
    handler[k] # "none" =>
      /\ k[1] \in Configured
      /\ connection[k[1]] = k => HasVerified(ClientAt(k))

(* Handshake and application streams share a connection and are told apart *)
(* by order alone: neither side's application meets a handshake message,   *)
(* and the handshake consumes no application message.                      *)
StreamsSeparated ==
  /\ \A k \in Connection : \A i \in DOMAIN up[k] :
       handler[k] = "receiving" => up[k][i] = "request"
  /\ \A c \in Client : Succeeded(c) =>
       \A i \in DOMAIN down[connection[c]] : down[connection[c]][i] = "response"

(* Both drivers only ever wait for the other one: while both run the       *)
(* handshake of a connection, a message is on its way to one of them.      *)
HandshakeNeverStalls ==
  \A c \in Client :
    LET k == connection[c] IN
    call[c] = "driving" /\ machine[c] \in Running /\ serving = k
      => up[k] # <<>> \/ down[k] # <<>>

(* A right configuration fails by timeouts and losses only: unless a       *)
(* stream breaks off under it, no order of the drivers' turns, and no turn *)
(* cut off in the middle, makes a machine meet a message it does not       *)
(* expect or a confirmation that is wrong.                                 *)
ConfiguredNeverDerails ==
  \A c \in Configured :
    /\ machine[c] \in {"Poisoned", "Computing"} => clientCut[<<c, 1>>] # "none"
    /\ session[<<c, 1>>] \in {"Poisoned", "Computing"} => serverCut[<<c, 1>>] # "none"

(* The two drivers keep the handshake going: neither order nor timing of   *)
(* their turns makes them both wait, and without a stream that breaks off  *)
(* none of them goes astray.                                               *)
HandshakeProceeds == HandshakeNeverStalls /\ ConfiguredNeverDerails

(* connect() returns a Result, also when it is called again after an error.*)
ConnectNeverPanics == \A c \in Client : call[c] # "panicked"

(* How the two attempts of the first connection of c stand; the server's   *)
(* begins with its machine.                                                *)
Attempts(c) ==
  LET k == <<c, 1>> IN
  [client |-> IF machine[c] = "Authenticated" THEN "authenticated"
              ELSE IF call[c] \in {"error", "panicked", "gone"} THEN "failed"
              ELSE "pending",
   server |-> IF handler[k] # "none" THEN "authenticated"
              ELSE IF session[k] # "Idle" /\ serving # k THEN "failed"
              ELSE "pending"]

VerifiedEnds(c) ==
  {p \in {"client", "server"} :
     HasVerified(IF p = "client" THEN ClientAt(<<c, 1>>) ELSE ServerAt(<<c, 1>>))}

Authentication(c) == INSTANCE MutualAuthentication WITH
  Peer <- {"client", "server"},
  compatible <- c \in Configured,
  verified <- VerifiedEnds(c),
  outcome <- Attempts(c)

(* Timeouts on either side, a server that serves one connection at a time  *)
(* and lost messages do not break the promise of the handshake: on every   *)
(* client's first connection the drivers implement MutualAuthentication.   *)
SessionsImplementAuthentication ==
  /\ \A c \in Client : Authentication(c)!Init
  /\ [][\A c \in Client :
         Authentication(c)!Next \/ UNCHANGED Authentication(c)!vars]_vars

(* The server authenticates one connection at a time, and some clients say *)
(* nothing: every connection gets its turn all the same.                   *)
EveryoneIsServed == \A k \in Connection : Waiting(k) ~> ~Waiting(k)

(* A request on a connection the server has accepted is answered: the      *)
(* response is not lost to a connection closed too early.                  *)
RequestAnswered ==
  \A c \in Configured :
    (call[c] = "awaiting" /\ handler[connection[c]] = "receiving") ~> call[c] = "done"
=============================================================================
