----------------------------- MODULE QuinnProofs -----------------------------
(***************************************************************************)
(* The inductive invariant of QuinnSessions and the theorems that rest on  *)
(* it, for any number of clients, every configuration of theirs and, where *)
(* nothing else is said, any number of calls of connect().                 *)
(*                                                                         *)
(* The idea: on a connection each end says five things in a fixed order.   *)
(* How many of them an end has said and how many the other one has taken   *)
(* can be read off their states, so what is on its way is known by its     *)
(* position, also when a timeout has cut an end off in mid-answer.         *)
(***************************************************************************)
EXTENDS QuinnSessions, SequenceTheorems, TLAPS

(* What the two ends say on a connection, in this order. *)
ClientSays == <<"capabilities", "handshake", "confirmation", "status", "request">>
ServerSays == <<"capabilities", "handshake", "confirmation", "status", "response">>

(* How many of the other end's messages a machine has taken in a state, and *)
(* how many of its own the client and the server have sent by then at most. *)
Taken ==
  [Idle |-> 0, AwaitingCapabilities |-> 0, AwaitingHandshake |-> 1,
   AwaitingConfirmation |-> 2, Computing |-> 3, AwaitingStatus |-> 3,
   Authenticated |-> 4, Poisoned |-> 0]

ClientTold ==
  [Idle |-> 0, AwaitingCapabilities |-> 1, AwaitingHandshake |-> 2,
   AwaitingConfirmation |-> 3, Computing |-> 3, AwaitingStatus |-> 4,
   Authenticated |-> 4, Poisoned |-> 0]

ServerTold ==
  [Idle |-> 0, AwaitingCapabilities |-> 1, AwaitingHandshake |-> 1,
   AwaitingConfirmation |-> 3, Computing |-> 3, AwaitingStatus |-> 4,
   Authenticated |-> 4, Poisoned |-> 1]

(* ... the request and the response included. *)
TakenByServer(k) == IF handler[k] = "keeping" THEN 5 ELSE Taken[session[k]]
TakenByClient(c) == IF call[c] = "done" THEN 5 ELSE Taken[machine[c]]

MostByClient(k) == IF machine[k[1]] = "Authenticated" THEN 5 ELSE ClientTold[ClientAt(k)]
MostByServer(k) ==
  IF handler[k] \in {"keeping", "ended"} THEN 5 ELSE ServerTold[ServerAt(k)]

(* The messages in s are those of says from position n + 1 on. *)
From(s, says, n) == \A i \in 1 .. Len(s) : s[i] = says[n + i]

(* The client has said nothing on this connection, which it may not have. *)
Unheard(k) ==
  /\ up[k] = <<>>
  /\ session[k] \in {"Idle", "AwaitingCapabilities"}
  /\ session[k] = "AwaitingCapabilities" => down[k] = <<"capabilities">>

(* ... and will not say anything: the server does not authenticate it. *)
Silent(k) == up[k] = <<>> /\ session[k] # "Authenticated"

(* k is younger than the connection its client holds. *)
Younger(k) == connection[k[1]] = None \/ k[2] > connection[k[1]][2]

(* The server's end of a connection. *)
SessionInv(k) ==
  /\ session[k] = "Idle" => down[k] = <<>>
  /\ serving = k => session[k] \in Running \cup {"Idle"}
  /\ handler[k] # "none" <=> session[k] = "Authenticated"
  /\ ServerAt(k) \in {"AwaitingConfirmation", "AwaitingStatus", "Authenticated", "Computing"}
       => k[1] \in GoodToken
  /\ ServerAt(k) \in {"AwaitingStatus", "Authenticated"} => k[1] \in SamePsk
  /\ session[k] = "Computing" => k[1] \notin SamePsk
  /\ k[2] > attempts[k[1]] => session[k] = "Idle"
  /\ serverCut[k] # "none" => session[k] = "Poisoned"
  /\ Younger(k) => Unheard(k)

QueueInv ==
  /\ \A i \in 1 .. Len(incoming) :
       /\ session[incoming[i]] = "Idle"
       /\ incoming[i] # serving
       /\ incoming[i][2] <= attempts[incoming[i][1]]
  /\ \A i, j \in 1 .. Len(incoming) : incoming[i] = incoming[j] => i = j
  /\ serving # None => serving[2] <= attempts[serving[1]]

(* The client and what it holds. *)
ClientInv(c) ==
  /\ machine[c] = "Idle" <=> connection[c] = None
  /\ connection[c] # None =>
       /\ connection[c][1] = c
       /\ connection[c][2] <= attempts[c]
       /\ call[c] = "dialing" => connection[c][2] < attempts[c]
  /\ call[c] # "none" => attempts[c] > 0
  /\ call[c] = "driving" => machine[c] \in Running \cup {"Authenticated"}
  /\ Succeeded(c) => machine[c] = "Authenticated"
  /\ machine[c] = "Poisoned" /\ clientCut[connection[c]] = "none" =>
       attempts[c] > 1 /\ Silent(connection[c])
  /\ machine[c] = "Computing" => c \notin SamePsk
  /\ HasVerified(machine[c]) => c \in SamePsk

(* Where streams have broken off under the client. *)
CutInv(c) ==
  \A k \in Connection : k[1] = c /\ clientCut[k] # "none" =>
    /\ machine[c] = "Poisoned" /\ ~Younger(k)
    /\ HasVerified(clientCut[k]) => c \in SamePsk

(* The connection c holds is the one its handshake runs or ran on. *)
Held(c) ==
  \/ machine[c] \in Running \cup {"Computing"}
  \/ machine[c] = "Authenticated" /\ attempts[c] = 1
  \/ machine[c] = "Poisoned" /\ clientCut[connection[c]] # "none"

(* What is on its way to the server on connection k of client c ... *)
UpInv(c, k) ==
  session[k] \in Running \cup {"Idle", "Authenticated"} /\ handler[k] # "ended" =>
    /\ From(up[k], ClientSays, TakenByServer(k))
    /\ TakenByServer(k) + Len(up[k]) <= MostByClient(k)
    /\ call[c] \in {"driving", "ok"} => TakenByServer(k) + Len(up[k]) = ClientTold[machine[c]]

(* ... and to the client. *)
DownInv(c, k) ==
  call[c] \in {"driving", "ok", "awaiting", "done"} =>
    /\ From(down[k], ServerSays, TakenByClient(c))
    /\ TakenByClient(c) + Len(down[k]) <= MostByServer(k)
    /\ serving = k \/ session[k] = "Idle" \/ handler[k] = "receiving" =>
         TakenByClient(c) + Len(down[k]) = ServerTold[session[k]]

WireInv(c) ==
  Held(c) =>
    /\ UpInv(c, connection[c])
    /\ DownInv(c, connection[c])
    /\ session[connection[c]] = "Poisoned" /\ serverCut[connection[c]] = "none"
         => c \notin GoodToken
    /\ session[connection[c]] = "Authenticated"
         => ClientAt(connection[c]) \in {"AwaitingStatus", "Authenticated"}

(* The inductive invariant. *)
IInv ==
  /\ TypeOK
  /\ QueueInv
  /\ \A k \in Connection : SessionInv(k)
  /\ \A c \in Client : ClientInv(c) /\ CutInv(c) /\ WireInv(c)

-----------------------------------------------------------------------------
(* Constant facts *)

(* A connection is a client and the number of its call of connect(). *)
LEMMA ConnectionFacts ==
  /\ \A k \in Connection : /\ k[1] \in Client /\ k[2] \in 1 .. MaxConnect
                           /\ k = <<k[1], k[2]>> /\ k # None
  /\ \A c \in Client, n \in 1 .. MaxConnect :
       /\ <<c, n>> \in Connection /\ <<c, n>>[1] = c /\ <<c, n>>[2] = n
  /\ \A k, l \in Connection : k[1] = l[1] /\ k[2] = l[2] => k = l
BY NoneIsNoConnection DEF Connection

LEMMA RunningFacts ==
  Running = {"AwaitingCapabilities", "AwaitingHandshake", "AwaitingConfirmation", "AwaitingStatus"}
BY DEF Running

LEMMA PositionFacts ==
  /\ \A s \in MachineState : Taken[s] \in 0 .. 4 /\ ClientTold[s] \in 0 .. 4 /\ ServerTold[s] \in 0 .. 4
  /\ Taken["Idle"] = 0 /\ ServerTold["Idle"] = 0
  /\ Taken["AwaitingCapabilities"] = 0 /\ Taken["AwaitingHandshake"] = 1
  /\ Taken["AwaitingConfirmation"] = 2 /\ Taken["AwaitingStatus"] = 3 /\ Taken["Authenticated"] = 4
  /\ ClientTold["AwaitingCapabilities"] = 1 /\ ClientTold["AwaitingHandshake"] = 2
  /\ ClientTold["AwaitingConfirmation"] = 3 /\ ClientTold["AwaitingStatus"] = 4
  /\ ClientTold["Authenticated"] = 4 /\ ClientTold["Computing"] = 3
  /\ ServerTold["AwaitingCapabilities"] = 1 /\ ServerTold["AwaitingHandshake"] = 1
  /\ ServerTold["AwaitingConfirmation"] = 3 /\ ServerTold["AwaitingStatus"] = 4
  /\ ServerTold["Authenticated"] = 4 /\ ServerTold["Computing"] = 3 /\ ServerTold["Poisoned"] = 1
BY DEF Taken, ClientTold, ServerTold, MachineState

(* A message taken moves the position on and shortens the stream. *)
LEMMA Shift ==
  \A n, l \in Nat : \A m : m = l - 1 => (n + 1) + m = n + l
OBVIOUS

(* A stream of up to two messages that start at a position. *)
LEMMA Tuples ==
  ASSUME NEW says, NEW n \in Nat
  PROVE  /\ <<>> \in Seq(Message) /\ Len(<<>>) = 0 /\ From(<<>>, says, n)
         /\ \A a \in Message :
              /\ <<a>> \in Seq(Message) /\ Len(<<a>>) = 1
              /\ a = says[n + 1] => From(<<a>>, says, n)
         /\ \A a, b \in Message :
              /\ <<a, b>> \in Seq(Message) /\ Len(<<a, b>>) = 2
              /\ a = says[n + 1] /\ b = says[n + 2] => From(<<a, b>>, says, n)
<1>1. <<>> \in Seq(Message) /\ Len(<<>>) = 0 /\ From(<<>>, says, n)
  BY DEF From
<1>2. ASSUME NEW a \in Message
      PROVE  /\ <<a>> \in Seq(Message) /\ Len(<<a>>) = 1
             /\ a = says[n + 1] => From(<<a>>, says, n)
  BY DEF From
<1>3. ASSUME NEW a \in Message, NEW b \in Message
      PROVE  /\ <<a, b>> \in Seq(Message) /\ Len(<<a, b>>) = 2
             /\ a = says[n + 1] /\ b = says[n + 2] => From(<<a, b>>, says, n)
  BY DEF From
<1>. QED
  BY <1>1, <1>2, <1>3

(* The messages a machine waits for and answers with are the next ones. *)
LEMMA InitiatorFacts ==
  ASSUME NEW s \in Running
  PROVE  LET t == InitiatorStep[s] IN
         /\ t.on = ServerSays[Taken[s] + 1]
         /\ t.next \in Running \cup {"Authenticated"}
         /\ t.next = "Authenticated" <=> s = "AwaitingStatus"
         /\ t.next = "AwaitingStatus" <=> s = "AwaitingConfirmation"
         /\ Taken[t.next] = Taken[s] + 1
         /\ t.sends \in Seq(Message)
         /\ From(t.sends, ClientSays, ClientTold[s])
         /\ ClientTold[t.next] = ClientTold[s] + Len(t.sends)
<1> DEFINE t == InitiatorStep[s]
<1>1. CASE s = "AwaitingCapabilities"
  <2>1. t.on = "capabilities" /\ t.next = "AwaitingHandshake" /\ t.sends = <<"handshake">>
    BY <1>1 DEF InitiatorStep, Step
  <2>2. t.sends \in Seq(Message) /\ Len(t.sends) = 1 /\ From(t.sends, ClientSays, ClientTold[s])
    BY <1>1, <2>1, Tuples, PositionFacts DEF Message, ClientSays
  <2>. QED
    BY <1>1, <2>1, <2>2, PositionFacts, RunningFacts DEF ServerSays
<1>2. CASE s = "AwaitingHandshake"
  <2>1. t.on = "handshake" /\ t.next = "AwaitingConfirmation" /\ t.sends = <<"confirmation">>
    BY <1>2 DEF InitiatorStep, Step
  <2>2. t.sends \in Seq(Message) /\ Len(t.sends) = 1 /\ From(t.sends, ClientSays, ClientTold[s])
    BY <1>2, <2>1, Tuples, PositionFacts DEF Message, ClientSays
  <2>. QED
    BY <1>2, <2>1, <2>2, PositionFacts, RunningFacts DEF ServerSays
<1>3. CASE s = "AwaitingConfirmation"
  <2>1. t.on = "confirmation" /\ t.next = "AwaitingStatus" /\ t.sends = <<"status">>
    BY <1>3 DEF InitiatorStep, Step
  <2>2. t.sends \in Seq(Message) /\ Len(t.sends) = 1 /\ From(t.sends, ClientSays, ClientTold[s])
    BY <1>3, <2>1, Tuples, PositionFacts DEF Message, ClientSays
  <2>. QED
    BY <1>3, <2>1, <2>2, PositionFacts, RunningFacts DEF ServerSays
<1>4. CASE s = "AwaitingStatus"
  <2>1. t.on = "status" /\ t.next = "Authenticated" /\ t.sends = <<>>
    BY <1>4 DEF InitiatorStep, Step
  <2>2. t.sends \in Seq(Message) /\ Len(t.sends) = 0 /\ From(t.sends, ClientSays, ClientTold[s])
    BY <1>4, <2>1, Tuples, PositionFacts DEF Message, ClientSays
  <2>. QED
    BY <1>4, <2>1, <2>2, PositionFacts, RunningFacts DEF ServerSays
<1>. QED
  BY <1>1, <1>2, <1>3, <1>4, RunningFacts

LEMMA ResponderFacts ==
  ASSUME NEW s \in Running
  PROVE  LET t == ResponderStep[s] IN
         /\ t.on = ClientSays[Taken[s] + 1]
         /\ t.next \in Running \cup {"Authenticated"}
         /\ t.next = "Authenticated" <=> s = "AwaitingStatus"
         /\ t.next = "AwaitingStatus" <=> s = "AwaitingConfirmation"
         /\ t.next = "AwaitingConfirmation" <=> s = "AwaitingHandshake"
         /\ Taken[t.next] = Taken[s] + 1
         /\ t.sends \in Seq(Message)
         /\ From(t.sends, ServerSays, ServerTold[s])
         /\ ServerTold[t.next] = ServerTold[s] + Len(t.sends)
<1> DEFINE t == ResponderStep[s]
<1>1. CASE s = "AwaitingCapabilities"
  <2>1. t.on = "capabilities" /\ t.next = "AwaitingHandshake" /\ t.sends = <<>>
    BY <1>1 DEF ResponderStep, Step
  <2>2. t.sends \in Seq(Message) /\ Len(t.sends) = 0 /\ From(t.sends, ServerSays, ServerTold[s])
    BY <1>1, <2>1, Tuples, PositionFacts DEF Message, ServerSays
  <2>. QED
    BY <1>1, <2>1, <2>2, PositionFacts, RunningFacts DEF ClientSays
<1>2. CASE s = "AwaitingHandshake"
  <2>1. t.on = "handshake" /\ t.next = "AwaitingConfirmation" /\ t.sends = <<"handshake", "confirmation">>
    BY <1>2 DEF ResponderStep, Step
  <2>2. t.sends \in Seq(Message) /\ Len(t.sends) = 2 /\ From(t.sends, ServerSays, ServerTold[s])
    BY <1>2, <2>1, Tuples, PositionFacts DEF Message, ServerSays
  <2>. QED
    BY <1>2, <2>1, <2>2, PositionFacts, RunningFacts DEF ClientSays
<1>3. CASE s = "AwaitingConfirmation"
  <2>1. t.on = "confirmation" /\ t.next = "AwaitingStatus" /\ t.sends = <<"status">>
    BY <1>3 DEF ResponderStep, Step
  <2>2. t.sends \in Seq(Message) /\ Len(t.sends) = 1 /\ From(t.sends, ServerSays, ServerTold[s])
    BY <1>3, <2>1, Tuples, PositionFacts DEF Message, ServerSays
  <2>. QED
    BY <1>3, <2>1, <2>2, PositionFacts, RunningFacts DEF ClientSays
<1>4. CASE s = "AwaitingStatus"
  <2>1. t.on = "status" /\ t.next = "Authenticated" /\ t.sends = <<>>
    BY <1>4 DEF ResponderStep, Step
  <2>2. t.sends \in Seq(Message) /\ Len(t.sends) = 0 /\ From(t.sends, ServerSays, ServerTold[s])
    BY <1>4, <2>1, Tuples, PositionFacts DEF Message, ServerSays
  <2>. QED
    BY <1>4, <2>1, <2>2, PositionFacts, RunningFacts DEF ClientSays
<1>. QED
  BY <1>1, <1>2, <1>3, <1>4, RunningFacts

-----------------------------------------------------------------------------
(* Streams known by their position *)

LEMMA FromTail ==
  ASSUME NEW s \in Seq(Message), s # <<>>, NEW says, NEW n \in Nat, From(s, says, n)
  PROVE  /\ Head(s) = says[n + 1] /\ Head(s) \in Message
         /\ Tail(s) \in Seq(Message) /\ Len(Tail(s)) = Len(s) - 1 /\ Len(s) > 0
         /\ From(Tail(s), says, n + 1)
<1>1. /\ Tail(s) \in Seq(Message) /\ Len(Tail(s)) = Len(s) - 1
      /\ Len(s) \in Nat /\ Len(s) > 0 /\ Head(s) = s[1] /\ Head(s) \in Message
      /\ \A i \in 1 .. Len(Tail(s)) : Tail(s)[i] = s[i + 1]
  OBVIOUS
<1>2. s[1] = says[n + 1]
  BY <1>1 DEF From
<1>3. ASSUME NEW i \in 1 .. Len(Tail(s)) PROVE Tail(s)[i] = says[(n + 1) + i]
  <2>1. i + 1 \in 1 .. Len(s) /\ n + (i + 1) = (n + 1) + i
    BY <1>1
  <2>2. s[i + 1] = says[n + (i + 1)]
    BY <2>1 DEF From
  <2>. QED
    BY <1>1, <2>1, <2>2
<1>. QED
  BY <1>1, <1>2, <1>3 DEF From

LEMMA FromConcat ==
  ASSUME NEW s \in Seq(Message), NEW t \in Seq(Message), NEW says, NEW n \in Nat,
         From(s, says, n), From(t, says, n + Len(s))
  PROVE  /\ s \o t \in Seq(Message) /\ Len(s \o t) = Len(s) + Len(t)
         /\ From(s \o t, says, n)
<1> DEFINE r == s \o t
<1>1. /\ Len(s) \in Nat /\ Len(t) \in Nat
      /\ r \in Seq(Message) /\ Len(r) = Len(s) + Len(t)
      /\ \A i \in 1 .. Len(r) : r[i] = IF i <= Len(s) THEN s[i] ELSE t[i - Len(s)]
  BY ConcatProperties, LenProperties
<1>2. ASSUME NEW i \in 1 .. Len(r) PROVE r[i] = says[n + i]
  <2>1. CASE i <= Len(s)
    BY <1>1, <2>1 DEF From
  <2>2. CASE ~(i <= Len(s))
    <3>1. i - Len(s) \in 1 .. Len(t) /\ (n + Len(s)) + (i - Len(s)) = n + i
      BY <1>1, <2>2
    <3>2. t[i - Len(s)] = says[(n + Len(s)) + (i - Len(s))]
      BY <3>1 DEF From
    <3>. QED
      BY <1>1, <2>2, <3>1, <3>2
  <2>. QED
    BY <2>1, <2>2
<1>. QED
  BY <1>1, <1>2 DEF From

LEMMA FromAppend ==
  ASSUME NEW s \in Seq(Message), NEW e \in Message, NEW says, NEW n \in Nat,
         From(s, says, n), e = says[n + Len(s) + 1]
  PROVE  /\ Append(s, e) \in Seq(Message) /\ Len(Append(s, e)) = Len(s) + 1
         /\ From(Append(s, e), says, n)
<1> DEFINE r == Append(s, e)
<1>1. /\ Len(s) \in Nat /\ r \in Seq(Message) /\ Len(r) = Len(s) + 1
      /\ \A i \in 1 .. Len(s) : r[i] = s[i]
      /\ r[Len(s) + 1] = e
  BY AppendProperties, LenProperties
<1>2. ASSUME NEW i \in 1 .. Len(r) PROVE r[i] = says[n + i]
  <2>1. i \in 1 .. Len(s) \/ i = Len(s) + 1
    BY <1>1
  <2>2. CASE i \in 1 .. Len(s)
    BY <1>1, <2>2 DEF From
  <2>3. CASE i = Len(s) + 1
    BY <1>1, <2>3
  <2>. QED
    BY <2>1, <2>2, <2>3
<1>. QED
  BY <1>1, <1>2 DEF From

(* An answer cut off in the middle starts like the whole one. *)
LEMMA FromPrefix ==
  ASSUME NEW t \in Seq(Message), NEW says, NEW n \in Nat, From(t, says, n), NEW p \in Prefixes(t)
  PROVE  p \in Seq(Message) /\ Len(p) <= Len(t) /\ From(p, says, n)
<1>1. PICK m \in 0 .. Len(t) : p = SubSeq(t, 1, m)
  BY DEF Prefixes
<1>2. /\ p \in Seq(Message) /\ Len(p) = m /\ Len(t) \in Nat
      /\ \A i \in 1 .. m : p[i] = t[i]
  <2>1. m \in Int /\ 1 \in Int /\ m >= 0 /\ \A i \in 1 .. m : t[i] \in Message
    BY LenProperties, ElementOfSeq
  <2>2. /\ p \in Seq(Message) /\ Len(p) = (IF 1 <= m THEN m - 1 + 1 ELSE 0)
        /\ \A i \in 1 .. m - 1 + 1 : p[i] = t[1 + i - 1]
    BY <1>1, <2>1, SubSeqProperties
  <2>. QED
    BY <2>1, <2>2, LenProperties
<1>3. ASSUME NEW i \in 1 .. Len(p) PROVE p[i] = says[n + i]
  <2>1. i \in 1 .. m /\ i \in 1 .. Len(t)
    BY <1>2
  <2>. QED
    BY <1>2, <2>1 DEF From
<1>. QED
  BY <1>2, <1>3 DEF From

-----------------------------------------------------------------------------
(* Frames *)

(* Nothing happens on connection k. *)
Still(k) ==
  /\ session'[k] = session[k] /\ handler'[k] = handler[k]
  /\ up'[k] = up[k] /\ down'[k] = down[k]
  /\ clientCut'[k] = clientCut[k] /\ serverCut'[k] = serverCut[k]
  /\ serving' = k => serving = k

(* Nothing happens to client c. *)
Idles(c) ==
  /\ machine'[c] = machine[c] /\ connection'[c] = connection[c]
  /\ call'[c] = call[c] /\ attempts'[c] = attempts[c]

LEMMA AttemptsFacts ==
  ASSUME TypeOK, NEW k \in Connection
  PROVE  attempts[k[1]] \in Nat
<1>1. k[1] \in Client
  BY ConnectionFacts
<1>. QED
  BY <1>1 DEF TypeOK

LEMMA SessionStays ==
  ASSUME NEW k \in Connection, TypeOK, TypeOK', SessionInv(k), Still(k),
         attempts'[k[1]] >= attempts[k[1]], Younger(k)' => Younger(k)
  PROVE  SessionInv(k)'
<1>1. attempts[k[1]] \in Nat /\ attempts'[k[1]] \in Nat /\ k[2] \in Nat
  BY ConnectionFacts DEF TypeOK
<1>2. Unheard(k) <=> Unheard(k)'
  BY DEF Still, Unheard
<1>. QED
  BY <1>1, <1>2 DEF SessionInv, Still, ServerAt

LEMMA WireStays ==
  ASSUME NEW c \in Client, NEW k \in Connection, k[1] = c, Idles(c), Still(k)
  PROVE  /\ Unheard(k)' <=> Unheard(k)
         /\ UpInv(c, k) => UpInv(c, k)'
         /\ DownInv(c, k) => DownInv(c, k)'
<1>1. Unheard(k)' <=> Unheard(k)
  BY DEF Still, Unheard
<1>2. UpInv(c, k) => UpInv(c, k)'
  BY DEF UpInv, Idles, Still, TakenByServer, MostByClient, ClientAt, From
<1>3. DownInv(c, k) => DownInv(c, k)'
  BY DEF DownInv, Idles, Still, TakenByClient, MostByServer, ServerAt, From
<1>. QED
  BY <1>1, <1>2, <1>3

LEMMA ClientStays ==
  ASSUME NEW c \in Client, TypeOK, ClientInv(c), CutInv(c), WireInv(c), Idles(c),
         connection[c] # None => Still(connection[c]),
         \A k \in Connection : k[1] = c => clientCut'[k] = clientCut[k]
  PROVE  ClientInv(c)' /\ CutInv(c)' /\ WireInv(c)'
<1>1. CutInv(c)'
  BY DEF CutInv, Younger, Idles
<1>2. CASE connection[c] = None
  <2>1. machine[c] = "Idle"
    BY <1>2 DEF ClientInv
  <2>2. ~Held(c)'
    BY <2>1, RunningFacts DEF Held, Idles
  <2>. QED
    BY <1>1, <1>2, <2>1, <2>2 DEF ClientInv, WireInv, Idles, Succeeded, HasVerified
<1>3. CASE connection[c] # None
  <2>1. PICK k \in Connection : k = connection[c]
    BY <1>3 DEF TypeOK
  <2>2. Still(k) /\ connection'[c] = k /\ k[1] = c
    BY <1>3, <2>1 DEF Idles, ClientInv
  <2>3. /\ UpInv(c, k) => UpInv(c, k)'
        /\ DownInv(c, k) => DownInv(c, k)'
    BY <2>2, WireStays
  <2>4. ClientInv(c)'
    BY <1>3, <2>1, <2>2 DEF ClientInv, Idles, Still, Silent, Succeeded, HasVerified
  <2>5. (Held(c)' => Held(c)) /\ ClientAt(k)' = ClientAt(k)
    BY <2>1, <2>2 DEF Held, Idles, Still, ClientAt
  <2>. QED
    BY <1>1, <2>1, <2>2, <2>3, <2>4, <2>5 DEF WireInv, Still, Idles
<1>. QED
  BY <1>2, <1>3

(* A client's own step leaves the others alone. *)
LEMMA OthersStay ==
  ASSUME IInv, NEW c \in Client,
         \A d \in Client \ {c} : Idles(d),
         \A k \in Connection : k[1] # c => Still(k)
  PROVE  \A d \in Client \ {c} : ClientInv(d)' /\ CutInv(d)' /\ WireInv(d)'
<1> SUFFICES ASSUME NEW d \in Client \ {c}
             PROVE  ClientInv(d)' /\ CutInv(d)' /\ WireInv(d)'
  OBVIOUS
<1>1. /\ TypeOK /\ ClientInv(d) /\ CutInv(d) /\ WireInv(d)
      /\ connection[d] \in Connection \cup {None}
  BY DEF IInv, TypeOK
<1>2. connection[d] # None => Still(connection[d])
  BY <1>1 DEF ClientInv
<1>3. \A k \in Connection : k[1] = d => clientCut'[k] = clientCut[k]
  BY DEF Still
<1>. QED
  BY <1>1, <1>2, <1>3, ClientStays

(* A step that touches one connection leaves the clients alone that do not *)
(* hold it.                                                                *)
LEMMA HoldersStay ==
  ASSUME IInv, NEW k \in Connection, NEW c \in Client, connection[c] # k,
         UNCHANGED <<clientVars, clientCut>>, \A l \in Connection \ {k} : Still(l)
  PROVE  ClientInv(c)' /\ CutInv(c)' /\ WireInv(c)'
<1>1. /\ TypeOK /\ ClientInv(c) /\ CutInv(c) /\ WireInv(c)
      /\ connection[c] \in Connection \cup {None} /\ Idles(c)
  BY DEF IInv, TypeOK, Idles, clientVars
<1>2. connection[c] # None => Still(connection[c])
  BY <1>1
<1>. QED
  BY <1>1, <1>2, ClientStays

(* Where streams have broken off, when no stream breaks off. *)
LEMMA CutStays ==
  ASSUME IInv, NEW c \in Client, UNCHANGED clientCut,
         machine[c] = "Poisoned" => machine'[c] = "Poisoned",
         \/ connection'[c] = connection[c]
         \/ connection'[c] \in Connection /\ connection[c] = None
         \/ connection'[c] \in Connection /\ connection[c] # None
              /\ connection'[c][2] > connection[c][2]
  PROVE  CutInv(c)'
<1> SUFFICES ASSUME NEW k \in Connection, k[1] = c, clientCut[k] # "none"
             PROVE  /\ machine'[c] = "Poisoned" /\ ~Younger(k)'
                    /\ HasVerified(clientCut[k]) => c \in SamePsk
  BY DEF CutInv, HasVerified
<1>1. /\ machine[c] = "Poisoned" /\ ~Younger(k)
      /\ HasVerified(clientCut[k]) => c \in SamePsk
      /\ connection[c] \in Connection \cup {None}
  BY DEF IInv, CutInv, TypeOK
<1>2. connection[c] \in Connection /\ ~(k[2] > connection[c][2])
  BY <1>1 DEF Younger
<1>3. k[2] \in Nat /\ \A l \in Connection : l[2] \in Nat /\ l # None
  BY ConnectionFacts
<1>4. connection'[c] \in Connection /\ ~(k[2] > connection'[c][2])
  BY <1>2, <1>3
<1>. QED
  BY <1>1, <1>3, <1>4 DEF Younger

(* The queue, when no connection in it is touched. *)
LEMMA QueueStays ==
  ASSUME IInv, UNCHANGED <<incoming, attempts>>, serving' \in {serving, None},
         \A k \in Connection \ {serving} : session[k] = "Idle" => session'[k] = "Idle"
  PROVE  QueueInv'
<1>1. \A i \in 1 .. Len(incoming) : incoming[i] \in Connection /\ incoming[i] # None
  BY ConnectionFacts, ElementOfSeq DEF IInv, TypeOK
<1>2. QueueInv
  BY DEF IInv
<1>. QED
  BY <1>1, <1>2 DEF QueueInv

-----------------------------------------------------------------------------
LEMMA InitInv == Init => IInv
<1> SUFFICES ASSUME Init PROVE IInv
  OBVIOUS
<1>1. TypeOK
  BY MaxConnectAssumption DEF Init, TypeOK, MachineState, CallState
<1>2. QueueInv
  BY DEF Init, QueueInv
<1>3. ASSUME NEW k \in Connection PROVE SessionInv(k)
  BY RunningFacts, ConnectionFacts DEF Init, SessionInv, ServerAt, Unheard
<1>4. ASSUME NEW c \in Client PROVE ClientInv(c) /\ CutInv(c) /\ WireInv(c)
  BY RunningFacts DEF Init, ClientInv, CutInv, WireInv, Held, Succeeded, HasVerified
<1>. QED
  BY <1>1, <1>2, <1>3, <1>4 DEF IInv

-----------------------------------------------------------------------------
(* Steps of a client *)

(* What is left to show of a client's step. *)
LEMMA ClientStep ==
  ASSUME IInv, TypeOK', QueueInv', NEW c \in Client,
         \A d \in Client \ {c} : Idles(d),
         \A k \in Connection : k[1] # c => Still(k),
         \A k \in Connection : k[1] = c => SessionInv(k)',
         ClientInv(c)', CutInv(c)', WireInv(c)'
  PROVE  IInv'
<1>1. \A d \in Client \ {c} : ClientInv(d)' /\ CutInv(d)' /\ WireInv(d)'
  BY OthersStay
<1>2. ASSUME NEW k \in Connection, k[1] # c PROVE SessionInv(k)'
  <2>1. Idles(k[1]) /\ Still(k) /\ SessionInv(k) /\ TypeOK /\ k[1] \in Client
    BY <1>2, ConnectionFacts DEF IInv
  <2>2. attempts'[k[1]] >= attempts[k[1]]
    BY <2>1 DEF Idles, TypeOK
  <2>3. Younger(k)' => Younger(k)
    BY <2>1 DEF Idles, Younger
  <2>. QED
    BY <2>1, <2>2, <2>3, SessionStays
<1>. QED
  BY <1>1, <1>2 DEF IInv

(* The connections of c on which nothing happens, whatever c does. *)
LEMMA OwnStay ==
  ASSUME IInv, TypeOK', NEW c \in Client, NEW k \in Connection, k[1] = c, Still(k),
         attempts'[c] >= attempts[c],
         \/ connection'[c] = connection[c]
         \/ connection'[c] \in Connection /\ connection[c] = None
         \/ connection'[c] \in Connection /\ connection[c] # None
              /\ connection'[c][2] > connection[c][2]
  PROVE  SessionInv(k)'
<1>1. SessionInv(k) /\ TypeOK
  BY DEF IInv
<1>2. k[2] \in Nat /\ \A l \in Connection : l[2] \in Nat /\ l # None
  BY ConnectionFacts
<1>3. connection[c] \in Connection \cup {None}
  BY <1>1 DEF TypeOK
<1>4. Younger(k)' => Younger(k)
  <2>1. CASE connection'[c] = connection[c]
    BY <2>1 DEF Younger
  <2>2. CASE connection[c] = None
    BY <2>2 DEF Younger
  <2>3. CASE connection'[c] \in Connection /\ connection[c] # None /\ connection'[c][2] > connection[c][2]
    BY <1>2, <1>3, <2>3 DEF Younger
  <2>. QED
    BY <2>1, <2>2, <2>3
<1>. QED
  BY <1>1, <1>4, SessionStays

(* The connection c holds, when messages come and go on it. *)
LEMMA HeldSession ==
  ASSUME IInv, NEW c \in Client, NEW k \in Connection, k[1] = c,
         connection'[c] = k, session[k] # "Idle" \/ down'[k] = down[k],
         UNCHANGED <<session, handler, serving, serverCut, attempts>>
  PROVE  SessionInv(k)'
<1>1. SessionInv(k) /\ k[2] \in Nat
  BY ConnectionFacts DEF IInv
<1>2. ~Younger(k)'
  BY <1>1, ConnectionFacts DEF Younger
<1>. QED
  BY <1>1, <1>2 DEF SessionInv, ServerAt

(* A client's call moves on and nothing else. *)
LEMMA CallInv ==
  ASSUME IInv, NEW c \in Client, NEW r \in {"error", "gone", "ok"},
         UNCHANGED <<machine, connection, attempts, serverVars, up, down, cuts>>,
         Return(c, r), closed' \in SUBSET Connection,
         call[c] \notin {"none", "gone"},
         r = "ok" => call[c] = "driving" /\ machine[c] = "Authenticated"
  PROVE  IInv'
<1>1. TypeOK' /\ call'[c] = r
  BY DEF IInv, TypeOK, Return, serverVars, cuts, CallState
<1>2. \A d \in Client \ {c} : Idles(d)
  BY DEF IInv, TypeOK, Idles, Return
<1>3. \A k \in Connection : Still(k)
  BY DEF Still, serverVars, cuts
<1>4. QueueInv'
  BY QueueStays DEF serverVars
<1>5. ASSUME NEW k \in Connection, k[1] = c PROVE SessionInv(k)'
  BY <1>1, <1>3, <1>5, OwnStay DEF IInv, TypeOK
<1>6. ClientInv(c) /\ WireInv(c) /\ connection[c] \in Connection \cup {None}
  BY DEF IInv, TypeOK
<1>7. ClientInv(c)'
  <2>1. Silent(connection[c])' <=> Silent(connection[c])
    BY DEF Silent, serverVars
  <2>. QED
    BY <1>1, <1>6, <2>1 DEF ClientInv, Succeeded, HasVerified, cuts
<1>8. WireInv(c)'
  <2>1. (Held(c)' <=> Held(c)) /\ ClientAt(connection[c])' = ClientAt(connection[c])
    BY DEF Held, ClientAt, cuts
  <2>2. UpInv(c, connection[c]) => UpInv(c, connection[c])'
    BY <1>1, PositionFacts DEF UpInv, TakenByServer, MostByClient, ClientAt, From, serverVars, cuts
  <2>3. DownInv(c, connection[c]) => DownInv(c, connection[c])'
    BY <1>1 DEF DownInv, TakenByClient, MostByServer, ServerAt, From, serverVars, cuts
  <2>. QED
    BY <1>6, <2>1, <2>2, <2>3 DEF WireInv, serverVars, cuts
<1>9. CutInv(c)'
  BY CutStays DEF cuts
<1>. QED
  BY <1>1, <1>2, <1>3, <1>4, <1>5, <1>7, <1>8, <1>9, ClientStep

(* The connection a client holds. *)
LEMMA HeldFacts ==
  ASSUME IInv, NEW c \in Client, machine[c] # "Idle"
  PROVE  /\ connection[c] \in Connection /\ connection[c][1] = c /\ connection[c] # None
         /\ attempts[c] > 0 /\ attempts[c] \in Nat
         /\ SessionInv(connection[c])
<1>1. connection[c] \in Connection /\ ClientInv(c)
  BY DEF IInv, ClientInv, TypeOK
<1>. QED
  BY <1>1, ConnectionFacts DEF IInv, ClientInv, TypeOK

(* The connection a client is dialing. *)
LEMMA DialedFacts ==
  ASSUME IInv, NEW c \in Client, call[c] = "dialing"
  PROVE  /\ Dialed(c) \in Connection /\ Dialed(c)[1] = c /\ Dialed(c)[2] = attempts[c]
         /\ attempts[c] \in Nat /\ Younger(Dialed(c)) /\ Unheard(Dialed(c))
<1>1. ClientInv(c) /\ attempts[c] \in 0 .. MaxConnect /\ connection[c] \in Connection \cup {None}
  BY DEF IInv, TypeOK
<1>2. attempts[c] \in 1 .. MaxConnect
  BY <1>1, MaxConnectAssumption DEF ClientInv
<1>3. Dialed(c) \in Connection /\ Dialed(c)[1] = c /\ Dialed(c)[2] = attempts[c]
  BY <1>2, ConnectionFacts DEF Dialed
<1>4. Younger(Dialed(c))
  <2>1. connection[c] # None => attempts[c] > connection[c][2]
    BY <1>1, ConnectionFacts DEF ClientInv
  <2>. QED
    BY <1>3, <2>1 DEF Younger
<1>. QED
  BY <1>1, <1>3, <1>4 DEF IInv, SessionInv

LEMMA DialFailsInv ==
  ASSUME IInv, NEW c \in Client, DialFails(c)
  PROVE  IInv'
<1>1. Dialed(c) \in Connection
  BY DialedFacts DEF DialFails
<1>. QED
  BY <1>1, CallInv DEF DialFails, IInv, TypeOK

LEMMA ReturnAuthenticatedInv ==
  ASSUME IInv, NEW c \in Client, ReturnAuthenticated(c)
  PROVE  IInv'
BY CallInv DEF ReturnAuthenticated, IInv, TypeOK

LEMMA ClientGivesUpInv ==
  ASSUME IInv, NEW c \in Client, ClientGivesUp(c)
  PROVE  IInv'
BY CallInv DEF ClientGivesUp, IInv, TypeOK

LEMMA ExchangeFailsInv ==
  ASSUME IInv, NEW c \in Client, ExchangeFails(c)
  PROVE  IInv'
BY CallInv DEF ExchangeFails, IInv, TypeOK

LEMMA ExitInv ==
  ASSUME IInv, NEW c \in Client, Exit(c)
  PROVE  IInv'
BY CallInv DEF Exit, IInv, TypeOK

LEMMA ConnectInv ==
  ASSUME IInv, NEW c \in Client, Connect(c)
  PROVE  IInv'
<1> DEFINE n == attempts[c] + 1
<1>1. TypeOK /\ attempts[c] \in Nat /\ MaxConnect \in Nat /\ n \in 1 .. MaxConnect
  BY MaxConnectAssumption DEF IInv, TypeOK, Connect
<1>2. <<c, n>> \in Connection /\ <<c, n>>[1] = c /\ <<c, n>>[2] = n
  BY <1>1, ConnectionFacts
<1>3. /\ call'[c] = "dialing" /\ attempts'[c] = n
      /\ call[c] \in {"none", "done", "error"}
      /\ UNCHANGED <<machine, connection, serving, session, handler, up, down, closed, cuts>>
      /\ \A d \in Client \ {c} : Idles(d)
      /\ \A k \in Connection : Still(k)
  BY <1>1 DEF Connect, Return, TypeOK, Idles, Still, cuts
<1>4. /\ incoming' = Append(incoming, <<c, n>>) /\ incoming' \in Seq(Connection)
      /\ Len(incoming) \in Nat /\ Len(incoming') = Len(incoming) + 1
      /\ incoming'[Len(incoming) + 1] = <<c, n>>
      /\ \A i \in 1 .. Len(incoming) : incoming'[i] = incoming[i] /\ incoming[i] \in Connection
  BY <1>1, <1>2, AppendProperties, LenProperties, ElementOfSeq DEF Connect, TypeOK
<1>5. TypeOK'
  BY <1>1, <1>4 DEF TypeOK, Connect, Return, CallState, cuts
<1>6. QueueInv'
  <2>1. session[<<c, n>>] = "Idle"
    BY <1>1, <1>2 DEF IInv, SessionInv
  <2>2. ASSUME NEW i \in 1 .. Len(incoming)
        PROVE  /\ session[incoming[i]] = "Idle" /\ incoming[i] # <<c, n>>
               /\ incoming[i][2] <= attempts'[incoming[i][1]]
    <3>1. /\ session[incoming[i]] = "Idle" /\ incoming[i][2] <= attempts[incoming[i][1]]
          /\ incoming[i][1] \in Client /\ incoming[i][2] \in Nat
      BY <1>4, ConnectionFacts DEF IInv, QueueInv
    <3>2. CASE incoming[i][1] = c
      BY <1>1, <1>2, <1>3, <3>1, <3>2
    <3>3. CASE incoming[i][1] # c
      BY <1>2, <1>3, <3>1, <3>3 DEF Idles
    <3>. QED
      BY <3>2, <3>3
  <2>3. \A i \in 1 .. Len(incoming') : i \in 1 .. Len(incoming) \/ i = Len(incoming) + 1
    BY <1>4
  <2>4. n <= attempts'[c]
    BY <1>1, <1>3
  <2>5. \A i, j \in 1 .. Len(incoming) : incoming[i] = incoming[j] => i = j
    BY DEF IInv, QueueInv
  <2>6. ASSUME NEW i \in 1 .. Len(incoming')
        PROVE  session'[incoming'[i]] = "Idle" /\ incoming'[i][2] <= attempts'[incoming'[i][1]]
    BY <1>2, <1>3, <1>4, <2>1, <2>2, <2>3, <2>4
  <2>7. ASSUME NEW i \in 1 .. Len(incoming'), NEW j \in 1 .. Len(incoming'),
               incoming'[i] = incoming'[j]
        PROVE  i = j
    BY <1>4, <2>2, <2>3, <2>5, <2>7
  <2>8. /\ \A i \in 1 .. Len(incoming) : incoming[i] # serving
        /\ serving # None => serving[2] <= attempts[serving[1]] /\ serving \in Connection
    BY <1>1 DEF IInv, QueueInv, TypeOK
  <2>9. serving # <<c, n>> /\ (serving # None => serving[2] <= attempts'[serving[1]])
    <3>1. CASE serving = None
      BY <1>2, <3>1, ConnectionFacts
    <3>2. CASE serving # None /\ serving[1] = c
      BY <1>1, <1>2, <1>3, <2>8, <3>2, ConnectionFacts
    <3>3. CASE serving # None /\ serving[1] # c
      BY <1>2, <1>3, <2>8, <3>3, ConnectionFacts DEF Idles
    <3>. QED
      BY <3>1, <3>2, <3>3
  <2>10. \A i \in 1 .. Len(incoming') : incoming'[i] # serving'
    BY <1>3, <1>4, <2>3, <2>8, <2>9
  <2>. QED
    BY <1>3, <2>6, <2>7, <2>9, <2>10 DEF QueueInv
<1>7. ASSUME NEW k \in Connection, k[1] = c PROVE SessionInv(k)'
  BY <1>1, <1>3, <1>5, <1>7, OwnStay
<1>8. ClientInv(c) /\ WireInv(c) /\ connection[c] \in Connection \cup {None}
  BY <1>1 DEF IInv, TypeOK
<1>9. connection[c] # None => connection[c][2] \in Nat /\ connection[c][2] > 0
  BY <1>8, ConnectionFacts
<1>10. ClientInv(c)'
  BY <1>1, <1>3, <1>8, <1>9 DEF ClientInv, Silent, Succeeded, HasVerified, cuts
<1>11. WireInv(c)'
  <2>1. /\ Held(c)' => Held(c) /\ machine[c] # "Authenticated"
        /\ ClientAt(connection[c])' = ClientAt(connection[c])
    <3>1. machine[c] = "Authenticated" => attempts[c] > 0
      BY HeldFacts
    <3>2. machine[c] = "Authenticated" => attempts'[c] # 1
      BY <1>1, <1>3, <3>1
    <3>. QED
      BY <1>3, <3>2, RunningFacts DEF Held, ClientAt, cuts
  <2>2. UpInv(c, connection[c]) => UpInv(c, connection[c])'
    BY <1>3 DEF UpInv, TakenByServer, MostByClient, ClientAt, From, cuts
  <2>3. DownInv(c, connection[c])'
    BY <1>3 DEF DownInv
  <2>. QED
    BY <1>3, <1>8, <2>1, <2>2, <2>3 DEF WireInv, cuts
<1>12. CutInv(c)'
  BY <1>3, CutStays DEF cuts
<1>. QED
  BY <1>3, <1>5, <1>6, <1>7, <1>10, <1>11, <1>12, ClientStep

(* A connection that has come about. *)
LEMMA EstablishedFacts ==
  ASSUME IInv, NEW c \in Client, Established(c),
         UNCHANGED <<attempts, serverVars, down, cuts>>,
         machine[c] = "Poisoned" => machine'[c] = "Poisoned",
         \A k \in Connection : k # Dialed(c) => up'[k] = up[k]
  PROVE  /\ Dialed(c) \in Connection /\ Dialed(c)[1] = c /\ Dialed(c)[2] = attempts[c]
         /\ connection' = [connection EXCEPT ![c] = Dialed(c)] /\ connection'[c] = Dialed(c)
         /\ session[Dialed(c)] \in {"Idle", "AwaitingCapabilities"} /\ up[Dialed(c)] = <<>>
         /\ down[Dialed(c)] = IF session[Dialed(c)] = "Idle" THEN <<>> ELSE <<"capabilities">>
         /\ handler[Dialed(c)] = "none"
         /\ clientCut[Dialed(c)] = "none" /\ serverCut[Dialed(c)] = "none"
         /\ connection[c] # None => attempts[c] > 1
         /\ closed' \in SUBSET Connection
         /\ QueueInv' /\ CutInv(c)'
         /\ TypeOK' => \A k \in Connection : k[1] = c => SessionInv(k)'
<1> DEFINE k == Dialed(c)
<1>1. /\ k \in Connection /\ k[1] = c /\ k[2] = attempts[c] /\ attempts[c] \in Nat
      /\ Unheard(k) /\ Younger(k) /\ SessionInv(k) /\ ClientInv(c) /\ CutInv(c) /\ TypeOK
  BY DialedFacts DEF Established, IInv
<1>2. /\ connection' = [connection EXCEPT ![c] = k] /\ connection'[c] = k
      /\ session[k] \in {"Idle", "AwaitingCapabilities"} /\ up[k] = <<>>
      /\ down[k] = IF session[k] = "Idle" THEN <<>> ELSE <<"capabilities">>
      /\ handler[k] = "none"
  BY <1>1 DEF Established, Unheard, SessionInv, TypeOK
<1>3. clientCut[k] = "none" /\ serverCut[k] = "none"
  BY <1>1, <1>2 DEF CutInv, SessionInv
<1>4. connection[c] # None => connection[c] \in Connection /\ connection[c][2] < k[2] /\ attempts[c] > 1
  BY <1>1, ConnectionFacts DEF ClientInv, Established, TypeOK
<1>5. closed' \in SUBSET Connection
  BY <1>1 DEF Established, TypeOK
<1>6. QueueInv'
  BY QueueStays DEF serverVars
<1>7. \/ connection'[c] \in Connection /\ connection[c] = None
      \/ connection'[c] \in Connection /\ connection[c] # None
           /\ connection'[c][2] > connection[c][2]
  BY <1>1, <1>2, <1>4, ConnectionFacts
<1>8. CutInv(c)'
  BY <1>7, CutStays DEF cuts
<1>9. ASSUME TypeOK', NEW l \in Connection, l[1] = c PROVE SessionInv(l)'
  <2>1. CASE l = k
    BY <1>1, <1>2, <2>1, HeldSession DEF serverVars, cuts
  <2>2. CASE l # k
    <3>1. Still(l) /\ attempts'[c] >= attempts[c]
      BY <1>1, <2>2 DEF Still, serverVars, cuts
    <3>. QED
      BY <1>7, <1>9, <3>1, OwnStay
  <2>. QED
    BY <2>1, <2>2
<1>. QED
  BY <1>1, <1>2, <1>3, <1>4, <1>5, <1>6, <1>8, <1>9

LEMMA StartHandshakeInv ==
  ASSUME IInv, NEW c \in Client, StartHandshake(c)
  PROVE  IInv'
<1>1. PICK k \in Connection : k = Dialed(c)
  BY DialedFacts DEF StartHandshake, Established
<1>2. \A l \in Connection : l # k => up'[l] = up[l]
  BY <1>1 DEF StartHandshake, IInv, TypeOK
<1>3. /\ k[1] = c /\ connection' = [connection EXCEPT ![c] = k] /\ connection'[c] = k
      /\ k[2] = attempts[c] /\ attempts[c] \in Nat
      /\ session[k] \in {"Idle", "AwaitingCapabilities"} /\ handler[k] = "none" /\ up[k] = <<>>
      /\ down[k] = IF session[k] = "Idle" THEN <<>> ELSE <<"capabilities">>
      /\ clientCut[k] = "none" /\ serverCut[k] = "none"
      /\ closed' \in SUBSET Connection /\ QueueInv' /\ CutInv(c)'
      /\ TypeOK' => \A l \in Connection : l[1] = c => SessionInv(l)'
  BY <1>1, <1>2, EstablishedFacts, DialedFacts DEF StartHandshake, Established
<1>4. /\ machine'[c] = "AwaitingCapabilities" /\ call'[c] = "driving"
      /\ UNCHANGED <<attempts, serverVars, down, clientCut, serverCut>>
      /\ up' = [up EXCEPT ![k] = Append(@, "capabilities")]
      /\ \A d \in Client \ {c} : Idles(d)
  BY <1>1, <1>3 DEF StartHandshake, Return, IInv, TypeOK, Idles, cuts
<1>5. up'[k] = <<"capabilities">>
  BY <1>3, <1>4 DEF IInv, TypeOK
<1>6. TypeOK'
  <2>1. up' \in [Connection -> Seq(Message)]
    BY <1>4, <1>5, Tuples DEF IInv, TypeOK, Message
  <2>. QED
    BY <1>1, <1>3, <1>4, <2>1 DEF IInv, TypeOK, StartHandshake, Return, serverVars, MachineState, CallState
<1>7. \A l \in Connection : l[1] # c => Still(l)
  BY <1>2, <1>3, <1>4 DEF Still, serverVars
<1>8. ClientInv(c)'
  BY <1>3, <1>4, ConnectionFacts, RunningFacts DEF ClientInv, Succeeded, HasVerified, serverVars
<1>9. WireInv(c)'
  <2>1. /\ From(<<"capabilities">>, ClientSays, 0) /\ From(<<"capabilities">>, ServerSays, 0)
        /\ Len(<<"capabilities">>) = 1 /\ From(<<>>, ServerSays, 0) /\ Len(<<>>) = 0
    BY Tuples DEF Message, ClientSays, ServerSays
  <2>2. /\ TakenByServer(k)' = 0 /\ TakenByClient(c)' = 0 /\ MostByClient(k)' = 1
        /\ MostByServer(k)' = ServerTold[session[k]] /\ ClientTold["AwaitingCapabilities"] = 1
        /\ ServerTold["AwaitingCapabilities"] = 1 /\ ServerTold["Idle"] = 0
    BY <1>3, <1>4, PositionFacts
    DEF TakenByServer, TakenByClient, MostByClient, ClientAt, MostByServer, ServerAt, serverVars
  <2>3. UpInv(c, k)'
    BY <1>3, <1>4, <1>5, <2>1, <2>2 DEF UpInv, From, serverVars
  <2>4. DownInv(c, k)'
    <3>1. down'[k] = down[k] /\ session'[k] = session[k]
      BY <1>4 DEF serverVars
    <3>2. From(down[k], ServerSays, 0) /\ Len(down[k]) = ServerTold[session[k]]
          /\ Len(down[k]) \in {0, 1}
      BY <1>3, <2>1, <2>2
    <3>3. From(down[k], ServerSays, TakenByClient(c))'
      BY <2>2, <3>1, <3>2 DEF From
    <3>. QED
      BY <2>2, <3>1, <3>2, <3>3 DEF DownInv
  <2>. QED
    BY <1>3, <1>4, <2>3, <2>4 DEF WireInv, serverVars
<1>. QED
  BY <1>3, <1>4, <1>6, <1>7, <1>8, <1>9, ClientStep

LEMMA ReuseAuthenticatedInv ==
  ASSUME IInv, NEW c \in Client, ReuseAuthenticated(c)
  PROVE  IInv'
<1>1. PICK k \in Connection : k = Dialed(c)
  BY DialedFacts DEF ReuseAuthenticated, Established
<1>2. /\ k[1] = c /\ connection' = [connection EXCEPT ![c] = k] /\ connection'[c] = k
      /\ k[2] = attempts[c] /\ attempts[c] \in Nat
      /\ closed' \in SUBSET Connection /\ QueueInv' /\ CutInv(c)'
      /\ connection[c] # None => attempts[c] > 1
      /\ TypeOK' => \A l \in Connection : l[1] = c => SessionInv(l)'
  BY <1>1, EstablishedFacts, DialedFacts DEF ReuseAuthenticated, Established
<1>3. /\ machine[c] = "Authenticated" /\ call'[c] = "driving" /\ attempts[c] > 1
      /\ UNCHANGED <<machine, attempts, serverVars, up, down, clientCut, serverCut>>
      /\ \A d \in Client \ {c} : Idles(d)
      /\ \A l \in Connection : Still(l)
  BY <1>2, HeldFacts DEF ReuseAuthenticated, Return, IInv, TypeOK, Idles, Still, serverVars, cuts
<1>4. TypeOK'
  BY <1>2, <1>3 DEF IInv, TypeOK, ReuseAuthenticated, Return, serverVars, CallState
<1>5. ClientInv(c)'
  <2>1. c \in SamePsk
    BY <1>3 DEF IInv, ClientInv, HasVerified
  <2>. QED
    BY <1>2, <1>3, <2>1, ConnectionFacts DEF ClientInv, Succeeded, serverVars
<1>6. WireInv(c)'
  BY <1>3, RunningFacts DEF WireInv, Held
<1>. QED
  BY <1>2, <1>3, <1>4, <1>5, <1>6, ClientStep

(* A machine that has no use for the connection is left Poisoned. *)
LEMMA ReusePoisonsInv ==
  ASSUME IInv, NEW c \in Client, ReuseInterrupted(c) \/ ReuseFailed(c)
  PROVE  IInv'
<1>1. PICK k \in Connection : k = Dialed(c)
  BY DialedFacts DEF ReuseInterrupted, ReuseFailed, Established
<1>2. Established(c) /\ TypeOK /\ machine[c] # "Idle"
  BY RunningFacts DEF ReuseInterrupted, ReuseFailed, IInv
<1>3. /\ machine'[c] = "Poisoned" /\ call'[c] \in {"panicked", "error"}
      /\ UNCHANGED <<attempts, serverVars, up, down, clientCut, serverCut>>
      /\ machine' \in [Client -> MachineState] /\ call' \in [Client -> CallState]
      /\ \A d \in Client \ {c} : machine'[d] = machine[d] /\ call'[d] = call[d]
  <2>1. CASE ReuseInterrupted(c)
    BY <1>2, <2>1 DEF ReuseInterrupted, Return, TypeOK, cuts, CallState, MachineState
  <2>2. CASE ReuseFailed(c)
    BY <1>2, <2>2 DEF ReuseFailed, Return, TypeOK, cuts, CallState
  <2>. QED
    BY <2>1, <2>2
<1>4. /\ k[1] = c /\ connection' = [connection EXCEPT ![c] = k] /\ connection'[c] = k
      /\ k[2] = attempts[c] /\ attempts[c] \in Nat
      /\ session[k] \in {"Idle", "AwaitingCapabilities"}
      /\ up[k] = <<>> /\ clientCut[k] = "none"
      /\ closed' \in SUBSET Connection /\ QueueInv' /\ CutInv(c)'
      /\ connection[c] # None => attempts[c] > 1
      /\ TypeOK' => \A l \in Connection : l[1] = c => SessionInv(l)'
  BY <1>1, <1>2, <1>3, EstablishedFacts, DialedFacts DEF Established, cuts
<1>5. attempts[c] > 1
  BY <1>2, <1>4, HeldFacts
<1>6. TypeOK'
  BY <1>2, <1>3, <1>4 DEF TypeOK, serverVars
<1>7. (\A d \in Client \ {c} : Idles(d)) /\ \A l \in Connection : Still(l)
  BY <1>2, <1>3, <1>4 DEF Idles, Still, serverVars, TypeOK
<1>8. ClientInv(c)'
  <2>1. Silent(k)'
    BY <1>3, <1>4 DEF Silent, serverVars
  <2>. QED
    BY <1>3, <1>4, <1>5, <2>1, ConnectionFacts, RunningFacts
    DEF ClientInv, Succeeded, HasVerified, serverVars
<1>9. WireInv(c)'
  BY <1>3, <1>4, RunningFacts DEF WireInv, Held
<1>. QED
  BY <1>4, <1>6, <1>7, <1>8, <1>9, ClientStep

(* A turn of the client's loop takes a message from k, leaves the machine  *)
(* in s and the call in r, and sends sent.                                 *)
TurnTo(c, k, s, r, sent) ==
  /\ k = connection[c] /\ ClientTurn(c)
  /\ UNCHANGED <<connection, attempts, serverVars, closed, cuts>>
  /\ machine' = [machine EXCEPT ![c] = s]
  /\ Return(c, r)
  /\ up' \in [Connection -> Seq(Message)] /\ up'[k] = up[k] \o sent
  /\ \A l \in Connection \ {k} : up'[l] = up[l]

(* ... which is what its state allows it to say next. *)
SaysNext(c, s, r, sent) ==
  /\ From(sent, ClientSays, ClientTold[machine[c]])
  /\ ClientTold[machine[c]] + Len(sent) <= ClientTold[s]
  /\ r # "error" => /\ ClientTold[s] = ClientTold[machine[c]] + Len(sent)
                    /\ Taken[s] = Taken[machine[c]] + 1
                    /\ s # "Computing"
  /\ r = "ok" => s = "Authenticated"
  /\ HasVerified(s) => c \in SamePsk
  /\ s = "Computing" => c \notin SamePsk
  /\ machine[c] = "AwaitingStatus" => s = "Authenticated"

LEMMA ClientTurnInv ==
  ASSUME IInv, NEW c \in Client, NEW k \in Connection,
         NEW s \in Running \cup {"Authenticated", "Computing"},
         NEW r \in {"driving", "ok", "error"}, NEW sent \in Seq(Message),
         TurnTo(c, k, s, r, sent), SaysNext(c, s, r, sent)
  PROVE  IInv'
<1> USE DEF TurnTo, SaysNext
<1>1. /\ machine[c] \in Running /\ machine[c] # "Idle" /\ call[c] = "driving" /\ TypeOK
      /\ down[k] # <<>> /\ down' = [down EXCEPT ![k] = Tail(@)]
      /\ s \in MachineState /\ s # "Idle" /\ s # "Poisoned" /\ machine[c] \in MachineState
  BY RunningFacts DEF ClientTurn, IInv, MachineState
<1>2. /\ k[1] = c /\ session[k] # "Idle" /\ attempts[c] > 0 /\ attempts[c] \in Nat
      /\ connection'[c] = k /\ k # None /\ clientCut[k] = "none"
  <2>1. /\ k[1] = c /\ SessionInv(k) /\ attempts[c] > 0 /\ attempts[c] \in Nat
        /\ connection'[c] = k /\ k # None
    BY <1>1, HeldFacts
  <2>2. clientCut[k] = "none"
    BY <1>1, <2>1, RunningFacts DEF IInv, CutInv
  <2>. QED
    BY <1>1, <2>1, <2>2 DEF SessionInv
<1>3. UpInv(c, k) /\ DownInv(c, k) /\ session[k] \in MachineState
      /\ (session[k] = "Poisoned" /\ serverCut[k] = "none" => c \notin GoodToken)
      /\ (session[k] = "Authenticated" => machine[c] = "AwaitingStatus")
  <2>1. WireInv(c) /\ Held(c) /\ ClientAt(k) = machine[c]
    BY <1>1, <1>2 DEF IInv, Held, ClientAt
  <2>. QED
    BY <1>1, <2>1, RunningFacts DEF WireInv, TypeOK
<1>4. /\ up[k] \in Seq(Message) /\ down[k] \in Seq(Message)
      /\ Len(up[k]) \in Nat /\ Len(down[k]) \in Nat /\ Len(sent) \in Nat
      /\ Taken[machine[c]] \in Nat /\ ClientTold[machine[c]] \in Nat /\ ClientTold[s] \in 0 .. 4
      /\ TakenByClient(c) = Taken[machine[c]]
  <2>1. up[k] \in Seq(Message) /\ down[k] \in Seq(Message)
    BY <1>1 DEF TypeOK
  <2>2. Len(up[k]) \in Nat /\ Len(down[k]) \in Nat /\ Len(sent) \in Nat
    BY <2>1, LenProperties
  <2>3. Taken[machine[c]] \in Nat /\ ClientTold[machine[c]] \in Nat /\ ClientTold[s] \in 0 .. 4
    <3>1. 0 .. 4 \subseteq Nat
      OBVIOUS
    <3>. QED
      BY <1>1, <3>1, PositionFacts, Zenon
  <2>4. TakenByClient(c) = Taken[machine[c]]
    BY <1>1 DEF TakenByClient
  <2>. QED
    BY <2>1, <2>2, <2>3, <2>4
<1>5. /\ Tail(down[k]) \in Seq(Message) /\ Len(Tail(down[k])) = Len(down[k]) - 1
      /\ From(Tail(down[k]), ServerSays, Taken[machine[c]] + 1)
  BY <1>1, <1>3, <1>4, FromTail DEF DownInv
<1>6. /\ machine'[c] = s /\ call'[c] = r /\ down'[k] = Tail(down[k])
      /\ \A l \in Connection \ {k} : Still(l)
      /\ \A d \in Client \ {c} : Idles(d)
  BY <1>1 DEF TypeOK, Return, Still, Idles, serverVars, cuts
<1>7. TypeOK'
  <2>1. down' \in [Connection -> Seq(Message)]
    BY <1>1, <1>5 DEF TypeOK
  <2>. QED
    BY <1>1, <2>1 DEF TypeOK, Return, CallState, serverVars, cuts
<1>8. QueueInv'
  BY QueueStays DEF serverVars
<1>9. ASSUME NEW l \in Connection, l[1] = c PROVE SessionInv(l)'
  <2>1. CASE l = k
    BY <1>2, <2>1, HeldSession DEF serverVars, cuts
  <2>2. CASE l # k
    BY <1>2, <1>6, <1>7, <1>9, <2>2, OwnStay
  <2>. QED
    BY <2>1, <2>2
<1>10. ClientInv(c)'
  <2>1. ClientInv(c) /\ k[2] \in Nat
    BY ConnectionFacts DEF IInv
  <2>2. call'[c] = "driving" => s \in Running \cup {"Authenticated"}
    BY <1>6
  <2>3. Succeeded(c)' => s = "Authenticated"
    BY <1>6 DEF Succeeded
  <2>4. HasVerified(machine[c])' => c \in SamePsk
    BY <1>6 DEF HasVerified
  <2>. QED
    BY <1>1, <1>2, <1>6, <2>1, <2>2, <2>3, <2>4 DEF ClientInv, serverVars
<1>11. UpInv(c, k)'
  <2> SUFFICES ASSUME session[k] \in Running \cup {"Idle", "Authenticated"}, handler[k] # "ended"
               PROVE  /\ From(up[k], ClientSays, TakenByServer(k))'
                      /\ (TakenByServer(k) + Len(up[k]) <= MostByClient(k))'
                      /\ (call[c] \in {"driving", "ok"} =>
                            TakenByServer(k) + Len(up[k]) = ClientTold[machine[c]])'
    BY DEF UpInv, serverVars
  <2>1. /\ From(up[k], ClientSays, TakenByServer(k))
        /\ TakenByServer(k) + Len(up[k]) = ClientTold[machine[c]]
    BY <1>1, <1>3 DEF UpInv
  <2>2. TakenByServer(k) \in Nat /\ TakenByServer(k)' = TakenByServer(k)
    <3>1. Taken[session[k]] \in Nat
      BY <1>3, PositionFacts
    <3>. QED
      BY <3>1 DEF TakenByServer, serverVars
  <2>3. /\ Len(up'[k]) = Len(up[k]) + Len(sent)
        /\ From(up'[k], ClientSays, TakenByServer(k))
    <3>1. up'[k] = up[k] \o sent
      OBVIOUS
    <3>2. From(sent, ClientSays, TakenByServer(k) + Len(up[k]))
      BY <2>1
    <3>3. Len(up[k] \o sent) = Len(up[k]) + Len(sent) /\ From(up[k] \o sent, ClientSays, TakenByServer(k))
      <4> HIDE DEF TurnTo, SaysNext
      <4>. QED
        BY <1>4, <2>1, <2>2, <3>2, FromConcat
    <3>. QED
      BY <3>1, <3>3
  <2>4. From(up[k], ClientSays, TakenByServer(k))'
    BY <2>2, <2>3 DEF From
  <2>5. TakenByServer(k)' + Len(up'[k]) = ClientTold[machine[c]] + Len(sent)
    BY <1>4, <2>1, <2>2, <2>3
  <2>6. ClientTold[s] <= MostByClient(k)' /\ MostByClient(k)' \in Nat
    BY <1>2, <1>4, <1>6 DEF MostByClient, ClientAt, cuts
  <2>7. TakenByServer(k)' + Len(up'[k]) <= MostByClient(k)'
    BY <1>4, <2>5, <2>6
  <2>. QED
    BY <1>6, <2>4, <2>5, <2>7
<1>12. DownInv(c, k)'
  <2> SUFFICES ASSUME r # "error"
               PROVE  /\ From(down[k], ServerSays, TakenByClient(c))'
                      /\ (TakenByClient(c) + Len(down[k]) <= MostByServer(k))'
                      /\ (serving = k \/ session[k] = "Idle" \/ handler[k] = "receiving" =>
                            TakenByClient(c) + Len(down[k]) = ServerTold[session[k]])'
    BY <1>6 DEF DownInv
  <2>1. TakenByClient(c)' = Taken[machine[c]] + 1
    BY <1>6 DEF TakenByClient
  <2>2. From(down[k], ServerSays, TakenByClient(c))'
    BY <1>5, <1>6, <2>1 DEF From
  <2>3. TakenByClient(c)' + Len(down'[k]) = TakenByClient(c) + Len(down[k])
    <3>1. Len(down'[k]) = Len(down[k]) - 1
      BY <1>5, <1>6
    <3>2. Len(down[k]) \in Nat /\ Taken[machine[c]] \in Nat /\ TakenByClient(c) = Taken[machine[c]]
      BY <1>4
    <3>3. (Taken[machine[c]] + 1) + Len(down'[k]) = Taken[machine[c]] + Len(down[k])
      BY <3>1, <3>2, Shift, Zenon
    <3>. QED
      BY <2>1, <3>2, <3>3
  <2>4. MostByServer(k)' = MostByServer(k)
    BY DEF MostByServer, ServerAt, serverVars, cuts
  <2>. QED
    BY <1>1, <1>3, <2>2, <2>3, <2>4 DEF DownInv, serverVars
<1>13. WireInv(c)'
  <2>1. ClientAt(k)' = s
    BY <1>2, <1>6 DEF ClientAt, cuts
  <2>. QED
    BY <1>2, <1>3, <1>6, <1>11, <1>12, <2>1 DEF WireInv, serverVars, cuts
<1>14. CutInv(c)'
  BY <1>1, <1>2, CutStays, RunningFacts DEF cuts
<1>. QED
  BY <1>2, <1>6, <1>7, <1>8, <1>9, <1>10, <1>13, <1>14, ClientStep

(* What a client finds when it takes its turn. *)
LEMMA ClientTurnFacts ==
  ASSUME IInv, NEW c \in Client, ClientTurn(c)
  PROVE  /\ connection[c] \in Connection /\ machine[c] \in Running
         /\ up \in [Connection -> Seq(Message)]
         /\ Head(down[connection[c]]) = InitiatorStep[machine[c]].on
         /\ ClientTold[machine[c]] \in Nat
         /\ machine[c] = "AwaitingStatus" => c \in SamePsk
<1>1. machine[c] \in Running /\ machine[c] # "Idle" /\ TypeOK /\ machine[c] \in MachineState
  BY RunningFacts DEF ClientTurn, IInv, MachineState
<1>2. PICK k \in Connection : k = connection[c]
  BY <1>1, HeldFacts
<1>3. DownInv(c, k) /\ call[c] = "driving" /\ down[k] # <<>> /\ down[k] \in Seq(Message)
  BY <1>1, <1>2 DEF IInv, WireInv, Held, TypeOK, ClientTurn
<1>4. TakenByClient(c) = Taken[machine[c]] /\ Taken[machine[c]] \in Nat /\ ClientTold[machine[c]] \in Nat
  BY <1>1, <1>3, PositionFacts DEF TakenByClient
<1>5. Head(down[k]) = ServerSays[Taken[machine[c]] + 1]
  BY <1>3, <1>4, FromTail DEF DownInv
<1>6. Head(down[k]) = InitiatorStep[machine[c]].on
  BY <1>1, <1>5, InitiatorFacts
<1>7. machine[c] = "AwaitingStatus" => c \in SamePsk
  BY DEF IInv, ClientInv, HasVerified
<1>. QED
  BY <1>1, <1>2, <1>4, <1>6, <1>7 DEF TypeOK

LEMMA ClientReadsInv ==
  ASSUME IInv, NEW c \in Client, ClientReads(c)
  PROVE  IInv'
<1>1. PICK k \in Connection : k = connection[c]
  BY ClientTurnFacts DEF ClientReads
<1>2. ClientTurn(c) /\ machine[c] \in Running /\ up \in [Connection -> Seq(Message)]
      /\ (machine[c] = "AwaitingStatus" => c \in SamePsk) /\ ClientTold[machine[c]] \in Nat
  BY ClientTurnFacts DEF ClientReads
<1>3. PICK t : t = InitiatorStep[machine[c]]
  OBVIOUS
<1>4. /\ t.next \in Running \cup {"Authenticated"}
      /\ t.next = "Authenticated" <=> machine[c] = "AwaitingStatus"
      /\ t.next = "AwaitingStatus" <=> machine[c] = "AwaitingConfirmation"
      /\ Taken[t.next] = Taken[machine[c]] + 1
      /\ t.sends \in Seq(Message)
      /\ From(t.sends, ClientSays, ClientTold[machine[c]])
      /\ ClientTold[t.next] = ClientTold[machine[c]] + Len(t.sends)
  BY <1>2, <1>3, InitiatorFacts
<1>5. /\ machine' = [machine EXCEPT ![c] = t.next]
      /\ up' = [up EXCEPT ![k] = @ \o t.sends]
      /\ Return(c, IF IsAuthenticated(t.next) THEN "ok" ELSE "driving")
      /\ UNCHANGED <<connection, attempts, serverVars, closed, cuts>>
      /\ Verifies(c, machine[c])
  BY <1>1, <1>3 DEF ClientReads, ClientUnderstands
<1>6. PICK r \in {"driving", "ok", "error"} :
        r = IF IsAuthenticated(t.next) THEN "ok" ELSE "driving"
  OBVIOUS
<1>7. /\ r # "error" /\ Return(c, r) /\ (r = "ok" => t.next = "Authenticated")
  BY <1>5, <1>6 DEF IsAuthenticated
<1>8. /\ up[k] \o t.sends \in Seq(Message) /\ up'[k] = up[k] \o t.sends
      /\ \A l \in Connection \ {k} : up'[l] = up[l]
      /\ up' \in [Connection -> Seq(Message)]
  <2>1. up[k] \o t.sends \in Seq(Message)
    BY <1>2, <1>4, ConcatProperties
  <2>. QED
    BY <1>2, <1>5, <2>1
<1>9. HasVerified(t.next) => c \in SamePsk
  BY <1>2, <1>4, <1>5 DEF HasVerified, Verifies
<1>10. t.next \in Running \cup {"Authenticated", "Computing"} /\ t.next # "Computing"
  BY <1>4, RunningFacts
<1>11. ClientTold[machine[c]] + Len(t.sends) <= ClientTold[t.next]
  <2>1. Len(t.sends) \in Nat
    BY <1>4, LenProperties
  <2>. QED
    BY <1>2, <1>4, <2>1
<1>12. PICK s \in Running \cup {"Authenticated", "Computing"} : s = t.next
  BY <1>10
<1>13. PICK sent \in Seq(Message) : sent = t.sends
  BY <1>4
<1>14. /\ machine' = [machine EXCEPT ![c] = s] /\ From(sent, ClientSays, ClientTold[machine[c]])
       /\ up'[k] = up[k] \o sent /\ ClientTold[machine[c]] + Len(sent) <= ClientTold[s]
       /\ ClientTold[s] = ClientTold[machine[c]] + Len(sent)
       /\ Taken[s] = Taken[machine[c]] + 1 /\ s # "Computing"
       /\ (r = "ok" => s = "Authenticated") /\ (HasVerified(s) => c \in SamePsk)
       /\ (machine[c] = "AwaitingStatus" => s = "Authenticated")
  BY <1>4, <1>5, <1>7, <1>8, <1>9, <1>10, <1>11, <1>12, <1>13
<1>. QED
  <2>1. TurnTo(c, k, s, r, sent)
    BY <1>1, <1>2, <1>5, <1>7, <1>8, <1>14 DEF TurnTo
  <2>2. SaysNext(c, s, r, sent)
    BY <1>14 DEF SaysNext
  <2>. QED
    BY <2>1, <2>2, ClientTurnInv

(* A client that sends nothing in its turn. *)
LEMMA SilentTurnInv ==
  ASSUME IInv, NEW c \in Client, ClientTurn(c),
         UNCHANGED <<connection, attempts, serverVars, up, closed, cuts>>,
         NEW s \in Running \cup {"Authenticated", "Computing"},
         machine' = [machine EXCEPT ![c] = s], Return(c, "error"),
         ClientTold[machine[c]] <= ClientTold[s],
         HasVerified(s) => c \in SamePsk, s = "Computing" => c \notin SamePsk,
         machine[c] = "AwaitingStatus" => s = "Authenticated"
  PROVE  IInv'
<1>1. PICK k \in Connection : k = connection[c]
  BY ClientTurnFacts
<1>2. up \in [Connection -> Seq(Message)] /\ ClientTold[machine[c]] \in Nat
  BY ClientTurnFacts
<1>3. <<>> \in Seq(Message) /\ Len(<<>>) = 0 /\ From(<<>>, ClientSays, ClientTold[machine[c]])
  BY <1>2, Tuples
<1>4. up[k] \o <<>> = up[k]
  BY <1>2
<1>5. ClientTold[machine[c]] + Len(<<>>) <= ClientTold[s]
  BY <1>2, <1>3
<1>6. TurnTo(c, k, s, "error", <<>>)
  BY <1>1, <1>2, <1>4 DEF TurnTo
<1>7. SaysNext(c, s, "error", <<>>)
  BY <1>3, <1>5 DEF SaysNext
<1>. QED
  BY <1>3, <1>6, <1>7, ClientTurnInv

LEMMA ClientCutOffInv ==
  ASSUME IInv, NEW c \in Client, ClientCutOff(c)
  PROVE  IInv'
<1>1. ClientTurn(c) /\ machine[c] \in Running /\ ClientTold[machine[c]] \in Nat
      /\ (machine[c] = "AwaitingStatus" => c \in SamePsk)
  BY ClientTurnFacts DEF ClientCutOff
<1>2. PICK t : t = InitiatorStep[machine[c]]
  OBVIOUS
<1>3. /\ t.next \in Running \cup {"Authenticated"}
      /\ t.next = "Authenticated" <=> machine[c] = "AwaitingStatus"
      /\ t.next = "AwaitingStatus" <=> machine[c] = "AwaitingConfirmation"
      /\ t.sends \in Seq(Message)
      /\ ClientTold[t.next] = ClientTold[machine[c]] + Len(t.sends)
  BY <1>1, <1>2, InitiatorFacts
<1>4. /\ machine' = [machine EXCEPT ![c] = t.next] /\ Return(c, "error")
      /\ UNCHANGED <<connection, attempts, serverVars, up, closed, cuts>>
      /\ Verifies(c, machine[c])
  BY <1>2 DEF ClientCutOff, ClientUnderstands
<1>5. HasVerified(t.next) => c \in SamePsk
  BY <1>1, <1>3, <1>4 DEF HasVerified, Verifies
<1>6. ClientTold[machine[c]] <= ClientTold[t.next]
  <2>1. Len(t.sends) \in Nat
    BY <1>3, LenProperties
  <2>. QED
    BY <1>1, <1>3, <2>1
<1>7. t.next \in Running \cup {"Authenticated", "Computing"} /\ t.next # "Computing"
  BY <1>3, RunningFacts
<1>. QED
  BY <1>1, <1>3, <1>4, <1>5, <1>6, <1>7, SilentTurnInv

(* The message is the expected one, so only a confirmation can be refused. *)
LEMMA ClientRejectsInv ==
  ASSUME IInv, NEW c \in Client, ClientRejects(c)
  PROVE  IInv'
<1>1. ClientTurn(c) /\ machine[c] \in Running
      /\ Head(down[connection[c]]) = InitiatorStep[machine[c]].on
  BY ClientTurnFacts DEF ClientRejects
<1>2. machine[c] = "AwaitingConfirmation" /\ c \notin SamePsk
  BY <1>1 DEF ClientRejects, ClientUnderstands, Verifies
<1>3. machine \in [Client -> MachineState]
  BY DEF IInv, TypeOK
<1>4. machine' = [machine EXCEPT ![c] = "Computing"]
  BY <1>1, <1>2, <1>3 DEF ClientRejects, Derailed
<1>5. ClientTold[machine[c]] <= ClientTold["Computing"] /\ ~HasVerified("Computing")
  BY <1>2, PositionFacts DEF HasVerified
<1>. QED
  BY <1>1, <1>2, <1>4, <1>5, SilentTurnInv DEF ClientRejects

(* A stream breaks off: what the client has said and taken by then stays.  *)
LEMMA ClientReadsCutInv ==
  ASSUME IInv, NEW c \in Client, ClientReadsCut(c)
  PROVE  IInv'
<1>1. /\ machine[c] \in Running /\ machine[c] # "Idle" /\ machine[c] # "Poisoned"
      /\ machine[c] # "none" /\ TypeOK
  BY RunningFacts DEF ClientReadsCut, IInv
<1>2. PICK k \in Connection : k = connection[c]
  BY <1>1, HeldFacts
<1>3. /\ k[1] = c /\ k # None /\ attempts[c] > 0 /\ ClientInv(c) /\ CutInv(c)
      /\ WireInv(c) /\ Held(c)
  BY <1>1, <1>2, HeldFacts DEF IInv, Held
<1>4. \A l \in Connection : l[1] = c => clientCut[l] = "none"
  BY <1>1, <1>3 DEF CutInv
<1>5. /\ machine'[c] = "Poisoned" /\ call'[c] = "error" /\ connection'[c] = k
      /\ clientCut' = [clientCut EXCEPT ![k] = machine[c]] /\ clientCut'[k] = machine[c]
      /\ \A l \in Connection \ {k} : clientCut'[l] = clientCut[l]
      /\ UNCHANGED <<connection, attempts, serverVars, up, down, closed, serverCut>>
      /\ \A d \in Client \ {c} : Idles(d)
  BY <1>1, <1>2 DEF ClientReadsCut, Return, TypeOK, Idles
<1>6. \A l \in Connection \ {k} : Still(l)
  BY <1>5 DEF Still, serverVars
<1>7. TypeOK'
  BY <1>1, <1>5 DEF TypeOK, ClientReadsCut, Return, serverVars, MachineState, CallState
<1>8. QueueInv'
  BY <1>5, QueueStays DEF serverVars
<1>9. ASSUME NEW l \in Connection, l[1] = c PROVE SessionInv(l)'
  <2>1. CASE l = k
    BY <1>3, <1>5, <2>1, HeldSession DEF serverVars
  <2>2. CASE l # k
    <3>1. Still(l) /\ attempts'[c] >= attempts[c]
      BY <1>1, <1>5, <1>6, <2>2 DEF TypeOK
    <3>. QED
      BY <1>5, <1>7, <1>9, <3>1, OwnStay
  <2>. QED
    BY <2>1, <2>2
<1>10. ClientInv(c)'
  BY <1>1, <1>2, <1>3, <1>5, RunningFacts DEF ClientInv, Succeeded, HasVerified
<1>11. CutInv(c)'
  <2> SUFFICES ASSUME NEW l \in Connection, l[1] = c, clientCut'[l] # "none"
               PROVE  ~Younger(l)' /\ (HasVerified(clientCut'[l]) => c \in SamePsk)
    BY <1>5 DEF CutInv, HasVerified
  <2>1. l = k
    BY <1>4, <1>5
  <2>2. ~Younger(l)'
    BY <1>3, <1>5, <2>1, ConnectionFacts DEF Younger
  <2>. QED
    BY <1>3, <1>5, <2>1, <2>2 DEF ClientInv
<1>12. WireInv(c)'
  <2>1. ClientAt(k) = machine[c] /\ ClientAt(k)' = machine[c]
    BY <1>1, <1>3, <1>4, <1>5 DEF ClientAt
  <2>2. MostByClient(k)' = MostByClient(k)
    BY <1>1, <1>3, <1>5, <2>1, RunningFacts DEF MostByClient
  <2>3. UpInv(c, k)'
    <3>1. UpInv(c, k)
      BY <1>2, <1>3 DEF WireInv
    <3>. QED
      BY <1>5, <2>2, <3>1 DEF UpInv, From, TakenByServer, serverVars
  <2>4. DownInv(c, k)'
    BY <1>5 DEF DownInv
  <2>. QED
    BY <1>2, <1>3, <1>5, <2>1, <2>3, <2>4 DEF WireInv, serverVars
<1>. QED
  BY <1>3, <1>5, <1>6, <1>7, <1>8, <1>9, <1>10, <1>11, <1>12, ClientStep

(* The sender program writes or reads a stream of its connection. *)
LEMMA ExchangeInv ==
  ASSUME IInv, NEW c \in Client, NEW k \in Connection, k = connection[c],
         machine[c] = "Authenticated",
         UNCHANGED <<machine, connection, attempts, serverVars, closed, cuts>>,
         up' \in [Connection -> Seq(Message)], down' \in [Connection -> Seq(Message)],
         \A l \in Connection \ {k} : up'[l] = up[l] /\ down'[l] = down[l],
         session[k] # "Idle" \/ down'[k] = down[k],
         NEW r \in {"awaiting", "done", "error"}, Return(c, r),
         Held(c) => UpInv(c, k)' /\ DownInv(c, k)'
  PROVE  IInv'
<1>1. TypeOK' /\ call'[c] = r
  BY DEF IInv, TypeOK, Return, serverVars, cuts, CallState
<1>2. /\ \A d \in Client \ {c} : Idles(d)
      /\ \A l \in Connection \ {k} : Still(l)
  BY DEF IInv, TypeOK, Idles, Return, Still, serverVars, cuts
<1>3. k[1] = c /\ attempts[c] \in Nat /\ k # None /\ k[2] \in Nat
      /\ attempts[c] > 0
  BY HeldFacts, ConnectionFacts
<1>4. QueueInv'
  BY QueueStays DEF serverVars
<1>5. ASSUME NEW l \in Connection, l[1] = c PROVE SessionInv(l)'
  <2>1. CASE l = k
    BY <1>3, <2>1, HeldSession DEF serverVars, cuts
  <2>2. CASE l # k
    BY <1>1, <1>2, <1>3, <1>5, <2>2, OwnStay
  <2>. QED
    BY <2>1, <2>2
<1>6. ClientInv(c)'
  <2>1. ClientInv(c)
    BY DEF IInv
  <2>. QED
    BY <1>1, <1>3, <2>1 DEF ClientInv, serverVars, HasVerified
<1>7. WireInv(c)'
  <2>1. (Held(c)' <=> Held(c)) /\ ClientAt(k)' = ClientAt(k)
    BY DEF Held, ClientAt, cuts
  <2>2. WireInv(c)
    BY DEF IInv
  <2>. QED
    BY <2>1, <2>2 DEF WireInv, serverVars, cuts
<1>8. CutInv(c)'
  BY CutStays DEF cuts
<1>. QED
  BY <1>1, <1>2, <1>3, <1>4, <1>5, <1>6, <1>7, <1>8, ClientStep

LEMMA SendRequestInv ==
  ASSUME IInv, NEW c \in Client, SendRequest(c)
  PROVE  IInv'
<1>1. call[c] = "ok" /\ machine[c] = "Authenticated" /\ TypeOK
  BY DEF SendRequest, IInv, ClientInv, Succeeded
<1>2. PICK k \in Connection : k = connection[c] /\ k[1] = c
  BY <1>1, HeldFacts
<1>3. /\ UNCHANGED <<machine, connection, attempts, serverVars, down, closed, cuts>>
      /\ up' = [up EXCEPT ![k] = Append(@, "request")] /\ Return(c, "awaiting")
      /\ up[k] \in Seq(Message) /\ "request" \in Message
  BY <1>1, <1>2 DEF SendRequest, TypeOK, Message
<1>4. /\ up'[k] = Append(up[k], "request") /\ up'[k] \in Seq(Message)
      /\ up' \in [Connection -> Seq(Message)] /\ call'[c] = "awaiting"
      /\ \A l \in Connection \ {k} : up'[l] = up[l]
  <2>1. Append(up[k], "request") \in Seq(Message)
    BY <1>3, AppendProperties
  <2>. QED
    BY <1>1, <1>3, <2>1 DEF TypeOK, Return
<1>5. ASSUME Held(c) PROVE UpInv(c, k)' /\ DownInv(c, k)'
  <2>1. UpInv(c, k) /\ DownInv(c, k)
    BY <1>2, <1>5 DEF IInv, WireInv
  <2>2. UpInv(c, k)'
    <3> SUFFICES ASSUME session[k] \in Running \cup {"Idle", "Authenticated"}, handler[k] # "ended"
                 PROVE  /\ From(up[k], ClientSays, TakenByServer(k))'
                        /\ (TakenByServer(k) + Len(up[k]) <= MostByClient(k))'
      BY <1>3, <1>4 DEF UpInv, serverVars
    <3>1. /\ From(up[k], ClientSays, TakenByServer(k))
          /\ TakenByServer(k) + Len(up[k]) = 4
      BY <1>1, <2>1, PositionFacts DEF UpInv
    <3>2. TakenByServer(k) \in Nat /\ TakenByServer(k)' = TakenByServer(k) /\ MostByClient(k)' = 5
      <4>1. session[k] \in MachineState
        BY <1>1 DEF TypeOK
      <4>2. TakenByServer(k) \in Nat
        BY <4>1, PositionFacts DEF TakenByServer
      <4>. QED
        BY <1>1, <1>2, <1>3, <4>2 DEF TakenByServer, MostByClient, serverVars
    <3>3. Len(up[k]) \in Nat /\ TakenByServer(k) + Len(up[k]) + 1 = 5
      BY <1>3, <3>1, LenProperties
    <3>4. "request" = ClientSays[TakenByServer(k) + Len(up[k]) + 1]
      BY <3>3 DEF ClientSays
    <3>5. Len(up'[k]) = Len(up[k]) + 1 /\ From(up'[k], ClientSays, TakenByServer(k))
      BY <1>3, <1>4, <3>1, <3>2, <3>4, FromAppend
    <3>6. From(up[k], ClientSays, TakenByServer(k))'
      BY <3>2, <3>5 DEF From
    <3>. QED
      BY <3>2, <3>3, <3>5, <3>6
  <2>3. DownInv(c, k)'
    BY <1>1, <1>3, <1>4, <2>1 DEF DownInv, From, TakenByClient, MostByServer, ServerAt, serverVars, cuts
  <2>. QED
    BY <2>2, <2>3
<1>. QED
  BY <1>1, <1>2, <1>3, <1>4, <1>5, ExchangeInv DEF TypeOK

LEMMA ReceiveResponseInv ==
  ASSUME IInv, NEW c \in Client, ReceiveResponse(c)
  PROVE  IInv'
<1>1. call[c] = "awaiting" /\ machine[c] = "Authenticated" /\ TypeOK
  BY DEF ReceiveResponse, IInv, ClientInv, Succeeded
<1>2. PICK k \in Connection : k = connection[c] /\ k[1] = c /\ SessionInv(k)
  BY <1>1, HeldFacts
<1>3. PICK r \in {"awaiting", "done", "error"} : r = IF Head(down[k]) = "response" THEN "done" ELSE "error"
  OBVIOUS
<1>4. /\ UNCHANGED <<machine, connection, attempts, serverVars, up, closed, cuts>>
      /\ down[k] # <<>> /\ down' = [down EXCEPT ![k] = Tail(@)] /\ Return(c, r)
      /\ down[k] \in Seq(Message)
  BY <1>1, <1>2, <1>3 DEF ReceiveResponse, TypeOK
<1>5. /\ down'[k] = Tail(down[k]) /\ down'[k] \in Seq(Message)
      /\ down' \in [Connection -> Seq(Message)] /\ call'[c] = r
      /\ \A l \in Connection \ {k} : down'[l] = down[l]
  <2>1. Tail(down[k]) \in Seq(Message)
    BY <1>4
  <2>. QED
    BY <1>1, <1>4, <2>1 DEF TypeOK, Return
<1>6. ASSUME Held(c) PROVE UpInv(c, k)' /\ DownInv(c, k)'
  <2>1. UpInv(c, k) /\ DownInv(c, k)
    BY <1>2, <1>6 DEF IInv, WireInv
  <2>2. UpInv(c, k)'
    BY <1>1, <1>2, <1>3, <1>4, <1>5, <2>1 DEF UpInv, From, TakenByServer, MostByClient, serverVars
  <2>3. /\ From(down[k], ServerSays, 4) /\ TakenByClient(c) = 4 /\ 4 \in Nat
        /\ 4 + Len(down[k]) <= MostByServer(k)
        /\ (serving = k \/ session[k] = "Idle" \/ handler[k] = "receiving" => 4 + Len(down[k]) = ServerTold[session[k]])
    BY <1>1, <2>1, PositionFacts DEF DownInv, TakenByClient
  <2>4. Head(down[k]) = ServerSays[4 + 1] /\ Len(Tail(down[k])) = Len(down[k]) - 1
        /\ From(Tail(down[k]), ServerSays, 4 + 1)
    BY <1>4, <2>3, FromTail
  <2>5. r = "done" /\ TakenByClient(c)' = 5
    BY <1>3, <1>5, <2>4 DEF ServerSays, TakenByClient
  <2>6. 5 + Len(down'[k]) = 4 + Len(down[k])
    <3>1. Len(down[k]) \in Nat /\ Len(down'[k]) = Len(down[k]) - 1
      BY <1>4, <1>5, <2>4, LenProperties
    <3>. QED
      BY <3>1
  <2>7. From(down[k], ServerSays, TakenByClient(c))'
    BY <1>5, <2>4, <2>5 DEF From
  <2>8. MostByServer(k)' = MostByServer(k)
    BY <1>4 DEF MostByServer, ServerAt, serverVars, cuts
  <2>9. DownInv(c, k)'
    BY <1>4, <2>3, <2>5, <2>6, <2>7, <2>8 DEF DownInv, serverVars
  <2>. QED
    BY <2>2, <2>9
<1>. QED
  <2>1. up' \in [Connection -> Seq(Message)] /\ \A l \in Connection \ {k} : up'[l] = up[l]
    BY <1>1, <1>4 DEF TypeOK
  <2>2. session[k] # "Idle"
    BY <1>2, <1>4 DEF SessionInv
  <2>. QED
    BY <1>1, <1>2, <1>4, <1>5, <1>6, <2>1, <2>2, ExchangeInv

-----------------------------------------------------------------------------
(* Steps of the server and of the handlers *)

(* A step after which nothing has happened but to the queue. *)
LEMMA QuietInv ==
  ASSUME IInv, TypeOK', QueueInv', UNCHANGED <<clientVars, clientCut>>, \A k \in Connection : Still(k)
  PROVE  IInv'
<1>1. ASSUME NEW k \in Connection PROVE SessionInv(k)'
  <2>1. SessionInv(k) /\ TypeOK /\ attempts[k[1]] \in Nat
    <3>1. SessionInv(k) /\ TypeOK
      BY DEF IInv
    <3>. QED
      BY <3>1, AttemptsFacts
  <2>2. Younger(k)' => Younger(k)
    BY DEF Younger, clientVars
  <2>3. attempts'[k[1]] >= attempts[k[1]]
    BY <2>1 DEF clientVars
  <2>. QED
    BY <2>1, <2>2, <2>3, SessionStays
<1>2. ASSUME NEW c \in Client PROVE ClientInv(c)' /\ CutInv(c)' /\ WireInv(c)'
  <2>1. /\ Idles(c) /\ ClientInv(c) /\ CutInv(c) /\ WireInv(c) /\ TypeOK
        /\ connection[c] \in Connection \cup {None}
    BY DEF Idles, clientVars, IInv, TypeOK
  <2>. QED
    BY <2>1, ClientStays
<1>. QED
  BY <1>1, <1>2 DEF IInv

(* What is left to show of a step on one connection. *)
LEMMA ServerStep ==
  ASSUME IInv, TypeOK', QueueInv', UNCHANGED <<clientVars, clientCut>>, NEW k \in Connection,
         \A l \in Connection \ {k} : Still(l), SessionInv(k)',
         connection[k[1]] = k => ClientInv(k[1])' /\ WireInv(k[1])'
  PROVE  IInv'
<1>1. ASSUME NEW l \in Connection, l # k PROVE SessionInv(l)'
  <2>1. SessionInv(l) /\ TypeOK /\ attempts[l[1]] \in Nat /\ Still(l)
    <3>1. SessionInv(l) /\ TypeOK /\ Still(l)
      BY <1>1 DEF IInv
    <3>. QED
      BY <3>1, AttemptsFacts
  <2>2. Younger(l)' => Younger(l)
    BY DEF Younger, clientVars
  <2>3. attempts'[l[1]] >= attempts[l[1]]
    BY <2>1 DEF clientVars
  <2>. QED
    BY <2>1, <2>2, <2>3, SessionStays
<1>2. ASSUME NEW c \in Client PROVE ClientInv(c)' /\ CutInv(c)' /\ WireInv(c)'
  <2>1. CASE connection[c] # k
    BY <2>1, HoldersStay
  <2>2. CASE connection[c] = k
    <3>1. c = k[1]
      BY <2>2, ConnectionFacts DEF IInv, ClientInv
    <3>2. CutInv(c)'
      BY CutStays DEF clientVars
    <3>. QED
      BY <2>2, <3>1, <3>2
  <2>. QED
    BY <2>1, <2>2
<1>. QED
  BY <1>1, <1>2 DEF IInv

LEMMA StutterInv ==
  ASSUME IInv, UNCHANGED vars
  PROVE  IInv'
<1>1. UNCHANGED <<clientVars, clientCut>> /\ \A k \in Connection : Still(k)
  BY DEF vars, clientVars, serverVars, cuts, Still
<1>2. TypeOK'
  BY DEF IInv, TypeOK, vars, clientVars, serverVars, cuts
<1>3. QueueInv'
  BY QueueStays DEF vars, clientVars, serverVars
<1>. QED
  BY <1>1, <1>2, <1>3, QuietInv

(* The rest of the queue. *)
LEMMA QueueTail ==
  ASSUME IInv, incoming # <<>>, incoming' = Tail(incoming),
         serving' = Head(incoming), UNCHANGED <<attempts, session>>
  PROVE  /\ incoming' \in Seq(Connection) /\ Head(incoming) \in Connection
         /\ session[Head(incoming)] = "Idle" /\ QueueInv'
<1>1. incoming \in Seq(Connection) /\ QueueInv
  BY DEF IInv, TypeOK
<1>2. /\ Len(incoming) \in Nat /\ Len(incoming) > 0 /\ Head(incoming) = incoming[1]
      /\ Head(incoming) \in Connection
      /\ incoming' \in Seq(Connection) /\ Len(incoming') = Len(incoming) - 1
      /\ \A i \in 1 .. Len(incoming') : incoming'[i] = incoming[i + 1]
  BY <1>1
<1>3. 1 \in 1 .. Len(incoming) /\ \A i \in 1 .. Len(incoming') : i + 1 \in 1 .. Len(incoming) /\ i + 1 # 1
  BY <1>2
<1>4. /\ session[Head(incoming)] = "Idle"
      /\ Head(incoming)[2] <= attempts[Head(incoming)[1]]
  BY <1>1, <1>2, <1>3 DEF QueueInv
<1>5. ASSUME NEW i \in 1 .. Len(incoming')
      PROVE  session'[incoming'[i]] = "Idle" /\ incoming'[i] # serving'
             /\ incoming'[i][2] <= attempts'[incoming'[i][1]]
  <2>1. /\ session[incoming[i + 1]] = "Idle" /\ incoming[i + 1] # incoming[1]
        /\ incoming[i + 1][2] <= attempts[incoming[i + 1][1]]
    BY <1>1, <1>3 DEF QueueInv
  <2>2. incoming[i + 1] \in Connection
    BY <1>1, <1>3, ElementOfSeq
  <2>. QED
    BY <1>2, <2>1, <2>2
<1>6. ASSUME NEW i \in 1 .. Len(incoming'), NEW j \in 1 .. Len(incoming'), incoming'[i] = incoming'[j]
      PROVE  i = j
  <2>1. i + 1 = j + 1
    BY <1>1, <1>2, <1>3, <1>6 DEF QueueInv
  <2>. QED
    BY <2>1
<1>. QED
  BY <1>2, <1>4, <1>5, <1>6 DEF QueueInv

LEMMA AcceptInv ==
  ASSUME IInv, Accept
  PROVE  IInv'
<1>1. PICK k : k = Head(incoming)
  OBVIOUS
<1>2. /\ incoming # <<>> /\ incoming' = Tail(incoming) /\ serving' = k
      /\ UNCHANGED <<clientVars, session, handler, up, down, closed, clientCut, serverCut>>
      /\ UNCHANGED <<attempts, session>> /\ TypeOK
  BY <1>1 DEF Accept, clientVars, cuts, IInv
<1>3. /\ incoming' \in Seq(Connection) /\ k \in Connection /\ session[k] = "Idle" /\ QueueInv'
  BY <1>1, <1>2, QueueTail
<1>4. TypeOK'
  BY <1>2, <1>3 DEF TypeOK, clientVars
<1>5. \A l \in Connection \ {k} : Still(l)
  BY <1>2 DEF Still
<1>6. SessionInv(k)'
  BY <1>2, <1>3 DEF IInv, SessionInv, ServerAt, Unheard, Younger, clientVars
<1>7. ASSUME connection[k[1]] = k PROVE ClientInv(k[1])' /\ WireInv(k[1])'
  <2>1. PICK c \in Client : c = k[1]
    BY <1>3, ConnectionFacts
  <2>2. ClientInv(c) /\ WireInv(c)
    BY DEF IInv
  <2>3. ClientInv(c)'
    BY <1>2, <2>2 DEF ClientInv, Silent, Succeeded, HasVerified, clientVars
  <2>4. UpInv(c, k) => UpInv(c, k)'
    BY <1>2 DEF UpInv, From, TakenByServer, MostByClient, ClientAt, clientVars
  <2>5. DownInv(c, k) => DownInv(c, k)'
    BY <1>2, <1>3 DEF DownInv, From, TakenByClient, MostByServer, ServerAt, clientVars
  <2>6. WireInv(c)'
    BY <1>2, <1>7, <2>1, <2>2, <2>4, <2>5 DEF WireInv, Held, ClientAt, clientVars
  <2>. QED
    BY <2>1, <2>3, <2>6
<1>. QED
  BY <1>2, <1>3, <1>4, <1>5, <1>6, <1>7, ServerStep

(* The server's first message: nothing was on its way to the client before. *)
LEMMA GreetInv ==
  ASSUME IInv, NEW k \in Connection, Greet(k)
  PROVE  IInv'
<1>1. /\ serving = k /\ session[k] = "Idle" /\ TypeOK /\ SessionInv(k) /\ QueueInv
      /\ k # None /\ k[1] \in Client /\ k[2] \in Nat
  BY ConnectionFacts DEF Greet, IInv
<1>2. /\ session' = [session EXCEPT ![k] = "AwaitingCapabilities"]
      /\ session'[k] = "AwaitingCapabilities"
      /\ down' = [down EXCEPT ![k] = Append(@, "capabilities")]
      /\ UNCHANGED <<clientVars, incoming, serving, handler, up, closed, clientCut, serverCut>>
      /\ attempts' = attempts
  BY <1>1 DEF Greet, TypeOK, clientVars, cuts
<1>3. down[k] = <<>> /\ down'[k] = <<"capabilities">> /\ <<"capabilities">> \in Seq(Message)
  BY <1>1, <1>2 DEF SessionInv, TypeOK, Message
<1>4. serverCut[k] = "none" /\ handler[k] = "none" /\ k[2] <= attempts[k[1]]
  BY <1>1 DEF SessionInv, QueueInv, TypeOK
<1>5. TypeOK'
  <2>1. down' \in [Connection -> Seq(Message)]
    BY <1>1, <1>2, <1>3 DEF TypeOK
  <2>2. session' \in [Connection -> MachineState]
    BY <1>1, <1>2 DEF TypeOK, MachineState
  <2>. QED
    BY <1>1, <1>2, <2>1, <2>2 DEF TypeOK, clientVars
<1>6. \A l \in Connection \ {k} : Still(l)
  BY <1>1, <1>2 DEF Still, TypeOK
<1>7. QueueInv'
  <2>1. \A l \in Connection \ {serving} : session[l] = "Idle" => session'[l] = "Idle"
    BY <1>1, <1>2 DEF TypeOK
  <2>. QED
    BY <1>2, <2>1, QueueStays
<1>8. SessionInv(k)'
  <2>1. Younger(k)' => Unheard(k)'
    <3>1. Younger(k)' => Younger(k)
      BY <1>2 DEF Younger, clientVars
    <3>. QED
      BY <1>1, <1>2, <1>3, <3>1 DEF Unheard, SessionInv
  <2>2. ~(k[2] > attempts[k[1]])
    BY <1>1, <1>4 DEF TypeOK
  <2>. QED
    BY <1>1, <1>2, <1>4, <2>1, <2>2, RunningFacts DEF SessionInv, ServerAt
<1>9. ASSUME connection[k[1]] = k PROVE ClientInv(k[1])' /\ WireInv(k[1])'
  <2>1. PICK c \in Client : c = k[1]
    BY <1>1
  <2>2. ClientInv(c) /\ WireInv(c) /\ machine[c] \in MachineState
    BY <1>1 DEF IInv, TypeOK
  <2>3. ClientInv(c)'
    BY <1>1, <1>2, <1>9, <2>1, <2>2 DEF ClientInv, Silent, Succeeded, HasVerified, clientVars
  <2>4. ASSUME UpInv(c, k) PROVE UpInv(c, k)'
    <3>1. TakenByServer(k)' = TakenByServer(k)
      BY <1>1, <1>2, <1>4, PositionFacts DEF TakenByServer
    <3>2. MostByClient(k)' = MostByClient(k)
      BY <1>2 DEF MostByClient, ClientAt, clientVars
    <3>. QED
      BY <1>1, <1>2, <2>4, <3>1, <3>2 DEF UpInv, From, clientVars
  <2>5. ASSUME DownInv(c, k), call[c] \in {"driving", "ok", "awaiting", "done"} PROVE DownInv(c, k)'
    <3>1. TakenByClient(c) + Len(down[k]) = 0
      BY <1>1, <2>5, PositionFacts DEF DownInv
    <3>2. TakenByClient(c) = 0 /\ TakenByClient(c)' = 0
      <4>1. TakenByClient(c) \in Nat /\ Len(down[k]) = 0
        BY <1>3, <2>2, PositionFacts DEF TakenByClient
      <4>. QED
        BY <1>2, <3>1, <4>1 DEF TakenByClient, clientVars
    <3>3. MostByServer(k)' = 1 /\ ServerTold[session'[k]] = 1
      BY <1>2, <1>4, PositionFacts DEF MostByServer, ServerAt
    <3>4. From(<<"capabilities">>, ServerSays, 0) /\ Len(<<"capabilities">>) = 1
      BY Tuples DEF Message, ServerSays
    <3>5. From(down[k], ServerSays, TakenByClient(c))'
      BY <1>3, <3>2, <3>4 DEF From
    <3>. QED
      BY <1>3, <3>2, <3>3, <3>4, <3>5 DEF DownInv
  <2>6. call[c] \notin {"driving", "ok", "awaiting", "done"} => DownInv(c, k)'
    BY <1>2 DEF DownInv, clientVars
  <2>7. WireInv(c)'
    BY <1>1, <1>2, <1>9, <2>1, <2>2, <2>4, <2>5, <2>6 DEF WireInv, Held, ClientAt, clientVars
  <2>. QED
    BY <2>1, <2>3, <2>7
<1>. QED
  BY <1>1, <1>2, <1>5, <1>6, <1>7, <1>8, <1>9, ServerStep

LEMMA RefuseInv ==
  ASSUME IInv, NEW k \in Connection, AcceptFails(k) \/ ServerGivesUp(k)
  PROVE  IInv'
<1>1. /\ serving' = None /\ closed' = closed \cup {k}
      /\ UNCHANGED <<clientVars, incoming, session, handler, up, down, clientCut, serverCut>>
  BY DEF AcceptFails, ServerGivesUp, Refuse, cuts
<1>2. \A l \in Connection : Still(l)
  BY <1>1, ConnectionFacts DEF Still
<1>3. TypeOK'
  BY <1>1 DEF IInv, TypeOK, clientVars
<1>4. QueueInv'
  BY <1>1, QueueStays DEF clientVars
<1>. QED
  BY <1>1, <1>2, <1>3, <1>4, QuietInv

(* The holder of a connection the server has heard of. *)
LEMMA HolderInv ==
  ASSUME IInv, NEW c \in Client, NEW k \in Connection, connection[c] = k,
         UNCHANGED <<clientVars, clientCut>>, ~Silent(k)
  PROVE  /\ ClientInv(c)' /\ k[1] = c
         /\ machine[c] = "Poisoned" => clientCut[k] # "none"
<1>1. ClientInv(c) /\ k # None
  BY ConnectionFacts DEF IInv
<1>2. (machine[c] = "Poisoned" => clientCut[k] # "none") /\ k[1] = c
  BY <1>1 DEF ClientInv
<1>. QED
  BY <1>1, <1>2 DEF ClientInv, clientVars, Succeeded, HasVerified

(* k is the connection on which its client runs or ran the handshake. *)
HeldBy(k) == connection[k[1]] = k /\ Held(k[1])

(* How far the client has come, when it has been cut off or has not. *)
LEMMA ClientAtFacts ==
  ASSUME IInv, NEW k \in Connection
  PROVE  /\ k[1] \in Client /\ ClientAt(k) \in MachineState /\ MostByClient(k) \in 0 .. 5
         /\ machine[k[1]] # "Poisoned" => clientCut[k] = "none" /\ ClientAt(k) = machine[k[1]]
<1>1. k[1] \in Client /\ TypeOK /\ CutInv(k[1])
  BY ConnectionFacts DEF IInv
<1>2. ClientAt(k) \in MachineState
  BY <1>1, RunningFacts DEF TypeOK, ClientAt, MachineState
<1>3. MostByClient(k) \in 0 .. 5
  BY <1>2, PositionFacts DEF MostByClient
<1>. QED
  BY <1>1, <1>2, <1>3 DEF CutInv, ClientAt

(* What the server finds when it takes its turn. *)
LEMMA ServerTurnFacts ==
  ASSUME IInv, NEW k \in Connection, ServerTurn(k)
  PROVE  /\ session[k] \in Running /\ session[k] \in MachineState /\ handler[k] = "none"
         /\ k[1] \in Client /\ ~Silent(k) /\ ~Younger(k) /\ k[2] <= attempts[k[1]]
         /\ ~Unheard(k) /\ serverCut[k] = "none"
         /\ Taken[session[k]] \in Nat /\ ServerTold[session[k]] \in Nat
         /\ up[k] \in Seq(Message) /\ down[k] \in Seq(Message) /\ Len(up[k]) \in Nat /\ Len(down[k]) \in Nat
         /\ up' \in [Connection -> Seq(Message)] /\ up'[k] = Tail(up[k])
         /\ \A l \in Connection \ {k} : up'[l] = up[l]
         /\ HeldBy(k) => /\ Head(up[k]) = ResponderStep[session[k]].on
                         /\ From(up'[k], ClientSays, Taken[session[k]] + 1)
                         /\ Len(up'[k]) = Len(up[k]) - 1
<1>1. TypeOK /\ SessionInv(k) /\ serving = k /\ session[k] # "Idle" /\ up[k] # <<>>
      /\ up' = [up EXCEPT ![k] = Tail(@)]
  BY DEF IInv, ServerTurn
<1>2. session[k] \in Running /\ session[k] \in MachineState /\ handler[k] = "none"
      /\ session[k] # "Authenticated" /\ serverCut[k] = "none"
  BY <1>1, RunningFacts DEF SessionInv, MachineState
<1>3. k[1] \in Client /\ ~Unheard(k) /\ ~Silent(k) /\ ~Younger(k)
  BY <1>1, ConnectionFacts DEF SessionInv, Unheard, Silent
<1>4. k[2] <= attempts[k[1]]
  BY <1>1, <1>2, ConnectionFacts DEF SessionInv, TypeOK
<1>5. /\ up[k] \in Seq(Message) /\ down[k] \in Seq(Message) /\ Tail(up[k]) \in Seq(Message)
      /\ Len(up[k]) \in Nat /\ Len(down[k]) \in Nat
  <2>1. up[k] \in Seq(Message) /\ down[k] \in Seq(Message)
    BY <1>1 DEF TypeOK
  <2>. QED
    BY <1>1, <2>1, LenProperties
<1>6. /\ up' \in [Connection -> Seq(Message)] /\ up'[k] = Tail(up[k])
      /\ \A l \in Connection \ {k} : up'[l] = up[l]
  BY <1>1, <1>5 DEF TypeOK
<1>7. Taken[session[k]] \in Nat /\ ServerTold[session[k]] \in Nat
  BY <1>2, PositionFacts
<1>8. ASSUME HeldBy(k)
      PROVE  /\ Head(up[k]) = ResponderStep[session[k]].on
             /\ From(up'[k], ClientSays, Taken[session[k]] + 1)
             /\ Len(up'[k]) = Len(up[k]) - 1
  <2>1. UpInv(k[1], k)
    BY <1>3, <1>8 DEF HeldBy, IInv, WireInv
  <2>2. From(up[k], ClientSays, Taken[session[k]])
    BY <1>2, <2>1 DEF UpInv, TakenByServer
  <2>3. Head(up[k]) = ClientSays[Taken[session[k]] + 1]
        /\ From(Tail(up[k]), ClientSays, Taken[session[k]] + 1)
        /\ Len(Tail(up[k])) = Len(up[k]) - 1
    BY <1>1, <1>5, <1>7, <2>2, FromTail
  <2>. QED
    BY <1>2, <1>6, <2>3, ResponderFacts
<1>. QED
  BY <1>2, <1>3, <1>4, <1>5, <1>6, <1>7, <1>8

(* A turn of the server on k leaves the session in s and sends sent. *)
ServerTurnTo(k, s, sent) ==
  /\ ServerTurn(k)
  /\ UNCHANGED <<clientVars, incoming, cuts>>
  /\ session' = [session EXCEPT ![k] = s]
  /\ down' \in [Connection -> Seq(Message)] /\ down'[k] = down[k] \o sent
  /\ \A l \in Connection \ {k} : down'[l] = down[l]
  /\ closed' \in SUBSET Connection
  /\ \/ s \in Running /\ UNCHANGED <<serving, handler>>
     \/ s = "Authenticated" /\ serving' = None /\ handler' = [handler EXCEPT ![k] = "receiving"]
     \/ s # "Authenticated" /\ serving' = None /\ handler' = handler

(* ... which is what its state allows it to say next. *)
ServerSaysNext(k, s, sent) ==
  /\ From(sent, ServerSays, ServerTold[session[k]])
  /\ s \in {"AwaitingConfirmation", "AwaitingStatus", "Authenticated", "Computing"}
       => k[1] \in GoodToken
  /\ s \in {"AwaitingStatus", "Authenticated"} => k[1] \in SamePsk
  /\ s = "Computing" => k[1] \notin SamePsk
  /\ s \in Running \cup {"Authenticated"} => Taken[s] = Taken[session[k]] + 1
  /\ HeldBy(k) =>
       /\ ServerTold[session[k]] + Len(sent) <= ServerTold[s]
       /\ s = "Poisoned" => k[1] \notin GoodToken
  /\ serving' = k \/ s = "Authenticated" => ServerTold[session[k]] + Len(sent) = ServerTold[s]

LEMMA ServerTurnInv ==
  ASSUME IInv, NEW k \in Connection, NEW s \in MachineState \ {"Idle"}, NEW sent \in Seq(Message),
         ServerTurnTo(k, s, sent), ServerSaysNext(k, s, sent)
  PROVE  IInv'
<1>1. ServerTurn(k) /\ UNCHANGED <<clientVars, clientCut, serverCut>> /\ TypeOK /\ SessionInv(k)
  BY DEF ServerTurnTo, IInv, cuts
<1>2. /\ session[k] \in Running /\ session[k] \in MachineState /\ handler[k] = "none"
      /\ k[1] \in Client /\ ~Silent(k) /\ ~Younger(k) /\ k[2] <= attempts[k[1]]
      /\ serverCut[k] = "none"
      /\ Taken[session[k]] \in Nat /\ ServerTold[session[k]] \in Nat
      /\ up[k] \in Seq(Message) /\ down[k] \in Seq(Message) /\ Len(up[k]) \in Nat /\ Len(down[k]) \in Nat
      /\ up' \in [Connection -> Seq(Message)]
      /\ \A l \in Connection \ {k} : up'[l] = up[l]
  BY <1>1, ServerTurnFacts
<1>3. session[k] # "Idle" /\ k # None /\ k[2] \in Nat /\ serving = k
  BY <1>1, <1>2, RunningFacts, ConnectionFacts DEF ServerTurn
<1>4. session'[k] = s /\ \A l \in Connection \ {k} : session'[l] = session[l]
  BY <1>1 DEF ServerTurnTo, TypeOK
<1>5. /\ \A l \in Connection \ {k} : handler'[l] = handler[l]
      /\ handler'[k] = IF s = "Authenticated" THEN "receiving" ELSE "none"
      /\ handler' \in [Connection -> {"none", "receiving", "keeping", "ended"}]
  BY <1>1, <1>2, RunningFacts DEF ServerTurnTo, TypeOK
<1>6. serving' \in {k, None} /\ (serving' = k => s \in Running) /\ (s = "Authenticated" => serving' = None)
  BY <1>3, RunningFacts DEF ServerTurnTo
<1>7. \A l \in Connection \ {k} : Still(l)
  BY <1>1, <1>2, <1>4, <1>5, <1>6, ConnectionFacts DEF Still, ServerTurnTo
<1>8. TypeOK'
  <2>1. session' \in [Connection -> MachineState]
    BY <1>1 DEF ServerTurnTo, TypeOK
  <2>. QED
    BY <1>1, <1>2, <1>5, <1>6, <2>1 DEF TypeOK, clientVars, ServerTurnTo
<1>9. QueueInv'
  <2>1. \A l \in Connection : session[l] = "Idle" => session'[l] = "Idle"
    BY <1>3, <1>4
  <2>. QED
    BY <1>3, <1>6, <2>1, QueueStays DEF ServerTurnTo, clientVars
<1>10. SessionInv(k)'
  <2>1. ~Younger(k)'
    BY <1>1, <1>2 DEF Younger, clientVars
  <2>2. attempts[k[1]] \in Nat /\ attempts' = attempts
    BY <1>1, <1>2 DEF TypeOK, clientVars
  <2>3. ~(k[2] > attempts[k[1]])
    BY <1>2, <1>3, <2>2
  <2>. QED
    BY <1>1, <1>2, <1>4, <1>5, <1>6, <2>1, <2>2, <2>3 DEF SessionInv, ServerAt, ServerSaysNext
<1>11. ASSUME connection[k[1]] = k PROVE ClientInv(k[1])' /\ WireInv(k[1])'
  <2>1. PICK c \in Client : c = k[1]
    BY <1>2
  <2>2. ClientInv(c)'
    BY <1>1, <1>2, <1>4, <1>11, <2>1, HolderInv
  <2>3. ASSUME Held(c)
        PROVE  /\ UpInv(c, k)' /\ DownInv(c, k)' /\ (s = "Poisoned" => c \notin GoodToken)
               /\ (s = "Authenticated" => ClientAt(k) \in {"AwaitingStatus", "Authenticated"})
    <3>1. HeldBy(k) /\ UpInv(c, k) /\ DownInv(c, k)
      BY <1>11, <2>1, <2>3 DEF HeldBy, IInv, WireInv
    <3>2. /\ From(up'[k], ClientSays, Taken[session[k]] + 1)
          /\ Len(up'[k]) = Len(up[k]) - 1
      BY <1>1, <3>1, ServerTurnFacts
    <3>3. /\ UNCHANGED <<machine, call>> /\ MostByClient(k)' = MostByClient(k)
          /\ TakenByClient(c)' = TakenByClient(c)
      BY <1>1 DEF clientVars, MostByClient, ClientAt, TakenByClient
    <3>4. UpInv(c, k)'
      <4> SUFFICES ASSUME s \in Running \cup {"Authenticated"}
                   PROVE  UpInv(c, k)'
        BY <1>4 DEF UpInv
      <4>1. TakenByServer(k)' = Taken[session[k]] + 1 /\ TakenByServer(k) = Taken[session[k]]
        BY <1>2, <1>4, <1>5 DEF TakenByServer, ServerSaysNext
      <4>2. TakenByServer(k)' + Len(up'[k]) = TakenByServer(k) + Len(up[k])
        <5>1. (Taken[session[k]] + 1) + Len(up'[k]) = Taken[session[k]] + Len(up[k])
          BY <1>2, <3>2, Shift, Zenon
        <5>. QED
          BY <4>1, <5>1
      <4>3. From(up[k], ClientSays, TakenByServer(k))'
        BY <3>2, <4>1 DEF From
      <4>. QED
        BY <1>2, <3>1, <3>3, <4>2, <4>3 DEF UpInv
    <3>5. DownInv(c, k)'
      <4> SUFFICES ASSUME call[c] \in {"driving", "ok", "awaiting", "done"}
                   PROVE  /\ From(down[k], ServerSays, TakenByClient(c))'
                          /\ (TakenByClient(c) + Len(down[k]) <= MostByServer(k))'
                          /\ (serving = k \/ session[k] = "Idle" \/ handler[k] = "receiving" =>
                                TakenByClient(c) + Len(down[k]) = ServerTold[session[k]])'
        BY <3>3 DEF DownInv
      <4>1. /\ From(down[k], ServerSays, TakenByClient(c))
            /\ TakenByClient(c) + Len(down[k]) = ServerTold[session[k]]
        BY <1>3, <3>1 DEF DownInv
      <4>2. TakenByClient(c) \in Nat
        <5>1. machine[c] \in MachineState
          BY <1>1 DEF TypeOK
        <5>. QED
          BY <5>1, PositionFacts DEF TakenByClient
      <4>3. down'[k] = down[k] \o sent /\ From(sent, ServerSays, ServerTold[session[k]])
            /\ Len(sent) \in Nat
        BY LenProperties DEF ServerTurnTo, ServerSaysNext
      <4>4. /\ Len(down'[k]) = Len(down[k]) + Len(sent)
            /\ From(down'[k], ServerSays, TakenByClient(c))
        BY <1>2, <4>1, <4>2, <4>3, FromConcat
      <4>5. From(down[k], ServerSays, TakenByClient(c))'
        BY <3>3, <4>4 DEF From
      <4>6. TakenByClient(c)' + Len(down'[k]) = ServerTold[session[k]] + Len(sent)
        BY <1>2, <3>3, <4>1, <4>2, <4>3, <4>4
      <4>7. MostByServer(k)' = ServerTold[s]
        BY <1>1, <1>2, <1>4, <1>5 DEF MostByServer, ServerAt
      <4>8. ServerTold[session[k]] + Len(sent) <= ServerTold[s]
        BY <3>1 DEF ServerSaysNext
      <4>9. serving' = k \/ handler'[k] = "receiving" => ServerTold[session[k]] + Len(sent) = ServerTold[s]
        BY <1>5 DEF ServerSaysNext
      <4>. QED
        BY <1>4, <4>5, <4>6, <4>7, <4>8, <4>9
    <3>6. ASSUME s = "Authenticated" PROVE ClientAt(k) \in {"AwaitingStatus", "Authenticated"}
      <4>1. Taken[session[k]] + 1 = 4
        BY <3>6, PositionFacts DEF ServerSaysNext
      <4>2. Taken[session[k]] + Len(up[k]) <= MostByClient(k)
        BY <1>2, <3>1 DEF UpInv, TakenByServer
      <4>3. Len(up[k]) > 0
        BY <1>1, <1>2 DEF ServerTurn
      <4>4. MostByClient(k) \in 0 .. 5 /\ ClientAt(k) \in MachineState
        BY <1>1, <2>1, ClientAtFacts
      <4>5. MostByClient(k) >= 4
        BY <1>2, <4>1, <4>2, <4>3, <4>4
      <4>6. CASE machine[c] = "Authenticated"
        BY <2>1, <4>6, ClientAtFacts
      <4>7. CASE machine[c] # "Authenticated"
        BY <2>1, <4>4, <4>5, <4>7 DEF MostByClient, ClientTold, MachineState
      <4>. QED
        BY <4>6, <4>7
    <3>. QED
      BY <2>1, <3>1, <3>4, <3>5, <3>6 DEF ServerSaysNext
  <2>4. WireInv(c)'
    <3>1. (Held(c)' <=> Held(c)) /\ ClientAt(k)' = ClientAt(k)
      BY <1>1 DEF Held, ClientAt, clientVars
    <3>2. connection'[c] = k
      BY <1>1, <1>11, <2>1 DEF clientVars
    <3>. QED
      BY <1>1, <1>4, <2>3, <3>1, <3>2 DEF WireInv, clientVars
  <2>. QED
    BY <2>1, <2>2, <2>4
<1>. QED
  BY <1>1, <1>7, <1>8, <1>9, <1>10, <1>11, ServerStep

LEMMA ServerReadsInv ==
  ASSUME IInv, NEW k \in Connection, ServerReads(k)
  PROVE  IInv'
<1>1. PICK t : t = ResponderStep[session[k]]
  OBVIOUS
<1>2. /\ ServerTurn(k) /\ ServerUnderstands(k)
      /\ session' = [session EXCEPT ![k] = t.next]
      /\ down' = [down EXCEPT ![k] = @ \o t.sends]
      /\ IF t.next = "Authenticated"
           THEN /\ serving' = None
                /\ handler' = [handler EXCEPT ![k] = "receiving"]
           ELSE UNCHANGED <<serving, handler>>
      /\ UNCHANGED <<clientVars, incoming, closed, cuts>>
  BY <1>1 DEF ServerReads
<1>3. /\ session[k] \in Running /\ ServerTold[session[k]] \in Nat
      /\ down[k] \in Seq(Message) /\ SessionInv(k) /\ TypeOK
      /\ ServerAt(k) = session[k]
  BY <1>2, ServerTurnFacts DEF IInv, ServerAt
<1>4. /\ t.next \in Running \cup {"Authenticated"}
      /\ t.next = "Authenticated" <=> session[k] = "AwaitingStatus"
      /\ t.next = "AwaitingStatus" <=> session[k] = "AwaitingConfirmation"
      /\ t.next = "AwaitingConfirmation" <=> session[k] = "AwaitingHandshake"
      /\ Taken[t.next] = Taken[session[k]] + 1
      /\ t.sends \in Seq(Message)
      /\ From(t.sends, ServerSays, ServerTold[session[k]])
      /\ ServerTold[t.next] = ServerTold[session[k]] + Len(t.sends)
  BY <1>1, <1>3, ResponderFacts
<1>5. PICK s \in MachineState \ {"Idle"} : s = t.next
  BY <1>4, RunningFacts DEF MachineState
<1>6. PICK sent \in Seq(Message) : sent = t.sends
  BY <1>4
<1>7. s \in Running \cup {"Authenticated"} /\ s # "Computing" /\ s # "Poisoned"
  BY <1>4, <1>5, RunningFacts
<1>8. ServerTurnTo(k, s, sent)
  <2>1. down[k] \o sent \in Seq(Message)
    BY <1>3, ConcatProperties
  <2>2. down' \in [Connection -> Seq(Message)] /\ down'[k] = down[k] \o sent
        /\ \A l \in Connection \ {k} : down'[l] = down[l]
    BY <1>2, <1>3, <1>6, <2>1 DEF TypeOK
  <2>3. closed' \in SUBSET Connection
    BY <1>2, <1>3 DEF TypeOK
  <2>. QED
    BY <1>2, <1>5, <1>7, <2>2, <2>3 DEF ServerTurnTo
<1>9. ServerSaysNext(k, s, sent)
  <2>1. ServerTold[session[k]] + Len(sent) <= ServerTold[s]
        /\ ServerTold[session[k]] + Len(sent) = ServerTold[s]
    <3>1. Len(sent) \in Nat
      BY LenProperties
    <3>. QED
      BY <1>3, <1>4, <1>5, <1>6, <3>1
  <2>2. s \in {"AwaitingConfirmation", "AwaitingStatus", "Authenticated"} => k[1] \in GoodToken
    BY <1>2, <1>3, <1>4, <1>5 DEF ServerUnderstands, AcceptsToken, SessionInv
  <2>3. s \in {"AwaitingStatus", "Authenticated"} => k[1] \in SamePsk
    BY <1>2, <1>3, <1>4, <1>5 DEF ServerUnderstands, Verifies, SessionInv
  <2>. QED
    BY <1>4, <1>5, <1>6, <1>7, <2>1, <2>2, <2>3 DEF ServerSaysNext
<1>. QED
  BY <1>8, <1>9, ServerTurnInv

LEMMA ServerCutOffInv ==
  ASSUME IInv, NEW k \in Connection, ServerCutOff(k)
  PROVE  IInv'
<1>1. PICK t : t = ResponderStep[session[k]]
  OBVIOUS
<1>2. /\ ServerTurn(k) /\ ServerUnderstands(k)
      /\ \E sent \in Prefixes(t.sends) \ {t.sends} : down' = [down EXCEPT ![k] = @ \o sent]
      /\ session' = [session EXCEPT ![k] = t.next]
      /\ serving' = None /\ closed' = closed \cup {k}
      /\ UNCHANGED <<clientVars, incoming, handler, cuts>>
  BY <1>1 DEF ServerCutOff, Refuse
<1>3. /\ session[k] \in Running /\ ServerTold[session[k]] \in Nat
      /\ down[k] \in Seq(Message) /\ SessionInv(k) /\ TypeOK
      /\ ServerAt(k) = session[k]
  BY <1>2, ServerTurnFacts DEF IInv, ServerAt
<1>4. /\ t.next \in Running \cup {"Authenticated"}
      /\ t.next = "Authenticated" <=> session[k] = "AwaitingStatus"
      /\ t.next = "AwaitingStatus" <=> session[k] = "AwaitingConfirmation"
      /\ t.next = "AwaitingConfirmation" <=> session[k] = "AwaitingHandshake"
      /\ Taken[t.next] = Taken[session[k]] + 1
      /\ t.sends \in Seq(Message)
      /\ From(t.sends, ServerSays, ServerTold[session[k]])
      /\ ServerTold[t.next] = ServerTold[session[k]] + Len(t.sends)
  BY <1>1, <1>3, ResponderFacts
<1>5. PICK s \in MachineState \ {"Idle"} : s = t.next
  BY <1>4, RunningFacts DEF MachineState
<1>6. PICK all \in Seq(Message) : all = t.sends
  BY <1>4
<1>7. PICK sent \in Prefixes(all) \ {all} : down' = [down EXCEPT ![k] = @ \o sent]
  BY <1>2, <1>6
<1>8. sent \in Seq(Message) /\ Len(sent) <= Len(all) /\ From(sent, ServerSays, ServerTold[session[k]])
  BY <1>3, <1>4, <1>6, <1>7, FromPrefix
<1>9. Len(sent) \in Nat /\ Len(all) \in Nat /\ ServerTold[s] = ServerTold[session[k]] + Len(all)
  BY <1>4, <1>5, <1>6, <1>8, LenProperties
(* The last step of the handshake has no answer to be cut off in. *)
<1>10. s # "Authenticated"
  <2> SUFFICES ASSUME s = "Authenticated" PROVE FALSE
    OBVIOUS
  <2>1. session[k] = "AwaitingStatus"
    BY <1>4, <1>5
  <2>2. Len(all) = 0
    BY <1>9, <2>1, PositionFacts
  <2>3. all = <<>> /\ sent = <<>>
    BY <1>8, <1>9, <2>2
  <2>. QED
    BY <1>7, <2>3
<1>11. s \in Running /\ s # "Computing" /\ s # "Poisoned"
  BY <1>4, <1>5, <1>10, RunningFacts
<1>12. ServerTurnTo(k, s, sent)
  <2>1. down[k] \o sent \in Seq(Message)
    BY <1>3, <1>8, ConcatProperties
  <2>2. down' \in [Connection -> Seq(Message)] /\ down'[k] = down[k] \o sent
        /\ \A l \in Connection \ {k} : down'[l] = down[l]
    BY <1>3, <1>7, <2>1 DEF TypeOK
  <2>3. closed' \in SUBSET Connection
    BY <1>2, <1>3 DEF TypeOK
  <2>. QED
    BY <1>2, <1>5, <1>10, <2>2, <2>3 DEF ServerTurnTo
<1>13. ServerSaysNext(k, s, sent)
  <2>1. ServerTold[session[k]] + Len(sent) <= ServerTold[s]
    BY <1>3, <1>8, <1>9
  <2>2. s \in {"AwaitingConfirmation", "AwaitingStatus"} => k[1] \in GoodToken
    BY <1>2, <1>3, <1>4, <1>5 DEF ServerUnderstands, AcceptsToken, SessionInv
  <2>3. s = "AwaitingStatus" => k[1] \in SamePsk
    BY <1>2, <1>3, <1>4, <1>5 DEF ServerUnderstands, Verifies, SessionInv
  <2>4. serving' # k
    BY <1>2, ConnectionFacts
  <2>. QED
    BY <1>4, <1>5, <1>8, <1>10, <1>11, <2>1, <2>2, <2>3, <2>4 DEF ServerSaysNext
<1>. QED
  BY <1>8, <1>12, <1>13, ServerTurnInv

(* On the connection of the handshake the message is the expected one:     *)
(* what the server refuses is a token or a confirmation.                   *)
LEMMA ServerRejectsInv ==
  ASSUME IInv, NEW k \in Connection, ServerRejects(k)
  PROVE  IInv'
<1>1. /\ ServerTurn(k) /\ ~ServerUnderstands(k)
      /\ serving' = None /\ closed' = closed \cup {k}
      /\ UNCHANGED <<clientVars, incoming, handler, down, cuts>>
  BY DEF ServerRejects, Refuse
<1>2. /\ session[k] \in Running /\ ServerTold[session[k]] \in Nat
      /\ down[k] \in Seq(Message) /\ SessionInv(k) /\ TypeOK /\ k[1] \in Client
      /\ ServerAt(k) = session[k]
      /\ HeldBy(k) => Head(up[k]) = ResponderStep[session[k]].on
  BY <1>1, ServerTurnFacts DEF IInv, ServerAt
<1>3. PICK s \in {"Computing", "Poisoned"} :
        s = IF Head(up[k]) = ResponderStep[session[k]].on /\ session[k] = "AwaitingConfirmation"
              THEN "Computing" ELSE "Poisoned"
  OBVIOUS
<1>4. session' = [session EXCEPT ![k] = s] /\ s \in MachineState \ {"Idle"} /\ s \notin Running
  BY <1>2, <1>3, RunningFacts DEF ServerRejects, Derailed, MachineState, TypeOK
<1>5. <<>> \in Seq(Message) /\ Len(<<>>) = 0 /\ From(<<>>, ServerSays, ServerTold[session[k]])
  BY <1>2, Tuples
<1>6. ServerTurnTo(k, s, <<>>)
  <2>1. down[k] \o <<>> = down[k]
    BY <1>2
  <2>2. down' \in [Connection -> Seq(Message)] /\ closed' \in SUBSET Connection
    BY <1>1, <1>2 DEF TypeOK
  <2>. QED
    BY <1>1, <1>3, <1>4, <2>1, <2>2 DEF ServerTurnTo
<1>7. ServerSaysNext(k, s, <<>>)
  <2>1. ASSUME s = "Computing"
        PROVE  /\ k[1] \in GoodToken /\ k[1] \notin SamePsk
               /\ ServerTold[session[k]] + Len(<<>>) <= ServerTold[s]
    <3>1. session[k] = "AwaitingConfirmation" /\ Head(up[k]) = ResponderStep[session[k]].on
      BY <1>3, <2>1
    <3>2. k[1] \in GoodToken /\ k[1] \notin SamePsk
      BY <1>1, <1>2, <3>1 DEF ServerUnderstands, Verifies, AcceptsToken, SessionInv
    <3>. QED
      BY <1>5, <2>1, <3>1, <3>2, PositionFacts
  <2>2. ASSUME s = "Poisoned", HeldBy(k)
        PROVE  k[1] \notin GoodToken /\ ServerTold[session[k]] + Len(<<>>) <= ServerTold[s]
    <3>1. session[k] # "AwaitingConfirmation" /\ Head(up[k]) = ResponderStep[session[k]].on
      BY <1>2, <1>3, <2>2
    <3>2. session[k] = "AwaitingHandshake" /\ k[1] \notin GoodToken
      BY <1>1, <3>1 DEF ServerUnderstands, Verifies, AcceptsToken
    <3>. QED
      BY <1>5, <2>2, <3>2, PositionFacts
  <2>3. serving' # k
    BY <1>1, ConnectionFacts
  <2>. QED
    BY <1>3, <1>4, <1>5, <2>1, <2>2, <2>3 DEF ServerSaysNext
<1>. QED
  BY <1>4, <1>5, <1>6, <1>7, ServerTurnInv

(* A stream breaks off: what the server has said and taken by then stays.  *)
LEMMA ServerReadsCutInv ==
  ASSUME IInv, NEW k \in Connection, ServerReadsCut(k)
  PROVE  IInv'
<1>1. /\ serving = k /\ session[k] # "Idle" /\ TypeOK /\ SessionInv(k)
      /\ k # None /\ k[1] \in Client /\ k[2] \in Nat
  BY ConnectionFacts DEF ServerReadsCut, IInv
<1>2. /\ session[k] \in Running /\ session[k] # "none" /\ session[k] # "Poisoned"
      /\ session[k] # "Authenticated" /\ handler[k] = "none" /\ serverCut[k] = "none"
  BY <1>1, RunningFacts DEF SessionInv, TypeOK
<1>3. /\ session'[k] = "Poisoned" /\ serving' = None
      /\ serverCut' = [serverCut EXCEPT ![k] = session[k]] /\ serverCut'[k] = session[k]
      /\ UNCHANGED <<clientVars, incoming, handler, up, down, clientCut>>
      /\ attempts' = attempts /\ \A l \in Connection \ {k} : session'[l] = session[l]
  BY <1>1 DEF ServerReadsCut, Refuse, TypeOK, clientVars
<1>4. TypeOK'
  BY <1>1, <1>2, <1>3 DEF ServerReadsCut, Refuse, TypeOK, clientVars, MachineState
<1>5. \A l \in Connection \ {k} : Still(l)
  BY <1>1, <1>3, ConnectionFacts DEF Still, TypeOK
<1>6. QueueInv'
  BY <1>1, <1>3, QueueStays
<1>7. ~Younger(k) /\ ~Younger(k)'
  <2>1. ~Younger(k)
    <3>1. CASE up[k] # <<>>
      BY <1>1, <3>1 DEF SessionInv, Unheard
    <3>2. CASE connection[k[1]] = k
      BY <1>1, <3>2 DEF Younger
    <3>. QED
      BY <3>1, <3>2 DEF ServerReadsCut
  <2>. QED
    BY <1>3, <2>1 DEF Younger, clientVars
<1>8. SessionInv(k)'
  <2>1. ServerAt(k) = session[k] /\ ServerAt(k)' = session[k]
    BY <1>2, <1>3 DEF ServerAt
  <2>2. ~(k[2] > attempts[k[1]])
    BY <1>1 DEF SessionInv
  <2>. QED
    BY <1>1, <1>2, <1>3, <1>7, <2>1, <2>2 DEF SessionInv
<1>9. ASSUME connection[k[1]] = k PROVE ClientInv(k[1])' /\ WireInv(k[1])'
  <2>1. PICK c \in Client : c = k[1]
    BY <1>1
  <2>2. ClientInv(c) /\ WireInv(c)
    BY DEF IInv
  <2>3. ClientInv(c)'
    BY <1>3, <1>9, <2>1, <2>2 DEF ClientInv, Silent, Succeeded, HasVerified, clientVars
  <2>4. UpInv(c, k)'
    BY <1>3, RunningFacts DEF UpInv
  <2>5. DownInv(c, k) => DownInv(c, k)'
    BY <1>1, <1>2, <1>3 DEF DownInv, From, TakenByClient, MostByServer, ServerAt, clientVars
  <2>6. WireInv(c)'
    BY <1>2, <1>3, <1>9, <2>1, <2>2, <2>4, <2>5 DEF WireInv, Held, clientVars
  <2>. QED
    BY <2>1, <2>3, <2>6
<1>. QED
  BY <1>3, <1>4, <1>5, <1>6, <1>8, <1>9, ServerStep

(* A handler's step on the connection it has been given. *)
LEMMA HandlerInv ==
  ASSUME IInv, NEW k \in Connection, handler[k] # "none",
         UNCHANGED <<clientVars, incoming, serving, session, cuts>>,
         NEW h \in {"keeping", "ended"}, handler' = [handler EXCEPT ![k] = h],
         up' \in [Connection -> Seq(Message)], down' \in [Connection -> Seq(Message)],
         \A l \in Connection \ {k} : up'[l] = up[l] /\ down'[l] = down[l],
         closed' \in SUBSET Connection,
         HeldBy(k) => UpInv(k[1], k)' /\ DownInv(k[1], k)'
  PROVE  IInv'
<1>1. SessionInv(k) /\ TypeOK /\ session[k] = "Authenticated"
  BY DEF IInv, SessionInv
<1>2. handler'[k] = h /\ \A l \in Connection \ {k} : Still(l)
  BY <1>1 DEF TypeOK, Still, cuts
<1>3. ~Silent(k) /\ ~Younger(k) /\ k[1] \in Client /\ serving # k
  BY <1>1, ConnectionFacts, RunningFacts DEF Unheard, Silent, SessionInv
<1>4. TypeOK'
  BY <1>1 DEF TypeOK, clientVars, cuts
<1>5. QueueInv'
  BY QueueStays DEF clientVars
<1>6. SessionInv(k)'
  <2>1. ~Younger(k)'
    BY <1>3 DEF Younger, clientVars
  <2>. QED
    BY <1>1, <1>2, <1>3, <2>1 DEF SessionInv, ServerAt, clientVars, cuts
<1>7. ASSUME connection[k[1]] = k PROVE ClientInv(k[1])' /\ WireInv(k[1])'
  <2>1. PICK c \in Client : c = k[1]
    BY <1>3
  <2>2. ClientInv(c)'
    BY <1>1, <1>3, <1>7, <2>1, HolderInv DEF cuts
  <2>3. Held(c)' => HeldBy(k)
    BY <1>7, <2>1 DEF Held, HeldBy, clientVars, cuts
  <2>4. connection'[c] = k
    BY <1>7, <2>1 DEF clientVars
  <2>5. WireInv(c)'
    <3>1. WireInv(c)
      BY DEF IInv
    <3>. QED
      BY <1>1, <1>7, <2>1, <2>3, <2>4, <3>1 DEF WireInv, HeldBy, ClientAt, clientVars, cuts
  <2>. QED
    BY <2>1, <2>2, <2>5
<1>. QED
  BY <1>2, <1>4, <1>5, <1>6, <1>7, ServerStep DEF cuts

LEMMA HandlerEndsInv ==
  ASSUME IInv, NEW k \in Connection, HandlerEnds(k)
  PROVE  IInv'
<1>1. /\ handler[k] \in {"receiving", "keeping"} /\ TypeOK
      /\ handler' = [handler EXCEPT ![k] = "ended"] /\ handler'[k] = "ended"
      /\ UNCHANGED <<clientVars, incoming, serving, session, up, down, closed, cuts>>
  BY DEF HandlerEnds, IInv, TypeOK
<1>2. session[k] = "Authenticated" /\ serving # k /\ k[1] \in Client
  BY <1>1, RunningFacts, ConnectionFacts DEF IInv, SessionInv
<1>3. ASSUME HeldBy(k) PROVE UpInv(k[1], k)' /\ DownInv(k[1], k)'
  <2>1. PICK c \in Client : c = k[1]
    BY <1>2
  <2>2. DownInv(c, k)
    BY <1>3, <2>1 DEF HeldBy, IInv, WireInv
  <2>3. UpInv(c, k)'
    BY <1>1 DEF UpInv
  <2>4. MostByServer(k)' = 5 /\ MostByServer(k) \in 0 .. 5
    <3>1. ServerAt(k) \in MachineState
      BY <1>1, RunningFacts DEF TypeOK, ServerAt, MachineState
    <3>. QED
      BY <1>1, <3>1, PositionFacts DEF MostByServer
  <2>5. TakenByClient(c)' = TakenByClient(c) /\ call'[c] = call[c]
    BY <1>1 DEF TakenByClient, clientVars
  <2>6. TakenByClient(c) + Len(down[k]) \in Nat
    <3>1. machine[c] \in MachineState /\ down[k] \in Seq(Message)
      BY <1>1 DEF TypeOK
    <3>2. TakenByClient(c) \in Nat
      BY <3>1, PositionFacts DEF TakenByClient
    <3>. QED
      BY <3>1, <3>2, LenProperties
  <2>7. TakenByClient(c) + Len(down[k]) <= MostByServer(k)
          => TakenByClient(c) + Len(down[k]) <= 5
    BY <2>4, <2>6
  <2>8. DownInv(c, k)'
    BY <1>1, <1>2, <2>2, <2>4, <2>5, <2>7 DEF DownInv, From
  <2>. QED
    BY <2>1, <2>3, <2>8
<1>. QED
  BY <1>1, <1>3, HandlerInv DEF TypeOK

(* The stream the handler of the connection of a handshake receives is the *)
(* request.                                                                *)
LEMMA HandlerReceivesInv ==
  ASSUME IInv, NEW k \in Connection, HandlerReceives(k)
  PROVE  IInv'
<1>1. /\ handler[k] = "receiving" /\ up[k] # <<>> /\ up' = [up EXCEPT ![k] = Tail(@)]
      /\ UNCHANGED <<clientVars, incoming, serving, session, cuts>> /\ TypeOK
  BY DEF HandlerReceives, IInv
<1>2. session[k] = "Authenticated" /\ serving # k /\ k[1] \in Client
  BY <1>1, RunningFacts, ConnectionFacts DEF IInv, SessionInv
<1>3. /\ up[k] \in Seq(Message) /\ down[k] \in Seq(Message)
      /\ Tail(up[k]) \in Seq(Message) /\ "response" \in Message
      /\ Append(down[k], "response") \in Seq(Message)
  <2>1. up[k] \in Seq(Message) /\ down[k] \in Seq(Message) /\ "response" \in Message
    BY <1>1 DEF TypeOK, Message
  <2>. QED
    BY <1>1, <2>1, AppendProperties
<1>4. /\ up' \in [Connection -> Seq(Message)] /\ up'[k] = Tail(up[k])
      /\ \A l \in Connection \ {k} : up'[l] = up[l]
  BY <1>1, <1>3 DEF TypeOK
<1>5. CASE Head(up[k]) = "request"
  <2>1. /\ down' = [down EXCEPT ![k] = Append(@, "response")]
        /\ handler' = [handler EXCEPT ![k] = "keeping"] /\ closed' = closed
    BY <1>5 DEF HandlerReceives
  <2>2. /\ down' \in [Connection -> Seq(Message)] /\ down'[k] = Append(down[k], "response")
        /\ \A l \in Connection \ {k} : down'[l] = down[l]
        /\ handler'[k] = "keeping" /\ closed' \in SUBSET Connection
    BY <1>1, <1>3, <2>1 DEF TypeOK
  <2>3. ASSUME HeldBy(k) PROVE UpInv(k[1], k)' /\ DownInv(k[1], k)'
    <3>1. PICK c \in Client : c = k[1]
      BY <1>2
    <3>2. UpInv(c, k) /\ DownInv(c, k)
      BY <2>3, <3>1 DEF HeldBy, IInv, WireInv
    <3>3. /\ MostByClient(k)' = MostByClient(k) /\ TakenByClient(c)' = TakenByClient(c)
          /\ call'[c] = call[c] /\ machine'[c] = machine[c]
      BY <1>1 DEF clientVars, MostByClient, ClientAt, cuts, TakenByClient
    <3>4. TakenByServer(k) = 4 /\ TakenByServer(k)' = 5 /\ MostByServer(k)' = 5
      BY <1>1, <1>2, <2>2, PositionFacts DEF TakenByServer, MostByServer
    <3>5. UpInv(c, k)'
      <4>1. From(up[k], ClientSays, 4) /\ 4 \in Nat
        BY <1>1, <1>2, <3>2, <3>4 DEF UpInv
      <4>2. From(Tail(up[k]), ClientSays, 4 + 1) /\ Len(Tail(up[k])) = Len(up[k]) - 1 /\ Len(up[k]) \in Nat
        BY <1>1, <1>3, <4>1, FromTail, LenProperties
      <4>3. From(up[k], ClientSays, TakenByServer(k))'
        BY <1>4, <3>4, <4>2 DEF From
      <4>4. TakenByServer(k)' + Len(up'[k]) = TakenByServer(k) + Len(up[k])
        BY <1>4, <3>4, <4>2
      <4>. QED
        BY <1>1, <1>2, <3>2, <3>3, <4>3, <4>4 DEF UpInv
    <3>6. DownInv(c, k)'
      <4> SUFFICES ASSUME call[c] \in {"driving", "ok", "awaiting", "done"}
                   PROVE  /\ From(down[k], ServerSays, TakenByClient(c))'
                          /\ (TakenByClient(c) + Len(down[k]) <= MostByServer(k))'
        BY <1>1, <1>2, <2>2, <3>3 DEF DownInv
      <4>1. From(down[k], ServerSays, TakenByClient(c)) /\ TakenByClient(c) + Len(down[k]) = 4
        BY <1>1, <1>2, <3>2, PositionFacts DEF DownInv
      <4>2. TakenByClient(c) \in Nat
        <5>1. machine[c] \in MachineState
          BY <1>1 DEF TypeOK
        <5>. QED
          BY <5>1, PositionFacts DEF TakenByClient
      <4>3. "response" = ServerSays[TakenByClient(c) + Len(down[k]) + 1]
        BY <4>1 DEF ServerSays
      <4>4. /\ Len(down'[k]) = Len(down[k]) + 1 /\ Len(down[k]) \in Nat
            /\ From(down'[k], ServerSays, TakenByClient(c))
        BY <1>3, <2>2, <4>1, <4>2, <4>3, FromAppend, LenProperties
      <4>5. From(down[k], ServerSays, TakenByClient(c))'
        BY <3>3, <4>4 DEF From
      <4>6. TakenByClient(c)' + Len(down'[k]) = 5
        BY <3>3, <4>1, <4>2, <4>4
      <4>. QED
        BY <3>4, <4>5, <4>6
    <3>. QED
      BY <3>1, <3>5, <3>6
  <2>. QED
    BY <1>1, <1>4, <2>1, <2>2, <2>3, HandlerInv
<1>6. CASE Head(up[k]) # "request"
  <2>1. /\ handler' = [handler EXCEPT ![k] = "ended"] /\ closed' = closed \cup {k} /\ down' = down
    BY <1>6 DEF HandlerReceives
  <2>2. down' \in [Connection -> Seq(Message)] /\ closed' \in SUBSET Connection
    BY <1>1, <2>1 DEF TypeOK
  <2>3. ~HeldBy(k)
    <3> SUFFICES ASSUME HeldBy(k) PROVE FALSE
      OBVIOUS
    <3>1. UpInv(k[1], k)
      BY <1>2 DEF HeldBy, IInv, WireInv
    <3>2. From(up[k], ClientSays, 4) /\ 4 \in Nat
      BY <1>1, <1>2, <3>1, PositionFacts DEF UpInv, TakenByServer
    <3>3. Head(up[k]) = ClientSays[4 + 1]
      BY <1>1, <1>3, <3>2, FromTail
    <3>. QED
      BY <1>6, <3>3 DEF ClientSays
  <2>. QED
    BY <1>1, <1>4, <2>1, <2>2, <2>3, HandlerInv
<1>. QED
  BY <1>5, <1>6

-----------------------------------------------------------------------------
LEMMA NextInv ==
  ASSUME IInv, [Next]_vars
  PROVE  IInv'
<1>1. CASE UNCHANGED vars
  BY <1>1, StutterInv
<1>2. ASSUME NEW c \in Client, ClientNext(c) PROVE IInv'
  BY <1>2, StartHandshakeInv, ReuseAuthenticatedInv, ReusePoisonsInv, ClientReadsInv,
     ClientRejectsInv, ClientReadsCutInv, ReturnAuthenticatedInv, SendRequestInv, ReceiveResponseInv,
     ExchangeFailsInv, ConnectInv, DialFailsInv, ClientCutOffInv, ClientGivesUpInv, ExitInv
  DEF ClientNext, ClientProgress
<1>3. CASE Accept
  BY <1>3, AcceptInv
<1>4. ASSUME NEW k \in Connection,
             \/ Greeting(k) \/ ServerProgress(k) \/ ServerCutOff(k) \/ ServerReadsCut(k)
             \/ ServerGivesUp(k) \/ HandlerNext(k)
      PROVE  IInv'
  BY <1>4, GreetInv, RefuseInv, ServerReadsInv, ServerRejectsInv, ServerCutOffInv,
     ServerReadsCutInv, HandlerReceivesInv, HandlerEndsInv
  DEF Greeting, ServerProgress, HandlerNext
<1>. QED
  BY <1>1, <1>2, <1>3, <1>4 DEF Next

(* The invariant holds in every reachable state: streams, machines and     *)
(* handlers of every connection stay in step, however many clients there   *)
(* are and however often they call connect().                              *)
THEOREM Invariance == Spec => []IInv
<1>1. Init => IInv
  BY InitInv
<1>2. IInv /\ [Next]_vars => IInv'
  BY NextInv
<1>. QED
  BY <1>1, <1>2, PTL DEF Spec

(* Every variable keeps to the states and messages of the drivers.         *)
THEOREM TypeCorrect == Spec => []TypeOK
<1>1. IInv => TypeOK
  BY DEF IInv
<1>. QED
  BY <1>1, Invariance, PTL

-----------------------------------------------------------------------------
(* What the invariant says of the drivers *)

(* A client that has returned Ok from its first connect(). *)
LEMMA FirstConnect ==
  ASSUME IInv, NEW c \in Client, attempts[c] = 1, Succeeded(c)
  PROVE  /\ HasVerified(ServerAt(connection[c])) /\ c \in Configured
         /\ \A i \in DOMAIN down[connection[c]] : down[connection[c]][i] = "response"
<1>1. machine[c] = "Authenticated" /\ Held(c) /\ TypeOK
  BY DEF IInv, ClientInv, Held
<1>2. PICK k \in Connection : k = connection[c]
  BY <1>1, HeldFacts
<1>3. DownInv(c, k) /\ SessionInv(k) /\ k[1] = c
  BY <1>1, <1>2, HeldFacts DEF IInv, WireInv
<1>4. /\ ServerAt(k) \in MachineState /\ handler[k] \in {"none", "receiving", "keeping", "ended"}
      /\ down[k] \in Seq(Message) /\ Len(down[k]) \in Nat /\ DOMAIN down[k] = 1 .. Len(down[k])
  <2>1. down[k] \in Seq(Message)
    BY <1>1 DEF TypeOK
  <2>. QED
    BY <1>1, <2>1, LenProperties, RunningFacts DEF TypeOK, ServerAt, MachineState
<1>5. TakenByClient(c) \in {4, 5}
  BY <1>1, PositionFacts DEF TakenByClient
<1>6. From(down[k], ServerSays, TakenByClient(c)) /\ TakenByClient(c) + Len(down[k]) <= MostByServer(k)
  BY <1>3 DEF DownInv, Succeeded
<1>7. MostByServer(k) \in 0 .. 5
  BY <1>4, PositionFacts DEF MostByServer
<1>8. MostByServer(k) >= 4
  BY <1>4, <1>5, <1>6, <1>7
<1>9. ServerAt(k) \in {"AwaitingStatus", "Authenticated"}
  <2>1. CASE handler[k] \in {"keeping", "ended"}
    BY <1>3, <2>1 DEF SessionInv, ServerAt
  <2>2. CASE handler[k] \notin {"keeping", "ended"}
    BY <1>4, <1>8, <2>2 DEF MostByServer, ServerTold, MachineState
  <2>. QED
    BY <2>1, <2>2
<1>10. c \in Configured
  BY <1>3, <1>9 DEF SessionInv, Configured
<1>11. ASSUME NEW i \in 1 .. Len(down[k]) PROVE down[k][i] = "response"
  <2>1. TakenByClient(c) + i = 5
    BY <1>4, <1>5, <1>6, <1>7
  <2>. QED
    BY <1>6, <2>1 DEF From, ServerSays
<1>. QED
  BY <1>2, <1>4, <1>9, <1>10, <1>11 DEF HasVerified

(* A connection that has been heard of, when clients connect only once. *)
LEMMA OnlyConnection ==
  ASSUME IInv, MaxConnect = 1, NEW k \in Connection, ~Unheard(k)
  PROVE  /\ k[1] \in Client /\ attempts[k[1]] = 1 /\ k = <<k[1], 1>>
         /\ connection[k[1]] = k /\ Held(k[1])
<1>1. /\ k[1] \in Client /\ k[2] = 1 /\ k = <<k[1], 1>>
      /\ \A l \in Connection : l[2] = 1
  BY ConnectionFacts
<1>2. PICK c \in Client : c = k[1]
  BY <1>1
<1>3. TypeOK /\ ClientInv(c) /\ SessionInv(k)
  BY DEF IInv
<1>4. connection[c] \in Connection \cup {None} /\ ~Younger(k)
  BY <1>3 DEF TypeOK, SessionInv
<1>5. connection[c] \in Connection /\ connection[c][1] = c
  BY <1>2, <1>3, <1>4 DEF Younger, ClientInv
<1>6. connection[c] = k
  BY <1>1, <1>2, <1>5, ConnectionFacts
<1>7. machine[c] # "Idle" /\ machine[c] \in MachineState
  BY <1>3, <1>6, ConnectionFacts DEF ClientInv, TypeOK
<1>8. attempts[c] = 1
  <2>1. attempts[c] \in 0 .. 1
    BY <1>3 DEF TypeOK
  <2>2. attempts[c] > 0
    BY <1>7, HeldFacts
  <2>. QED
    BY <2>1, <2>2
<1>9. Held(c)
  <2>1. machine[c] = "Poisoned" => clientCut[connection[c]] # "none"
    BY <1>3, <1>8 DEF ClientInv
  <2>. QED
    BY <1>7, <1>8, <2>1, RunningFacts DEF Held, MachineState
<1>. QED
  BY <1>1, <1>2, <1>6, <1>8, <1>9

LEMMA AttemptsOnce ==
  ASSUME IInv, MaxConnect = 1, NEW c \in Client, call[c] # "none"
  PROVE  attempts[c] = 1
<1>1. attempts[c] \in 0 .. 1 /\ ClientInv(c)
  BY DEF IInv, TypeOK
<1>. QED
  BY <1>1 DEF ClientInv

(* Safety: the server hands a connection to the application only when the  *)
(* client at its other end has the PSK and the token and has verified the  *)
(* server, for any number of clients and of calls of connect().            *)
THEOREM AcceptedAuthenticated == Spec => []AcceptedIsAuthenticated
<1>1. ASSUME IInv PROVE AcceptedIsAuthenticated
  <2> SUFFICES ASSUME NEW k \in Connection, handler[k] # "none"
               PROVE  /\ k[1] \in Configured
                      /\ connection[k[1]] = k => HasVerified(ClientAt(k))
    BY DEF AcceptedIsAuthenticated
  <2>1. k[1] \in Configured /\ session[k] = "Authenticated" /\ k[1] \in Client /\ k # None
    <3>1. SessionInv(k) /\ k[1] \in Client /\ k # None
      BY <1>1, ConnectionFacts DEF IInv
    <3>2. session[k] = "Authenticated" /\ ServerAt(k) = session[k]
      BY <3>1 DEF SessionInv, ServerAt
    <3>. QED
      BY <3>1, <3>2 DEF SessionInv, Configured
  <2>2. ASSUME connection[k[1]] = k PROVE HasVerified(ClientAt(k))
    <3>1. PICK c \in Client : c = k[1]
      BY <2>1
    <3>2. ClientInv(c) /\ WireInv(c) /\ machine[c] \in MachineState
      BY <1>1 DEF IInv, TypeOK
    <3>3. machine[c] # "Idle" /\ (machine[c] = "Poisoned" => clientCut[k] # "none")
      BY <2>1, <2>2, <3>1, <3>2 DEF ClientInv, Silent
    <3>4. Held(c) \/ (machine[c] = "Authenticated" /\ ClientAt(k) = machine[c])
      BY <1>1, <2>2, <3>1, <3>2, <3>3, RunningFacts, ClientAtFacts DEF Held, MachineState
    <3>. QED
      BY <2>1, <2>2, <3>1, <3>2, <3>4 DEF WireInv, HasVerified
  <2>. QED
    BY <2>1, <2>2
<1>. QED
  BY <1>1, Invariance, PTL

(* Safety: where clients connect once, an Ok from connect() means that the *)
(* client is configured right and the server has verified it.              *)
THEOREM ConnectAuthenticates == MaxConnect = 1 => (Spec => []ConnectMeansAuthenticated)
<1> SUFFICES ASSUME MaxConnect = 1 PROVE Spec => []ConnectMeansAuthenticated
  OBVIOUS
<1>1. ASSUME IInv PROVE ConnectMeansAuthenticated
  BY <1>1, FirstConnect, AttemptsOnce DEF ConnectMeansAuthenticated, Succeeded
<1>. QED
  BY <1>1, Invariance, PTL

(* ... and however often they connect, it means so on the first call.      *)
FirstConnectAuthenticates ==
  \A c \in Client :
    attempts[c] = 1 /\ Succeeded(c) => c \in Configured /\ HasVerified(ServerAt(connection[c]))

THEOREM FirstConnectAuthenticated == Spec => []FirstConnectAuthenticates
<1>1. ASSUME IInv PROVE FirstConnectAuthenticates
  BY <1>1, FirstConnect DEF FirstConnectAuthenticates
<1>. QED
  BY <1>1, Invariance, PTL

(* Safety: neither application meets a handshake message and the handshake *)
(* consumes no application message, where clients connect once.            *)
THEOREM StreamsKeptApart == MaxConnect = 1 => (Spec => []StreamsSeparated)
<1> SUFFICES ASSUME MaxConnect = 1 PROVE Spec => []StreamsSeparated
  OBVIOUS
<1>1. ASSUME IInv PROVE StreamsSeparated
  <2>1. ASSUME NEW k \in Connection, handler[k] = "receiving", NEW i \in DOMAIN up[k]
        PROVE  up[k][i] = "request"
    <3>1. session[k] = "Authenticated" /\ ~Unheard(k) /\ up[k] \in Seq(Message) /\ TypeOK
      BY <1>1, <2>1 DEF IInv, SessionInv, Unheard, TypeOK
    <3>2. PICK c \in Client : c = k[1] /\ connection[c] = k /\ Held(c)
      BY <1>1, <3>1, OnlyConnection
    <3>3. UpInv(c, k)
      BY <1>1, <3>2 DEF IInv, WireInv
    <3>4. From(up[k], ClientSays, 4) /\ 4 + Len(up[k]) <= MostByClient(k)
      BY <2>1, <3>1, <3>3, PositionFacts DEF UpInv, TakenByServer
    <3>5. MostByClient(k) \in 0 .. 5
      BY <1>1, ClientAtFacts
    <3>6. Len(up[k]) \in Nat /\ i \in 1 .. Len(up[k])
      BY <2>1, <3>1, LenProperties
    <3>7. i = 1
      BY <3>4, <3>5, <3>6
    <3>. QED
      BY <3>4, <3>6, <3>7 DEF From, ClientSays
  <2>2. ASSUME NEW c \in Client, Succeeded(c)
        PROVE  \A i \in DOMAIN down[connection[c]] : down[connection[c]][i] = "response"
    BY <1>1, <2>2, FirstConnect, AttemptsOnce DEF Succeeded
  <2>. QED
    BY <2>1, <2>2 DEF StreamsSeparated
<1>. QED
  BY <1>1, Invariance, PTL

(* No deadlock: while both drivers run the handshake of a connection, a    *)
(* message is on its way to one of them, however often clients connect.    *)
THEOREM NeverStalls == Spec => []HandshakeNeverStalls
<1>1. ASSUME IInv PROVE HandshakeNeverStalls
  <2> SUFFICES ASSUME NEW c \in Client, call[c] = "driving", machine[c] \in Running,
                      serving = connection[c],
                      up[connection[c]] = <<>>, down[connection[c]] = <<>>
               PROVE  FALSE
    BY DEF HandshakeNeverStalls
  <2>1. PICK k \in Connection : k = connection[c]
    BY <1>1, HeldFacts, RunningFacts
  <2>2. UpInv(c, k) /\ DownInv(c, k)
    BY <1>1, <2>1 DEF IInv, WireInv, Held
  <2>3. session[k] \in Running \cup {"Idle"} /\ handler[k] = "none"
    BY <1>1, <2>1, RunningFacts DEF IInv, SessionInv
  <2>4. Taken[session[k]] + 0 = ClientTold[machine[c]]
    BY <2>1, <2>2, <2>3 DEF UpInv, TakenByServer
  <2>5. Taken[machine[c]] + 0 = ServerTold[session[k]]
    BY <2>1, <2>2 DEF DownInv, TakenByClient
  <2>. QED
    BY <2>3, <2>4, <2>5, RunningFacts, PositionFacts
<1>. QED
  BY <1>1, Invariance, PTL

(* Safety: where clients connect once, neither order nor timing of the     *)
(* drivers' turns makes both wait or sends a right configuration astray.   *)
THEOREM HandshakeCorrect == MaxConnect = 1 => (Spec => []HandshakeProceeds)
<1> SUFFICES ASSUME MaxConnect = 1 PROVE Spec => []HandshakeProceeds
  OBVIOUS
<1>1. ASSUME IInv PROVE ConfiguredNeverDerails
  <2> SUFFICES ASSUME NEW c \in Configured
               PROVE  /\ machine[c] \in {"Poisoned", "Computing"} => clientCut[<<c, 1>>] # "none"
                      /\ session[<<c, 1>>] \in {"Poisoned", "Computing"}
                           => serverCut[<<c, 1>>] # "none"
    BY DEF ConfiguredNeverDerails
  <2>1. c \in Client /\ c \in SamePsk /\ c \in GoodToken
    BY SamePskAssumption DEF Configured
  <2>2. PICK k \in Connection : k = <<c, 1>> /\ k[1] = c
    <3>1. 1 \in 1 .. MaxConnect
      OBVIOUS
    <3>2. <<c, 1>> \in Connection /\ <<c, 1>>[1] = c
      BY <2>1, <3>1, ConnectionFacts
    <3>. QED
      BY <3>2
  <2>3. attempts[c] \in 0 .. 1 /\ ClientInv(c) /\ WireInv(c) /\ SessionInv(k)
    BY <1>1, <2>1 DEF IInv, TypeOK
  <2>4. machine[c] # "Computing" /\ session[k] # "Computing"
    BY <2>1, <2>2, <2>3 DEF ClientInv, SessionInv
  <2>5. ASSUME machine[c] = "Poisoned" PROVE clientCut[k] # "none"
    <3>1. connection[c] \in Connection /\ connection[c][1] = c
      BY <1>1, <2>1, <2>5, HeldFacts
    <3>2. connection[c] = k
      BY <2>2, <3>1, ConnectionFacts
    <3>. QED
      BY <2>3, <2>5, <3>2 DEF ClientInv
  <2>6. ASSUME session[k] = "Poisoned" PROVE serverCut[k] # "none"
    <3>1. ~Unheard(k)
      BY <2>6 DEF Unheard
    <3>2. connection[c] = k /\ Held(c)
      BY <1>1, <2>2, <3>1, OnlyConnection
    <3>. QED
      BY <2>1, <2>3, <2>6, <3>2 DEF WireInv
  <2>. QED
    BY <2>2, <2>4, <2>5, <2>6
<1>. QED
  BY <1>1, Invariance, NeverStalls, PTL DEF HandshakeProceeds

-----------------------------------------------------------------------------
(* The refinement of MutualAuthentication, where clients connect once *)

ClientVerdict(c) == Attempts(c).client
ServerVerdict(c) == Attempts(c).server

ClientVerified(c) == HasVerified(ClientAt(<<c, 1>>))
ServerVerified(c) == HasVerified(ServerAt(<<c, 1>>))

(* Nothing that the mapping looks at has changed at the client's end ... *)
ClientEndStays(c) ==
  ClientVerdict(c)' = ClientVerdict(c) /\ (ClientVerified(c)' <=> ClientVerified(c))

(* ... or at the server's. *)
ServerEndStays(c) ==
  ServerVerdict(c)' = ServerVerdict(c) /\ (ServerVerified(c)' <=> ServerVerified(c))

(* An end moves as MutualAuthentication allows: it verifies, it authenticates *)
(* when both have verified, or it fails.                                      *)
Moves(c, verdict, next, was, is, other) ==
  /\ verdict = "pending"
  /\ \/ next = "pending" /\ is /\ c \in Configured
     \/ next = "authenticated" /\ was /\ other /\ is
     \/ next = "failed" /\ (is <=> was)
     \/ next = "failed" /\ is /\ c \in Configured

ClientEndMoves(c) ==
  Moves(c, ClientVerdict(c), ClientVerdict(c)', ClientVerified(c), ClientVerified(c)', ServerVerified(c))

ServerEndMoves(c) ==
  Moves(c, ServerVerdict(c), ServerVerdict(c)', ServerVerified(c), ServerVerified(c)', ClientVerified(c))

AbstractStep(c) == Authentication(c)!Next \/ UNCHANGED Authentication(c)!vars

(* A move of one end while the other stays is an abstract step. *)
LEMMA EndsMap ==
  ASSUME NEW c \in Client,
         \/ ClientEndStays(c) /\ ServerEndStays(c)
         \/ ClientEndMoves(c) /\ ServerEndStays(c)
         \/ ServerEndMoves(c) /\ ClientEndStays(c)
  PROVE  AbstractStep(c)
<1>1. /\ Attempts(c) = [client |-> ClientVerdict(c), server |-> ServerVerdict(c)]
      /\ Attempts(c)' = [client |-> ClientVerdict(c)', server |-> ServerVerdict(c)']
  BY DEF Attempts, ClientVerdict, ServerVerdict
<1>2. /\ VerifiedEnds(c) = {p \in {"client", "server"} :
                              IF p = "client" THEN ClientVerified(c) ELSE ServerVerified(c)}
      /\ VerifiedEnds(c)' = {p \in {"client", "server"} :
                              IF p = "client" THEN ClientVerified(c)' ELSE ServerVerified(c)'}
  BY DEF VerifiedEnds, ClientVerified, ServerVerified, HasVerified
<1>3. CASE ClientEndStays(c) /\ ServerEndStays(c)
  <2>1. Attempts(c)' = Attempts(c) /\ VerifiedEnds(c)' = VerifiedEnds(c)
    BY <1>1, <1>2, <1>3 DEF ClientEndStays, ServerEndStays
  <2>. QED
    BY <2>1 DEF AbstractStep, Authentication!vars
<1>4. CASE ClientEndMoves(c) /\ ServerEndStays(c)
  <2>1. /\ ClientVerdict(c) = "pending" /\ ServerVerdict(c)' = ServerVerdict(c)
        /\ (ServerVerified(c)' <=> ServerVerified(c)) /\ Attempts(c)["client"] = "pending"
        /\ \/ ClientVerdict(c)' = "pending" /\ ClientVerified(c)' /\ c \in Configured
           \/ ClientVerdict(c)' = "authenticated" /\ ClientVerified(c) /\ ServerVerified(c) /\ ClientVerified(c)'
           \/ ClientVerdict(c)' = "failed" /\ (ClientVerified(c)' <=> ClientVerified(c))
           \/ ClientVerdict(c)' = "failed" /\ ClientVerified(c)' /\ c \in Configured
    BY <1>1, <1>4 DEF ClientEndMoves, ServerEndStays, Moves
  <2>2. ClientVerified(c)' => VerifiedEnds(c)' = VerifiedEnds(c) \cup {"client"}
    BY <1>2, <2>1
  <2>3. (ClientVerified(c)' <=> ClientVerified(c)) => VerifiedEnds(c)' = VerifiedEnds(c)
    BY <1>2, <2>1
  <2>4. \A r : ClientVerdict(c)' = r => Attempts(c)' = [Attempts(c) EXCEPT !["client"] = r]
    BY <1>1, <2>1
  <2>5. CASE ClientVerdict(c)' = "pending" /\ ClientVerified(c)' /\ c \in Configured
    <3>1. Attempts(c)' = Attempts(c)
      BY <1>1, <2>1, <2>5
    <3>2. Authentication(c)!Verify("client")
      BY <2>1, <2>2, <2>5, <3>1 DEF Authentication!Verify
    <3>. QED
      BY <3>2 DEF AbstractStep, Authentication!Next
  <2>6. CASE ClientVerdict(c)' = "authenticated" /\ ClientVerified(c) /\ ServerVerified(c) /\ ClientVerified(c)'
    <3>1. VerifiedEnds(c) = {"client", "server"} /\ VerifiedEnds(c)' = VerifiedEnds(c)
      BY <1>2, <2>3, <2>6
    <3>2. Authentication(c)!Authenticate("client")
      BY <2>1, <2>4, <2>6, <3>1 DEF Authentication!Authenticate
    <3>. QED
      BY <3>2 DEF AbstractStep, Authentication!Next
  <2>7. CASE ClientVerdict(c)' = "failed" /\ (ClientVerified(c)' <=> ClientVerified(c))
    <3>1. Authentication(c)!Fail("client")
      BY <2>1, <2>3, <2>4, <2>7 DEF Authentication!Fail
    <3>. QED
      BY <3>1 DEF AbstractStep, Authentication!Next
  <2>8. CASE ClientVerdict(c)' = "failed" /\ ClientVerified(c)' /\ c \in Configured
    <3>1. Authentication(c)!Fail("client")
      BY <2>1, <2>2, <2>4, <2>8 DEF Authentication!Fail
    <3>. QED
      BY <3>1 DEF AbstractStep, Authentication!Next
  <2>. QED
    BY <2>1, <2>5, <2>6, <2>7, <2>8
<1>5. CASE ServerEndMoves(c) /\ ClientEndStays(c)
  <2>1. /\ ServerVerdict(c) = "pending" /\ ClientVerdict(c)' = ClientVerdict(c)
        /\ (ClientVerified(c)' <=> ClientVerified(c)) /\ Attempts(c)["server"] = "pending"
        /\ \/ ServerVerdict(c)' = "pending" /\ ServerVerified(c)' /\ c \in Configured
           \/ ServerVerdict(c)' = "authenticated" /\ ServerVerified(c) /\ ClientVerified(c) /\ ServerVerified(c)'
           \/ ServerVerdict(c)' = "failed" /\ (ServerVerified(c)' <=> ServerVerified(c))
           \/ ServerVerdict(c)' = "failed" /\ ServerVerified(c)' /\ c \in Configured
    BY <1>1, <1>5 DEF ServerEndMoves, ClientEndStays, Moves
  <2>2. ServerVerified(c)' => VerifiedEnds(c)' = VerifiedEnds(c) \cup {"server"}
    BY <1>2, <2>1
  <2>3. (ServerVerified(c)' <=> ServerVerified(c)) => VerifiedEnds(c)' = VerifiedEnds(c)
    BY <1>2, <2>1
  <2>4. \A r : ServerVerdict(c)' = r => Attempts(c)' = [Attempts(c) EXCEPT !["server"] = r]
    BY <1>1, <2>1
  <2>5. CASE ServerVerdict(c)' = "pending" /\ ServerVerified(c)' /\ c \in Configured
    <3>1. Attempts(c)' = Attempts(c)
      BY <1>1, <2>1, <2>5
    <3>2. Authentication(c)!Verify("server")
      BY <2>1, <2>2, <2>5, <3>1 DEF Authentication!Verify
    <3>. QED
      BY <3>2 DEF AbstractStep, Authentication!Next
  <2>6. CASE ServerVerdict(c)' = "authenticated" /\ ServerVerified(c) /\ ClientVerified(c) /\ ServerVerified(c)'
    <3>1. VerifiedEnds(c) = {"client", "server"} /\ VerifiedEnds(c)' = VerifiedEnds(c)
      BY <1>2, <2>3, <2>6
    <3>2. Authentication(c)!Authenticate("server")
      BY <2>1, <2>4, <2>6, <3>1 DEF Authentication!Authenticate
    <3>. QED
      BY <3>2 DEF AbstractStep, Authentication!Next
  <2>7. CASE ServerVerdict(c)' = "failed" /\ (ServerVerified(c)' <=> ServerVerified(c))
    <3>1. Authentication(c)!Fail("server")
      BY <2>1, <2>3, <2>4, <2>7 DEF Authentication!Fail
    <3>. QED
      BY <3>1 DEF AbstractStep, Authentication!Next
  <2>8. CASE ServerVerdict(c)' = "failed" /\ ServerVerified(c)' /\ c \in Configured
    <3>1. Authentication(c)!Fail("server")
      BY <2>1, <2>2, <2>4, <2>8 DEF Authentication!Fail
    <3>. QED
      BY <3>1 DEF AbstractStep, Authentication!Next
  <2>. QED
    BY <2>1, <2>5, <2>6, <2>7, <2>8
<1>. QED
  BY <1>3, <1>4, <1>5

(* The client's machine does not move and a failed call does not recover. *)
LEMMA CallMaps ==
  ASSUME NEW c \in Client, machine'[c] = machine[c], UNCHANGED clientCut,
         call[c] \in {"error", "panicked", "gone"} => call'[c] \in {"error", "panicked", "gone"}
  PROVE  ClientEndStays(c) \/ ClientEndMoves(c)
<1>1. ClientVerified(c)' <=> ClientVerified(c)
  BY DEF ClientVerified, ClientAt, HasVerified
<1>2. \/ ClientVerdict(c)' = ClientVerdict(c)
      \/ ClientVerdict(c) = "pending" /\ ClientVerdict(c)' = "failed"
  BY DEF ClientVerdict, Attempts
<1>. QED
  BY <1>1, <1>2 DEF ClientEndStays, ClientEndMoves, Moves

(* The client of a connection that does not do anything. *)
LEMMA ClientEndRests ==
  ASSUME NEW c \in Client, machine'[c] = machine[c], call'[c] = call[c],
         clientCut'[<<c, 1>>] = clientCut[<<c, 1>>]
  PROVE  ClientEndStays(c)
BY DEF ClientEndStays, ClientVerdict, Attempts, ClientVerified, ClientAt, HasVerified

(* The server's end of the connection of c, while nothing happens to it. *)
LEMMA ServerEndRests ==
  ASSUME NEW c \in Client, session'[<<c, 1>>] = session[<<c, 1>>],
         serverCut'[<<c, 1>>] = serverCut[<<c, 1>>],
         handler'[<<c, 1>>] # "none" <=> handler[<<c, 1>>] # "none",
         session[<<c, 1>>] # "Idle" => (serving' = <<c, 1>> <=> serving = <<c, 1>>)
  PROVE  ServerEndStays(c)
BY DEF ServerEndStays, ServerVerdict, Attempts, ServerVerified, ServerAt, HasVerified

(* The messages a client takes are proof of how far the server got. *)
LEMMA ClientTurnProof ==
  ASSUME IInv, MaxConnect = 1, NEW c \in Client, ClientTurn(c)
  PROVE  /\ ClientVerdict(c) = "pending"
         /\ machine[c] = "AwaitingStatus" => ServerVerified(c)
         /\ machine[c] = "AwaitingConfirmation" => c \in GoodToken
<1>1. machine[c] \in Running /\ machine[c] # "Idle" /\ machine[c] # "Authenticated"
      /\ call[c] = "driving" /\ TypeOK
  BY RunningFacts DEF ClientTurn, IInv
<1>2. PICK k \in Connection : k = connection[c]
  BY <1>1, HeldFacts
<1>3. k = <<c, 1>> /\ k[1] = c /\ SessionInv(k)
  <2>1. k[1] = c /\ SessionInv(k)
    BY <1>1, <1>2, HeldFacts
  <2>2. k = <<k[1], k[2]>> /\ k[2] = 1
    BY ConnectionFacts
  <2>. QED
    BY <2>1, <2>2
<1>4. DownInv(c, k) /\ down[k] # <<>> /\ down[k] \in Seq(Message)
      /\ ServerAt(k) \in MachineState /\ handler[k] \in {"none", "receiving", "keeping", "ended"}
  BY <1>1, <1>2, RunningFacts DEF IInv, WireInv, Held, ClientTurn, TypeOK, ServerAt, MachineState
<1>5. Len(down[k]) \in Nat /\ Len(down[k]) > 0
  BY <1>4
<1>6. Taken[machine[c]] + Len(down[k]) <= MostByServer(k)
  BY <1>1, <1>4 DEF DownInv, TakenByClient
<1>7. MostByServer(k) \in 0 .. 5
  BY <1>4, PositionFacts DEF MostByServer
<1>8. ASSUME machine[c] = "AwaitingStatus" PROVE ServerAt(k) \in {"AwaitingStatus", "Authenticated"}
  <2>1. MostByServer(k) >= 4
    BY <1>5, <1>6, <1>7, <1>8, PositionFacts
  <2>2. CASE handler[k] \in {"keeping", "ended"}
    BY <1>3, <2>2 DEF SessionInv, ServerAt
  <2>3. CASE handler[k] \notin {"keeping", "ended"}
    BY <1>4, <2>1, <2>3 DEF MostByServer, ServerTold, MachineState
  <2>. QED
    BY <2>2, <2>3
<1>9. ASSUME machine[c] = "AwaitingConfirmation" PROVE c \in GoodToken
  <2>1. MostByServer(k) >= 3
    BY <1>5, <1>6, <1>7, <1>9, PositionFacts
  <2>2. CASE handler[k] \in {"keeping", "ended"}
    BY <1>3, <2>2 DEF SessionInv, ServerAt
  <2>3. CASE handler[k] \notin {"keeping", "ended"}
    <3>1. ServerAt(k) \in {"AwaitingConfirmation", "Computing", "AwaitingStatus", "Authenticated"}
      BY <1>4, <2>1, <2>3 DEF MostByServer, ServerTold, MachineState
    <3>. QED
      BY <1>3, <3>1 DEF SessionInv
  <2>. QED
    BY <2>2, <2>3
<1>10. ClientVerdict(c) = "pending"
  BY <1>1 DEF ClientVerdict, Attempts
<1>. QED
  BY <1>3, <1>8, <1>9, <1>10 DEF ServerVerified, HasVerified

(* A turn in which the machine takes the message. *)
LEMMA ClientTakesMaps ==
  ASSUME IInv, MaxConnect = 1, NEW c \in Client, ClientTurn(c), ClientUnderstands(c),
         machine' = [machine EXCEPT ![c] = InitiatorStep[machine[c]].next],
         UNCHANGED clientCut, NEW r \in {"ok", "driving", "error"}, Return(c, r),
         r = "error" => machine[c] # "AwaitingStatus"
  PROVE  ClientEndStays(c) \/ ClientEndMoves(c)
<1>1. machine[c] \in Running /\ TypeOK
  BY DEF ClientTurn, IInv
<1>2. PICK s : s = InitiatorStep[machine[c]].next
  OBVIOUS
<1>3. /\ s \in Running \cup {"Authenticated"}
      /\ s = "Authenticated" <=> machine[c] = "AwaitingStatus"
      /\ s = "AwaitingStatus" <=> machine[c] = "AwaitingConfirmation"
  BY <1>1, <1>2, InitiatorFacts
<1>4. machine'[c] = s /\ (call'[c] \in {"ok", "driving"} \/ (call'[c] = "error" /\ machine[c] # "AwaitingStatus"))
  <2>1. call'[c] \in {"ok", "driving"} \/ (call'[c] = "error" /\ machine[c] # "AwaitingStatus")
    BY <1>1 DEF TypeOK, Return
  <2>. QED
    BY <1>1, <1>2, <2>1 DEF TypeOK
<1>5. /\ ClientVerdict(c) = "pending"
      /\ machine[c] = "AwaitingStatus" => ServerVerified(c)
      /\ machine[c] = "AwaitingConfirmation" => c \in GoodToken
  BY ClientTurnProof
<1>6. machine[c] = "AwaitingConfirmation" => c \in Configured
  BY <1>5 DEF ClientUnderstands, Verifies, Configured
<1>7. ClientVerdict(c)' = IF s = "Authenticated" THEN "authenticated"
                          ELSE IF call'[c] = "error" THEN "failed" ELSE "pending"
  BY <1>4 DEF ClientVerdict, Attempts
<1>8. /\ ClientVerified(c) <=> machine[c] = "AwaitingStatus"
      /\ ClientVerified(c)' <=> s \in {"AwaitingStatus", "Authenticated"}
  <2>1. <<c, 1>> \in Connection /\ <<c, 1>>[1] = c
    <3>1. 1 \in 1 .. MaxConnect
      OBVIOUS
    <3>. QED
      BY <3>1, ConnectionFacts
  <2>2. clientCut[<<c, 1>>] = "none"
    BY <1>1, <2>1, ClientAtFacts, RunningFacts
  <2>. QED
    BY <1>1, <1>4, <2>1, <2>2, RunningFacts DEF ClientVerified, ClientAt, HasVerified
<1>9. CASE machine[c] = "AwaitingStatus"
  BY <1>3, <1>5, <1>7, <1>8, <1>9 DEF ClientEndMoves, Moves
<1>10. CASE machine[c] = "AwaitingConfirmation"
  <2>1. ClientVerified(c)' /\ ClientVerdict(c)' \in {"failed", "pending"} /\ c \in Configured
    BY <1>3, <1>6, <1>7, <1>8, <1>10
  <2>. QED
    BY <1>5, <2>1 DEF ClientEndMoves, Moves
<1>11. CASE machine[c] \notin {"AwaitingStatus", "AwaitingConfirmation"}
  <2>1. ~ClientVerified(c) /\ ~ClientVerified(c)' /\ ClientVerdict(c)' \in {"failed", "pending"}
    BY <1>3, <1>7, <1>8, <1>11
  <2>. QED
    BY <1>5, <2>1 DEF ClientEndMoves, ClientEndStays, Moves
<1>. QED
  BY <1>9, <1>10, <1>11

(* Every step of a client is a move of its end, or none. *)
LEMMA ClientMaps ==
  ASSUME IInv, MaxConnect = 1, NEW c \in Client, ClientNext(c)
  PROVE  ClientEndStays(c) \/ ClientEndMoves(c)
<1>0. <<c, 1>> \in Connection /\ <<c, 1>>[1] = c
  <2>1. 1 \in 1 .. MaxConnect
    OBVIOUS
  <2>. QED
    BY <2>1, ConnectionFacts
<1>1. TypeOK
  BY DEF IInv
<1>2. CASE Connect(c)
  <2>1. call[c] = "none"
    BY <1>1, <1>2, AttemptsOnce DEF Connect
  <2>. QED
    BY <1>2, <2>1, CallMaps DEF Connect, cuts
<1>3. CASE \/ DialFails(c) \/ ReturnAuthenticated(c) \/ ClientGivesUp(c) \/ ExchangeFails(c)
           \/ SendRequest(c) \/ ReceiveResponse(c) \/ Exit(c)
  <2>1. UNCHANGED <<machine, clientCut>>
    BY <1>3 DEF cuts, DialFails, ReturnAuthenticated, ClientGivesUp, ExchangeFails, SendRequest,
                ReceiveResponse, Exit
  <2>2. call[c] \in {"error", "panicked", "gone"} => call'[c] = "gone"
    BY <1>1, <1>3 DEF DialFails, ReturnAuthenticated, ClientGivesUp, ExchangeFails, SendRequest,
                ReceiveResponse, Exit, Return, TypeOK
  <2>. QED
    BY <2>1, <2>2, CallMaps
<1>4. CASE StartHandshake(c)
  <2>1. /\ machine[c] = "Idle" /\ machine'[c] = "AwaitingCapabilities"
        /\ call[c] = "dialing" /\ call'[c] = "driving" /\ UNCHANGED clientCut
    BY <1>1, <1>4 DEF StartHandshake, Established, Return, TypeOK, cuts
  <2>2. <<c, 1>>[1] = c /\ clientCut[<<c, 1>>] = "none"
    BY <2>1, <1>0, ClientAtFacts
  <2>. QED
    BY <2>1, <2>2 DEF ClientEndStays, ClientVerdict, Attempts, ClientVerified, ClientAt, HasVerified
<1>5. CASE ReuseAuthenticated(c) \/ ReuseInterrupted(c) \/ ReuseFailed(c)
  <2>1. call[c] = "dialing" /\ machine[c] # "Idle" /\ ClientInv(c)
    BY <1>5, RunningFacts DEF ReuseAuthenticated, ReuseInterrupted, ReuseFailed, Established,
                              IInv
  <2>2. connection[c] \in Connection /\ connection[c][2] < attempts[c] /\ attempts[c] \in 0 .. 1
    BY <1>1, <2>1, HeldFacts DEF TypeOK, ClientInv
  <2>3. connection[c][2] \in Nat /\ connection[c][2] > 0
    BY <2>2, ConnectionFacts
  <2>. QED
    BY <2>2, <2>3
<1>6. CASE ClientReads(c)
  <2>1. PICK r \in {"ok", "driving", "error"} :
          r = IF IsAuthenticated(InitiatorStep[machine[c]].next) THEN "ok" ELSE "driving"
    OBVIOUS
  <2>2. r # "error" /\ Return(c, r)
    BY <1>6, <2>1 DEF ClientReads, IsAuthenticated
  <2>. QED
    BY <1>6, <2>2, ClientTakesMaps DEF ClientReads, cuts
<1>7. CASE ClientCutOff(c)
  <2>1. machine[c] # "AwaitingStatus"
    BY <1>7 DEF ClientCutOff, InitiatorStep, Step
  <2>. QED
    BY <1>7, <2>1, ClientTakesMaps DEF ClientCutOff, cuts
<1>8. CASE ClientRejects(c)
  <2>1. ClientTurn(c) /\ machine[c] \in Running
        /\ Head(down[connection[c]]) = InitiatorStep[machine[c]].on
    BY <1>8, ClientTurnFacts DEF ClientRejects
  <2>2. machine[c] = "AwaitingConfirmation"
    BY <1>8, <2>1 DEF ClientRejects, ClientUnderstands, Verifies
  <2>3. machine'[c] = "Computing" /\ call'[c] = "error" /\ UNCHANGED clientCut
    BY <1>1, <1>8, <2>1, <2>2 DEF ClientRejects, Derailed, Return, TypeOK, cuts
  <2>4. ClientVerdict(c) = "pending"
    BY <2>1, ClientTurnProof
  <2>5. ~ClientVerified(c) /\ ~ClientVerified(c)' /\ ClientVerdict(c)' = "failed"
    <3>1. clientCut[<<c, 1>>] = "none"
      BY <1>0, <2>2, ClientAtFacts
    <3>. QED
      BY <1>0, <2>2, <2>3, <3>1 DEF ClientVerified, ClientAt, HasVerified, ClientVerdict, Attempts
  <2>. QED
    BY <2>4, <2>5 DEF ClientEndMoves, Moves
(* The machine is Poisoned and the end has come as far as it had. *)
<1>9. CASE ClientReadsCut(c)
  <2>1. /\ call[c] = "driving" /\ machine[c] \in Running /\ machine[c] # "Authenticated"
        /\ machine[c] # "Idle" /\ machine[c] # "none" /\ machine[c] # "Poisoned"
    BY <1>9, RunningFacts DEF ClientReadsCut
  <2>2. connection[c] = <<c, 1>>
    <3>1. connection[c] \in Connection /\ connection[c][1] = c
      BY <2>1, HeldFacts
    <3>. QED
      BY <1>0, <3>1, ConnectionFacts
  <2>3. machine'[c] = "Poisoned" /\ call'[c] = "error" /\ clientCut'[<<c, 1>>] = machine[c]
    BY <1>0, <1>1, <1>9, <2>2 DEF ClientReadsCut, Return, TypeOK
  <2>4. ClientAt(<<c, 1>>) = machine[c] /\ ClientAt(<<c, 1>>)' = machine[c]
    BY <1>0, <2>1, <2>3, ClientAtFacts DEF ClientAt
  <2>5. ClientVerdict(c) = "pending" /\ ClientVerdict(c)' = "failed"
    BY <2>1, <2>3 DEF ClientVerdict, Attempts
  <2>6. ClientVerified(c)' <=> ClientVerified(c)
    BY <2>4 DEF ClientVerified, HasVerified
  <2>. QED
    BY <2>5, <2>6 DEF ClientEndMoves, Moves
<1>. QED
  BY <1>2, <1>3, <1>4, <1>5, <1>6, <1>7, <1>8, <1>9 DEF ClientNext, ClientProgress

(* Every step on the connection of c is a move of the server's end, or none. *)
LEMMA ServerMaps ==
  ASSUME IInv, IInv', MaxConnect = 1, NEW c \in Client, NEW k \in Connection, k = <<c, 1>>,
         \/ Accept /\ Head(incoming) = k
         \/ Greeting(k) \/ ServerProgress(k) \/ ServerCutOff(k) \/ ServerReadsCut(k)
         \/ ServerGivesUp(k) \/ HandlerNext(k)
  PROVE  ServerEndStays(c) \/ ServerEndMoves(c)
<1>1. TypeOK /\ SessionInv(k) /\ SessionInv(k)' /\ k[1] = c /\ k # None
  BY ConnectionFacts DEF IInv
<1>2. /\ ServerVerdict(c) = IF handler[k] # "none" THEN "authenticated"
                            ELSE IF session[k] # "Idle" /\ serving # k THEN "failed" ELSE "pending"
      /\ ServerVerdict(c)' = IF handler'[k] # "none" THEN "authenticated"
                             ELSE IF session'[k] # "Idle" /\ serving' # k THEN "failed" ELSE "pending"
      /\ ServerVerified(c) <=> ServerAt(k) \in {"AwaitingStatus", "Authenticated"}
      /\ ServerVerified(c)' <=> ServerAt(k)' \in {"AwaitingStatus", "Authenticated"}
  BY DEF ServerVerdict, Attempts, ServerVerified, HasVerified
<1>3. ServerAt(k)' \in {"AwaitingStatus", "Authenticated"} => c \in Configured
  BY <1>1 DEF SessionInv, Configured
<1>4. CASE Accept /\ Head(incoming) = k
  <2>1. serving' = k /\ UNCHANGED <<session, handler, serverCut>> /\ incoming # <<>>
    BY <1>1, <1>4 DEF Accept, cuts
  <2>2. session[k] = "Idle"
    <3>1. incoming \in Seq(Connection) /\ QueueInv
      BY <1>1 DEF IInv, TypeOK
    <3>2. 1 \in 1 .. Len(incoming) /\ Head(incoming) = incoming[1]
      BY <2>1, <3>1
    <3>. QED
      BY <1>4, <3>1, <3>2 DEF QueueInv
  <2>. QED
    BY <1>1, <2>1, <2>2, ServerEndRests
<1>12. CASE Greet(k)
  <2>1. /\ session[k] = "Idle" /\ session'[k] = "AwaitingCapabilities" /\ serving' = k
        /\ UNCHANGED <<handler, serverCut>>
    BY <1>1, <1>12 DEF Greet, TypeOK, cuts
  <2>2. handler[k] = "none" /\ serverCut[k] = "none"
    BY <1>1, <2>1 DEF SessionInv
  <2>. QED
    BY <1>2, <2>1, <2>2 DEF ServerEndStays, ServerAt
<1>13. CASE AcceptFails(k)
  <2>1. session[k] = "Idle" /\ UNCHANGED <<session, handler, serverCut>>
    BY <1>13 DEF AcceptFails, cuts
  <2>. QED
    BY <1>1, <2>1, ServerEndRests
<1>14. CASE ServerReadsCut(k)
  <2>1. /\ serving = k /\ session[k] # "Idle" /\ session[k] \in Running /\ serverCut[k] = "none"
        /\ handler[k] = "none" /\ session[k] # "none"
    BY <1>1, <1>14, RunningFacts DEF ServerReadsCut, SessionInv
  <2>2. /\ serving' = None /\ session'[k] = "Poisoned" /\ serverCut'[k] = session[k]
        /\ handler' = handler
    BY <1>1, <1>14 DEF ServerReadsCut, Refuse, TypeOK
  <2>3. ServerAt(k) = session[k] /\ ServerAt(k)' = session[k]
    BY <2>1, <2>2 DEF ServerAt
  <2>4. ServerVerdict(c) = "pending" /\ ServerVerdict(c)' = "failed" /\ (ServerVerified(c)' <=> ServerVerified(c))
    BY <1>1, <1>2, <2>1, <2>2, <2>3
  <2>. QED
    BY <2>4 DEF ServerEndMoves, Moves
<1>5. ASSUME ServerTurn(k)
      PROVE  /\ session[k] \in Running /\ handler[k] = "none" /\ ServerVerdict(c) = "pending"
             /\ Head(up[k]) = ResponderStep[session[k]].on
             /\ connection[c] = k /\ Held(c) /\ serverCut[k] = "none" /\ ServerAt(k) = session[k]
  <2>1. /\ session[k] \in Running /\ serverCut[k] = "none" /\ handler[k] = "none" /\ ~Unheard(k) /\ serving = k
        /\ HeldBy(k) => Head(up[k]) = ResponderStep[session[k]].on
    BY <1>5, ServerTurnFacts DEF ServerTurn
  <2>2. connection[c] = k /\ Held(c)
    BY <1>1, <2>1, OnlyConnection
  <2>. QED
    BY <1>1, <1>2, <2>1, <2>2 DEF HeldBy, ServerAt
<1>6. ASSUME ServerTurn(k), session' = [session EXCEPT ![k] = ResponderStep[session[k]].next]
      PROVE  /\ session'[k] \in Running \cup {"Authenticated"}
             /\ session'[k] = "Authenticated" <=> session[k] = "AwaitingStatus"
             /\ session'[k] = "AwaitingStatus" <=> session[k] = "AwaitingConfirmation"
  <2>1. session'[k] = ResponderStep[session[k]].next
    BY <1>1, <1>6 DEF TypeOK
  <2>. QED
    BY <1>5, <1>6, <2>1, ResponderFacts
<1>7. CASE ServerReads(k)
  <2>1. /\ ServerTurn(k) /\ session' = [session EXCEPT ![k] = ResponderStep[session[k]].next]
        /\ UNCHANGED <<clientVars, clientCut, serverCut>>
    BY <1>7 DEF ServerReads, cuts
  <2>2. /\ session'[k] \in Running \cup {"Authenticated"}
        /\ session'[k] = "Authenticated" <=> session[k] = "AwaitingStatus"
        /\ session'[k] = "AwaitingStatus" <=> session[k] = "AwaitingConfirmation"
        /\ session[k] \in Running /\ ServerVerdict(c) = "pending" /\ connection[c] = k /\ Held(c)
        /\ ServerAt(k) = session[k] /\ ServerAt(k)' = session'[k]
    BY <1>5, <1>6, <2>1 DEF ServerAt
  <2>3. IF session'[k] = "Authenticated" THEN handler'[k] # "none" ELSE handler'[k] = "none"
    BY <1>1, <1>7, <2>1, <1>5 DEF SessionInv
  <2>4. CASE session[k] = "AwaitingStatus"
    <3>1. WireInv(c)' /\ Held(c)' /\ connection'[c] = k /\ ClientAt(k)' = ClientAt(k)
      BY <2>1, <2>2 DEF IInv, Held, ClientAt, clientVars
    <3>2. ClientVerified(c)
      BY <2>2, <2>4, <3>1 DEF WireInv, ClientVerified, HasVerified
    <3>. QED
      BY <1>2, <2>2, <2>3, <2>4, <3>2 DEF ServerEndMoves, Moves
  <2>5. CASE session[k] # "AwaitingStatus"
    <3>1. serving' = k
      <4>1. session'[k] # "Authenticated" /\ session'[k] = ResponderStep[session[k]].next
        BY <1>1, <2>1, <2>2, <2>5 DEF TypeOK
      <4>. QED
        BY <1>7, <4>1 DEF ServerReads, ServerTurn
    <3>2. ServerVerdict(c)' = "pending" /\ ~ServerVerified(c)
      BY <1>2, <2>2, <2>3, <2>5, <3>1, RunningFacts
    <3>. QED
      BY <1>2, <1>3, <2>2, <3>2 DEF ServerEndMoves, ServerEndStays, Moves
  <2>. QED
    BY <2>4, <2>5
<1>8. CASE ServerCutOff(k)
  <2>1. /\ ServerTurn(k) /\ session' = [session EXCEPT ![k] = ResponderStep[session[k]].next]
        /\ serving' = None /\ UNCHANGED <<handler, serverCut>>
    BY <1>8 DEF ServerCutOff, Refuse, cuts
  <2>2. /\ session'[k] \in Running \cup {"Authenticated"}
        /\ session'[k] = "Authenticated" <=> session[k] = "AwaitingStatus"
        /\ session[k] \in Running /\ ServerVerdict(c) = "pending" /\ handler[k] = "none"
        /\ ServerAt(k) = session[k] /\ ServerAt(k)' = session'[k]
    BY <1>5, <1>6, <2>1 DEF ServerAt
  <2>3. session'[k] # "Authenticated"
    BY <1>1, <2>1, <2>2 DEF SessionInv
  <2>4. ServerVerdict(c)' = "failed" /\ ~ServerVerified(c)
    BY <1>1, <1>2, <2>1, <2>2, <2>3, RunningFacts
  <2>. QED
    BY <1>2, <1>3, <2>2, <2>4 DEF ServerEndMoves, Moves
<1>9. CASE ServerRejects(k)
  <2>1. ServerTurn(k) /\ ~ServerUnderstands(k) /\ serving' = None /\ UNCHANGED <<handler, serverCut>>
    BY <1>9 DEF ServerRejects, Refuse, cuts
  <2>2. /\ session[k] \in Running /\ ServerVerdict(c) = "pending" /\ handler[k] = "none"
        /\ Head(up[k]) = ResponderStep[session[k]].on
        /\ ServerAt(k) = session[k] /\ ServerAt(k)' = session'[k]
    BY <1>5, <2>1 DEF ServerAt
  <2>3. session[k] # "AwaitingStatus"
    BY <2>1, <2>2 DEF ServerUnderstands, Verifies, AcceptsToken
  <2>4. session'[k] \in {"Computing", "Poisoned"}
    BY <1>1, <1>9 DEF ServerRejects, Derailed, TypeOK
  <2>5. ServerVerdict(c)' = "failed" /\ ~ServerVerified(c) /\ ~ServerVerified(c)'
    BY <1>1, <1>2, <2>1, <2>2, <2>3, <2>4, RunningFacts
  <2>. QED
    BY <2>2, <2>5 DEF ServerEndMoves, Moves
<1>10. CASE ServerGivesUp(k)
  <2>1. /\ serving = k /\ session[k] # "Idle" /\ serving' = None
        /\ UNCHANGED <<session, handler, serverCut>>
    BY <1>10 DEF ServerGivesUp, Refuse, cuts
  <2>2. session[k] \in Running /\ handler[k] = "none" /\ ServerAt(k)' = ServerAt(k)
    BY <1>1, <2>1, RunningFacts DEF SessionInv, ServerAt
  <2>3. ServerVerdict(c) = "pending" /\ ServerVerdict(c)' = "failed" /\ (ServerVerified(c)' <=> ServerVerified(c))
    BY <1>1, <1>2, <2>1, <2>2, RunningFacts
  <2>. QED
    BY <2>3 DEF ServerEndMoves, Moves
<1>11. CASE HandlerNext(k)
  <2>1. handler[k] # "none" /\ handler'[k] # "none" /\ UNCHANGED <<session, serverCut>>
    BY <1>1, <1>11 DEF HandlerNext, HandlerReceives, HandlerEnds, TypeOK, cuts
  <2>. QED
    BY <1>2, <2>1 DEF ServerEndStays, ServerAt
<1>. QED
  BY <1>4, <1>7, <1>8, <1>9, <1>10, <1>11, <1>12, <1>13, <1>14 DEF ServerProgress, Greeting

(* The steps on other connections leave the server's end of c's alone. *)
LEMMA ServerElsewhere ==
  ASSUME IInv, NEW c \in Client, NEW k \in Connection, <<c, 1>> \in Connection, k # <<c, 1>>,
         \/ Accept /\ Head(incoming) = k
         \/ Greeting(k) \/ ServerProgress(k) \/ ServerCutOff(k) \/ ServerReadsCut(k)
         \/ ServerGivesUp(k) \/ HandlerNext(k)
  PROVE  ServerEndStays(c)
<1>1. TypeOK /\ <<c, 1>> # None
  BY ConnectionFacts DEF IInv
<1>2. session'[<<c, 1>>] = session[<<c, 1>>]
  BY <1>1 DEF TypeOK, Accept, Greeting, Greet, AcceptFails, ServerProgress, ServerReads,
              ServerRejects, ServerCutOff, ServerReadsCut, ServerGivesUp, HandlerNext,
              HandlerReceives, HandlerEnds
<1>3. serverCut'[<<c, 1>>] = serverCut[<<c, 1>>]
  <2>1. CASE ServerReadsCut(k)
    BY <1>1, <2>1 DEF TypeOK, ServerReadsCut
  <2>2. CASE ~ServerReadsCut(k)
    BY <2>2 DEF Accept, Greeting, Greet, AcceptFails, ServerProgress, ServerReads, ServerRejects,
                ServerCutOff, ServerGivesUp, HandlerNext, HandlerReceives, HandlerEnds, cuts
  <2>. QED
    BY <2>1, <2>2
<1>4. handler'[<<c, 1>>] = handler[<<c, 1>>]
  <2>1. CASE ServerReads(k)
    BY <1>1, <2>1 DEF TypeOK, ServerReads
  <2>2. CASE HandlerNext(k)
    BY <1>1, <2>2 DEF TypeOK, HandlerNext, HandlerReceives, HandlerEnds
  <2>3. CASE \/ Accept \/ Greeting(k) \/ ServerRejects(k) \/ ServerCutOff(k)
             \/ ServerReadsCut(k) \/ ServerGivesUp(k)
    BY <2>3 DEF Accept, Greeting, Greet, AcceptFails, ServerRejects, ServerCutOff, ServerReadsCut,
                ServerGivesUp
  <2>. QED
    BY <2>1, <2>2, <2>3 DEF ServerProgress
<1>5. session[<<c, 1>>] # "Idle" => (serving' = <<c, 1>> <=> serving = <<c, 1>>)
  <2>1. CASE Accept /\ Head(incoming) = k
    BY <1>1, <2>1 DEF Accept
  <2>2. CASE HandlerNext(k)
    BY <2>2 DEF HandlerNext, HandlerReceives, HandlerEnds
  <2>3. CASE \/ Greeting(k) \/ ServerProgress(k) \/ ServerCutOff(k) \/ ServerReadsCut(k)
             \/ ServerGivesUp(k)
    <3>1. serving = k /\ serving' \in {k, None}
      BY <2>3 DEF Greeting, Greet, AcceptFails, ServerProgress, ServerReads, ServerRejects,
                  ServerCutOff, ServerReadsCut, ServerGivesUp, ServerTurn, Refuse
    <3>. QED
      BY <1>1, <3>1
  <2>. QED
    BY <2>1, <2>2, <2>3
<1>. QED
  BY <1>2, <1>3, <1>4, <1>5, ServerEndRests

(* Every step of the drivers is a step of MutualAuthentication, or none. *)
LEMMA StepMaps ==
  ASSUME IInv, IInv', MaxConnect = 1, [Next]_vars, NEW c \in Client
  PROVE  AbstractStep(c)
<1>1. <<c, 1>> \in Connection /\ TypeOK
  <2>1. 1 \in 1 .. MaxConnect
    OBVIOUS
  <2>. QED
    BY <2>1, ConnectionFacts DEF IInv
<1>2. ASSUME UNCHANGED <<session, handler, serving, serverCut>> PROVE ServerEndStays(c)
  BY <1>2, ServerEndRests
<1>3. ASSUME UNCHANGED <<clientVars, clientCut>> PROVE ClientEndStays(c)
  BY <1>3, ClientEndRests DEF clientVars
<1>4. CASE UNCHANGED vars
  BY <1>2, <1>3, <1>4, EndsMap DEF vars, clientVars, serverVars, cuts
<1>5. ASSUME NEW d \in Client, ClientNext(d) PROVE AbstractStep(c)
  <2>1. UNCHANGED <<session, handler, serving, serverCut>>
    BY <1>5 DEF ClientNext, ClientProgress, StartHandshake, ReuseAuthenticated, ReuseInterrupted,
                ReuseFailed, ClientReads, ClientRejects, ClientReadsCut, ReturnAuthenticated,
                SendRequest, ReceiveResponse, ExchangeFails, Connect, DialFails, ClientCutOff,
                ClientGivesUp, Exit, serverVars, cuts
  <2>2. CASE d = c
    BY <1>2, <1>5, <2>1, <2>2, ClientMaps, EndsMap
  <2>3. CASE d # c
    <3>1. machine'[c] = machine[c] /\ call'[c] = call[c]
      BY <1>1, <1>5, <2>3
      DEF ClientNext, ClientProgress, StartHandshake, ReuseAuthenticated, ReuseInterrupted,
          ReuseFailed, ClientReads, ClientRejects, ClientReadsCut, ReturnAuthenticated, SendRequest, ReceiveResponse,
          ExchangeFails, Connect, DialFails, ClientCutOff, ClientGivesUp, Exit, Return, TypeOK
    <3>2. clientCut'[<<c, 1>>] = clientCut[<<c, 1>>]
      <4>1. CASE ClientReadsCut(d)
        <5>1. machine[d] # "Idle"
          BY <4>1, RunningFacts DEF ClientReadsCut
        <5>2. connection[d][1] = d
          BY <5>1, HeldFacts
        <5>3. connection[d] # <<c, 1>>
          BY <1>1, <2>3, <5>2, ConnectionFacts
        <5>. QED
          BY <1>1, <4>1, <5>3 DEF ClientReadsCut, TypeOK
      <4>2. CASE ~ClientReadsCut(d)
        BY <1>5, <4>2
        DEF ClientNext, ClientProgress, StartHandshake, ReuseAuthenticated, ReuseInterrupted,
            ReuseFailed, ClientReads, ClientRejects, ReturnAuthenticated, SendRequest,
            ReceiveResponse, ExchangeFails, Connect, DialFails, ClientCutOff, ClientGivesUp,
            Exit, cuts
      <4>. QED
        BY <4>1, <4>2
    <3>. QED
      BY <1>2, <2>1, <3>1, <3>2, ClientEndRests, EndsMap
  <2>. QED
    BY <2>2, <2>3
<1>6. ASSUME NEW k \in Connection,
             \/ Accept /\ Head(incoming) = k
             \/ Greeting(k) \/ ServerProgress(k) \/ ServerCutOff(k) \/ ServerReadsCut(k)
             \/ ServerGivesUp(k) \/ HandlerNext(k)
      PROVE  AbstractStep(c)
  <2>1. UNCHANGED <<clientVars, clientCut>>
    BY <1>6 DEF Accept, Greeting, Greet, AcceptFails, ServerProgress, ServerReads, ServerRejects,
                ServerCutOff, ServerReadsCut, ServerGivesUp, HandlerNext, HandlerReceives,
                HandlerEnds, cuts
  <2>2. ServerEndStays(c) \/ ServerEndMoves(c)
    <3>1. CASE k = <<c, 1>>
      BY <1>6, <3>1, ServerMaps
    <3>2. CASE k # <<c, 1>>
      BY <1>1, <1>6, <3>2, ServerElsewhere
    <3>. QED
      BY <3>1, <3>2
  <2>. QED
    BY <1>3, <2>1, <2>2, EndsMap
<1>7. CASE Accept
  <2>1. Head(incoming) \in Connection
    BY <1>1, <1>7 DEF Accept, TypeOK
  <2>. QED
    BY <1>6, <1>7, <2>1
<1>. QED
  BY <1>4, <1>5, <1>6, <1>7 DEF Next

(* Refinement: timeouts at either end, the queue of the server and lost    *)
(* messages do not break the promise of the handshake.  Where clients      *)
(* connect once, the drivers implement MutualAuthentication on every       *)
(* client's connection, for any number of clients.                         *)
THEOREM SessionsRefine == MaxConnect = 1 => (Spec => SessionsImplementAuthentication)
<1> SUFFICES ASSUME MaxConnect = 1 PROVE Spec => SessionsImplementAuthentication
  OBVIOUS
<1>1. ASSUME Init PROVE \A c \in Client : Authentication(c)!Init
  <2> SUFFICES ASSUME NEW c \in Client PROVE Authentication(c)!Init
    OBVIOUS
  <2>1. <<c, 1>> \in Connection
    <3>1. 1 \in 1 .. MaxConnect
      OBVIOUS
    <3>. QED
      BY <3>1, ConnectionFacts
  <2>2. Attempts(c) = [p \in {"client", "server"} |-> "pending"]
    BY <1>1, <2>1 DEF Init, Attempts
  <2>3. VerifiedEnds(c) = {}
    <3>1. ClientAt(<<c, 1>>) = "Idle" /\ ServerAt(<<c, 1>>) = "Idle"
      BY <1>1, <2>1, ConnectionFacts DEF Init, ClientAt, ServerAt
    <3>. QED
      BY <3>1 DEF VerifiedEnds, HasVerified
  <2>. QED
    BY <2>2, <2>3 DEF Authentication!Init
<1>2. IInv /\ IInv' /\ [Next]_vars
        => [\A c \in Client : Authentication(c)!Next \/ UNCHANGED Authentication(c)!vars]_vars
  BY StepMaps DEF AbstractStep
<1>. QED
  BY <1>1, <1>2, Invariance, PTL DEF Spec, SessionsImplementAuthentication

=============================================================================
