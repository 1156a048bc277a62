---------------------------- MODULE Spake2Proofs ----------------------------
(***************************************************************************)
(* The inductive invariant of Spake2StateMachine and the theorems that     *)
(* rest on it.  They hold for every set of PSKs and tokens, for every      *)
(* configuration of the two peers, and for drivers that run crypto         *)
(* synchronously or not.                                                   *)
(*                                                                         *)
(* The idea: once a peer's configuration is fixed, everything it can ever  *)
(* say is fixed too.  Peer p has at most four messages in it, its          *)
(* capabilities, HS(p), MAC(p) and status Ok, and says each of them only   *)
(* after it has passed a point it never goes back behind.  So what a peer  *)
(* holds of the other one (in its channel, its buffer, an open request)    *)
(* shows how far the other one is.                                         *)
(***************************************************************************)
EXTENDS Spake2StateMachine, SequenceTheorems, TLAPS

(* What the configuration makes of p's public value, handshake, transcript, *)
(* key and confirmation.                                                    *)
PV(p) == [by |-> p, responder |-> isResponder[p]]

HS(p) == [type |-> "handshake", token |-> authToken[p], public |-> PV(p)]

TR(p) == IF isResponder[p] THEN <<HS(Other(p)), HS(p)>> ELSE <<HS(p), HS(Other(p))>>

Key(p) == [psk       |-> psk[p],
           initiator |-> IF isResponder[p] THEN PV(Other(p)) ELSE PV(p),
           responder |-> IF isResponder[p] THEN PV(p) ELSE PV(Other(p))]

MAC(p) == [key |-> [secret |-> Key(p), responder |-> isResponder[p]],
           transcript |-> TR(p)]

Hello == [type |-> "capabilities"]
Conf(p) == [type |-> "confirmation", value |-> MAC(p)]
Ok == [type |-> "status", status |-> "Ok"]

(* The points p does not go back behind, and what it has said by then. *)
HasKey(p) == data[p].secret # None

IsVerified(p) == state[p] \in {"AwaitingStatus", "Authenticated"}

Sayings(p) ==
  (IF state[p] # "Idle" THEN {Hello} ELSE {})
    \cup (IF data[p].ours = HS(p) THEN {HS(p)} ELSE {})
    \cup (IF HasKey(p) THEN {Conf(p)} ELSE {})
    \cup (IF IsVerified(p) THEN {Ok} ELSE {})

Rank(m) == IF m.type = "capabilities" THEN 1
           ELSE IF m.type = "handshake" THEN 2
           ELSE IF m.type = "confirmation" THEN 3 ELSE 4

Roles == isResponder[Client] # isResponder[Server]

(* What p's own fields hold. *)
DataInv(p) ==
  /\ data[p].public \in {None, PV(p)}
  /\ data[p].ours = IF data[p].public = None THEN None ELSE HS(p)
  /\ data[p].theirs # None => /\ data[p].theirs = HS(Other(p))
                              /\ TokenAccepted(p, authToken[Other(p)])
  /\ HasKey(p) => /\ data[p].secret = Key(p)
                  /\ data[p].transcript = TR(p)
                  /\ data[p].theirs # None
                  /\ Roles
  /\ provider[p] \in {None, [psk |-> psk[p], public |-> PV(p)]}

StateInv(p) ==
  /\ state[p] \in {"Idle", "AwaitingCapabilities", "InitiatingHandshake",
                   "GeneratingHandshake"} => data[p].ours = None
  /\ state[p] \in {"Idle", "AwaitingCapabilities", "InitiatingHandshake",
                   "AwaitingHandshake", "GeneratingHandshake"} => ~HasKey(p)
  /\ state[p] = "InitiatingHandshake" => ~isResponder[p]
  /\ state[p] = "AwaitingHandshake" => (isResponder[p] <=> data[p].ours = None)
  /\ state[p] = "GeneratingHandshake" => isResponder[p] /\ data[p].theirs # None
  /\ state[p] \in {"AwaitingConfirmation", "AwaitingStatus", "Authenticated"}
       => HasKey(p)

RequestInv(p) ==
  /\ request[p] # NoRequest
       => state[p] \in {"InitiatingHandshake", "GeneratingHandshake",
                        "Computing", "Panicked"}
  /\ request[p].op = "start" => request[p] = StartRequest(p)
  /\ request[p].op = "finish" =>
       /\ request[p] = FinishRequest(p, PV(Other(p)), TR(p))
       /\ ~HasKey(p)
       /\ data[p].transcript = TR(p)
       /\ data[p].theirs # None
  /\ request[p].op = "verify" =>
       /\ request[p].context = [key |-> [secret |-> Key(p), responder |-> ~isResponder[p]],
                                transcript |-> TR(p)]
       /\ request[p].confirmation = MAC(Other(p))
       /\ HasKey(p)
       /\ HasKey(Other(p))

(* p has taken the peer's confirmation out of its channel. *)
GotConfirmation(p) ==
  \/ request[p].op = "verify"
  \/ IsVerified(p)
  \/ data[p].pending # None /\ data[p].pending.type \in {"confirmation", "status"}

(* What is on its way to p. *)
ChannelInv(p) ==
  /\ data[p].pending \in Sayings(Other(p)) \cup {None}
  /\ \A i \in 1..Len(chan[p]) : chan[p][i] \in Sayings(Other(p))
  /\ \A i, j \in 1..Len(chan[p]) : i < j => Rank(chan[p][i]) < Rank(chan[p][j])
  /\ GotConfirmation(p) => \A i \in 1..Len(chan[p]) : chan[p][i].type = "status"
  /\ state[p] = "Authenticated" => chan[p] = <<>>

VerifiedInv(p) ==
  /\ IsVerified(p) => Compatible /\ HasKey(Other(p))
  /\ state[p] = "Authenticated" => IsVerified(Other(p))

PeerInv(p) ==
  /\ DataInv(p)
  /\ StateInv(p)
  /\ RequestInv(p)
  /\ ChannelInv(p)
  /\ VerifiedInv(p)

(* The inductive invariant: what the types are, and the five parts for each *)
(* peer.                                                                    *)
IInv == TypeOK /\ \A p \in Peer : PeerInv(p)

----------------------------------------------------------------------------
(* Constant facts *)

(* There are two peers, each the other of the other. *)
LEMMA PeerFacts ==
  ASSUME NEW p \in Peer
  PROVE  /\ Other(p) \in Peer
         /\ Other(p) # p
         /\ Other(Other(p)) = p
         /\ \A r \in Peer : r = p \/ r = Other(p)
BY PeersDiffer DEF Peer, Other

(* Everything a peer can say is a message, and none of it is None. *)
LEMMA ValueFacts ==
  ASSUME TypeOK, NEW p \in Peer
  PROVE  /\ PV(p) \in PublicValue /\ PV(p) # None
         /\ HS(p) \in Handshake /\ HS(p) \in Message /\ HS(p) # None
         /\ TR(p) \in Seq(Handshake)
         /\ Key(p) \in Secret /\ Key(p) # None
         /\ MAC(p) \in Mac
         /\ Conf(p) \in Message /\ Conf(p) # None
         /\ Hello \in Message /\ Hello # None
         /\ Ok \in Message /\ Ok # None
<1>1. \A r \in Peer : PV(r) \in PublicValue /\ HS(r) \in Handshake
  BY DEF TypeOK, PV, HS, PublicValue, Handshake
<1>2. TR(p) \in Seq(Handshake)
  BY <1>1, PeerFacts DEF TR
<1>3. Key(p) \in Secret
  BY <1>1, PeerFacts DEF Key, Secret, TypeOK
<1>4. MAC(p) \in Mac
  BY <1>2, <1>3 DEF MAC, Mac, ConfirmationKey, TypeOK
<1>5. Conf(p) \in Message /\ Hello \in Message /\ Ok \in Message /\ HS(p) \in Message
  BY <1>1, <1>4 DEF Conf, Hello, Ok, Message, Confirmation, Status
<1>. QED
  BY <1>1, <1>2, <1>3, <1>4, <1>5, NoneIsNoValue

(* While the configuration stays, so does everything made of it. *)
LEMMA ConfigFrame ==
  ASSUME UNCHANGED config, NEW p
  PROVE  /\ PV(p)' = PV(p)
         /\ HS(p)' = HS(p)
         /\ TR(p)' = TR(p)
         /\ Key(p)' = Key(p)
         /\ MAC(p)' = MAC(p)
         /\ Conf(p)' = Conf(p)
         /\ Roles' = Roles
         /\ Compatible' = Compatible
         /\ StartRequest(p)' = StartRequest(p)
         /\ \A t : TokenAccepted(p, t)' = TokenAccepted(p, t)
BY DEF config, PV, HS, TR, Key, MAC, Conf, Roles, Compatible, StartRequest, TokenAccepted

(* The order in which a peer says things. *)
LEMMA RankFacts ==
  ASSUME NEW p
  PROVE  /\ Rank(Hello) = 1 /\ Rank(HS(p)) = 2
         /\ Rank(Conf(p)) = 3 /\ Rank(Ok) = 4
         /\ Hello.type = "capabilities" /\ HS(p).type = "handshake"
         /\ Conf(p).type = "confirmation" /\ Ok.type = "status"
BY DEF Rank, Hello, HS, Conf, Ok

(* Whatever a peer says has one of four ranks, the last one for a status. *)
LEMMA SayingRanks ==
  ASSUME NEW p
  PROVE  \A m \in Sayings(p) : /\ Rank(m) > 3 => m.type = "status"
                               /\ Rank(m) \in 1..4
BY DEF Sayings, Rank, Hello, HS, Conf, Ok

(* Taking the first message of a channel, and adding one at its end. *)
LEMMA TailFacts ==
  ASSUME NEW S, NEW s \in Seq(S), s # <<>>
  PROVE  /\ Tail(s) \in Seq(S)
         /\ Head(s) = s[1] /\ Head(s) \in S
         /\ 1 \in 1..Len(s)
         /\ Len(Tail(s)) = Len(s) - 1
         /\ \A i \in 1..Len(Tail(s)) :
              i + 1 \in 1..Len(s) /\ Tail(s)[i] = s[i + 1]
BY HeadTailProperties, EmptySeq, LenProperties, ElementOfSeq

(* A sequence without an index is empty. *)
LEMMA NoElement ==
  ASSUME NEW S, NEW s \in Seq(S), \A i \in 1..Len(s) : FALSE
  PROVE  s = <<>>
<1>1. s # <<>> => 1 \in 1..Len(s)
  BY EmptySeq
<1>. QED
  BY <1>1

(* A message added at the end of a channel leaves the others in place. *)
LEMMA AppendFacts ==
  ASSUME NEW S, NEW s \in Seq(S), NEW e \in S
  PROVE  /\ Append(s, e) \in Seq(S)
         /\ Len(Append(s, e)) = Len(s) + 1
         /\ Append(s, e)[Len(s) + 1] = e
         /\ \A i \in 1..Len(s) : Append(s, e)[i] = s[i]
BY AppendProperties, LenProperties

----------------------------------------------------------------------------
(* What a step of p does to the other peer *)

(* p goes forward: nothing it has said is taken back. *)
Advances(p) ==
  /\ UNCHANGED config
  /\ state[p] # "Idle" => state'[p] # "Idle"
  /\ data[p].ours = HS(p) => data'[p].ours = HS(p)
  /\ HasKey(p) => data'[p].secret # None
  /\ IsVerified(p) => state'[p] \in {"AwaitingStatus", "Authenticated"}

(* q's own fields stay as they are. *)
Leaves(q) ==
  /\ data'[q] = data[q]
  /\ state'[q] = state[q]
  /\ request'[q] = request[q]
  /\ provider'[q] = provider[q]

(* What a peer that goes forward may say, it may still say. *)
LEMMA SpeakerAdvances ==
  ASSUME NEW p, Advances(p)
  PROVE  Sayings(p) \subseteq Sayings(p)'
BY ConfigFrame DEF Advances, Sayings, HasKey, IsVerified

(* What a peer that does nothing may say stays the same. *)
LEMMA SpeakerStays ==
  ASSUME NEW q, UNCHANGED config, Leaves(q)
  PROVE  Sayings(q)' = Sayings(q)
BY ConfigFrame DEF Leaves, Sayings, HasKey, IsVerified

(* The part of the invariant that is about the other peer's own fields. *)
LEMMA OtherStays ==
  ASSUME NEW p \in Peer, NEW q \in Peer, q = Other(p),
         PeerInv(q), Advances(p), Leaves(q)
  PROVE  /\ DataInv(q)' /\ StateInv(q)' /\ RequestInv(q)' /\ VerifiedInv(q)'
         /\ GotConfirmation(q)' <=> GotConfirmation(q)
<1>1. Other(q) = p
  BY PeerFacts
<1>2. UNCHANGED config
  BY DEF Advances
<1>3. DataInv(q)'
  BY <1>2, ConfigFrame DEF PeerInv, DataInv, Leaves, HasKey, config, Other, TokenAccepted
<1>4. StateInv(q)'
  BY <1>2, ConfigFrame DEF PeerInv, StateInv, Leaves, HasKey, config
<1>5. RequestInv(q)'
  BY <1>1, <1>2, ConfigFrame
  DEF PeerInv, RequestInv, Leaves, Advances, HasKey, FinishRequest, config
<1>6. VerifiedInv(q)'
  BY <1>1, <1>2, ConfigFrame DEF PeerInv, VerifiedInv, Leaves, Advances, IsVerified, HasKey
<1>7. GotConfirmation(q)' <=> GotConfirmation(q)
  BY DEF GotConfirmation, Leaves, IsVerified
<1>. QED
  BY <1>3, <1>4, <1>5, <1>6, <1>7

(* p sends nothing. *)
LEMMA ChannelQuiet ==
  ASSUME NEW p \in Peer, NEW q \in Peer, q = Other(p),
         PeerInv(q), Advances(p), Leaves(q), chan'[q] = chan[q]
  PROVE  ChannelInv(q)'
<1>1. Other(q) = p
  BY PeerFacts
<1>2. GotConfirmation(q)' <=> GotConfirmation(q)
  BY OtherStays
<1>. QED
  BY <1>1, <1>2, SpeakerAdvances DEF PeerInv, ChannelInv, Leaves

(* p sends m, which comes after everything it has sent before. *)
LEMMA ChannelSend ==
  ASSUME TypeOK, NEW p \in Peer, NEW q \in Peer, q = Other(p),
         PeerInv(q), Advances(p), Leaves(q),
         NEW m \in Message, chan'[q] = Append(chan[q], m),
         m \in Sayings(p)',
         \A i \in 1..Len(chan[q]) : Rank(chan[q][i]) < Rank(m),
         GotConfirmation(q) => m.type = "status",
         state[q] # "Authenticated"
  PROVE  ChannelInv(q)'
<1>1. Other(q) = p
  BY PeerFacts
<1>2. GotConfirmation(q)' <=> GotConfirmation(q)
  BY OtherStays
<1>3. chan[q] \in Seq(Message)
  BY DEF TypeOK
<1>4. /\ Len(chan[q]) \in Nat
      /\ Len(chan'[q]) = Len(chan[q]) + 1
      /\ chan'[q][Len(chan[q]) + 1] = m
      /\ \A i \in 1..Len(chan[q]) : chan'[q][i] = chan[q][i]
  BY <1>3, AppendFacts, LenProperties
<1>5. \A i \in 1..Len(chan'[q]) : i \in 1..Len(chan[q]) \/ i = Len(chan[q]) + 1
  BY <1>4
<1>6. data'[q].pending \in Sayings(p)' \cup {None}
  BY <1>1, SpeakerAdvances DEF PeerInv, ChannelInv, Leaves
<1>7. \A i \in 1..Len(chan'[q]) : chan'[q][i] \in Sayings(p)'
  BY <1>1, <1>4, <1>5, SpeakerAdvances DEF PeerInv, ChannelInv
<1>8. \A i, j \in 1..Len(chan'[q]) : i < j => Rank(chan'[q][i]) < Rank(chan'[q][j])
  BY <1>4, <1>5 DEF PeerInv, ChannelInv
<1>9. GotConfirmation(q) => \A i \in 1..Len(chan'[q]) : chan'[q][i].type = "status"
  BY <1>4, <1>5 DEF PeerInv, ChannelInv
<1>. QED
  BY <1>1, <1>2, <1>6, <1>7, <1>8, <1>9 DEF ChannelInv, Leaves, Rank

(* p takes the first message of its channel. *)
LEMMA ChannelReceive ==
  ASSUME TypeOK, NEW p \in Peer, NEW q \in Peer, q = Other(p), PeerInv(p),
         UNCHANGED config, Leaves(q),
         chan[p] # <<>>, chan'[p] = Tail(chan[p]),
         data'[p].pending \in {None, data[p].pending, Head(chan[p])},
         GotConfirmation(p)' => \/ GotConfirmation(p)
                                \/ Head(chan[p]).type \in {"confirmation", "status"},
         state'[p] = "Authenticated" => Head(chan[p]).type = "status"
  PROVE  ChannelInv(p)'
<1>1. chan[p] \in Seq(Message)
  BY DEF TypeOK
<1>2. /\ Len(chan[p]) \in Nat
      /\ Head(chan[p]) = chan[p][1]
      /\ 1 \in 1..Len(chan[p])
      /\ chan'[p] \in Seq(Message)
      /\ Len(chan'[p]) = Len(chan[p]) - 1
      /\ Len(chan'[p]) \in Nat
      /\ \A i \in 1..Len(chan'[p]) :
           i + 1 \in 1..Len(chan[p]) /\ chan'[p][i] = chan[p][i + 1]
  BY <1>1, TailFacts, LenProperties
<1>3. Sayings(q)' = Sayings(q)
  BY SpeakerStays
<1>4. data'[p].pending \in Sayings(q)' \cup {None}
  BY <1>2, <1>3 DEF PeerInv, ChannelInv
<1>5. \A i \in 1..Len(chan'[p]) : chan'[p][i] \in Sayings(q)'
  BY <1>2, <1>3 DEF PeerInv, ChannelInv
<1>6. \A i, j \in 1..Len(chan'[p]) : i < j => Rank(chan'[p][i]) < Rank(chan'[p][j])
  BY <1>2 DEF PeerInv, ChannelInv
<1>7. \A i \in 1..Len(chan'[p]) :
        Rank(Head(chan[p])) < Rank(chan'[p][i]) /\ chan'[p][i] \in Sayings(q)
  BY <1>2 DEF PeerInv, ChannelInv
<1>8. \A i \in 1..Len(chan'[p]) :
        Rank(chan'[p][i]) > 3 => chan'[p][i].type = "status"
  BY <1>7, SayingRanks
<1>9. \A i \in 1..Len(chan'[p]) : Rank(chan'[p][i]) \in 1..4
  BY DEF Rank
<1>10. Head(chan[p]).type = "confirmation" =>
         \A i \in 1..Len(chan'[p]) : chan'[p][i].type = "status"
  BY <1>7, <1>8, <1>9 DEF Rank
<1>11. Head(chan[p]).type = "status" => \A i \in 1..Len(chan'[p]) : FALSE
  <2>1. Head(chan[p]).type = "status" => Rank(Head(chan[p])) = 4
    BY DEF Rank
  <2>. QED
    BY <2>1, <1>7, <1>9
<1>12. Head(chan[p]).type = "status" => chan'[p] = <<>>
  BY <1>2, <1>11, NoElement
<1>13. ASSUME GotConfirmation(p)', NEW i \in 1..Len(chan'[p])
       PROVE  chan'[p][i].type = "status"
  <2>1. CASE GotConfirmation(p)
    BY <2>1, <1>2 DEF PeerInv, ChannelInv
  <2>2. CASE Head(chan[p]).type = "confirmation"
    BY <2>2, <1>10
  <2>3. CASE Head(chan[p]).type = "status"
    BY <2>3, <1>11
  <2>. QED
    BY <1>13, <2>1, <2>2, <2>3
<1>. QED
  BY <1>4, <1>5, <1>6, <1>12, <1>13 DEF ChannelInv, Rank

(* p takes nothing. *)
LEMMA ChannelKept ==
  ASSUME NEW p \in Peer, NEW q \in Peer, q = Other(p), PeerInv(p),
         UNCHANGED config, Leaves(q), chan'[p] = chan[p],
         data'[p].pending \in {None, data[p].pending},
         GotConfirmation(p)' => GotConfirmation(p),
         state'[p] # "Authenticated"
  PROVE  ChannelInv(p)'
BY SpeakerStays DEF PeerInv, ChannelInv

----------------------------------------------------------------------------
(* The invariant, action by action *)

(* Initially the invariant holds. *)
LEMMA InitInv == Init => IInv
<1> SUFFICES ASSUME Init PROVE IInv
  OBVIOUS
<1>1. TypeOK
  BY EmptySeq DEF Init, TypeOK, StateName, EmptyCryptoData, CryptoData, NoRequest, CryptoRequest
<1>2. ASSUME NEW p \in Peer PROVE PeerInv(p)
  <2>1. Len(chan[p]) = 0 /\ chan[p] = <<>> /\ \A i \in 1..Len(chan[p]) : FALSE
    BY EmptySeq DEF Init
  <2>2. /\ state[p] = "Idle" /\ request[p] = NoRequest
        /\ provider[p] = None /\ data[p] = EmptyCryptoData
    BY DEF Init
  <2>. QED
    BY <2>1, <2>2 DEF PeerInv, DataInv, StateInv, RequestInv, ChannelInv,
      VerifiedInv, GotConfirmation, IsVerified, HasKey, NoRequest, EmptyCryptoData
<1>. QED
  BY <1>1, <1>2 DEF IInv

(* The parts of a step of p put together. *)
LEMMA StepInv ==
  ASSUME IInv, NEW p \in Peer, NEW q \in Peer, q = Other(p),
         TypeOK', Advances(p), Leaves(q), ChannelInv(q)',
         DataInv(p)', StateInv(p)', RequestInv(p)', ChannelInv(p)', VerifiedInv(p)'
  PROVE  IInv'
<1>1. \A r \in Peer : r = p \/ r = q
  BY PeerFacts
<1>2. PeerInv(q)
  BY DEF IInv
<1>3. DataInv(q)' /\ StateInv(q)' /\ RequestInv(q)' /\ VerifiedInv(q)'
  BY <1>2, OtherStays
<1>4. PeerInv(p)' /\ PeerInv(q)'
  BY <1>3 DEF PeerInv
<1>. QED
  BY <1>1, <1>4 DEF IInv

(* What Receive does to the channels. *)
LEMMA ReceiveFacts ==
  ASSUME TypeOK, NEW p \in Peer, NEW q \in Peer, q = Other(p), PeerInv(p),
         NEW s, Receive(p, s)
  PROVE  /\ state[p] = s
         /\ chan[p] # <<>>
         /\ chan'[p] = Tail(chan[p]) /\ chan'[q] = chan[q]
         /\ chan' \in [Peer -> Seq(Message)]
         /\ Head(chan[p]) \in Message
         /\ Head(chan[p]) \in Sayings(q)
<1>1. p # q
  BY PeerFacts
<1>2. chan[p] # <<>> /\ chan[p] \in Seq(Message)
  BY DEF Receive, DataReady, TypeOK
<1>3. /\ Tail(chan[p]) \in Seq(Message) /\ Head(chan[p]) \in Message
      /\ 1 \in 1..Len(chan[p]) /\ Head(chan[p]) = chan[p][1]
  BY <1>2, TailFacts
<1>4. Head(chan[p]) \in Sayings(q)
  BY <1>3 DEF PeerInv, ChannelInv
<1>. QED
  BY <1>1, <1>2, <1>3, <1>4 DEF Receive, TypeOK

(* What Send does to the two channels. *)
LEMMA SendFacts ==
  ASSUME TypeOK, NEW p \in Peer, NEW q \in Peer, q = Other(p),
         NEW m \in Message, Send(p, m)
  PROVE  /\ chan'[q] = Append(chan[q], m) /\ chan'[p] = chan[p]
         /\ chan' \in [Peer -> Seq(Message)]
<1>1. p # q
  BY PeerFacts
<1>2. Append(chan[q], m) \in Seq(Message)
  BY AppendFacts DEF TypeOK
<1>. QED
  BY <1>1, <1>2 DEF Send, TypeOK

(* As long as p has no key, the other peer has no confirmation of it. *)
LEMMA BeforeKey ==
  ASSUME NEW p \in Peer, NEW q \in Peer, q = Other(p),
         PeerInv(p), PeerInv(q), ~HasKey(p)
  PROVE  /\ ~GotConfirmation(q)
         /\ state[q] # "Authenticated"
         /\ \A i \in 1..Len(chan[q]) : chan[q][i] \in {Hello, HS(p)}
         /\ \A i \in 1..Len(chan[q]) : Rank(chan[q][i]) <= 2
<1>1. Other(q) = p
  BY PeerFacts
<1>2. Sayings(p) \subseteq {Hello, HS(p)}
  BY DEF PeerInv, StateInv, Sayings, IsVerified
<1>3. \A i \in 1..Len(chan[q]) : chan[q][i] \in {Hello, HS(p)}
  BY <1>1, <1>2 DEF PeerInv, ChannelInv
<1>4. ~GotConfirmation(q) /\ state[q] # "Authenticated"
  BY <1>1, <1>2, RankFacts DEF PeerInv, RequestInv, ChannelInv, VerifiedInv,
    GotConfirmation, IsVerified
<1>. QED
  BY <1>3, <1>4, RankFacts

(* Idle, TransportConnected: the first message of p. *)
LEMMA TransportConnectedInv ==
  ASSUME IInv, NEW p \in Peer, TransportConnected(p)
  PROVE  IInv'
<1> DEFINE q == Other(p)
<1>1. TypeOK /\ PeerInv(p) /\ PeerInv(q) /\ q \in Peer /\ q # p /\ Other(q) = p
  BY PeerFacts DEF IInv
<1>2. /\ state[p] = "Idle" /\ state'[p] = "AwaitingCapabilities"
      /\ chan'[q] = Append(chan[q], Hello) /\ chan'[p] = chan[p]
      /\ UNCHANGED <<config, data, request, provider, driver>>
      /\ Leaves(q)
  BY <1>1 DEF TransportConnected, Goto, Send, TypeOK, Leaves, Hello
<1>3. Hello \in Message /\ Append(chan[q], Hello) \in Seq(Message)
  BY <1>1, ValueFacts, AppendFacts DEF TypeOK
<1>4. TypeOK'
  BY <1>1, <1>3 DEF TransportConnected, Goto, Send, TypeOK, StateName, config, Hello
<1>5. Advances(p)
  BY <1>2 DEF Advances, HasKey, IsVerified
<1>6. DataInv(p)' /\ StateInv(p)' /\ RequestInv(p)' /\ VerifiedInv(p)'
  BY <1>1, <1>2, ConfigFrame DEF PeerInv, DataInv, StateInv, RequestInv, VerifiedInv,
    HasKey, IsVerified, TokenAccepted, FinishRequest, config
<1>7. ChannelInv(p)'
  BY <1>1, <1>2, ChannelKept DEF GotConfirmation, IsVerified
<1>8. ChannelInv(q)'
  <2>1. Sayings(p) = {}
    BY <1>1, <1>2, ValueFacts DEF PeerInv, DataInv, StateInv, Sayings, HasKey, IsVerified
  <2>2. \A i \in 1..Len(chan[q]) : FALSE
    BY <1>1, <2>1 DEF PeerInv, ChannelInv
  <2>3. ~GotConfirmation(q) /\ state[q] # "Authenticated"
    BY <1>1, <1>2, <2>1 DEF PeerInv, RequestInv, ChannelInv, VerifiedInv, StateInv,
      GotConfirmation, IsVerified, HasKey
  <2>4. Hello \in Sayings(p)'
    BY <1>2 DEF Sayings, Hello
  <2>. QED
    BY <1>1, <1>2, <1>3, <1>5, <2>2, <2>3, <2>4, ChannelSend
<1>. QED
  BY <1>1, <1>2, <1>4, <1>5, <1>6, <1>7, <1>8, StepInv

(* AwaitingCapabilities, DataReceived. *)
LEMMA ReceiveCapabilitiesInv ==
  ASSUME IInv, NEW p \in Peer, ReceiveCapabilities(p)
  PROVE  IInv'
<1> DEFINE q == Other(p)
<1>1. TypeOK /\ PeerInv(p) /\ PeerInv(q) /\ q \in Peer /\ q # p /\ Other(q) = p
  BY PeerFacts DEF IInv
<1>2. Receive(p, "AwaitingCapabilities") /\ Head(chan[p]).type = "capabilities"
  BY DEF ReceiveCapabilities
<1>3. /\ state[p] = "AwaitingCapabilities" /\ chan[p] # <<>>
      /\ chan'[p] = Tail(chan[p]) /\ chan'[q] = chan[q]
      /\ chan' \in [Peer -> Seq(Message)]
  BY <1>1, <1>2, ReceiveFacts
<1>4. /\ state'[p] = IF isResponder[p] THEN "AwaitingHandshake" ELSE "InitiatingHandshake"
      /\ request'[p] = IF isResponder[p] THEN request[p] ELSE StartRequest(p)
      /\ UNCHANGED <<config, data, provider, driver>>
      /\ Leaves(q)
  BY <1>1 DEF ReceiveCapabilities, Goto, RequestCrypto, TypeOK, Leaves
<1>5. TypeOK'
  <2>1. StartRequest(p) \in CryptoRequest
    BY <1>1 DEF TypeOK, StartRequest, CryptoRequest
  <2>. QED
    BY <1>1, <1>3, <2>1
    DEF ReceiveCapabilities, Goto, RequestCrypto, TypeOK, StateName, config
<1>6. Advances(p)
  BY <1>3, <1>4 DEF Advances, HasKey, IsVerified
<1>7. request[p] = NoRequest
  BY <1>1, <1>3 DEF PeerInv, RequestInv
<1>8. DataInv(p)' /\ StateInv(p)' /\ VerifiedInv(p)'
  BY <1>1, <1>3, <1>4, ConfigFrame DEF PeerInv, DataInv, StateInv, VerifiedInv,
    HasKey, IsVerified, TokenAccepted, config
<1>9. RequestInv(p)' /\ request'[p].op # "verify"
  BY <1>1, <1>3, <1>4, <1>7, ConfigFrame DEF PeerInv, RequestInv, StartRequest, NoRequest,
    config
<1>10. ChannelInv(p)'
  <2>1. GotConfirmation(p)' => GotConfirmation(p)
    BY <1>3, <1>4, <1>9 DEF GotConfirmation, IsVerified
  <2>. QED
    BY <1>1, <1>3, <1>4, <2>1, ChannelReceive
<1>11. ChannelInv(q)'
  BY <1>1, <1>3, <1>4, <1>6, ChannelQuiet
<1>. QED
  BY <1>1, <1>4, <1>5, <1>6, <1>8, <1>9, <1>10, <1>11, StepInv

(* AwaitingHandshake, DataReceived: the responder asks for a public value, *)
(* the initiator derives its keys.                                         *)
LEMMA ReceiveHandshakeInv ==
  ASSUME IInv, NEW p \in Peer, ReceiveHandshake(p)
  PROVE  IInv'
<1> DEFINE q == Other(p)
           m == Head(chan[p])
           t == InitiatorTranscript(p, m)
<1>1. TypeOK /\ PeerInv(p) /\ PeerInv(q) /\ q \in Peer /\ q # p /\ Other(q) = p
  BY PeerFacts DEF IInv
<1>2. /\ Receive(p, "AwaitingHandshake") /\ m.type = "handshake"
      /\ TokenAccepted(p, m.token)
  BY DEF ReceiveHandshake
<1>3. /\ state[p] = "AwaitingHandshake" /\ chan[p] # <<>>
      /\ chan'[p] = Tail(chan[p]) /\ chan'[q] = chan[q]
      /\ chan' \in [Peer -> Seq(Message)]
      /\ m \in Sayings(q)
  BY <1>1, <1>2, ReceiveFacts
<1>4. m = HS(q) /\ m.public = PV(q) /\ m \in Handshake /\ m # None
  <2>1. m = HS(q)
    BY <1>2, <1>3, RankFacts DEF Sayings
  <2>. QED
    BY <1>1, <2>1, ValueFacts DEF HS
<1>5. ~HasKey(p) /\ (isResponder[p] <=> data[p].ours = None) /\ request[p] = NoRequest
  BY <1>1, <1>3 DEF PeerInv, StateInv, RequestInv
<1>6. UNCHANGED <<config, provider, driver>> /\ Leaves(q)
  BY <1>1 DEF ReceiveHandshake, Goto, RequestCrypto, TypeOK, Leaves
<1>7. CASE NeedsOwnPublicValue(p)
  <2>1. /\ state'[p] = "GeneratingHandshake"
        /\ data'[p] = [data[p] EXCEPT !.theirs = m]
        /\ request'[p] = StartRequest(p)
    BY <1>1, <1>7 DEF ReceiveHandshake, Goto, RequestCrypto, TypeOK
  <2>2. /\ data'[p].public = data[p].public /\ data'[p].ours = data[p].ours
        /\ data'[p].secret = data[p].secret /\ data'[p].pending = data[p].pending
        /\ data'[p].theirs = m /\ data'[p].transcript = data[p].transcript
    BY <1>1, <2>1 DEF TypeOK, CryptoData
  <2>3. TypeOK'
    <3>1. StartRequest(p) \in CryptoRequest
      BY <1>1 DEF TypeOK, StartRequest, CryptoRequest
    <3>2. data'[p] \in CryptoData
      BY <1>1, <1>4, <2>1 DEF TypeOK, CryptoData
    <3>. QED
      BY <1>1, <1>3, <1>7, <3>1, <3>2
      DEF ReceiveHandshake, Goto, RequestCrypto, TypeOK, StateName, config
  <2>4. Advances(p)
    BY <1>3, <1>6, <2>1, <2>2 DEF Advances, HasKey, IsVerified
  <2>5. isResponder[p] /\ data[p].ours = None
    BY <1>5, <1>7 DEF NeedsOwnPublicValue
  <2>6. DataInv(p)'
    BY <1>1, <1>2, <1>4, <1>5, <1>6, <2>2, ConfigFrame
    DEF PeerInv, DataInv, HasKey, TokenAccepted, config, HS
  <2>7. StateInv(p)' /\ VerifiedInv(p)'
    BY <1>4, <1>5, <1>6, <2>1, <2>2, <2>5 DEF StateInv, VerifiedInv, HasKey, IsVerified, config
  <2>8. RequestInv(p)' /\ request'[p].op # "verify"
    BY <1>6, <2>1, ConfigFrame DEF RequestInv, StartRequest
  <2>9. GotConfirmation(p)' => GotConfirmation(p)
    BY <2>1, <2>2, <2>8 DEF GotConfirmation, IsVerified
  <2>10. ChannelInv(p)'
    BY <1>1, <1>3, <1>6, <2>1, <2>2, <2>9, ChannelReceive
  <2>11. ChannelInv(q)'
    BY <1>1, <1>3, <1>6, <2>4, ChannelQuiet
  <2>. QED
    BY <1>1, <1>6, <2>3, <2>4, <2>6, <2>7, <2>8, <2>10, <2>11, StepInv
<1>8. CASE ~NeedsOwnPublicValue(p)
  <2>1. /\ state'[p] = "Computing"
        /\ data'[p] = [data[p] EXCEPT !.theirs = m, !.transcript = t]
        /\ request'[p] = FinishRequest(p, m.public, t)
    BY <1>1, <1>8 DEF ReceiveHandshake, Goto, RequestCrypto, TypeOK
  <2>2. /\ data'[p].public = data[p].public /\ data'[p].ours = data[p].ours
        /\ data'[p].secret = data[p].secret /\ data'[p].pending = data[p].pending
        /\ data'[p].theirs = m /\ data'[p].transcript = t
    BY <1>1, <2>1 DEF TypeOK, CryptoData
  <2>3. ~isResponder[p] /\ data[p].ours = HS(p)
    BY <1>1, <1>5, <1>8, ValueFacts DEF NeedsOwnPublicValue, PeerInv, DataInv
  <2>4. t = TR(p) /\ t \in Seq(Handshake)
    BY <1>1, <1>4, <2>3, ValueFacts DEF InitiatorTranscript, TR
  <2>5. TypeOK'
    <3>1. FinishRequest(p, m.public, t) \in CryptoRequest
      BY <1>1, <1>4, <2>4, ValueFacts DEF TypeOK, FinishRequest, CryptoRequest
    <3>2. data'[p] \in CryptoData
      <4>1. data[p] \in CryptoData /\ m \in Handshake
        BY <1>1, <1>4 DEF TypeOK
      <4>. QED
        BY <2>1, <2>4, <4>1, ZenonT(30) DEF CryptoData
    <3>3. /\ state' = [state EXCEPT ![p] = "Computing"]
          /\ request' = [request EXCEPT ![p] = FinishRequest(p, m.public, t)]
          /\ data' = [data EXCEPT ![p].theirs = m, ![p].transcript = t]
      BY <1>8 DEF ReceiveHandshake, Goto, RequestCrypto
    <3>4. data' \in [Peer -> CryptoData]
      BY <1>1, <3>2, <3>3 DEF TypeOK
    <3>. QED
      BY <1>1, <1>3, <1>6, <3>1, <3>3, <3>4 DEF TypeOK, StateName, config
  <2>6. Advances(p)
    BY <1>3, <1>6, <2>1, <2>2 DEF Advances, HasKey, IsVerified
  <2>7. DataInv(p)'
    BY <1>1, <1>2, <1>4, <1>5, <1>6, <2>2, ConfigFrame
    DEF PeerInv, DataInv, HasKey, TokenAccepted, config, HS
  <2>8. StateInv(p)' /\ VerifiedInv(p)'
    BY <2>1 DEF StateInv, VerifiedInv, IsVerified
  <2>9. RequestInv(p)' /\ request'[p].op # "verify"
    BY <1>1, <1>4, <1>5, <1>6, <2>1, <2>2, <2>4, ConfigFrame
    DEF RequestInv, FinishRequest, HasKey, config
  <2>10. GotConfirmation(p)' => GotConfirmation(p)
    BY <2>1, <2>2, <2>9 DEF GotConfirmation, IsVerified
  <2>11. ChannelInv(p)'
    BY <1>1, <1>3, <1>6, <2>1, <2>2, <2>10, ChannelReceive
  <2>12. ChannelInv(q)'
    BY <1>1, <1>3, <1>6, <2>6, ChannelQuiet
  <2>. QED
    BY <1>1, <1>6, <2>5, <2>6, <2>7, <2>8, <2>9, <2>11, <2>12, StepInv
<1>. QED
  BY <1>7, <1>8

(* Computing, DataReceived. *)
LEMMA BufferDataInv ==
  ASSUME IInv, NEW p \in Peer, BufferData(p)
  PROVE  IInv'
<1> DEFINE q == Other(p)
           m == Head(chan[p])
<1>1. TypeOK /\ PeerInv(p) /\ PeerInv(q) /\ q \in Peer /\ q # p /\ Other(q) = p
  BY PeerFacts DEF IInv
<1>2. Receive(p, "Computing")
  BY DEF BufferData
<1>3. /\ state[p] = "Computing" /\ chan[p] # <<>>
      /\ chan'[p] = Tail(chan[p]) /\ chan'[q] = chan[q]
      /\ chan' \in [Peer -> Seq(Message)]
      /\ m \in Message
  BY <1>1, <1>2, ReceiveFacts
<1>4. /\ UNCHANGED <<config, state, request, provider, driver>>
      /\ data'[p] = [data[p] EXCEPT !.pending = m]
      /\ Leaves(q)
  BY <1>1 DEF BufferData, TypeOK, Leaves
<1>5. /\ data'[p].public = data[p].public /\ data'[p].ours = data[p].ours
      /\ data'[p].secret = data[p].secret /\ data'[p].pending = m
      /\ data'[p].theirs = data[p].theirs /\ data'[p].transcript = data[p].transcript
  BY <1>1, <1>4 DEF TypeOK, CryptoData
<1>6. TypeOK'
  <2>1. data'[p] \in CryptoData
    BY <1>1, <1>3, <1>4 DEF TypeOK, CryptoData
  <2>. QED
    BY <1>1, <1>3, <1>4, <2>1 DEF BufferData, TypeOK, config
<1>7. Advances(p)
  BY <1>4, <1>5 DEF Advances, HasKey, IsVerified
<1>8. DataInv(p)' /\ StateInv(p)' /\ VerifiedInv(p)'
  BY <1>1, <1>3, <1>4, <1>5, ConfigFrame DEF PeerInv, DataInv, StateInv, VerifiedInv,
    HasKey, IsVerified, TokenAccepted, config
<1>9. RequestInv(p)'
  BY <1>1, <1>3, <1>4, <1>5, <1>7, ConfigFrame DEF PeerInv, RequestInv, FinishRequest,
    HasKey, Leaves, config
<1>10. GotConfirmation(p)' => GotConfirmation(p) \/ m.type \in {"confirmation", "status"}
  BY <1>4, <1>5 DEF GotConfirmation, IsVerified
<1>11. ChannelInv(p)'
  BY <1>1, <1>3, <1>4, <1>5, <1>10, ChannelReceive
<1>12. ChannelInv(q)'
  BY <1>1, <1>3, <1>4, <1>7, ChannelQuiet
<1>. QED
  BY <1>1, <1>4, <1>6, <1>7, <1>8, <1>9, <1>11, <1>12, StepInv

(* AwaitingConfirmation, DataReceived. *)
LEMMA ReceiveConfirmationInv ==
  ASSUME IInv, NEW p \in Peer, ReceiveConfirmation(p)
  PROVE  IInv'
<1> DEFINE q == Other(p)
           m == Head(chan[p])
           r == VerifyRequest(p, data[p].secret, m.value)
<1>1. TypeOK /\ PeerInv(p) /\ PeerInv(q) /\ q \in Peer /\ q # p /\ Other(q) = p
  BY PeerFacts DEF IInv
<1>2. Receive(p, "AwaitingConfirmation") /\ m.type = "confirmation"
  BY DEF ReceiveConfirmation
<1>3. /\ state[p] = "AwaitingConfirmation" /\ chan[p] # <<>>
      /\ chan'[p] = Tail(chan[p]) /\ chan'[q] = chan[q]
      /\ chan' \in [Peer -> Seq(Message)]
      /\ m \in Sayings(q)
  BY <1>1, <1>2, ReceiveFacts
<1>4. m.value = MAC(q) /\ HasKey(q)
  <2>1. m = Conf(q) /\ HasKey(q)
    BY <1>2, <1>3, RankFacts DEF Sayings
  <2>. QED
    BY <2>1 DEF Conf
<1>5. /\ HasKey(p) /\ data[p].secret = Key(p) /\ data[p].transcript = TR(p)
      /\ request[p] = NoRequest
  BY <1>1, <1>3 DEF PeerInv, StateInv, DataInv, RequestInv
<1>6. /\ UNCHANGED <<config, data, provider, driver>>
      /\ state' = [state EXCEPT ![p] = "Computing"] /\ state'[p] = "Computing"
      /\ request' = [request EXCEPT ![p] = r] /\ request'[p] = r
      /\ Leaves(q)
  BY <1>1 DEF ReceiveConfirmation, Goto, RequestCrypto, TypeOK, Leaves
<1>7. r = [op |-> "verify",
           context |-> [key |-> [secret |-> Key(p), responder |-> ~isResponder[p]],
                        transcript |-> TR(p)],
           confirmation |-> MAC(q)]
  BY <1>4, <1>5 DEF VerifyRequest
<1>8. TypeOK'
  <2>1. r.context \in Mac
    <3>1. Key(p) \in Secret /\ TR(p) \in Seq(Handshake) /\ (~isResponder[p]) \in BOOLEAN
      BY <1>1, ValueFacts
    <3>2. [secret |-> Key(p), responder |-> ~isResponder[p]] \in ConfirmationKey
      BY <3>1 DEF ConfirmationKey
    <3>3. r.context = [key |-> [secret |-> Key(p), responder |-> ~isResponder[p]],
                       transcript |-> TR(p)]
      BY <1>7
    <3>. QED
      BY <3>1, <3>2, <3>3 DEF Mac
  <2>2. r \in CryptoRequest
    BY <1>1, <1>7, <2>1, ValueFacts DEF CryptoRequest
  <2>. QED
    BY <1>1, <1>3, <1>6, <2>2 DEF TypeOK, StateName, config
<1>9. Advances(p)
  BY <1>3, <1>6 DEF Advances, HasKey, IsVerified
<1>10. DataInv(p)' /\ StateInv(p)' /\ VerifiedInv(p)'
  BY <1>1, <1>3, <1>6, ConfigFrame DEF PeerInv, DataInv, StateInv, VerifiedInv,
    HasKey, IsVerified, TokenAccepted, config
<1>11. RequestInv(p)'
  BY <1>1, <1>4, <1>5, <1>6, <1>7, ConfigFrame DEF RequestInv, HasKey, config, NoRequest
<1>12. ChannelInv(p)'
  BY <1>1, <1>2, <1>3, <1>6, ChannelReceive
<1>13. ChannelInv(q)'
  BY <1>1, <1>3, <1>6, <1>9, ChannelQuiet
<1>. QED
  BY <1>1, <1>6, <1>8, <1>9, <1>10, <1>11, <1>12, <1>13, StepInv

(* AwaitingStatus, DataReceived: only a peer that has verified says status. *)
LEMMA ReceiveStatusInv ==
  ASSUME IInv, NEW p \in Peer, ReceiveStatus(p)
  PROVE  IInv'
<1> DEFINE q == Other(p)
           m == Head(chan[p])
<1>1. TypeOK /\ PeerInv(p) /\ PeerInv(q) /\ q \in Peer /\ q # p /\ Other(q) = p
  BY PeerFacts DEF IInv
<1>2. Receive(p, "AwaitingStatus") /\ m.type = "status"
  BY DEF ReceiveStatus
<1>3. /\ state[p] = "AwaitingStatus" /\ chan[p] # <<>>
      /\ chan'[p] = Tail(chan[p]) /\ chan'[q] = chan[q]
      /\ chan' \in [Peer -> Seq(Message)]
      /\ m \in Sayings(q)
  BY <1>1, <1>2, ReceiveFacts
<1>4. m = Ok /\ IsVerified(q)
  BY <1>2, <1>3, RankFacts DEF Sayings
<1>5. /\ UNCHANGED <<config, data, request, provider, driver>>
      /\ state' = [state EXCEPT ![p] = "Authenticated"] /\ state'[p] = "Authenticated"
      /\ Leaves(q)
  <2>1. m.status = "Ok"
    BY <1>4 DEF Ok
  <2>2. /\ UNCHANGED <<config, data, request, provider, driver>>
        /\ state' = [state EXCEPT ![p] = "Authenticated"]
    BY <2>1 DEF ReceiveStatus, Goto
  <2>. QED
    BY <1>1, <2>2 DEF TypeOK, Leaves
<1>6. TypeOK'
  BY <1>1, <1>3, <1>5 DEF TypeOK, StateName, config
<1>7. Advances(p)
  BY <1>5 DEF Advances, HasKey, IsVerified
<1>8. DataInv(p)' /\ StateInv(p)' /\ RequestInv(p)'
  BY <1>1, <1>3, <1>5, ConfigFrame DEF PeerInv, DataInv, StateInv, RequestInv,
    HasKey, IsVerified, TokenAccepted, config
<1>9. VerifiedInv(p)'
  BY <1>1, <1>3, <1>4, <1>5, ConfigFrame DEF PeerInv, VerifiedInv, IsVerified, HasKey, Leaves
<1>10. ChannelInv(p)'
  BY <1>1, <1>2, <1>3, <1>5, ChannelReceive
<1>11. ChannelInv(q)'
  BY <1>1, <1>3, <1>5, <1>7, ChannelQuiet
<1>. QED
  BY <1>1, <1>5, <1>6, <1>7, <1>8, <1>9, <1>10, <1>11, StepInv

(* A handler returns Err. *)
LEMMA RejectDataInv ==
  ASSUME IInv, NEW p \in Peer, RejectData(p)
  PROVE  IInv'
<1> DEFINE q == Other(p)
           m == Head(chan[p])
<1>1. TypeOK /\ PeerInv(p) /\ PeerInv(q) /\ q \in Peer /\ q # p /\ Other(q) = p
  BY PeerFacts DEF IInv
<1>2. PICK s \in DOMAIN Expects :
        Receive(p, s) /\ (m.type # Expects[s] \/ s = "AwaitingHandshake")
  BY DEF RejectData
<1>3. /\ state[p] = s /\ chan[p] # <<>>
      /\ chan'[p] = Tail(chan[p]) /\ chan'[q] = chan[q]
      /\ chan' \in [Peer -> Seq(Message)]
      /\ m = chan[p][1] /\ 1 \in 1..Len(chan[p])
  BY <1>1, <1>2, ReceiveFacts, TailFacts DEF TypeOK
<1>4. s \in {"AwaitingCapabilities", "AwaitingHandshake", "AwaitingConfirmation"}
  BY <1>1, <1>2, <1>3 DEF Expects, PeerInv, ChannelInv, GotConfirmation, IsVerified
<1>5. /\ UNCHANGED <<config, data, request, provider>>
      /\ state' = [state EXCEPT ![p] = "Poisoned"] /\ state'[p] = "Poisoned"
      /\ driver' = [driver EXCEPT ![p] = "stopped"]
      /\ Leaves(q)
  BY <1>1 DEF RejectData, Goto, TypeOK, Leaves
<1>6. TypeOK'
  BY <1>1, <1>3, <1>5 DEF TypeOK, StateName, config
<1>7. Advances(p)
  BY <1>3, <1>4, <1>5 DEF Advances, HasKey, IsVerified
<1>8. DataInv(p)' /\ StateInv(p)' /\ RequestInv(p)' /\ VerifiedInv(p)'
  BY <1>1, <1>3, <1>4, <1>5, ConfigFrame DEF PeerInv, DataInv, StateInv, RequestInv,
    VerifiedInv, HasKey, IsVerified, TokenAccepted, NoRequest, config
<1>9. GotConfirmation(p)' => GotConfirmation(p)
  BY <1>5 DEF GotConfirmation, IsVerified
<1>10. ChannelInv(p)'
  BY <1>1, <1>3, <1>5, <1>9, ChannelReceive
<1>11. ChannelInv(q)'
  BY <1>1, <1>3, <1>5, <1>7, ChannelQuiet
<1>. QED
  BY <1>1, <1>5, <1>6, <1>7, <1>8, <1>10, <1>11, StepInv

(* The answer to Start is what the configuration determines. *)
LEMMA StartFacts ==
  ASSUME TypeOK, NEW p \in Peer, PeerInv(p), request[p].op = "start"
  PROVE  /\ NewPublicValue(p) = PV(p)
         /\ OwnHandshake(p) = HS(p)
         /\ KeepSpake2State(p) =>
              /\ provider' \in [Peer -> Spake2State \cup {None}]
              /\ provider'[p] = [psk |-> psk[p], public |-> PV(p)]
<1>1. request[p].psk = psk[p] /\ request[p].responder = isResponder[p]
  BY DEF PeerInv, RequestInv, StartRequest
<1>2. NewPublicValue(p) = PV(p)
  BY <1>1 DEF NewPublicValue, PV
<1>3. OwnHandshake(p) = HS(p)
  BY <1>2 DEF OwnHandshake, HS
<1>4. [psk |-> psk[p], public |-> PV(p)] \in Spake2State
  BY ValueFacts DEF Spake2State, TypeOK
<1>5. provider \in [Peer -> Spake2State \cup {None}]
  BY DEF TypeOK
<1>. QED
  BY <1>1, <1>2, <1>3, <1>4, <1>5 DEF KeepSpake2State

(* p fills in its own handshake, and nothing of what it has of the peer.    *)
LEMMA OwnHandshakeKept ==
  ASSUME NEW p \in Peer, UNCHANGED config, DataInv(p), ~HasKey(p), HS(p) # None,
         data'[p].public = PV(p), PV(p) # None, data'[p].ours = HS(p),
         data'[p].theirs = data[p].theirs, data'[p].secret = data[p].secret,
         provider'[p] = [psk |-> psk[p], public |-> PV(p)]
  PROVE  DataInv(p)'
<1>1. PV(p)' = PV(p) /\ HS(p)' = HS(p) /\ HS(Other(p))' = HS(Other(p)) /\ psk' = psk
  BY ConfigFrame DEF config
<1>2. authToken'[Other(p)] = authToken[Other(p)]
  BY DEF config
<1>3. data'[p].theirs # None => /\ data'[p].theirs = HS(Other(p))'
                                /\ TokenAccepted(p, authToken[Other(p)])'
  BY <1>1, <1>2 DEF DataInv, TokenAccepted, config
<1>4. ~HasKey(p)'
  BY DEF HasKey
<1>. QED
  BY <1>1, <1>3, <1>4 DEF DataInv

(* Before its handshake, p has said no more than its capabilities, so the  *)
(* handshake can be sent.                                                  *)
LEMMA HandshakeSent ==
  ASSUME TypeOK, NEW p \in Peer, NEW q \in Peer, q = Other(p), PeerInv(p), PeerInv(q),
         ~HasKey(p), data[p].ours = None, Advances(p), Leaves(q),
         data'[p].ours = HS(p), chan'[q] = Append(chan[q], HS(p))
  PROVE  ChannelInv(q)'
<1>1. Other(q) = p /\ HS(p) \in Message /\ HS(p) # None
  BY PeerFacts, ValueFacts
<1>2. Sayings(p) \subseteq {Hello}
  BY <1>1 DEF PeerInv, StateInv, Sayings, IsVerified
<1>3. \A i \in 1..Len(chan[q]) : Rank(chan[q][i]) < Rank(HS(p))
  BY <1>1, <1>2, RankFacts DEF PeerInv, ChannelInv
<1>4. ~GotConfirmation(q) /\ state[q] # "Authenticated"
  BY BeforeKey
<1>5. HS(p) \in Sayings(p)'
  <2>1. HS(p)' = HS(p)
    BY ConfigFrame DEF Advances
  <2>. QED
    BY <2>1 DEF Sayings
<1>. QED
  BY <1>1, <1>3, <1>4, <1>5, ChannelSend

(* InitiatingHandshake, CryptoCompleted. *)
LEMMA HandshakeInitiatedInv ==
  ASSUME IInv, NEW p \in Peer, HandshakeInitiated(p)
  PROVE  IInv'
<1> DEFINE q == Other(p)
<1>1. TypeOK /\ PeerInv(p) /\ PeerInv(q) /\ q \in Peer /\ q # p /\ Other(q) = p
  BY PeerFacts DEF IInv
<1>2. state[p] = "InitiatingHandshake" /\ request[p].op = "start"
  BY DEF HandshakeInitiated, Answers
<1>3. /\ NewPublicValue(p) = PV(p) /\ OwnHandshake(p) = HS(p)
      /\ provider' \in [Peer -> Spake2State \cup {None}]
      /\ provider'[p] = [psk |-> psk[p], public |-> PV(p)]
  BY <1>1, <1>2, StartFacts DEF HandshakeInitiated
<1>4. PV(p) \in PublicValue /\ HS(p) \in Handshake /\ HS(p) \in Message /\ HS(p) # None
  BY <1>1, ValueFacts
<1>5. /\ UNCHANGED <<config, driver>>
      /\ state' = [state EXCEPT ![p] = "AwaitingHandshake"]
      /\ state'[p] = "AwaitingHandshake"
      /\ request' = [request EXCEPT ![p] = NoRequest] /\ request'[p] = NoRequest
      /\ data' = [data EXCEPT ![p].public = PV(p), ![p].ours = HS(p)]
      /\ Leaves(q)
  BY <1>1, <1>3
  DEF HandshakeInitiated, Goto, NoCryptoRequested, RequestCrypto, KeepSpake2State, TypeOK, Leaves
<1>6. /\ data'[p].public = PV(p) /\ data'[p].ours = HS(p)
      /\ data'[p].secret = data[p].secret /\ data'[p].pending = data[p].pending
      /\ data'[p].theirs = data[p].theirs
      /\ data'[p] \in CryptoData
  BY <1>1, <1>4, <1>5 DEF TypeOK, CryptoData
<1>7. /\ chan'[q] = Append(chan[q], HS(p)) /\ chan'[p] = chan[p]
      /\ chan' \in [Peer -> Seq(Message)]
  BY <1>1, <1>3, <1>4, SendFacts DEF HandshakeInitiated
<1>8. TypeOK'
  BY <1>1, <1>3, <1>5, <1>6, <1>7 DEF TypeOK, StateName, CryptoRequest, config
<1>9. ~HasKey(p) /\ data[p].ours = None /\ ~isResponder[p]
  BY <1>1, <1>2 DEF PeerInv, StateInv
<1>10. Advances(p)
  BY <1>2, <1>5, <1>6, <1>9 DEF Advances, HasKey, IsVerified
<1>11. DataInv(p)' /\ StateInv(p)' /\ RequestInv(p)' /\ VerifiedInv(p)'
  <2>1. DataInv(p)'
    BY <1>1, <1>3, <1>4, <1>5, <1>6, <1>9, ValueFacts, OwnHandshakeKept DEF PeerInv
  <2>2. StateInv(p)' /\ VerifiedInv(p)'
    BY <1>4, <1>5, <1>6, <1>9 DEF StateInv, VerifiedInv, HasKey, IsVerified, config
  <2>3. RequestInv(p)'
    BY <1>5 DEF RequestInv, NoRequest
  <2>. QED
    BY <2>1, <2>2, <2>3
<1>12. ChannelInv(p)'
  <2>1. GotConfirmation(p)' => GotConfirmation(p)
    BY <1>5, <1>6 DEF GotConfirmation, IsVerified, NoRequest
  <2>. QED
    BY <1>1, <1>5, <1>6, <1>7, <2>1, ChannelKept
<1>13. ChannelInv(q)'
  BY <1>1, <1>5, <1>6, <1>7, <1>9, <1>10, HandshakeSent
<1>. QED
  BY <1>1, <1>5, <1>8, <1>10, <1>11, <1>12, <1>13, StepInv

(* GeneratingHandshake, CryptoCompleted. *)
LEMMA HandshakeGeneratedInv ==
  ASSUME IInv, NEW p \in Peer, HandshakeGenerated(p)
  PROVE  IInv'
<1> DEFINE q == Other(p)
           r == FinishRequest(p, PV(q), TR(p))
<1>1. TypeOK /\ PeerInv(p) /\ PeerInv(q) /\ q \in Peer /\ q # p /\ Other(q) = p
  BY PeerFacts DEF IInv
<1>2. state[p] = "GeneratingHandshake" /\ request[p].op = "start"
  BY DEF HandshakeGenerated, Answers
<1>3. /\ NewPublicValue(p) = PV(p) /\ OwnHandshake(p) = HS(p)
      /\ provider' \in [Peer -> Spake2State \cup {None}]
      /\ provider'[p] = [psk |-> psk[p], public |-> PV(p)]
  BY <1>1, <1>2, StartFacts DEF HandshakeGenerated
<1>4. /\ PV(p) \in PublicValue /\ HS(p) \in Handshake /\ HS(p) \in Message /\ HS(p) # None
      /\ PV(q) \in PublicValue /\ TR(p) \in Seq(Handshake)
  BY <1>1, ValueFacts
<1>5. ~HasKey(p) /\ data[p].ours = None /\ isResponder[p] /\ data[p].theirs = HS(q)
  BY <1>1, <1>2 DEF PeerInv, StateInv, DataInv
<1>6. data[p].theirs.public = PV(q) /\ <<data[p].theirs, OwnHandshake(p)>> = TR(p)
  BY <1>3, <1>5 DEF HS, TR
<1>7. /\ UNCHANGED <<config, driver>>
      /\ state' = [state EXCEPT ![p] = "Computing"]
      /\ request' = [request EXCEPT ![p] = r]
      /\ data' = [data EXCEPT ![p].public = PV(p), ![p].ours = HS(p),
                              ![p].transcript = TR(p)]
  BY <1>3, <1>6 DEF HandshakeGenerated, Goto, RequestCrypto
<1>8. state'[p] = "Computing" /\ request'[p] = r /\ Leaves(q)
  BY <1>1, <1>7 DEF HandshakeGenerated, KeepSpake2State, TypeOK, Leaves
<1>9. /\ data'[p].public = PV(p) /\ data'[p].ours = HS(p)
      /\ data'[p].secret = data[p].secret /\ data'[p].pending = data[p].pending
      /\ data'[p].theirs = data[p].theirs /\ data'[p].transcript = TR(p)
      /\ data'[p] \in CryptoData
  <2>1. /\ data[p] \in CryptoData
        /\ data'[p] = [data[p] EXCEPT !.public = PV(p), !.ours = HS(p), !.transcript = TR(p)]
    BY <1>1, <1>7 DEF TypeOK
  <2>. QED
    BY <1>4, <2>1, ZenonT(30) DEF CryptoData
<1>10. /\ chan'[q] = Append(chan[q], HS(p)) /\ chan'[p] = chan[p]
       /\ chan' \in [Peer -> Seq(Message)]
  BY <1>1, <1>3, <1>4, SendFacts DEF HandshakeGenerated
<1>11. TypeOK'
  <2>1. r \in CryptoRequest
    BY <1>1, <1>4 DEF FinishRequest, CryptoRequest, TypeOK
  <2>2. data' \in [Peer -> CryptoData]
    BY <1>1, <1>7, <1>9 DEF TypeOK
  <2>. QED
    BY <1>1, <1>3, <1>7, <1>10, <2>1, <2>2 DEF TypeOK, StateName, config
<1>12. Advances(p)
  BY <1>2, <1>5, <1>7, <1>8, <1>9 DEF Advances, HasKey, IsVerified
<1>13. DataInv(p)' /\ StateInv(p)' /\ VerifiedInv(p)'
  <2>1. DataInv(p)'
    BY <1>1, <1>3, <1>4, <1>5, <1>7, <1>9, ValueFacts, OwnHandshakeKept DEF PeerInv
  <2>2. StateInv(p)' /\ VerifiedInv(p)'
    BY <1>8 DEF StateInv, VerifiedInv, IsVerified
  <2>. QED
    BY <2>1, <2>2
<1>14. RequestInv(p)' /\ request'[p].op # "verify"
  <2>1. r' = r
    BY <1>7, ConfigFrame DEF FinishRequest, config
  <2>2. r.op = "finish"
    BY DEF FinishRequest
  <2>3. data'[p].theirs # None /\ ~HasKey(p)' /\ TR(p)' = TR(p)
    BY <1>1, <1>4, <1>5, <1>7, <1>9, ValueFacts, ConfigFrame DEF HasKey
  <2>. QED
    BY <1>8, <1>9, <2>1, <2>2, <2>3 DEF RequestInv, NoRequest
<1>15. ChannelInv(p)'
  <2>1. GotConfirmation(p)' => GotConfirmation(p)
    BY <1>8, <1>9, <1>14 DEF GotConfirmation, IsVerified
  <2>. QED
    BY <1>1, <1>7, <1>8, <1>9, <1>10, <2>1, ChannelKept
<1>16. ChannelInv(q)'
  BY <1>1, <1>5, <1>8, <1>9, <1>10, <1>12, HandshakeSent
<1>. QED
  BY <1>1, <1>8, <1>11, <1>12, <1>13, <1>14, <1>15, <1>16, StepInv

(* The answer to FinishWithConfirmation is what the configuration          *)
(* determines, and there is one only when the roles differ.                *)
LEMMA FinishFacts ==
  ASSUME TypeOK, NEW p \in Peer, NEW q \in Peer, q = Other(p), PeerInv(p),
         request[p].op = "finish", FinishSucceeds(p)
  PROVE  /\ SharedSecret(p) = Key(p)
         /\ OwnConfirmation(p) = MAC(p)
         /\ Roles /\ ~HasKey(p)
         /\ data[p].transcript = TR(p) /\ data[p].theirs # None
<1>1. /\ request[p] = FinishRequest(p, PV(q), TR(p))
      /\ ~HasKey(p) /\ data[p].transcript = TR(p) /\ data[p].theirs # None
  BY DEF PeerInv, RequestInv
<1>2. provider[p] = [psk |-> psk[p], public |-> PV(p)]
  BY DEF FinishSucceeds, PeerInv, DataInv
<1>3. /\ provider[p].public = PV(p) /\ provider[p].psk = psk[p]
      /\ request[p].peerPublic = PV(q)
      /\ request[p].responder = isResponder[p] /\ request[p].transcript = TR(p)
  BY <1>1, <1>2 DEF FinishRequest
<1>4. PV(p).responder = isResponder[p] /\ PV(q).responder = isResponder[q]
  BY DEF PV
<1>5. isResponder[q] = ~isResponder[p]
  BY <1>3, <1>4 DEF FinishSucceeds
<1>6. Roles
  BY <1>5, PeerFacts DEF Roles, Peer, Other, TypeOK
<1>7. SharedSecret(p) = Key(p)
  BY <1>3, <1>4 DEF SharedSecret, Key
<1>8. OwnConfirmation(p) = MAC(p)
  BY <1>3, <1>7 DEF OwnConfirmation, MAC
<1>. QED
  BY <1>1, <1>6, <1>7, <1>8

(* With its key p has its confirmation to send, and has sent none before.  *)
LEMMA ConfirmationSent ==
  ASSUME TypeOK, NEW p \in Peer, NEW q \in Peer, q = Other(p), PeerInv(p), PeerInv(q),
         ~HasKey(p), Advances(p), Leaves(q),
         data'[p].secret # None, chan'[q] = Append(chan[q], Conf(p))
  PROVE  ChannelInv(q)'
<1>1. Conf(p) \in Message
  BY ValueFacts
<1>2. /\ ~GotConfirmation(q) /\ state[q] # "Authenticated"
      /\ \A i \in 1..Len(chan[q]) : chan[q][i] \in {Hello, HS(p)}
  BY BeforeKey
<1>3. \A i \in 1..Len(chan[q]) : Rank(chan[q][i]) < Rank(Conf(p))
  BY <1>2, RankFacts
<1>4. Conf(p) \in Sayings(p)'
  <2>1. Conf(p)' = Conf(p)
    BY ConfigFrame DEF Advances
  <2>. QED
    BY <2>1 DEF Sayings, HasKey
<1>. QED
  BY <1>1, <1>2, <1>3, <1>4, ChannelSend

(* p fills in the key, and keeps what the key was derived from. *)
LEMMA KeyKept ==
  ASSUME NEW p \in Peer, UNCHANGED config, DataInv(p), Roles,
         data'[p].public = data[p].public, data'[p].ours = data[p].ours,
         data'[p].theirs = data[p].theirs, data[p].theirs # None,
         data'[p].transcript = data[p].transcript, data[p].transcript = TR(p),
         data'[p].secret = Key(p),
         provider'[p] \in {None, provider[p]}
  PROVE  DataInv(p)'
<1>1. /\ PV(p)' = PV(p) /\ HS(p)' = HS(p) /\ HS(Other(p))' = HS(Other(p)) /\ psk' = psk
      /\ Key(p)' = Key(p) /\ TR(p)' = TR(p) /\ Roles' = Roles
  BY ConfigFrame DEF config
<1>2. data'[p].theirs = HS(Other(p))' /\ TokenAccepted(p, authToken[Other(p)])'
  BY <1>1 DEF DataInv, TokenAccepted, config
<1>. QED
  BY <1>1, <1>2 DEF DataInv

(* Computing, CryptoCompleted for FinishWithConfirmation, nothing buffered. *)
LEMMA KeysDerivedInv ==
  ASSUME IInv, NEW p \in Peer, KeysDerived(p)
  PROVE  IInv'
<1> DEFINE q == Other(p)
<1>1. TypeOK /\ PeerInv(p) /\ PeerInv(q) /\ q \in Peer /\ q # p /\ Other(q) = p
  BY PeerFacts DEF IInv
<1>2. state[p] = "Computing" /\ request[p].op = "finish" /\ FinishSucceeds(p)
  BY DEF KeysDerived, Answers
<1>3. /\ SharedSecret(p) = Key(p) /\ OwnConfirmation(p) = MAC(p)
      /\ Roles /\ ~HasKey(p)
      /\ data[p].transcript = TR(p) /\ data[p].theirs # None
  BY <1>1, <1>2, FinishFacts
<1>4. /\ Key(p) \in Secret /\ Key(p) # None /\ Conf(p) \in Message
  BY <1>1, ValueFacts
<1>5. /\ UNCHANGED <<config, driver>>
      /\ state' = [state EXCEPT ![p] = "AwaitingConfirmation"]
      /\ request' = [request EXCEPT ![p] = NoRequest]
      /\ data' = [data EXCEPT ![p].secret = Key(p)]
      /\ provider' = [provider EXCEPT ![p] = None]
  BY <1>3 DEF KeysDerived, Goto, NoCryptoRequested, RequestCrypto, TakeSpake2State
<1>6. /\ state'[p] = "AwaitingConfirmation" /\ request'[p] = NoRequest
      /\ provider'[p] = None /\ Leaves(q)
  BY <1>1, <1>5 DEF TypeOK, Leaves
<1>7. /\ data'[p].public = data[p].public /\ data'[p].ours = data[p].ours
      /\ data'[p].secret = Key(p) /\ data'[p].pending = data[p].pending
      /\ data'[p].theirs = data[p].theirs /\ data'[p].transcript = data[p].transcript
      /\ data'[p] \in CryptoData
  <2>1. data[p] \in CryptoData /\ data'[p] = [data[p] EXCEPT !.secret = Key(p)]
    BY <1>1, <1>5 DEF TypeOK
  <2>. QED
    BY <1>4, <2>1, ZenonT(30) DEF CryptoData
<1>8. /\ chan'[q] = Append(chan[q], Conf(p)) /\ chan'[p] = chan[p]
      /\ chan' \in [Peer -> Seq(Message)]
  BY <1>1, <1>3, <1>4, SendFacts DEF KeysDerived, Conf
<1>9. TypeOK'
  BY <1>1, <1>5, <1>7, <1>8 DEF TypeOK, StateName, CryptoRequest, config
<1>10. Advances(p)
  BY <1>2, <1>4, <1>5, <1>6, <1>7 DEF Advances, HasKey, IsVerified
<1>11. DataInv(p)' /\ StateInv(p)' /\ RequestInv(p)' /\ VerifiedInv(p)'
  <2>1. DataInv(p)'
    BY <1>1, <1>3, <1>5, <1>6, <1>7, KeyKept DEF PeerInv
  <2>2. StateInv(p)' /\ VerifiedInv(p)'
    BY <1>4, <1>6, <1>7 DEF StateInv, VerifiedInv, HasKey, IsVerified
  <2>3. RequestInv(p)'
    BY <1>6 DEF RequestInv, NoRequest
  <2>. QED
    BY <2>1, <2>2, <2>3
<1>12. ChannelInv(p)'
  <2>1. GotConfirmation(p)' => GotConfirmation(p)
    BY <1>6, <1>7 DEF GotConfirmation, IsVerified, NoRequest
  <2>. QED
    BY <1>1, <1>5, <1>6, <1>7, <1>8, <2>1, ChannelKept
<1>13. ChannelInv(q)'
  BY <1>1, <1>3, <1>4, <1>6, <1>7, <1>8, <1>10, ConfirmationSent
<1>. QED
  BY <1>1, <1>6, <1>9, <1>10, <1>11, <1>12, <1>13, StepInv

(* A verification p asks for compares p's and the peer's confirmation. *)
LEMMA VerifyFacts ==
  ASSUME TypeOK, NEW p \in Peer, NEW q \in Peer, q = Other(p),
         data[p].transcript = TR(p)
  PROVE  /\ VerifyRequest(p, Key(p), MAC(q)) \in CryptoRequest
         /\ VerifyRequest(p, Key(p), MAC(q)) =
              [op |-> "verify",
               context |-> [key |-> [secret |-> Key(p), responder |-> ~isResponder[p]],
                            transcript |-> TR(p)],
               confirmation |-> MAC(q)]
<1>1. Key(p) \in Secret /\ TR(p) \in Seq(Handshake) /\ MAC(q) \in Mac
  BY ValueFacts
<1>2. [secret |-> Key(p), responder |-> ~isResponder[p]] \in ConfirmationKey
  BY <1>1 DEF ConfirmationKey
<1>3. [key |-> [secret |-> Key(p), responder |-> ~isResponder[p]],
       transcript |-> TR(p)] \in Mac
  BY <1>1, <1>2 DEF Mac
<1>. QED
  BY <1>1, <1>3 DEF VerifyRequest, CryptoRequest

(* Computing, CryptoCompleted for FinishWithConfirmation, with a buffered   *)
(* message.                                                                 *)
LEMMA KeysDerivedWithPendingInv ==
  ASSUME IInv, NEW p \in Peer, KeysDerivedWithPending(p)
  PROVE  IInv'
<1> DEFINE q == Other(p)
           pending == data[p].pending
           r == VerifyRequest(p, Key(p), MAC(q))
<1>1. TypeOK /\ PeerInv(p) /\ PeerInv(q) /\ q \in Peer /\ q # p /\ Other(q) = p
  BY PeerFacts DEF IInv
<1>2. /\ state[p] = "Computing" /\ request[p].op = "finish" /\ FinishSucceeds(p)
      /\ pending # None
  BY DEF KeysDerivedWithPending, Answers
<1>3. /\ SharedSecret(p) = Key(p) /\ OwnConfirmation(p) = MAC(p)
      /\ Roles /\ ~HasKey(p)
      /\ data[p].transcript = TR(p) /\ data[p].theirs # None
  BY <1>1, <1>2, FinishFacts
<1>4. /\ Key(p) \in Secret /\ Key(p) # None /\ Conf(p) \in Message
  BY <1>1, ValueFacts
<1>5. /\ UNCHANGED config
      /\ provider' = [provider EXCEPT ![p] = None] /\ provider'[p] = None
      /\ provider'[q] = provider[q]
  BY <1>1 DEF KeysDerivedWithPending, TakeSpake2State, TypeOK
<1>6. pending \in Sayings(q)
  BY <1>1, <1>2 DEF PeerInv, ChannelInv
<1>7. CASE pending.type = "confirmation"
  <2>1. pending.value = MAC(q) /\ HasKey(q)
    <3>1. pending = Conf(q) /\ HasKey(q)
      BY <1>6, <1>7, RankFacts DEF Sayings
    <3>. QED
      BY <3>1 DEF Conf
  <2>2. /\ UNCHANGED <<state, driver>>
        /\ request' = [request EXCEPT ![p] = r]
        /\ data' = [data EXCEPT ![p].secret = Key(p), ![p].pending = None]
        /\ Send(p, Conf(p))
    BY <1>3, <1>7, <2>1 DEF KeysDerivedWithPending, RequestCrypto, Conf
  <2>3. request'[p] = r /\ Leaves(q)
    BY <1>1, <1>5, <2>2 DEF TypeOK, Leaves
  <2>4. /\ data'[p].public = data[p].public /\ data'[p].ours = data[p].ours
        /\ data'[p].secret = Key(p) /\ data'[p].pending = None
        /\ data'[p].theirs = data[p].theirs /\ data'[p].transcript = data[p].transcript
        /\ data'[p] \in CryptoData
    <3>1. /\ data[p] \in CryptoData
          /\ data'[p] = [data[p] EXCEPT !.secret = Key(p), !.pending = None]
      BY <1>1, <2>2 DEF TypeOK
    <3>. QED
      BY <1>4, <3>1, ZenonT(30) DEF CryptoData
  <2>5. /\ chan'[q] = Append(chan[q], Conf(p)) /\ chan'[p] = chan[p]
        /\ chan' \in [Peer -> Seq(Message)]
    BY <1>1, <1>4, <2>2, SendFacts
  <2>6. /\ r \in CryptoRequest
        /\ r = [op |-> "verify",
                context |-> [key |-> [secret |-> Key(p), responder |-> ~isResponder[p]],
                             transcript |-> TR(p)],
                confirmation |-> MAC(q)]
    BY <1>1, <1>3, VerifyFacts
  <2>7. TypeOK'
    <3>1. data' \in [Peer -> CryptoData]
      BY <1>1, <2>2, <2>4 DEF TypeOK
    <3>. QED
      BY <1>1, <1>5, <2>2, <2>5, <2>6, <3>1 DEF TypeOK, config
  <2>8. Advances(p)
    BY <1>2, <1>4, <1>5, <2>2, <2>4 DEF Advances, HasKey, IsVerified
  <2>9. DataInv(p)'
    BY <1>1, <1>3, <1>5, <2>4, KeyKept DEF PeerInv
  <2>10. StateInv(p)' /\ VerifiedInv(p)'
    BY <1>2, <2>2 DEF StateInv, VerifiedInv, IsVerified
  <2>11. RequestInv(p)'
    BY <1>1, <1>2, <1>4, <1>5, <2>1, <2>2, <2>3, <2>4, <2>6, ConfigFrame
    DEF RequestInv, HasKey, config, NoRequest, Leaves
  <2>12. ChannelInv(p)'
    <3>1. GotConfirmation(p)
      BY <1>2, <1>7 DEF GotConfirmation
    <3>. QED
      BY <1>1, <1>2, <1>5, <2>2, <2>3, <2>4, <2>5, <3>1, ChannelKept
  <2>13. ChannelInv(q)'
    BY <1>1, <1>3, <1>4, <2>3, <2>4, <2>5, <2>8, ConfirmationSent
  <2>. QED
    BY <1>1, <2>3, <2>7, <2>8, <2>9, <2>10, <2>11, <2>12, <2>13, StepInv
<1>8. CASE pending.type # "confirmation"
  <2>1. /\ state' = [state EXCEPT ![p] = "Poisoned"]
        /\ driver' = [driver EXCEPT ![p] = "stopped"]
        /\ request' = [request EXCEPT ![p] = NoRequest]
        /\ data' = [data EXCEPT ![p].secret = Key(p)]
        /\ UNCHANGED chan
    BY <1>3, <1>8 DEF KeysDerivedWithPending, NoCryptoRequested, RequestCrypto, Goto
  <2>2. state'[p] = "Poisoned" /\ request'[p] = NoRequest /\ Leaves(q)
    BY <1>1, <1>5, <2>1 DEF TypeOK, Leaves
  <2>3. /\ data'[p].public = data[p].public /\ data'[p].ours = data[p].ours
        /\ data'[p].secret = Key(p) /\ data'[p].pending = data[p].pending
        /\ data'[p].theirs = data[p].theirs /\ data'[p].transcript = data[p].transcript
        /\ data'[p] \in CryptoData
    <3>1. data[p] \in CryptoData /\ data'[p] = [data[p] EXCEPT !.secret = Key(p)]
      BY <1>1, <2>1 DEF TypeOK
    <3>. QED
      BY <1>4, <3>1, ZenonT(30) DEF CryptoData
  <2>4. TypeOK'
    BY <1>1, <1>5, <2>1, <2>3 DEF TypeOK, StateName, CryptoRequest, config
  <2>5. Advances(p)
    BY <1>2, <1>4, <1>5, <2>2, <2>3 DEF Advances, HasKey, IsVerified
  <2>6. DataInv(p)'
    BY <1>1, <1>3, <1>5, <2>3, KeyKept DEF PeerInv
  <2>7. StateInv(p)' /\ VerifiedInv(p)'
    BY <2>2 DEF StateInv, VerifiedInv, IsVerified
  <2>8. RequestInv(p)'
    BY <2>2 DEF RequestInv, NoRequest
  <2>9. ChannelInv(p)'
    <3>1. GotConfirmation(p)' => GotConfirmation(p)
      BY <2>2, <2>3 DEF GotConfirmation, IsVerified, NoRequest
    <3>. QED
      BY <1>1, <1>5, <2>1, <2>2, <2>3, <3>1, ChannelKept
  <2>10. ChannelInv(q)'
    BY <1>1, <2>1, <2>2, <2>5, ChannelQuiet
  <2>. QED
    BY <1>1, <2>2, <2>4, <2>5, <2>6, <2>7, <2>8, <2>9, <2>10, StepInv
<1>. QED
  BY <1>7, <1>8

(* Computing, CryptoCompleted for VerifyConfirmation: the two keys and      *)
(* transcripts are equal, so the configurations fit.                        *)
LEMMA VerificationMeansCompatible ==
  ASSUME TypeOK, NEW p \in Peer, NEW q \in Peer, q = Other(p),
         PeerInv(p), PeerInv(q), request[p].op = "verify", VerifySucceeds(p)
  PROVE  Compatible /\ HasKey(p) /\ HasKey(q)
<1>1. /\ HasKey(p) /\ HasKey(q)
      /\ request[p].context = [key |-> [secret |-> Key(p), responder |-> ~isResponder[p]],
                               transcript |-> TR(p)]
      /\ request[p].confirmation = MAC(q)
  BY DEF PeerInv, RequestInv
<1>2. Key(p) = Key(q) /\ isResponder[q] = ~isResponder[p]
  BY <1>1 DEF VerifySucceeds, MAC
<1>3. psk[p] = psk[q]
  BY <1>2 DEF Key
<1>4. TokenAccepted(p, authToken[q]) /\ TokenAccepted(q, authToken[p])
  BY <1>1, PeerFacts DEF PeerInv, DataInv
<1>5. \A r \in Peer : isResponder[r] => authToken[r] \in {NoToken, authToken[Other(r)]}
  BY <1>4, PeerFacts DEF TokenAccepted
<1>6. psk[Client] = psk[Server] /\ isResponder[Client] # isResponder[Server]
  BY <1>2, <1>3, PeerFacts DEF Peer, Other, TypeOK
<1>. QED
  BY <1>1, <1>5, <1>6 DEF Compatible

(* Computing, CryptoCompleted for a verification that succeeds. *)
LEMMA ConfirmationVerifiedInv ==
  ASSUME IInv, NEW p \in Peer, ConfirmationVerified(p)
  PROVE  IInv'
<1> DEFINE q == Other(p)
<1>1. TypeOK /\ PeerInv(p) /\ PeerInv(q) /\ q \in Peer /\ q # p /\ Other(q) = p
  BY PeerFacts DEF IInv
<1>2. state[p] = "Computing" /\ request[p].op = "verify" /\ VerifySucceeds(p)
  BY DEF ConfirmationVerified, Answers
<1>3. Compatible /\ HasKey(p) /\ HasKey(q)
  BY <1>1, <1>2, VerificationMeansCompatible
<1>4. /\ UNCHANGED <<config, data, provider, driver>>
      /\ state' = [state EXCEPT ![p] = "AwaitingStatus"]
      /\ request' = [request EXCEPT ![p] = NoRequest]
      /\ Send(p, Ok)
  BY DEF ConfirmationVerified, Goto, NoCryptoRequested, RequestCrypto, Ok
<1>5. state'[p] = "AwaitingStatus" /\ request'[p] = NoRequest /\ Leaves(q)
  BY <1>1, <1>4 DEF TypeOK, Leaves
<1>6. /\ chan'[q] = Append(chan[q], Ok) /\ chan'[p] = chan[p]
      /\ chan' \in [Peer -> Seq(Message)] /\ Ok \in Message
  BY <1>1, <1>4, ValueFacts, SendFacts
<1>7. TypeOK'
  BY <1>1, <1>4, <1>6 DEF TypeOK, StateName, CryptoRequest, config
<1>8. Advances(p)
  BY <1>2, <1>4, <1>5 DEF Advances, HasKey, IsVerified
<1>9. DataInv(p)' /\ StateInv(p)' /\ RequestInv(p)' /\ VerifiedInv(p)'
  <2>1. DataInv(p)'
    BY <1>1, <1>4, ConfigFrame DEF PeerInv, DataInv, HasKey, TokenAccepted, config
  <2>2. StateInv(p)'
    BY <1>3, <1>4, <1>5 DEF StateInv, HasKey
  <2>3. RequestInv(p)'
    BY <1>5 DEF RequestInv, NoRequest
  <2>4. VerifiedInv(p)'
    BY <1>3, <1>4, <1>5, ConfigFrame DEF VerifiedInv, IsVerified, HasKey
  <2>. QED
    BY <2>1, <2>2, <2>3, <2>4
<1>10. ChannelInv(p)'
  <2>1. GotConfirmation(p)
    BY <1>2 DEF GotConfirmation
  <2>. QED
    BY <1>1, <1>4, <1>5, <1>6, <2>1, ChannelKept
<1>11. ChannelInv(q)'
  <2>1. ~IsVerified(p)
    BY <1>2 DEF IsVerified
  <2>2. \A i \in 1..Len(chan[q]) : chan[q][i] \in {Hello, HS(p), Conf(p)}
    BY <1>1, <2>1 DEF PeerInv, ChannelInv, Sayings
  <2>3. \A i \in 1..Len(chan[q]) : Rank(chan[q][i]) < Rank(Ok)
    BY <2>2, RankFacts
  <2>4. state[q] # "Authenticated"
    BY <1>1, <2>1 DEF PeerInv, VerifiedInv
  <2>5. Ok \in Sayings(p)' /\ Ok.type = "status"
    BY <1>5 DEF Sayings, IsVerified, Ok
  <2>. QED
    BY <1>1, <1>5, <1>6, <1>8, <2>3, <2>4, <2>5, ChannelSend
<1>. QED
  BY <1>1, <1>5, <1>7, <1>8, <1>9, <1>10, <1>11, StepInv

(* An error of the provider, or the driver's end: what is said and kept    *)
(* stays, at most the request is gone and the state is Panicked.           *)
LEMMA StopInv ==
  ASSUME IInv, NEW p \in Peer, TypeOK',
         UNCHANGED <<config, data, chan>>, Leaves(Other(p)),
         provider'[p] \in {None, provider[p]},
         request'[p] \in {NoRequest, request[p]},
         \/ state'[p] = state[p]
         \/ state'[p] = "Panicked" /\ state[p] # "Idle" /\ ~IsVerified(p)
  PROVE  IInv'
<1> DEFINE q == Other(p)
<1>1. TypeOK /\ PeerInv(p) /\ PeerInv(q) /\ q \in Peer /\ q # p /\ Other(q) = p
  BY PeerFacts DEF IInv
<1>2. Advances(p)
  BY DEF Advances, HasKey, IsVerified
<1>3. DataInv(p)'
  BY <1>1, ConfigFrame DEF PeerInv, DataInv, HasKey, TokenAccepted, config
<1>4. StateInv(p)'
  BY <1>1 DEF PeerInv, StateInv, HasKey, config
<1>5. RequestInv(p)'
  BY <1>1, ConfigFrame DEF PeerInv, RequestInv, FinishRequest, HasKey, NoRequest, config
<1>6. VerifiedInv(p)'
  BY <1>1, ConfigFrame DEF PeerInv, VerifiedInv, IsVerified, HasKey, Leaves
<1>7. ChannelInv(p)'
  <2>1. GotConfirmation(p)' => GotConfirmation(p)
    BY DEF GotConfirmation, IsVerified, NoRequest
  <2>2. Sayings(q)' = Sayings(q)
    BY SpeakerStays
  <2>. QED
    BY <1>1, <2>1, <2>2 DEF PeerInv, ChannelInv
<1>8. ChannelInv(q)'
  BY <1>1, <1>2, ChannelQuiet
<1>. QED
  BY <1>1, <1>2, <1>3, <1>4, <1>5, <1>6, <1>7, <1>8, StepInv

(* The provider fails. *)
LEMMA CryptoFailedInv ==
  ASSUME IInv, NEW p \in Peer, CryptoFailed(p)
  PROVE  IInv'
<1>1. TypeOK /\ Other(p) # p /\ Other(p) \in Peer
  BY PeerFacts DEF IInv
<1>2. /\ UNCHANGED <<config, state, data, chan>>
      /\ provider' \in {provider, [provider EXCEPT ![p] = None]}
      /\ request' = [request EXCEPT ![p] = NoRequest]
      /\ driver' = [driver EXCEPT ![p] = "stopped"]
  BY DEF CryptoFailed, NoCryptoRequested, RequestCrypto
<1>3. TypeOK'
  BY <1>1, <1>2 DEF TypeOK, CryptoRequest, config
<1>4. /\ Leaves(Other(p)) /\ provider'[p] \in {None, provider[p]}
      /\ request'[p] = NoRequest
  BY <1>1, <1>2 DEF Leaves, TypeOK
<1>. QED
  BY <1>2, <1>3, <1>4, StopInv, IInv DEF TypeOK

(* The state machine panics neither before it starts nor once it has       *)
(* verified the peer.                                                      *)
LEMMA PanicTooEarly ==
  ASSUME NEW p \in Peer, PeerInv(p), Panic(p)
  PROVE  state[p] # "Idle" /\ ~IsVerified(p)
<1>1. PICK input \in {"data", "crypto"} :
        /\ input = "data" => DataReady(p)
        /\ input = "crypto" => CryptoReady(p)
        /\ input \notin Handles[state[p]]
  BY DEF Panic
<1>2. state[p] \in {"Idle", "AwaitingStatus", "Authenticated"} => request[p] = NoRequest
  BY DEF PeerInv, RequestInv
<1>3. input = "crypto" => state[p] # "Idle" /\ ~IsVerified(p)
  BY <1>1, <1>2 DEF CryptoReady, IsVerified
<1>4. input = "data" => state[p] # "Idle" /\ ~IsVerified(p)
  BY <1>1 DEF DataReady, Handles, IsVerified
<1>. QED
  BY <1>3, <1>4

(* A panic ends the attempt and changes nothing else. *)
LEMMA PanicInv ==
  ASSUME IInv, NEW p \in Peer, Panic(p)
  PROVE  IInv'
<1>1. TypeOK /\ PeerInv(p) /\ Other(p) # p /\ Other(p) \in Peer
  BY PeerFacts DEF IInv
<1>2. /\ UNCHANGED <<config, data, request, provider, chan>>
      /\ state' = [state EXCEPT ![p] = "Panicked"]
      /\ driver' = [driver EXCEPT ![p] = "stopped"]
  BY DEF Panic, Goto
<1>3. TypeOK'
  BY <1>1, <1>2 DEF TypeOK, StateName, config
<1>4. Leaves(Other(p)) /\ state'[p] = "Panicked"
  BY <1>1, <1>2 DEF Leaves, TypeOK
<1>. QED
  BY <1>1, <1>2, <1>3, <1>4, PanicTooEarly, StopInv

(* The driver stops. *)
LEMMA GiveUpInv ==
  ASSUME IInv, NEW p \in Peer, GiveUp(p)
  PROVE  IInv'
<1>1. UNCHANGED <<config, state, data, request, provider, chan>>
  BY DEF GiveUp
<1>2. TypeOK'
  BY DEF GiveUp, IInv, TypeOK, config
<1>3. Leaves(Other(p))
  BY <1>1 DEF Leaves
<1>. QED
  BY <1>1, <1>2, <1>3, StopInv

(* Nothing happens. *)
LEMMA StutterInv == IInv /\ UNCHANGED vars => IInv'
<1> SUFFICES ASSUME IInv, UNCHANGED vars PROVE IInv'
  OBVIOUS
<1>1. TypeOK'
  BY DEF IInv, TypeOK, vars
<1>2. Client \in Peer /\ UNCHANGED <<config, state, data, request, provider, chan>>
  BY DEF Peer, vars, config
<1>3. Leaves(Other(Client))
  BY <1>2 DEF Leaves
<1>. QED
  BY <1>1, <1>2, <1>3, StopInv

(* Every step preserves the invariant. *)
LEMMA NextInv == IInv /\ [Next]_vars => IInv'
<1> SUFFICES ASSUME IInv, [Next]_vars PROVE IInv'
  OBVIOUS
<1>1. ASSUME NEW p \in Peer, DataReceived(p) PROVE IInv'
  BY <1>1, ReceiveCapabilitiesInv, ReceiveHandshakeInv, BufferDataInv,
     ReceiveConfirmationInv, ReceiveStatusInv, RejectDataInv DEF DataReceived
<1>2. ASSUME NEW p \in Peer, CryptoCompleted(p) PROVE IInv'
  BY <1>2, HandshakeInitiatedInv, HandshakeGeneratedInv, KeysDerivedInv,
     KeysDerivedWithPendingInv, ConfirmationVerifiedInv, CryptoFailedInv DEF CryptoCompleted
<1>3. ASSUME NEW p \in Peer, Progress(p) \/ GiveUp(p) PROVE IInv'
  BY <1>1, <1>2, <1>3, TransportConnectedInv, PanicInv, GiveUpInv DEF Progress
<1>4. CASE UNCHANGED vars
  BY <1>4, StutterInv
<1>. QED
  BY <1>3, <1>4 DEF Next

(* IInv is an invariant of the handshake. *)
THEOREM Invariance == Spec => []IInv
<1>. QED
  BY InitInv, NextInv, PTL DEF Spec

----------------------------------------------------------------------------
(* What follows *)

(* Type correctness: the fields of CryptoData, the open request and the    *)
(* messages on the way always have the form the handlers expect.           *)
THEOREM TypeCorrect == Spec => []TypeOK
<1>1. IInv => TypeOK
  BY DEF IInv
<1>. QED
  BY <1>1, Invariance, PTL

(* Key confirmation: whoever has verified the peer's confirmation shares   *)
(* the key and the transcript with it, for any PSKs, tokens and roles.     *)
THEOREM KeyConfirmed == Spec => []KeyConfirmation
<1>1. IInv => KeyConfirmation
  <2> SUFFICES ASSUME IInv, NEW p \in Verified
               PROVE  /\ Compatible /\ data[p].secret # None
                      /\ data[p].secret = data[Other(p)].secret
                      /\ data[p].transcript = data[Other(p)].transcript
    BY DEF KeyConfirmation
  <2> DEFINE q == Other(p)
  <2>1. p \in Peer /\ IsVerified(p) /\ q \in Peer /\ Other(q) = p /\ q # p
    BY PeerFacts DEF Verified, IsVerified
  <2>2. PeerInv(p) /\ PeerInv(q) /\ TypeOK
    BY <2>1 DEF IInv
  <2>3. HasKey(p) /\ HasKey(q) /\ Compatible
    BY <2>1, <2>2 DEF PeerInv, StateInv, VerifiedInv, IsVerified
  <2>4. /\ data[p].secret = Key(p) /\ data[p].transcript = TR(p)
        /\ data[q].secret = Key(q) /\ data[q].transcript = TR(q)
    BY <2>2, <2>3 DEF PeerInv, DataInv
  <2>5. psk[p] = psk[q] /\ isResponder[p] = ~isResponder[q]
    BY <2>1, <2>2, <2>3, PeerFacts DEF Compatible, Peer, Other, TypeOK
  <2>6. Key(p) = Key(q) /\ TR(p) = TR(q)
    BY <2>1, <2>5 DEF Key, TR
  <2>. QED
    BY <2>3, <2>4, <2>6 DEF HasKey
<1>. QED
  BY <1>1, Invariance, PTL

(* Agreement: a side that is authenticated has a peer that has verified.   *)
THEOREM Agreement == Spec => []AuthenticatedTogether
<1>1. IInv => AuthenticatedTogether
  <2> SUFFICES ASSUME IInv, NEW p \in Peer, state[p] = "Authenticated"
               PROVE  Verified = Peer
    BY DEF AuthenticatedTogether
  <2>1. IsVerified(p) /\ IsVerified(Other(p)) /\ Other(p) \in Peer
    BY PeerFacts DEF IInv, PeerInv, VerifiedInv, IsVerified
  <2>2. \A r \in Peer : r = p \/ r = Other(p)
    BY PeerFacts
  <2>. QED
    BY <2>1, <2>2 DEF Verified, IsVerified
<1>. QED
  BY <1>1, Invariance, PTL

(* No handshake message is left for the application to read. *)
THEOREM ChannelDrained == Spec => []NothingLeftBehind
<1>1. IInv => NothingLeftBehind
  BY DEF IInv, PeerInv, ChannelInv, NothingLeftBehind
<1>. QED
  BY <1>1, Invariance, PTL

(* The end of p's driver before p's verdict is a failure of p's attempt. *)
LEMMA AttemptFails ==
  ASSUME TypeOK, NEW p \in Peer, UNCHANGED config,
         driver[p] = "running", state[p] # "Authenticated",
         \/ state' = state
         \/ /\ state[p] # "AwaitingStatus"
            /\ \E s \in {"Poisoned", "Panicked"} : state' = [state EXCEPT ![p] = s],
         driver' = [driver EXCEPT ![p] = "stopped"]
  PROVE  [Authentication!Next]_(Authentication!vars)
<1>1. Compatible' = Compatible
  BY ConfigFrame
<1>2. Verified' = Verified
  BY DEF Verified, TypeOK
<1>3. \A r \in Peer : r # p => state'[r] = state[r] /\ driver'[r] = driver[r]
  BY DEF TypeOK
<1>4. driver'[p] = "stopped" /\ state'[p] # "Authenticated"
  BY DEF TypeOK
<1>5. Outcome' = [Outcome EXCEPT ![p] = "failed"]
  BY <1>3, <1>4 DEF Outcome
<1>6. Outcome[p] \in {"pending", "failed"}
  BY DEF Outcome
<1>7. CASE Outcome[p] = "pending"
  BY <1>1, <1>2, <1>5, <1>7 DEF Authentication!Next, Authentication!Fail
<1>8. CASE Outcome[p] = "failed"
  <2>1. Outcome' = Outcome
    BY <1>5, <1>8 DEF Outcome
  <2>. QED
    BY <1>1, <1>2, <2>1 DEF Authentication!vars
<1>. QED
  BY <1>6, <1>7, <1>8

(* A step of p on the way to its verdict is a stutter. *)
LEMMA AttemptGoesOn ==
  ASSUME TypeOK, NEW p \in Peer, UNCHANGED <<config, driver>>,
         state[p] \notin {"Authenticated", "AwaitingStatus", "Failed"},
         \/ state' = state
         \/ \E s \in StateName \ {"Authenticated", "AwaitingStatus", "Failed"} :
              state' = [state EXCEPT ![p] = s]
  PROVE  UNCHANGED Authentication!vars
<1>1. Compatible' = Compatible
  BY ConfigFrame
<1>2. Verified' = Verified
  BY DEF Verified, TypeOK
<1>3. Outcome' = Outcome
  BY DEF Outcome, TypeOK
<1>. QED
  BY <1>1, <1>2, <1>3 DEF Authentication!vars

(* Every step of the handshake is a step of MutualAuthentication. *)
LEMMA StepRefines ==
  IInv /\ [Next]_vars => [Authentication!Next]_(Authentication!vars)
<1> SUFFICES ASSUME IInv, [Next]_vars
             PROVE  [Authentication!Next]_(Authentication!vars)
  OBVIOUS
<1>1. TypeOK /\ \A p \in Peer : PeerInv(p)
  BY DEF IInv
<1>2. ASSUME NEW p \in Peer,
             \/ TransportConnected(p) \/ ReceiveCapabilities(p) \/ ReceiveHandshake(p)
             \/ BufferData(p) \/ ReceiveConfirmation(p)
      PROVE  [Authentication!Next]_(Authentication!vars)
  <2>1. UNCHANGED <<config, driver>>
    BY <1>2 DEF TransportConnected, ReceiveCapabilities, ReceiveHandshake, BufferData,
      ReceiveConfirmation, config
  <2>2. state[p] \notin {"Authenticated", "AwaitingStatus", "Failed"}
    BY <1>2 DEF TransportConnected, ReceiveCapabilities, ReceiveHandshake, BufferData,
      ReceiveConfirmation, Receive
  <2>3. \/ state' = state
        \/ \E s \in StateName \ {"Authenticated", "AwaitingStatus", "Failed"} :
             state' = [state EXCEPT ![p] = s]
    BY <1>2 DEF TransportConnected, ReceiveCapabilities, ReceiveHandshake, BufferData,
      ReceiveConfirmation, Goto, StateName
  <2>. QED
    BY <1>1, <2>1, <2>2, <2>3, AttemptGoesOn
<1>3. ASSUME NEW p \in Peer, HandshakeInitiated(p) \/ HandshakeGenerated(p) \/ KeysDerived(p)
      PROVE  [Authentication!Next]_(Authentication!vars)
  <2>1. UNCHANGED <<config, driver>>
    BY <1>3 DEF HandshakeInitiated, HandshakeGenerated, KeysDerived, config
  <2>2. state[p] \notin {"Authenticated", "AwaitingStatus", "Failed"}
    BY <1>3 DEF HandshakeInitiated, HandshakeGenerated, KeysDerived, Answers
  <2>3. \E s \in StateName \ {"Authenticated", "AwaitingStatus", "Failed"} :
             state' = [state EXCEPT ![p] = s]
    BY <1>3 DEF HandshakeInitiated, HandshakeGenerated, KeysDerived, Goto, StateName
  <2>. QED
    BY <1>1, <2>1, <2>2, <2>3, AttemptGoesOn
<1>4. ASSUME NEW p \in Peer, KeysDerivedWithPending(p)
      PROVE  [Authentication!Next]_(Authentication!vars)
  <2>1. UNCHANGED config /\ state[p] = "Computing" /\ driver[p] = "running"
    BY <1>4 DEF KeysDerivedWithPending, Answers, CryptoReady, config
  <2>2. CASE data[p].pending.type = "confirmation"
    <3>1. UNCHANGED <<state, driver>>
      BY <1>4, <2>2 DEF KeysDerivedWithPending
    <3>. QED
      BY <1>1, <2>1, <3>1, AttemptGoesOn
  <2>3. CASE data[p].pending.type # "confirmation"
    <3>1. /\ state' = [state EXCEPT ![p] = "Poisoned"]
          /\ driver' = [driver EXCEPT ![p] = "stopped"]
      BY <1>4, <2>3 DEF KeysDerivedWithPending, Goto
    <3>. QED
      BY <1>1, <2>1, <3>1, AttemptFails
  <2>. QED
    BY <2>2, <2>3
<1>5. ASSUME NEW p \in Peer, ReceiveStatus(p)
      PROVE  [Authentication!Next]_(Authentication!vars)
  <2> DEFINE q == Other(p)
             m == Head(chan[p])
  <2>1. /\ Receive(p, "AwaitingStatus") /\ m.type = "status"
        /\ q \in Peer /\ driver[p] = "running"
        /\ UNCHANGED <<config, driver>>
    BY <1>5, PeerFacts DEF ReceiveStatus, Receive, DataReady, config
  <2>2. m \in Sayings(q) /\ state[p] = "AwaitingStatus"
    BY <1>1, <2>1, ReceiveFacts
  <2>3. m.status = "Ok" /\ IsVerified(q)
    <3>1. m = Ok /\ IsVerified(q)
      BY <2>1, <2>2, RankFacts DEF Sayings
    <3>. QED
      BY <3>1 DEF Ok
  <2>4. state' = [state EXCEPT ![p] = "Authenticated"]
    BY <1>5, <2>3 DEF ReceiveStatus, Goto
  <2>5. Verified = Peer
    BY <2>2, <2>3, PeerFacts DEF Verified, IsVerified
  <2>6. Verified' = Verified /\ Compatible' = Compatible
    BY <1>1, <2>1, <2>2, <2>4, ConfigFrame DEF Verified, TypeOK
  <2>7. Outcome[p] = "pending" /\ Outcome' = [Outcome EXCEPT ![p] = "authenticated"]
    BY <1>1, <2>1, <2>2, <2>4 DEF Outcome, TypeOK
  <2>. QED
    BY <2>5, <2>6, <2>7 DEF Authentication!Next, Authentication!Authenticate
<1>6. ASSUME NEW p \in Peer, ConfirmationVerified(p)
      PROVE  [Authentication!Next]_(Authentication!vars)
  <2>1. /\ state[p] = "Computing" /\ driver[p] = "running"
        /\ request[p].op = "verify" /\ VerifySucceeds(p)
        /\ state' = [state EXCEPT ![p] = "AwaitingStatus"]
        /\ UNCHANGED <<config, driver>>
    BY <1>6 DEF ConfirmationVerified, Answers, CryptoReady, Goto, config
  <2>2. Compatible
    BY <1>1, <2>1, PeerFacts, VerificationMeansCompatible
  <2>3. Verified' = Verified \cup {p} /\ Compatible' = Compatible
    BY <1>1, <2>1, ConfigFrame DEF Verified, TypeOK
  <2>4. Outcome[p] = "pending" /\ Outcome' = Outcome
    BY <1>1, <2>1 DEF Outcome, TypeOK
  <2>. QED
    BY <2>2, <2>3, <2>4 DEF Authentication!Next, Authentication!Verify
<1>7. ASSUME NEW p \in Peer, RejectData(p)
      PROVE  [Authentication!Next]_(Authentication!vars)
  <2>1. PICK s \in DOMAIN Expects :
          Receive(p, s) /\ (Head(chan[p]).type # Expects[s] \/ s = "AwaitingHandshake")
    BY <1>7 DEF RejectData
  <2>2. state[p] = s /\ driver[p] = "running" /\ chan[p] # <<>> /\ chan[p] \in Seq(Message)
    BY <1>1, <2>1 DEF Receive, DataReady, TypeOK
  <2>3. Head(chan[p]) = chan[p][1] /\ 1 \in 1..Len(chan[p])
    BY <2>2, TailFacts
  <2>4. state[p] \notin {"Authenticated", "AwaitingStatus"}
    BY <1>1, <2>1, <2>2, <2>3 DEF Expects, PeerInv, ChannelInv, GotConfirmation, IsVerified
  <2>5. /\ UNCHANGED config
        /\ state' = [state EXCEPT ![p] = "Poisoned"]
        /\ driver' = [driver EXCEPT ![p] = "stopped"]
    BY <1>7 DEF RejectData, Goto, config
  <2>. QED
    BY <1>1, <2>2, <2>4, <2>5, AttemptFails
<1>8. ASSUME NEW p \in Peer, CryptoFailed(p) \/ GiveUp(p)
      PROVE  [Authentication!Next]_(Authentication!vars)
  <2>1. /\ UNCHANGED <<config, state>> /\ driver[p] = "running"
        /\ driver' = [driver EXCEPT ![p] = "stopped"]
    BY <1>8 DEF CryptoFailed, CryptoReady, GiveUp, config
  <2>2. state[p] # "Authenticated"
    BY <1>1, <1>8 DEF CryptoFailed, CryptoReady, GiveUp, PeerInv, RequestInv
  <2>. QED
    BY <1>1, <2>1, <2>2, AttemptFails
<1>9. ASSUME NEW p \in Peer, Panic(p)
      PROVE  [Authentication!Next]_(Authentication!vars)
  <2>1. /\ UNCHANGED config
        /\ state' = [state EXCEPT ![p] = "Panicked"]
        /\ driver' = [driver EXCEPT ![p] = "stopped"]
        /\ driver[p] = "running"
    BY <1>9 DEF Panic, DataReady, CryptoReady, Goto, config
  <2>2. ~IsVerified(p)
    BY <1>1, <1>9, PanicTooEarly
  <2>. QED
    BY <1>1, <2>1, <2>2, AttemptFails DEF IsVerified
<1>10. CASE UNCHANGED vars
  <2>1. Compatible' = Compatible /\ Verified' = Verified /\ Outcome' = Outcome
    BY <1>10, ConfigFrame DEF vars, config, Verified, Outcome
  <2>. QED
    BY <2>1 DEF Authentication!vars
<1>. QED
  BY <1>2, <1>3, <1>4, <1>5, <1>6, <1>7, <1>8, <1>9, <1>10
  DEF Next, Progress, DataReceived, CryptoCompleted

(* Refinement: the handshake, whatever the configuration and the order of  *)
(* inputs, is a two-phase mutual authentication.                           *)
THEOREM Refinement == Spec => ImplementsMutualAuthentication
<1>1. Init => Authentication!Init
  <2> SUFFICES ASSUME Init PROVE Authentication!Init
    OBVIOUS
  <2>1. Verified = {} /\ Outcome = [p \in Peer |-> "pending"]
    BY DEF Init, Verified, Outcome
  <2>2. Compatible \in BOOLEAN
    BY DEF Compatible
  <2>. QED
    BY <2>1, <2>2 DEF Authentication!Init
<1>. QED
  BY <1>1, StepRefines, Invariance, PTL
  DEF Spec, ImplementsMutualAuthentication, Authentication!Spec

----------------------------------------------------------------------------
(* The path of the handshake.  A peer says its four messages in a fixed     *)
(* order, so the number of messages it has said and the number the other   *)
(* one has taken tell exactly what is on the way.                          *)

(* How many of the other peer's messages p has dealt with or set aside. *)
Base(p) ==
  IF state[p] \in {"Idle", "AwaitingCapabilities"} THEN 0
  ELSE IF state[p] \in {"InitiatingHandshake", "AwaitingHandshake"} THEN 1
  ELSE IF state[p] = "AwaitingStatus" THEN 3
  ELSE IF state[p] = "Authenticated" THEN 4
  ELSE IF request[p].op = "verify" THEN 3 ELSE 2

Taken(p) == Base(p) + (IF data[p].pending = None THEN 0 ELSE 1)

(* How many messages p has said. *)
Told(p) ==
  IF state[p] = "Idle" THEN 0
  ELSE IF data[p].ours = None THEN 1
  ELSE IF data[p].secret = None THEN 2
  ELSE IF state[p] \notin {"AwaitingStatus", "Authenticated"} THEN 3 ELSE 4

(* Who had to speak first. *)
OrderInv(p) ==
  /\ data[p].theirs # None => data[Other(p)].ours # None
  /\ isResponder[p] /\ data[p].ours # None => data[p].theirs # None
  /\ HasKey(p) => data[p].ours # None

(* What an open request can rely on. *)
ReadyInv(p) ==
  /\ state[p] = "AwaitingHandshake" /\ ~isResponder[p] => provider[p] # None
  /\ request[p].op = "finish" =>
       /\ provider[p] # None
       /\ data[p].ours # None
       /\ data[p].pending # None => data[p].pending.type = "confirmation"

RunInv(p) ==
  /\ state[p] \in {"Poisoned", "Panicked"} => driver[p] = "stopped"
  /\ state[p] # "Failed"
  /\ driver[p] = "running" /\ state[p] = "Computing"
       => request[p].op \in {"finish", "verify"}
  /\ driver[p] = "running" /\ data[p].pending # None
       => state[p] \in {"Computing", "AwaitingStatus"}

(* What is on its way to p is what the other one has said and p has not yet *)
(* taken, in order and without a gap.                                       *)
PlaceInv(p) ==
  driver[p] = "running" =>
    /\ Taken(p) + Len(chan[p]) = Told(Other(p))
    /\ \A i \in 1..Len(chan[p]) : Rank(chan[p][i]) = Taken(p) + i

CleanInv(p) ==
  /\ Roles => state[p] # "Panicked"
  /\ Compatible => state[p] # "Poisoned"

PathInv(p) == OrderInv(p) /\ ReadyInv(p) /\ RunInv(p) /\ PlaceInv(p) /\ CleanInv(p)

(* The second inductive invariant, which rests on the first. *)
PathsInv == \A p \in Peer : PathInv(p)

(* The two peers of a step. *)
LEMMA BothPeers ==
  ASSUME IInv, PathsInv, NEW p \in Peer, NEW q \in Peer, q = Other(p)
  PROVE  /\ TypeOK /\ PeerInv(p) /\ PeerInv(q) /\ PathInv(p) /\ PathInv(q)
         /\ q # p /\ Other(q) = p /\ p = Other(q)
         /\ UNCHANGED config => /\ isResponder'[p] = isResponder[p]
                                /\ isResponder'[q] = isResponder[q]
BY PeerFacts DEF IInv, PathsInv, config

(* Positions are small numbers. *)
LEMMA PositionFacts ==
  ASSUME NEW p
  PROVE  Base(p) \in 0..4 /\ Taken(p) \in 0..5 /\ Told(p) \in 0..4
BY DEF Base, Taken, Told

(* A peer that does nothing stays where it is. *)
LEMMA PositionFrame ==
  ASSUME NEW q, Leaves(q)
  PROVE  Taken(q)' = Taken(q) /\ Told(q)' = Told(q)
BY DEF Leaves, Taken, Base, Told

(* The rank of a message tells which one it is. *)
LEMMA RankTells ==
  ASSUME NEW q, NEW m \in Sayings(q)
  PROVE  /\ Rank(m) = 1 => m.type = "capabilities"
         /\ Rank(m) = 2 => m.type = "handshake"
         /\ Rank(m) = 3 => m.type = "confirmation"
         /\ Rank(m) = 4 => m.type = "status"
         /\ Rank(m) \in 1..4
         /\ m.type = "handshake" => m = HS(q)
         /\ m.type = "status" => m = Ok
BY DEF Sayings, Rank, Hello, HS, Conf, Ok

(* The message a driver takes next is the one whose turn it is. *)
LEMMA NextMessage ==
  ASSUME IInv, PathsInv, NEW p \in Peer, NEW q \in Peer, q = Other(p), DataReady(p)
  PROVE  /\ driver[p] = "running"
         /\ Head(chan[p]) \in Sayings(q)
         /\ Rank(Head(chan[p])) = Taken(p) + 1
         /\ Told(q) >= Taken(p) + 1
<1>1. TypeOK /\ PeerInv(p) /\ PathInv(p)
  BY BothPeers
<1>2. driver[p] = "running" /\ chan[p] # <<>> /\ chan[p] \in Seq(Message)
  BY <1>1 DEF DataReady, TypeOK
<1>3. Head(chan[p]) = chan[p][1] /\ 1 \in 1..Len(chan[p]) /\ Len(chan[p]) \in Nat
  BY <1>2, TailFacts, LenProperties
<1>4. /\ Taken(p) + Len(chan[p]) = Told(q)
      /\ \A i \in 1..Len(chan[p]) : Rank(chan[p][i]) = Taken(p) + i
  BY <1>1, <1>2 DEF PathInv, PlaceInv
<1>5. Head(chan[p]) \in Sayings(q)
  BY <1>1, <1>3 DEF PeerInv, ChannelInv
<1>. QED
  BY <1>2, <1>3, <1>4, <1>5, PositionFacts

(* p takes the next message. *)
LEMMA PlaceReceive ==
  ASSUME IInv, PathsInv, NEW p \in Peer, NEW q \in Peer, q = Other(p), DataReady(p),
         chan'[p] = Tail(chan[p]), Leaves(q), Taken(p)' = Taken(p) + 1
  PROVE  PlaceInv(p)'
<1>1. TypeOK /\ PathInv(p)
  BY BothPeers
<1>2. driver[p] = "running" /\ chan[p] # <<>> /\ chan[p] \in Seq(Message)
  BY <1>1 DEF DataReady, TypeOK
<1>3. /\ Len(chan[p]) \in Nat /\ Len(chan'[p]) = Len(chan[p]) - 1
      /\ \A i \in 1..Len(chan'[p]) :
           i + 1 \in 1..Len(chan[p]) /\ chan'[p][i] = chan[p][i + 1]
  BY <1>2, TailFacts, LenProperties
<1>4. /\ Taken(p) + Len(chan[p]) = Told(q)
      /\ \A i \in 1..Len(chan[p]) : Rank(chan[p][i]) = Taken(p) + i
  BY <1>1, <1>2 DEF PathInv, PlaceInv
<1>5. Told(q)' = Told(q) /\ Taken(p) \in Nat
  BY PositionFrame, PositionFacts
<1>6. Taken(p)' + Len(chan'[p]) = Told(q)'
  BY <1>3, <1>4, <1>5
<1>7. \A i \in 1..Len(chan'[p]) : Rank(chan'[p][i]) = Taken(p)' + i
  BY <1>3, <1>4, <1>5
<1>. QED
  BY <1>6, <1>7 DEF PlaceInv, Rank

(* p takes nothing. *)
LEMMA PlaceKept ==
  ASSUME IInv, PathsInv, NEW p \in Peer, NEW q \in Peer, q = Other(p),
         driver'[p] = "running" => driver[p] = "running" /\ Taken(p)' = Taken(p),
         chan'[p] = chan[p], Leaves(q)
  PROVE  PlaceInv(p)'
<1>1. PathInv(p)
  BY BothPeers
<1>2. Told(q)' = Told(q)
  BY PositionFrame
<1>. QED
  BY <1>1, <1>2 DEF PathInv, PlaceInv, Rank

(* p says m, and only then moves on by one, or says nothing. *)
Says(p, m) ==
  \/ chan'[Other(p)] = chan[Other(p)] /\ Told(p)' = Told(p)
  \/ /\ chan'[Other(p)] = Append(chan[Other(p)], m)
     /\ m \in Message
     /\ Told(p)' = Told(p) + 1
     /\ Rank(m) = Told(p) + 1

(* What a step of p leaves of the other peer's path. *)
LEMMA OtherPath ==
  ASSUME IInv, PathsInv, NEW p \in Peer, NEW q \in Peer, q = Other(p),
         UNCHANGED config, Leaves(q), driver'[q] = driver[q],
         data[p].ours # None => data'[p].ours # None,
         NEW m, Says(p, m)
  PROVE  PathInv(q)'
<1>1. TypeOK /\ PathInv(q) /\ Other(q) = p /\ isResponder'[q] = isResponder[q]
  BY BothPeers
<1>2. OrderInv(q)' /\ ReadyInv(q)' /\ RunInv(q)' /\ CleanInv(q)'
  BY <1>1, ConfigFrame DEF PathInv, OrderInv, ReadyInv, RunInv, CleanInv, Leaves, HasKey
<1>3. Taken(q)' = Taken(q) /\ Taken(q) \in Nat /\ Told(p) \in Nat
  BY PositionFrame, PositionFacts
<1>4. chan[q] \in Seq(Message) /\ Len(chan[q]) \in Nat
  BY <1>1, LenProperties DEF TypeOK
<1>5. CASE chan'[q] = chan[q] /\ Told(p)' = Told(p)
  <2>1. PlaceInv(q)'
    BY <1>1, <1>3, <1>5 DEF PathInv, PlaceInv, Rank
  <2>. QED
    BY <1>2, <2>1 DEF PathInv
<1>6. CASE /\ chan'[q] = Append(chan[q], m) /\ m \in Message
           /\ Told(p)' = Told(p) + 1 /\ Rank(m) = Told(p) + 1
  <2>1. /\ Len(chan'[q]) = Len(chan[q]) + 1
        /\ chan'[q][Len(chan[q]) + 1] = m
        /\ \A i \in 1..Len(chan[q]) : chan'[q][i] = chan[q][i]
    BY <1>4, <1>6, AppendFacts
  <2>2. ASSUME driver'[q] = "running"
        PROVE  /\ Taken(q) + Len(chan[q]) = Told(p)
               /\ \A i \in 1..Len(chan[q]) : Rank(chan[q][i]) = Taken(q) + i
    BY <1>1, <2>2 DEF PathInv, PlaceInv
  <2>3. ASSUME driver'[q] = "running"
        PROVE  Taken(q)' + Len(chan'[q]) = Told(p)'
    BY <1>3, <1>4, <1>6, <2>1, <2>2, <2>3
  <2>4. ASSUME driver'[q] = "running", NEW i \in 1..Len(chan'[q])
        PROVE  Rank(chan'[q][i]) = Taken(q)' + i
    <3>1. CASE i \in 1..Len(chan[q])
      BY <1>3, <2>1, <2>2, <2>4, <3>1
    <3>2. CASE i = Len(chan[q]) + 1
      BY <1>3, <1>4, <1>6, <2>1, <2>2, <2>4, <3>2
    <3>. QED
      BY <1>4, <2>1, <3>1, <3>2
  <2>5. PlaceInv(q)'
    BY <1>1, <2>3, <2>4 DEF PlaceInv, Rank
  <2>. QED
    BY <1>2, <2>5 DEF PathInv
<1>. QED
  BY <1>5, <1>6 DEF Says

(* The two paths put together. *)
LEMMA PathStep ==
  ASSUME NEW p \in Peer, NEW q \in Peer, q = Other(p), PathInv(p)', PathInv(q)'
  PROVE  PathsInv'
<1>1. \A r \in Peer : r = p \/ r = q
  BY PeerFacts
<1>. QED
  BY <1>1 DEF PathsInv

(* A step that changes neither what p keeps nor what it has told. *)
LEMMA QuietPath ==
  ASSUME IInv, PathsInv, NEW p \in Peer, NEW q \in Peer, q = Other(p),
         UNCHANGED <<config, data>>, Leaves(q), driver'[q] = driver[q],
         chan'[q] = chan[q], Told(p)' = Told(p)
  PROVE  OrderInv(p)' /\ PathInv(q)'
<1>1. PathInv(p) /\ isResponder'[p] = isResponder[p]
  BY BothPeers
<1>2. OrderInv(p)'
  BY <1>1 DEF PathInv, OrderInv, HasKey
<1>3. Says(p, Hello)
  BY DEF Says
<1>. QED
  BY <1>2, <1>3, OtherPath

(* The end of p's driver, with or without an error. *)
LEMMA StopPath ==
  ASSUME IInv, PathsInv, NEW p \in Peer, NEW q \in Peer, q = Other(p),
         UNCHANGED <<config, data>>, Leaves(q), driver'[q] = driver[q],
         chan'[q] = chan[q], driver'[p] = "stopped",
         \/ request'[p] = NoRequest
         \/ request'[p] = request[p] /\ provider'[p] = provider[p],
         \/ state'[p] = state[p] /\ (provider'[p] = provider[p] \/ request[p] # NoRequest)
         \/ state'[p] \in {"Poisoned", "Panicked"} /\ state[p] # "Idle" /\ ~IsVerified(p),
         CleanInv(p)'
  PROVE  PathsInv'
<1>1. PeerInv(p) /\ PathInv(p) /\ isResponder'[p] = isResponder[p]
  BY BothPeers
<1>2. Told(p)' = Told(p)
  BY DEF Told, IsVerified
<1>3. OrderInv(p)' /\ PathInv(q)'
  BY <1>2, QuietPath
<1>4. ReadyInv(p)'
  BY <1>1 DEF PathInv, ReadyInv, PeerInv, RequestInv, NoRequest
<1>5. RunInv(p)' /\ PlaceInv(p)'
  BY <1>1 DEF PathInv, RunInv, PlaceInv
<1>6. PathInv(p)'
  BY <1>3, <1>4, <1>5 DEF PathInv
<1>. QED
  BY <1>3, <1>6, PathStep

(* Initially nobody has said or taken anything. *)
LEMMA InitPath == Init => PathsInv
<1> SUFFICES ASSUME Init, NEW p \in Peer PROVE PathInv(p)
  BY DEF PathsInv
<1>1. \A r \in Peer : /\ state[r] = "Idle" /\ request[r] = NoRequest
                      /\ data[r] = EmptyCryptoData /\ chan[r] = <<>>
  BY DEF Init
<1>2. Len(chan[p]) = 0 /\ \A i \in 1..Len(chan[p]) : FALSE
  BY <1>1, EmptySeq
<1>3. Taken(p) = 0 /\ Told(Other(p)) = 0
  BY <1>1, PeerFacts DEF Taken, Base, Told, EmptyCryptoData
<1>4. PlaceInv(p)
  BY <1>2, <1>3 DEF PlaceInv
<1>5. OrderInv(p) /\ ReadyInv(p) /\ RunInv(p) /\ CleanInv(p)
  BY <1>1 DEF OrderInv, ReadyInv, RunInv, CleanInv, HasKey, EmptyCryptoData, NoRequest
<1>. QED
  BY <1>4, <1>5 DEF PathInv

(* Idle, TransportConnected. *)
LEMMA TransportConnectedPath ==
  ASSUME IInv, PathsInv, NEW p \in Peer, TransportConnected(p)
  PROVE  PathsInv'
<1>0. PICK q \in Peer : q = Other(p)
  BY PeerFacts
<1>1. /\ TypeOK /\ PeerInv(p) /\ PathInv(p) /\ q # p
  BY <1>0, BothPeers
<1>2. /\ state[p] = "Idle" /\ state'[p] = "AwaitingCapabilities" /\ driver[p] = "running"
      /\ chan'[q] = Append(chan[q], Hello) /\ chan'[p] = chan[p]
      /\ UNCHANGED <<config, data, request, provider, driver>>
      /\ Leaves(q)
  BY <1>0, <1>1 DEF TransportConnected, Goto, Send, TypeOK, Leaves, Hello
<1>3. data[p].ours = None /\ ~HasKey(p) /\ request[p] = NoRequest
  BY <1>1, <1>2 DEF PeerInv, StateInv, RequestInv
<1>4. Told(p) = 0 /\ Told(p)' = 1 /\ Taken(p)' = Taken(p)
  BY <1>2, <1>3 DEF Told, Taken, Base
<1>5. PathInv(q)'
  <2>1. Says(p, Hello)
    BY <1>0, <1>1, <1>2, <1>4, ValueFacts, RankFacts DEF Says
  <2>. QED
    BY <1>0, <1>2, <2>1, OtherPath
<1>6. PlaceInv(p)'
  BY <1>0, <1>2, <1>4, PlaceKept
<1>7. OrderInv(p)' /\ ReadyInv(p)' /\ RunInv(p)' /\ CleanInv(p)'
  BY <1>0, <1>1, <1>2, <1>3, ConfigFrame
  DEF PathInv, OrderInv, ReadyInv, RunInv, CleanInv, HasKey, NoRequest, Leaves
<1>. QED
  BY <1>0, <1>5, <1>6, <1>7, PathStep DEF PathInv

(* AwaitingCapabilities, DataReceived. *)
LEMMA ReceiveCapabilitiesPath ==
  ASSUME IInv, PathsInv, NEW p \in Peer, ReceiveCapabilities(p)
  PROVE  PathsInv'
<1>0. PICK q \in Peer : q = Other(p)
  BY PeerFacts
<1>1. /\ TypeOK /\ PeerInv(p) /\ PathInv(p) /\ q # p
  BY <1>0, BothPeers
<1>2. /\ state[p] = "AwaitingCapabilities" /\ DataReady(p)
      /\ chan'[p] = Tail(chan[p]) /\ chan'[q] = chan[q]
  BY <1>0, <1>1, ReceiveFacts DEF ReceiveCapabilities, Receive
<1>3. /\ state'[p] = IF isResponder[p] THEN "AwaitingHandshake" ELSE "InitiatingHandshake"
      /\ request'[p] = IF isResponder[p] THEN request[p] ELSE StartRequest(p)
      /\ UNCHANGED <<config, data, provider, driver>>
      /\ Leaves(q) /\ driver'[q] = driver[q] /\ isResponder'[p] = isResponder[p]
  BY <1>0, <1>1 DEF ReceiveCapabilities, Goto, RequestCrypto, TypeOK, Leaves, config
<1>4. data[p].ours = None /\ ~HasKey(p) /\ request[p] = NoRequest /\ driver[p] = "running"
  BY <1>1, <1>2 DEF PeerInv, StateInv, RequestInv, DataReady
<1>5. Told(p)' = Told(p) /\ Taken(p)' = Taken(p) + 1
  BY <1>2, <1>3, <1>4 DEF Told, Taken, Base
<1>6. OrderInv(p)' /\ PathInv(q)'
  BY <1>0, <1>2, <1>3, <1>5, QuietPath
<1>7. PlaceInv(p)'
  BY <1>0, <1>2, <1>3, <1>5, PlaceReceive
<1>8. ReadyInv(p)' /\ RunInv(p)' /\ CleanInv(p)'
  BY <1>1, <1>2, <1>3, <1>4, ConfigFrame
  DEF PathInv, ReadyInv, RunInv, CleanInv, NoRequest, StartRequest
<1>. QED
  BY <1>0, <1>6, <1>7, <1>8, PathStep DEF PathInv

(* AwaitingHandshake, DataReceived: the peer must have sent its handshake. *)
LEMMA ReceiveHandshakePath ==
  ASSUME IInv, PathsInv, NEW p \in Peer, ReceiveHandshake(p)
  PROVE  PathsInv'
<1> DEFINE m == Head(chan[p])
           t == InitiatorTranscript(p, m)
<1>0. PICK q \in Peer : q = Other(p)
  BY PeerFacts
<1>1. /\ TypeOK /\ PeerInv(p) /\ PeerInv(q) /\ PathInv(p) /\ q # p /\ Other(q) = p
  BY <1>0, BothPeers
<1>2. /\ state[p] = "AwaitingHandshake" /\ DataReady(p)
      /\ chan'[p] = Tail(chan[p]) /\ chan'[q] = chan[q]
      /\ m \in Sayings(q) /\ m.type = "handshake"
  BY <1>0, <1>1, ReceiveFacts DEF ReceiveHandshake, Receive
<1>3. /\ UNCHANGED <<config, provider, driver>>
      /\ Leaves(q) /\ driver'[q] = driver[q] /\ isResponder'[p] = isResponder[p]
  BY <1>0, <1>1 DEF ReceiveHandshake, Goto, RequestCrypto, TypeOK, Leaves, config
<1>4. /\ ~HasKey(p) /\ request[p] = NoRequest /\ driver[p] = "running"
      /\ isResponder[p] <=> data[p].ours = None
  BY <1>1, <1>2 DEF PeerInv, StateInv, RequestInv, DataReady
<1>5. data[q].ours # None
  <2>1. data[q].ours = HS(q) /\ HS(q) # None
    BY <1>1, <1>2, RankFacts, ValueFacts DEF Sayings
  <2>. QED
    BY <2>1
<1>6. \/ /\ isResponder[p]
         /\ state'[p] = "GeneratingHandshake"
         /\ data'[p] = [data[p] EXCEPT !.theirs = m]
         /\ request'[p] = StartRequest(p)
      \/ /\ ~isResponder[p]
         /\ state'[p] = "Computing"
         /\ data'[p] = [data[p] EXCEPT !.theirs = m, !.transcript = t]
         /\ request'[p] = FinishRequest(p, m.public, t)
  <2>1. NeedsOwnPublicValue(p) <=> isResponder[p]
    BY <1>1, <1>4, ValueFacts DEF NeedsOwnPublicValue, PeerInv, DataInv
  <2>. QED
    BY <1>1, <2>1 DEF ReceiveHandshake, Goto, RequestCrypto, TypeOK
<1>7. /\ data'[p].ours = data[p].ours /\ data'[p].secret = data[p].secret
      /\ data'[p].pending = data[p].pending
      /\ data'[p].theirs = m /\ m # None
  <2>1. m # None
    BY <1>1, <1>2, ValueFacts, RankTells
  <2>2. data[p] \in CryptoData
    BY <1>1 DEF TypeOK
  <2>. QED
    BY <1>6, <2>1, <2>2 DEF CryptoData
<1>8. data[p].pending = None
  BY <1>1, <1>2, <1>4 DEF PathInv, RunInv
<1>9. Told(p)' = Told(p) /\ Taken(p)' = Taken(p) + 1
  BY <1>2, <1>4, <1>6, <1>7, <1>8 DEF Told, Taken, Base, HasKey, FinishRequest, StartRequest
<1>10. PathInv(q)'
  <2>1. Says(p, Hello)
    BY <1>0, <1>2, <1>9 DEF Says
  <2>. QED
    BY <1>0, <1>3, <1>7, <2>1, OtherPath
<1>11. PlaceInv(p)'
  BY <1>0, <1>2, <1>3, <1>9, PlaceReceive
<1>12. OrderInv(p)'
  BY <1>0, <1>3, <1>4, <1>5, <1>7 DEF OrderInv, HasKey, Leaves
<1>13. ReadyInv(p)'
  BY <1>1, <1>2, <1>3, <1>4, <1>6, <1>7, <1>8
  DEF PathInv, ReadyInv, FinishRequest, StartRequest
<1>14. RunInv(p)' /\ CleanInv(p)'
  BY <1>6, <1>7, <1>8 DEF RunInv, CleanInv, FinishRequest, StartRequest
<1>. QED
  BY <1>0, <1>10, <1>11, <1>12, <1>13, <1>14, PathStep DEF PathInv

(* Computing, DataReceived: the buffer is empty whenever something comes,   *)
(* and while FinishWithConfirmation runs it is the confirmation that comes. *)
LEMMA BufferDataFacts ==
  ASSUME IInv, PathsInv, NEW p \in Peer, BufferData(p)
  PROVE  /\ data[p].pending = None
         /\ request[p].op = "finish" => Head(chan[p]).type = "confirmation"
<1>0. PICK q \in Peer : q = Other(p)
  BY PeerFacts
<1>1. /\ PeerInv(p) /\ PeerInv(q) /\ PathInv(p) /\ PathInv(q) /\ Other(q) = p
  BY <1>0, BothPeers
<1>2. state[p] = "Computing" /\ DataReady(p)
  BY DEF BufferData, Receive
<1>3. /\ driver[p] = "running" /\ Head(chan[p]) \in Sayings(q)
      /\ Rank(Head(chan[p])) = Taken(p) + 1 /\ Told(q) >= Taken(p) + 1
  BY <1>0, <1>2, NextMessage
<1>4. CASE request[p].op = "finish"
  <2>1. Told(q) < 4
    <3>1. ~HasKey(p)
      BY <1>1, <1>4 DEF PeerInv, RequestInv
    <3>2. ~IsVerified(q)
      BY <1>1, <3>1 DEF PeerInv, VerifiedInv
    <3>. QED
      BY <3>2 DEF Told, IsVerified
  <2>2. Base(p) = 2
    BY <1>2, <1>4 DEF Base
  <2>3. data[p].pending = None /\ Taken(p) = 2
    BY <1>3, <2>1, <2>2, PositionFacts DEF Taken
  <2>. QED
    BY <1>3, <2>3, RankTells
<1>5. CASE request[p].op = "verify"
  <2>1. Base(p) = 3 /\ Told(q) <= 4
    BY <1>2, <1>5, PositionFacts DEF Base
  <2>2. data[p].pending = None
    BY <1>3, <2>1, PositionFacts DEF Taken
  <2>. QED
    BY <1>5, <2>2
<1>. QED
  BY <1>1, <1>2, <1>3, <1>4, <1>5 DEF PathInv, RunInv

(* Computing, DataReceived. *)
LEMMA BufferDataPath ==
  ASSUME IInv, PathsInv, NEW p \in Peer, BufferData(p)
  PROVE  PathsInv'
<1> DEFINE m == Head(chan[p])
<1>0. PICK q \in Peer : q = Other(p)
  BY PeerFacts
<1>1. /\ TypeOK /\ PeerInv(p) /\ PathInv(p) /\ q # p
  BY <1>0, BothPeers
<1>2. /\ state[p] = "Computing" /\ DataReady(p)
      /\ chan'[p] = Tail(chan[p]) /\ chan'[q] = chan[q] /\ m \in Message
  BY <1>0, <1>1, ReceiveFacts DEF BufferData, Receive
<1>3. /\ UNCHANGED <<config, state, request, provider, driver>>
      /\ Leaves(q) /\ isResponder'[p] = isResponder[p]
      /\ data'[p] = [data[p] EXCEPT !.pending = m]
  BY <1>0, <1>1 DEF BufferData, TypeOK, Leaves, config
<1>4. /\ data'[p].ours = data[p].ours /\ data'[p].secret = data[p].secret
      /\ data'[p].theirs = data[p].theirs /\ data'[p].pending = m
  BY <1>1, <1>3 DEF TypeOK, CryptoData
<1>5. /\ data[p].pending = None /\ m # None
      /\ request[p].op = "finish" => m.type = "confirmation"
  BY <1>2, BufferDataFacts, NoneIsNoValue
<1>6. Told(p)' = Told(p) /\ Taken(p)' = Taken(p) + 1
  BY <1>2, <1>3, <1>4, <1>5 DEF Told, Taken, Base
<1>7. PathInv(q)'
  <2>1. Says(p, Hello)
    BY <1>0, <1>2, <1>6 DEF Says
  <2>. QED
    BY <1>0, <1>3, <1>4, <2>1, OtherPath
<1>8. PlaceInv(p)'
  BY <1>0, <1>2, <1>3, <1>6, PlaceReceive
<1>9. OrderInv(p)' /\ ReadyInv(p)'
  BY <1>0, <1>1, <1>2, <1>3, <1>4, <1>5 DEF PathInv, OrderInv, ReadyInv, HasKey, Leaves
<1>10. RunInv(p)' /\ CleanInv(p)'
  BY <1>1, <1>2, <1>3, <1>4 DEF PathInv, RunInv, CleanInv
<1>. QED
  BY <1>0, <1>7, <1>8, <1>9, <1>10, PathStep DEF PathInv

(* AwaitingConfirmation, DataReceived. *)
LEMMA ReceiveConfirmationPath ==
  ASSUME IInv, PathsInv, NEW p \in Peer, ReceiveConfirmation(p)
  PROVE  PathsInv'
<1>0. PICK q \in Peer : q = Other(p)
  BY PeerFacts
<1>1. /\ TypeOK /\ PeerInv(p) /\ PathInv(p) /\ q # p
  BY <1>0, BothPeers
<1>2. /\ state[p] = "AwaitingConfirmation" /\ DataReady(p)
      /\ chan'[p] = Tail(chan[p]) /\ chan'[q] = chan[q]
  BY <1>0, <1>1, ReceiveFacts DEF ReceiveConfirmation, Receive
<1>3. /\ UNCHANGED <<config, data, provider, driver>>
      /\ state'[p] = "Computing" /\ request'[p].op = "verify"
      /\ Leaves(q) /\ driver'[q] = driver[q]
  BY <1>0, <1>1
  DEF ReceiveConfirmation, Goto, RequestCrypto, VerifyRequest, TypeOK, Leaves
<1>4. request[p] = NoRequest /\ driver[p] = "running"
  BY <1>1, <1>2 DEF PeerInv, RequestInv, DataReady
<1>5. Told(p)' = Told(p) /\ Taken(p)' = Taken(p) + 1
  BY <1>2, <1>3, <1>4 DEF Told, Taken, Base, NoRequest
<1>6. OrderInv(p)' /\ PathInv(q)'
  BY <1>0, <1>2, <1>3, <1>5, QuietPath
<1>7. PlaceInv(p)'
  BY <1>0, <1>2, <1>3, <1>5, PlaceReceive
<1>8. ReadyInv(p)' /\ RunInv(p)' /\ CleanInv(p)'
  BY <1>1, <1>2, <1>3 DEF PathInv, ReadyInv, RunInv, CleanInv
<1>. QED
  BY <1>0, <1>6, <1>7, <1>8, PathStep DEF PathInv

(* AwaitingStatus, DataReceived: the status is Ok, and it is the last one. *)
LEMMA ReceiveStatusPath ==
  ASSUME IInv, PathsInv, NEW p \in Peer, ReceiveStatus(p)
  PROVE  PathsInv'
<1> DEFINE m == Head(chan[p])
<1>0. PICK q \in Peer : q = Other(p)
  BY PeerFacts
<1>1. /\ TypeOK /\ PeerInv(p) /\ PathInv(p) /\ q # p
  BY <1>0, BothPeers
<1>2. /\ state[p] = "AwaitingStatus" /\ DataReady(p)
      /\ chan'[p] = Tail(chan[p]) /\ chan'[q] = chan[q]
      /\ m \in Sayings(q) /\ m.type = "status"
  BY <1>0, <1>1, ReceiveFacts DEF ReceiveStatus, Receive
<1>3. m.status = "Ok"
  BY <1>2, RankTells DEF Ok
<1>4. /\ UNCHANGED <<config, data, request, provider, driver>>
      /\ state'[p] = "Authenticated"
      /\ Leaves(q) /\ driver'[q] = driver[q]
  BY <1>0, <1>1, <1>3 DEF ReceiveStatus, Goto, TypeOK, Leaves
<1>5. /\ driver[p] = "running" /\ Told(q) >= Taken(p) + 1
  BY <1>0, <1>2, NextMessage
<1>6. data[p].pending = None /\ request[p] = NoRequest
  <2>1. Base(p) = 3 /\ Told(q) <= 4
    BY <1>2, PositionFacts DEF Base
  <2>2. data[p].pending = None
    BY <1>5, <2>1, PositionFacts DEF Taken
  <2>. QED
    BY <1>1, <1>2, <2>2 DEF PeerInv, RequestInv
<1>7. Told(p)' = Told(p) /\ Taken(p)' = Taken(p) + 1
  BY <1>2, <1>4, <1>6 DEF Told, Taken, Base
<1>8. OrderInv(p)' /\ PathInv(q)'
  BY <1>0, <1>2, <1>4, <1>7, QuietPath
<1>9. PlaceInv(p)'
  BY <1>0, <1>2, <1>4, <1>7, PlaceReceive
<1>10. ReadyInv(p)' /\ RunInv(p)' /\ CleanInv(p)'
  BY <1>1, <1>2, <1>4, <1>6 DEF PathInv, ReadyInv, RunInv, CleanInv, NoRequest
<1>. QED
  BY <1>0, <1>8, <1>9, <1>10, PathStep DEF PathInv

(* The one message a handler ever refuses is a handshake with a token that  *)
(* is not the advertised one: no message comes out of turn.                 *)
LEMMA RejectFacts ==
  ASSUME IInv, PathsInv, NEW p \in Peer, RejectData(p)
  PROVE  /\ state[p] = "AwaitingHandshake"
         /\ ~TokenAccepted(p, authToken[Other(p)])
<1> DEFINE m == Head(chan[p])
<1>0. PICK q \in Peer : q = Other(p)
  BY PeerFacts
<1>1. PathInv(p)
  BY <1>0, BothPeers
<1>2. PICK s \in DOMAIN Expects :
        /\ Receive(p, s)
        /\ \/ m.type # Expects[s]
           \/ m.type = "handshake" /\ s = "AwaitingHandshake" /\ ~TokenAccepted(p, m.token)
  BY DEF RejectData
<1>3. state[p] = s /\ DataReady(p)
  BY <1>2 DEF Receive
<1>4. /\ driver[p] = "running" /\ m \in Sayings(q)
      /\ Rank(m) = Taken(p) + 1 /\ Told(q) >= Taken(p) + 1
  BY <1>0, <1>3, NextMessage
<1>5. s \in {"AwaitingCapabilities", "AwaitingHandshake", "AwaitingConfirmation",
             "AwaitingStatus"}
  BY DEF Expects
<1>6. s # "AwaitingStatus" => data[p].pending = None
  BY <1>1, <1>3, <1>4, <1>5 DEF PathInv, RunInv
<1>7. m.type = Expects[s]
  <2>1. CASE s = "AwaitingCapabilities"
    BY <1>3, <1>4, <1>6, <2>1, RankTells DEF Taken, Base, Expects
  <2>2. CASE s = "AwaitingHandshake"
    BY <1>3, <1>4, <1>6, <2>2, RankTells DEF Taken, Base, Expects
  <2>3. CASE s = "AwaitingConfirmation"
    <3>1. PeerInv(p)
      BY <1>0, BothPeers
    <3>2. request[p] = NoRequest
      BY <1>3, <2>3, <3>1 DEF PeerInv, RequestInv
    <3>. QED
      BY <1>3, <1>4, <1>6, <2>3, <3>2, RankTells DEF Taken, Base, Expects, NoRequest
  <2>4. CASE s = "AwaitingStatus"
    <3>1. Taken(p) \in 3..4 /\ Told(q) <= 4
      BY <1>3, <2>4, PositionFacts DEF Taken, Base
    <3>2. Rank(m) = 4
      BY <1>4, <3>1, PositionFacts
    <3>. QED
      BY <1>4, <2>4, <3>2, RankTells DEF Expects
  <2>. QED
    BY <1>5, <2>1, <2>2, <2>3, <2>4
<1>8. s = "AwaitingHandshake" /\ m.type = "handshake" /\ ~TokenAccepted(p, m.token)
  BY <1>2, <1>7
<1>9. m.token = authToken[q]
  BY <1>4, <1>8, RankTells DEF HS
<1>. QED
  BY <1>0, <1>3, <1>8, <1>9

(* A handler returns Err. *)
LEMMA RejectDataPath ==
  ASSUME IInv, PathsInv, NEW p \in Peer, RejectData(p)
  PROVE  PathsInv'
<1>0. PICK q \in Peer : q = Other(p)
  BY PeerFacts
<1>1. TypeOK /\ PathInv(p) /\ PeerInv(p) /\ q # p
  BY <1>0, BothPeers
<1>2. state[p] = "AwaitingHandshake" /\ ~TokenAccepted(p, authToken[q])
  BY <1>0, RejectFacts
<1>3. ~Compatible
  BY <1>0, <1>2 DEF Compatible, TokenAccepted
<1>4. chan'[q] = chan[q]
  BY <1>0, <1>1, ReceiveFacts DEF RejectData
<1>5. /\ UNCHANGED <<config, data, request, provider>>
      /\ state'[p] = "Poisoned" /\ driver'[p] = "stopped"
      /\ Leaves(q) /\ driver'[q] = driver[q]
  BY <1>0, <1>1 DEF RejectData, Goto, TypeOK, Leaves
<1>6. CleanInv(p)'
  BY <1>3, <1>5, ConfigFrame DEF CleanInv
<1>. QED
  BY <1>0, <1>2, <1>4, <1>5, <1>6, StopPath DEF IsVerified

(* Saying the own handshake moves p on by one. *)
LEMMA HandshakeSaid ==
  ASSUME TypeOK, NEW p \in Peer, NEW q \in Peer, q = Other(p),
         state[p] # "Idle", state'[p] \in {"AwaitingHandshake", "Computing"},
         data[p].ours = None, data'[p].ours = HS(p),
         data[p].secret = None, data'[p].secret = data[p].secret,
         chan'[q] = Append(chan[q], HS(p))
  PROVE  Says(p, HS(p))
<1>1. HS(p) \in Message /\ HS(p) # None /\ Rank(HS(p)) = 2
  BY ValueFacts, RankFacts
<1>2. Told(p) = 1 /\ Told(p)' = 2
  BY <1>1 DEF Told
<1>. QED
  BY <1>1, <1>2 DEF Says

(* The provider keeps the own public value for FinishWithConfirmation. *)
LEMMA ProviderKeeps ==
  ASSUME TypeOK, NEW p \in Peer, PeerInv(p), request[p].op = "start", KeepSpake2State(p)
  PROVE  provider'[p] # None /\ \A r \in Peer : r # p => provider'[r] = provider[r]
<1>1. [psk |-> psk[p], public |-> PV(p)] \in Spake2State
  BY ValueFacts DEF Spake2State, TypeOK
<1>2. provider'[p] = [psk |-> psk[p], public |-> PV(p)]
  BY StartFacts
<1>. QED
  BY <1>1, <1>2, NoneIsNoValue DEF KeepSpake2State, TypeOK

(* InitiatingHandshake, CryptoCompleted. *)
LEMMA HandshakeInitiatedPath ==
  ASSUME IInv, PathsInv, NEW p \in Peer, HandshakeInitiated(p)
  PROVE  PathsInv'
<1>0. PICK q \in Peer : q = Other(p)
  BY PeerFacts
<1>1. /\ TypeOK /\ PeerInv(p) /\ PathInv(p) /\ q # p
  BY <1>0, BothPeers
<1>2. /\ state[p] = "InitiatingHandshake" /\ request[p].op = "start"
      /\ driver[p] = "running"
  BY DEF HandshakeInitiated, Answers, CryptoReady
<1>3. /\ NewPublicValue(p) = PV(p) /\ OwnHandshake(p) = HS(p)
      /\ HS(p) \in Message /\ HS(p) # None
      /\ provider'[p] # None /\ provider'[q] = provider[q]
  BY <1>1, <1>2, StartFacts, ValueFacts, ProviderKeeps DEF HandshakeInitiated
<1>4. /\ UNCHANGED <<config, driver>> /\ isResponder'[p] = isResponder[p]
      /\ state'[p] = "AwaitingHandshake" /\ request'[p] = NoRequest
      /\ data'[p] = [data[p] EXCEPT !.public = PV(p), !.ours = HS(p)]
      /\ Leaves(q)
  BY <1>1, <1>3
  DEF HandshakeInitiated, Goto, NoCryptoRequested, RequestCrypto, TypeOK, Leaves, config
<1>5. /\ data'[p].ours = HS(p) /\ data'[p].secret = data[p].secret
      /\ data'[p].pending = data[p].pending /\ data'[p].theirs = data[p].theirs
  BY <1>1, <1>4 DEF TypeOK, CryptoData
<1>6. /\ chan'[q] = Append(chan[q], HS(p)) /\ chan'[p] = chan[p]
  BY <1>0, <1>1, <1>3, SendFacts DEF HandshakeInitiated
<1>7. data[p].secret = None /\ data[p].ours = None /\ ~isResponder[p]
  BY <1>1, <1>2 DEF PeerInv, StateInv, HasKey
<1>8. PathInv(q)'
  <2>1. Says(p, HS(p))
    BY <1>0, <1>1, <1>2, <1>4, <1>5, <1>6, <1>7, HandshakeSaid
  <2>. QED
    BY <1>0, <1>3, <1>4, <1>5, <2>1, OtherPath
<1>9. PlaceInv(p)'
  <2>1. Taken(p)' = Taken(p)
    BY <1>2, <1>4, <1>5 DEF Taken, Base
  <2>. QED
    BY <1>0, <1>2, <1>4, <1>6, <2>1, PlaceKept
<1>10. OrderInv(p)' /\ ReadyInv(p)'
  BY <1>0, <1>1, <1>3, <1>4, <1>5, <1>7
  DEF PathInv, OrderInv, ReadyInv, HasKey, NoRequest, Leaves
<1>11. RunInv(p)' /\ CleanInv(p)'
  BY <1>1, <1>2, <1>4, <1>5 DEF PathInv, RunInv, CleanInv
<1>. QED
  BY <1>0, <1>8, <1>9, <1>10, <1>11, PathStep DEF PathInv

(* GeneratingHandshake, CryptoCompleted. *)
LEMMA HandshakeGeneratedPath ==
  ASSUME IInv, PathsInv, NEW p \in Peer, HandshakeGenerated(p)
  PROVE  PathsInv'
<1> DEFINE t == <<data[p].theirs, OwnHandshake(p)>>
<1>0. PICK q \in Peer : q = Other(p)
  BY PeerFacts
<1>1. /\ TypeOK /\ PeerInv(p) /\ PathInv(p) /\ q # p
  BY <1>0, BothPeers
<1>2. /\ state[p] = "GeneratingHandshake" /\ request[p].op = "start"
      /\ driver[p] = "running"
  BY DEF HandshakeGenerated, Answers, CryptoReady
<1>3. /\ NewPublicValue(p) = PV(p) /\ OwnHandshake(p) = HS(p)
      /\ HS(p) \in Message /\ HS(p) # None
      /\ provider'[p] # None /\ provider'[q] = provider[q]
  BY <1>1, <1>2, StartFacts, ValueFacts, ProviderKeeps DEF HandshakeGenerated
<1>4. /\ UNCHANGED <<config, driver>> /\ isResponder'[p] = isResponder[p]
      /\ state'[p] = "Computing" /\ request'[p].op = "finish"
      /\ data'[p] = [data[p] EXCEPT !.public = PV(p), !.ours = HS(p), !.transcript = t]
      /\ Leaves(q)
  BY <1>1, <1>3
  DEF HandshakeGenerated, Goto, RequestCrypto, FinishRequest, TypeOK, Leaves, config
<1>5. /\ data'[p].ours = HS(p) /\ data'[p].secret = data[p].secret
      /\ data'[p].pending = data[p].pending /\ data'[p].theirs = data[p].theirs
  <2>1. data[p] \in CryptoData
    BY <1>1 DEF TypeOK
  <2>. QED
    BY <1>4, <2>1 DEF CryptoData
<1>6. /\ chan'[q] = Append(chan[q], HS(p)) /\ chan'[p] = chan[p]
  BY <1>0, <1>1, <1>3, SendFacts DEF HandshakeGenerated
<1>7. /\ data[p].secret = None /\ data[p].ours = None /\ isResponder[p]
      /\ data[p].theirs # None /\ data[p].pending = None
  BY <1>1, <1>2 DEF PeerInv, StateInv, HasKey, PathInv, RunInv
<1>8. PathInv(q)'
  <2>1. Says(p, HS(p))
    BY <1>0, <1>1, <1>2, <1>4, <1>5, <1>6, <1>7, HandshakeSaid
  <2>. QED
    BY <1>0, <1>3, <1>4, <1>5, <2>1, OtherPath
<1>9. PlaceInv(p)'
  <2>1. Taken(p)' = Taken(p)
    BY <1>2, <1>4, <1>5 DEF Taken, Base
  <2>. QED
    BY <1>0, <1>2, <1>4, <1>6, <2>1, PlaceKept
<1>10. OrderInv(p)' /\ ReadyInv(p)'
  BY <1>0, <1>1, <1>3, <1>4, <1>5, <1>7 DEF PathInv, OrderInv, ReadyInv, HasKey, Leaves
<1>11. RunInv(p)' /\ CleanInv(p)'
  BY <1>1, <1>2, <1>4, <1>5 DEF PathInv, RunInv, CleanInv
<1>. QED
  BY <1>0, <1>8, <1>9, <1>10, <1>11, PathStep DEF PathInv

(* Saying the own confirmation moves p on by one. *)
LEMMA ConfirmationSaid ==
  ASSUME TypeOK, NEW p \in Peer, NEW q \in Peer, q = Other(p),
         state[p] = "Computing", state'[p] \in {"AwaitingConfirmation", "Computing"},
         data[p].ours # None, data'[p].ours = data[p].ours,
         data[p].secret = None, data'[p].secret = Key(p),
         chan'[q] = Append(chan[q], Conf(p))
  PROVE  Says(p, Conf(p))
<1>1. Conf(p) \in Message /\ Key(p) # None /\ Rank(Conf(p)) = 3
  BY ValueFacts, RankFacts
<1>2. Told(p) = 2 /\ Told(p)' = 3
  BY <1>1 DEF Told
<1>. QED
  BY <1>1, <1>2 DEF Says

(* Computing, CryptoCompleted for FinishWithConfirmation, nothing buffered. *)
LEMMA KeysDerivedPath ==
  ASSUME IInv, PathsInv, NEW p \in Peer, KeysDerived(p)
  PROVE  PathsInv'
<1>0. PICK q \in Peer : q = Other(p)
  BY PeerFacts
<1>1. /\ TypeOK /\ PeerInv(p) /\ PathInv(p) /\ q # p
  BY <1>0, BothPeers
<1>2. /\ state[p] = "Computing" /\ request[p].op = "finish" /\ FinishSucceeds(p)
      /\ driver[p] = "running" /\ data[p].pending = None
  BY DEF KeysDerived, Answers, CryptoReady
<1>3. /\ SharedSecret(p) = Key(p) /\ OwnConfirmation(p) = MAC(p)
      /\ data[p].secret = None /\ data[p].theirs # None /\ Conf(p) \in Message
      /\ data[p].ours # None
  BY <1>0, <1>1, <1>2, FinishFacts, ValueFacts DEF HasKey, PathInv, ReadyInv
<1>4. /\ UNCHANGED <<config, driver>> /\ isResponder'[p] = isResponder[p]
      /\ state'[p] = "AwaitingConfirmation" /\ request'[p] = NoRequest
      /\ data'[p] = [data[p] EXCEPT !.secret = Key(p)]
      /\ Leaves(q)
  BY <1>1, <1>3
  DEF KeysDerived, Goto, NoCryptoRequested, RequestCrypto, TakeSpake2State, TypeOK, Leaves, config
<1>5. /\ data'[p].ours = data[p].ours /\ data'[p].secret = Key(p)
      /\ data'[p].pending = data[p].pending /\ data'[p].theirs = data[p].theirs
  <2>1. data[p] \in CryptoData
    BY <1>1 DEF TypeOK
  <2>. QED
    BY <1>4, <2>1 DEF CryptoData
<1>6. /\ chan'[q] = Append(chan[q], Conf(p)) /\ chan'[p] = chan[p]
  BY <1>0, <1>1, <1>3, SendFacts DEF KeysDerived, Conf
<1>7. PathInv(q)'
  <2>1. Says(p, Conf(p))
    BY <1>0, <1>1, <1>2, <1>3, <1>4, <1>5, <1>6, ConfirmationSaid
  <2>. QED
    BY <1>0, <1>4, <1>5, <2>1, OtherPath
<1>8. PlaceInv(p)'
  <2>1. Taken(p)' = Taken(p)
    BY <1>2, <1>4, <1>5 DEF Taken, Base, NoRequest
  <2>. QED
    BY <1>0, <1>2, <1>4, <1>6, <2>1, PlaceKept
<1>9. OrderInv(p)' /\ ReadyInv(p)'
  BY <1>0, <1>1, <1>3, <1>4, <1>5 DEF PathInv, OrderInv, ReadyInv, HasKey, NoRequest, Leaves
<1>10. RunInv(p)' /\ CleanInv(p)'
  BY <1>1, <1>2, <1>4, <1>5 DEF PathInv, RunInv, CleanInv
<1>. QED
  BY <1>0, <1>7, <1>8, <1>9, <1>10, PathStep DEF PathInv

(* ... and with a buffered message, which is the confirmation. *)
LEMMA KeysDerivedWithPendingPath ==
  ASSUME IInv, PathsInv, NEW p \in Peer, KeysDerivedWithPending(p)
  PROVE  PathsInv'
<1>0. PICK q \in Peer : q = Other(p)
  BY PeerFacts
<1>1. /\ TypeOK /\ PeerInv(p) /\ PathInv(p) /\ q # p
  BY <1>0, BothPeers
<1>2. /\ state[p] = "Computing" /\ request[p].op = "finish" /\ FinishSucceeds(p)
      /\ driver[p] = "running" /\ data[p].pending # None
  BY DEF KeysDerivedWithPending, Answers, CryptoReady
<1>3. data[p].pending.type = "confirmation" /\ data[p].ours # None
  BY <1>1, <1>2 DEF PathInv, ReadyInv
<1>4. /\ SharedSecret(p) = Key(p) /\ OwnConfirmation(p) = MAC(p)
      /\ data[p].secret = None /\ data[p].theirs # None /\ Conf(p) \in Message
  BY <1>0, <1>1, <1>2, FinishFacts, ValueFacts DEF HasKey
<1>5. /\ UNCHANGED <<config, driver>> /\ isResponder'[p] = isResponder[p]
      /\ state'[p] = state[p] /\ request'[p].op = "verify"
      /\ data'[p] = [data[p] EXCEPT !.secret = Key(p), !.pending = None]
      /\ Leaves(q)
  <2>1. /\ UNCHANGED <<config, driver, state>>
        /\ data' = [data EXCEPT ![p].secret = Key(p), ![p].pending = None]
        /\ request' = [request EXCEPT
                        ![p] = VerifyRequest(p, Key(p), data[p].pending.value)]
        /\ provider' = [provider EXCEPT ![p] = None]
    BY <1>3, <1>4 DEF KeysDerivedWithPending, RequestCrypto, TakeSpake2State
  <2>2. VerifyRequest(p, Key(p), data[p].pending.value).op = "verify"
    BY DEF VerifyRequest
  <2>3. data'[p] = [data[p] EXCEPT !.secret = Key(p), !.pending = None]
    BY <1>1, <2>1 DEF TypeOK
  <2>. QED
    BY <1>1, <2>1, <2>2, <2>3 DEF TypeOK, Leaves, config
<1>6. /\ data'[p].ours = data[p].ours /\ data'[p].secret = Key(p)
      /\ data'[p].pending = None /\ data'[p].theirs = data[p].theirs
  <2>1. data[p] \in CryptoData
    BY <1>1 DEF TypeOK
  <2>. QED
    BY <1>5, <2>1 DEF CryptoData
<1>7. /\ chan'[q] = Append(chan[q], Conf(p)) /\ chan'[p] = chan[p]
  BY <1>0, <1>1, <1>3, <1>4, SendFacts DEF KeysDerivedWithPending, Conf
<1>8. PathInv(q)'
  <2>1. Says(p, Conf(p))
    BY <1>0, <1>1, <1>2, <1>3, <1>4, <1>5, <1>6, <1>7, ConfirmationSaid
  <2>. QED
    BY <1>0, <1>5, <1>6, <2>1, OtherPath
<1>9. PlaceInv(p)'
  <2>1. Taken(p)' = Taken(p)
    BY <1>2, <1>5, <1>6 DEF Taken, Base
  <2>. QED
    BY <1>0, <1>2, <1>5, <1>7, <2>1, PlaceKept
<1>10. OrderInv(p)' /\ ReadyInv(p)'
  BY <1>0, <1>1, <1>2, <1>3, <1>4, <1>5, <1>6 DEF PathInv, OrderInv, ReadyInv, HasKey, Leaves
<1>11. RunInv(p)' /\ CleanInv(p)'
  BY <1>1, <1>2, <1>5, <1>6 DEF PathInv, RunInv, CleanInv
<1>. QED
  BY <1>0, <1>8, <1>9, <1>10, <1>11, PathStep DEF PathInv

(* Computing, CryptoCompleted for a verification that succeeds. *)
LEMMA ConfirmationVerifiedPath ==
  ASSUME IInv, PathsInv, NEW p \in Peer, ConfirmationVerified(p)
  PROVE  PathsInv'
<1>0. PICK q \in Peer : q = Other(p)
  BY PeerFacts
<1>1. /\ TypeOK /\ PeerInv(p) /\ PathInv(p) /\ q # p
  BY <1>0, BothPeers
<1>2. /\ state[p] = "Computing" /\ request[p].op = "verify"
      /\ driver[p] = "running"
  BY DEF ConfirmationVerified, Answers, CryptoReady
<1>3. data[p].secret # None /\ data[p].ours # None
  BY <1>1, <1>2 DEF PeerInv, RequestInv, HasKey, PathInv, OrderInv
<1>4. /\ UNCHANGED <<config, data, provider, driver>>
      /\ state'[p] = "AwaitingStatus" /\ request'[p] = NoRequest
      /\ Leaves(q) /\ isResponder'[p] = isResponder[p]
  BY <1>1
  DEF ConfirmationVerified, Goto, NoCryptoRequested, RequestCrypto, TypeOK, Leaves, config
<1>5. /\ chan'[q] = Append(chan[q], Ok) /\ chan'[p] = chan[p] /\ Ok \in Message
  BY <1>0, <1>1, ValueFacts, SendFacts DEF ConfirmationVerified, Ok
<1>6. /\ Told(p) = 3 /\ Told(p)' = 4 /\ Taken(p)' = Taken(p)
  BY <1>2, <1>3, <1>4 DEF Told, Taken, Base
<1>7. PathInv(q)'
  <2>1. Says(p, Ok)
    BY <1>0, <1>5, <1>6, RankFacts DEF Says
  <2>. QED
    BY <1>0, <1>4, <2>1, OtherPath
<1>8. PlaceInv(p)'
  BY <1>0, <1>2, <1>4, <1>5, <1>6, PlaceKept
<1>9. OrderInv(p)' /\ ReadyInv(p)'
  BY <1>0, <1>1, <1>4 DEF PathInv, OrderInv, ReadyInv, HasKey, NoRequest, Leaves
<1>10. RunInv(p)' /\ CleanInv(p)'
  BY <1>1, <1>4 DEF PathInv, RunInv, CleanInv
<1>. QED
  BY <1>0, <1>7, <1>8, <1>9, <1>10, PathStep DEF PathInv

(* The provider fails. *)
LEMMA CryptoFailedPath ==
  ASSUME IInv, PathsInv, NEW p \in Peer, CryptoFailed(p)
  PROVE  PathsInv'
<1>0. PICK q \in Peer : q = Other(p)
  BY PeerFacts
<1>1. /\ TypeOK /\ PathInv(p) /\ q # p
  BY <1>0, BothPeers
<1>2. /\ UNCHANGED <<config, state, data, chan>> /\ request[p] # NoRequest
      /\ provider' \in {provider, [provider EXCEPT ![p] = None]}
      /\ request' = [request EXCEPT ![p] = NoRequest]
      /\ driver' = [driver EXCEPT ![p] = "stopped"]
  BY DEF CryptoFailed, CryptoReady, NoCryptoRequested, RequestCrypto
<1>3. /\ Leaves(q) /\ driver'[q] = driver[q] /\ driver'[p] = "stopped"
      /\ request'[p] = NoRequest
  BY <1>1, <1>2 DEF Leaves, TypeOK
<1>4. CleanInv(p)'
  BY <1>1, <1>2, ConfigFrame DEF PathInv, CleanInv
<1>. QED
  BY <1>0, <1>2, <1>3, <1>4, StopPath

(* A panic needs two equal roles.  InitiatingHandshake and                  *)
(* GeneratingHandshake cannot take data, but nothing can come: a responder  *)
(* speaks only after it has heard the initiator's handshake, and a peer has *)
(* its key only after it has heard p's.                                     *)
LEMMA PanicFacts ==
  ASSUME IInv, PathsInv, NEW p \in Peer, Panic(p)
  PROVE  ~Roles
<1>0. PICK q \in Peer : q = Other(p)
  BY PeerFacts
<1>1. /\ TypeOK /\ PeerInv(p) /\ PeerInv(q) /\ PathInv(p) /\ PathInv(q) /\ Other(q) = p
  BY <1>0, BothPeers
<1>2. PICK input \in {"data", "crypto"} :
        /\ input = "data" => DataReady(p)
        /\ input = "crypto" => CryptoReady(p)
        /\ input \notin Handles[state[p]]
  BY DEF Panic
<1>3. driver[p] = "running" /\ state[p] \in StateName
  BY <1>1, <1>2 DEF DataReady, CryptoReady, TypeOK
<1>4. state[p] \notin {"Poisoned", "Panicked", "Failed"}
  BY <1>1, <1>3 DEF PathInv, RunInv
<1>5. input = "data"
  <2> SUFFICES ASSUME input = "crypto" PROVE FALSE
    BY <1>2
  <2>1. state[p] \in {"InitiatingHandshake", "GeneratingHandshake", "Computing"}
    BY <1>1, <1>2, <1>4 DEF CryptoReady, PeerInv, RequestInv
  <2>. QED
    BY <1>2, <2>1 DEF Handles
<1>6. DataReady(p) /\ state[p] \in {"InitiatingHandshake", "GeneratingHandshake"}
  BY <1>2, <1>3, <1>4, <1>5 DEF DataReady, Handles, StateName
<1>7. Told(q) >= Taken(p) + 1
  BY <1>0, <1>6, NextMessage
<1>8. data[p].ours = None /\ data[p].pending = None
  BY <1>1, <1>3, <1>6 DEF PeerInv, StateInv, PathInv, RunInv
<1>9. data[q].theirs = None /\ data[q].secret = None
  BY <1>1, <1>8 DEF PathInv, OrderInv, PeerInv, DataInv, HasKey
<1>10. CASE state[p] = "GeneratingHandshake"
  <2>1. request[p].op # "verify"
    BY <1>1, <1>10 DEF PeerInv, StateInv, RequestInv
  <2>2. Taken(p) = 2
    BY <1>8, <1>10, <2>1 DEF Taken, Base
  <2>3. Told(q) <= 2
    BY <1>9 DEF Told
  <2>. QED
    BY <1>7, <2>2, <2>3, PositionFacts
<1>11. CASE state[p] = "InitiatingHandshake"
  <2>1. Taken(p) = 1
    BY <1>8, <1>11 DEF Taken, Base
  <2>2. data[q].ours # None
    BY <1>7, <2>1, PositionFacts DEF Told
  <2>3. ~isResponder[q] /\ ~isResponder[p]
    BY <1>1, <1>9, <1>11, <2>2 DEF PathInv, OrderInv, PeerInv, StateInv
  <2>. QED
    BY <1>0, <1>1, <2>3, PeerFacts DEF Roles, Peer, Other, TypeOK
<1>. QED
  BY <1>6, <1>10, <1>11

(* A panic. *)
LEMMA PanicPath ==
  ASSUME IInv, PathsInv, NEW p \in Peer, Panic(p)
  PROVE  PathsInv'
<1>0. PICK q \in Peer : q = Other(p)
  BY PeerFacts
<1>1. /\ TypeOK /\ PeerInv(p) /\ q # p
  BY <1>0, BothPeers
<1>2. /\ UNCHANGED <<config, data, request, provider, chan>>
      /\ state'[p] = "Panicked" /\ driver'[p] = "stopped"
      /\ Leaves(q) /\ driver'[q] = driver[q]
  BY <1>1 DEF Panic, Goto, TypeOK, Leaves
<1>3. state[p] # "Idle" /\ ~IsVerified(p) /\ ~Roles
  BY <1>1, PanicTooEarly, PanicFacts
<1>4. CleanInv(p)'
  BY <1>2, <1>3, ConfigFrame DEF CleanInv
<1>. QED
  BY <1>0, <1>2, <1>3, <1>4, StopPath

(* The driver stops. *)
LEMMA GiveUpPath ==
  ASSUME IInv, PathsInv, NEW p \in Peer, GiveUp(p)
  PROVE  PathsInv'
<1>0. PICK q \in Peer : q = Other(p)
  BY PeerFacts
<1>1. /\ TypeOK /\ PathInv(p) /\ q # p
  BY <1>0, BothPeers
<1>2. /\ UNCHANGED <<config, state, data, request, provider, chan>>
      /\ driver'[p] = "stopped" /\ driver'[q] = driver[q] /\ Leaves(q)
  BY <1>1 DEF GiveUp, TypeOK, Leaves
<1>3. CleanInv(p)'
  BY <1>1, <1>2, ConfigFrame DEF PathInv, CleanInv
<1>. QED
  BY <1>0, <1>2, <1>3, StopPath

(* Nothing happens. *)
LEMMA StutterPath ==
  ASSUME IInv, PathsInv, UNCHANGED vars
  PROVE  PathsInv'
<1> SUFFICES ASSUME NEW p \in Peer PROVE PathInv(p)'
  BY DEF PathsInv
<1>0. PICK q \in Peer : q = Other(p)
  BY PeerFacts
<1>1. PathInv(p) /\ UNCHANGED <<config, state, data, request, provider, chan, driver>>
  BY DEF PathsInv, vars, config
<1>2. Leaves(q) /\ Taken(p)' = Taken(p) /\ isResponder' = isResponder
  BY <1>1 DEF Leaves, Taken, Base, config
<1>3. PlaceInv(p)'
  BY <1>0, <1>1, <1>2, PlaceKept
<1>4. OrderInv(p)' /\ ReadyInv(p)' /\ RunInv(p)' /\ CleanInv(p)'
  BY <1>0, <1>1, <1>2, ConfigFrame DEF PathInv, OrderInv, ReadyInv, RunInv, CleanInv, HasKey
<1>. QED
  BY <1>3, <1>4 DEF PathInv

(* Every step preserves the second invariant. *)
LEMMA NextPath == IInv /\ PathsInv /\ [Next]_vars => PathsInv'
<1> SUFFICES ASSUME IInv, PathsInv, [Next]_vars PROVE PathsInv'
  OBVIOUS
<1>1. ASSUME NEW p \in Peer, DataReceived(p) PROVE PathsInv'
  BY <1>1, ReceiveCapabilitiesPath, ReceiveHandshakePath, BufferDataPath,
     ReceiveConfirmationPath, ReceiveStatusPath, RejectDataPath DEF DataReceived
<1>2. ASSUME NEW p \in Peer, CryptoCompleted(p) PROVE PathsInv'
  BY <1>2, HandshakeInitiatedPath, HandshakeGeneratedPath, KeysDerivedPath,
     KeysDerivedWithPendingPath, ConfirmationVerifiedPath, CryptoFailedPath
  DEF CryptoCompleted
<1>3. ASSUME NEW p \in Peer, Progress(p) \/ GiveUp(p) PROVE PathsInv'
  BY <1>1, <1>2, <1>3, TransportConnectedPath, PanicPath, GiveUpPath DEF Progress
<1>4. CASE UNCHANGED vars
  BY <1>4, StutterPath
<1>. QED
  BY <1>3, <1>4 DEF Next

(* IInv and PathsInv together are an invariant of the handshake. *)
THEOREM PathInvariance == Spec => [](IInv /\ PathsInv)
<1>1. Spec => []IInv
  BY Invariance
<1>. QED
  BY <1>1, InitPath, NextPath, PTL DEF Spec

(* The buffer of Computing holds the peer's confirmation while              *)
(* FinishWithConfirmation runs, whatever the configurations and however     *)
(* network input and crypto results interleave.                             *)
THEOREM BufferKeepsConfirmation == Spec => []BufferedIsConfirmation
<1>1. PathsInv => BufferedIsConfirmation
  BY DEF PathsInv, PathInv, ReadyInv, BufferedIsConfirmation
<1>. QED
  BY <1>1, PathInvariance, PTL

(* There is room for one message in that buffer and one is enough: nothing  *)
(* that was set aside is ever overwritten.                                  *)
THEOREM BufferNeverOverwritten ==
  Spec => [][\A p \in Peer : BufferData(p) => data[p].pending = None]_vars
<1>1. IInv /\ PathsInv => \A p \in Peer : BufferData(p) => data[p].pending = None
  BY BufferDataFacts
<1>. QED
  BY <1>1, PathInvariance, PTL

(* With one initiator and one responder the handlers never panic.           *)
THEOREM PanicFree == Spec => []NoPanic
<1>1. PathsInv => NoPanic
  BY DEF PathsInv, PathInv, CleanInv, NoPanic, Roles
<1>. QED
  BY <1>1, PathInvariance, PTL

(* Whatever the configurations, no message comes out of turn: the only one  *)
(* a handler ever refuses is a handshake whose token is not the advertised  *)
(* one.                                                                     *)
THEOREM OnlyTokensRejected ==
  Spec => [][\A p \in Peer : RejectData(p) =>
               /\ state[p] = "AwaitingHandshake"
               /\ ~TokenAccepted(p, authToken[Other(p)])]_vars
<1>1. IInv /\ PathsInv =>
        \A p \in Peer : RejectData(p) => /\ state[p] = "AwaitingHandshake"
                                         /\ ~TokenAccepted(p, authToken[Other(p)])
  BY RejectFacts
<1>. QED
  BY <1>1, PathInvariance, PTL

(* Compatible peers never meet an error, in any order of inputs. *)
THEOREM CompatiblePeersNeverErr == Spec => []CompatibleNeverErrs
<1>1. IInv /\ PathsInv => CompatibleNeverErrs
  <2> SUFFICES ASSUME IInv, PathsInv, Compatible, NEW p \in Peer
               PROVE  /\ state[p] \notin {"Poisoned", "Failed", "Panicked"}
                      /\ request[p].op = "finish" => FinishSucceeds(p)
                      /\ request[p].op = "verify" => VerifySucceeds(p)
    BY DEF CompatibleNeverErrs
  <2>0. PICK q \in Peer : q = Other(p)
    BY PeerFacts
  <2>1. TypeOK /\ PeerInv(p) /\ PathInv(p) /\ q # p /\ Other(q) = p
    BY <2>0, BothPeers
  <2>2. Roles
    BY DEF Compatible, Roles
  <2>3. state[p] \notin {"Poisoned", "Failed", "Panicked"}
    BY <2>1, <2>2 DEF PathInv, RunInv, CleanInv
  <2>4. psk[p] = psk[q] /\ isResponder[q] = ~isResponder[p]
    BY <2>0, <2>1, PeerFacts DEF Compatible, Peer, Other, TypeOK
  <2>5. ASSUME request[p].op = "finish" PROVE FinishSucceeds(p)
    <3>1. provider[p] # None /\ provider[p] = [psk |-> psk[p], public |-> PV(p)]
      BY <2>1, <2>5 DEF PathInv, ReadyInv, PeerInv, DataInv
    <3>2. request[p] = FinishRequest(p, PV(q), TR(p))
      BY <2>0, <2>1, <2>5 DEF PeerInv, RequestInv
    <3>3. provider[p].public.responder = isResponder[p]
      BY <3>1 DEF PV
    <3>4. request[p].peerPublic.responder = isResponder[q]
      BY <3>2 DEF FinishRequest, PV
    <3>. QED
      BY <2>4, <3>1, <3>3, <3>4 DEF FinishSucceeds
  <2>6. ASSUME request[p].op = "verify" PROVE VerifySucceeds(p)
    <3>1. /\ request[p].context = [key |-> [secret |-> Key(p), responder |-> ~isResponder[p]],
                                   transcript |-> TR(p)]
          /\ request[p].confirmation = MAC(q)
      BY <2>0, <2>1, <2>6 DEF PeerInv, RequestInv
    <3>2. Key(p) = Key(q) /\ TR(p) = TR(q)
      BY <2>0, <2>1, <2>4 DEF Key, TR
    <3>. QED
      BY <2>4, <3>1, <3>2 DEF VerifySucceeds, MAC
  <2>. QED
    BY <2>3, <2>5, <2>6
<1>. QED
  BY <1>1, PathInvariance, PTL
=============================================================================
