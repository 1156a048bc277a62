----------------------------- MODULE MdnsProofs -----------------------------
(***************************************************************************)
(* Theorems about MdnsDiscovery, for every set of names and records,       *)
(* readable or not, and any number of announcements and sessions.          *)
(*                                                                         *)
(* The snapshot is current only while one task writes the map (Sole).  The *)
(* idea of the invariant: the LAST report about a name on its way to the   *)
(* map says what the daemon last reported, and where there is none the map *)
(* says so, if the browser could read it.                                  *)
(***************************************************************************)
EXTENDS MdnsDiscovery, SequenceTheorems, TLAPS

(* A consumer that is about to write has taken a report. *)
TypeInv == TypeOK /\ \A c \in Consumer : pc[c] = "write" => event[c] # None

(* The types and what they need hold initially. *)
LEMMA InitType == Init => TypeInv
<1>. SUFFICES ASSUME Init PROVE TypeInv
  OBVIOUS
<1>1. 1 \in Channel /\ 0 \in 0 .. MaxStarts /\ 0 \in 0 .. MaxAnnounce
  BY MaxStartsAssumption, MaxAnnounceAssumption DEF Channel
<1>2. Nothing \in Directory
  BY DEF Nothing, Directory
<1>3. source \in [Consumer -> Channel]
  BY <1>1 DEF Init, Consumer, Stream
<1>4. chan \in [Channel -> Seq(Report)]
  BY DEF Init
<1>. QED
  BY <1>1, <1>2, <1>3, <1>4 DEF Init, TypeInv, TypeOK, Consumer

(* What is announced and withdrawn keeps the types. *)
LEMMA PublishType ==
  ASSUME TypeInv, NEW n \in Name, NEW i \in Info, Publish(n, i)
  PROVE  TypeInv'
BY MaxAnnounceAssumption
   DEF TypeInv, TypeOK, Publish, Announce, Directory, browserVars, consumerVars, readerVars

LEMMA UnpublishType ==
  ASSUME TypeInv, Unpublish
  PROVE  TypeInv'
BY DEF TypeInv, TypeOK, Unpublish, Withdraw, Directory, browserVars, consumerVars, readerVars

LEMMA OtherDeviceType ==
  ASSUME TypeInv, NEW n \in Name, OtherDevice(n)
  PROVE  TypeInv'
<1>1. registered' \in Directory /\ announced' \in 0 .. MaxAnnounce
  <2>1. CASE Withdraw(n)
    BY <2>1 DEF Withdraw, TypeInv, TypeOK, Directory
  <2>2. CASE \E i \in Info : Announce(n, i)
    BY <2>2, MaxAnnounceAssumption DEF Announce, TypeInv, TypeOK, Directory
  <2>. QED
    BY <2>1, <2>2 DEF OtherDevice
<1>. QED
  BY <1>1 DEF OtherDevice, TypeInv, TypeOK, browserVars, consumerVars, readerVars

(* A report of the daemon, whatever it says, keeps the types. *)
LEMMA DaemonTells ==
  ASSUME TypeInv, NEW n \in Name, Daemon(n)
  PROVE  \E i \in Info \cup {None} : Tell(n, i) /\ i # known[n]
BY DEF Daemon, ServiceResolved, ServiceRemoved, TypeInv, TypeOK, Directory

LEMMA DaemonType ==
  ASSUME TypeInv, NEW n \in Name, Daemon(n)
  PROVE  TypeInv'
<1>1. PICK i \in Info \cup {None} : Tell(n, i)
  BY DaemonTells
<1>2. [name |-> n, info |-> i] \in Report
  BY DEF Report
<1>3. live \in Channel /\ chan[live] \in Seq(Report)
  BY <1>1 DEF Tell, TypeInv, TypeOK
<1>4. Append(chan[live], [name |-> n, info |-> i]) \in Seq(Report)
  BY <1>2, <1>3
<1>5. chan' \in [Channel -> Seq(Report)]
  BY <1>1, <1>3, <1>4 DEF Tell, TypeInv, TypeOK
<1>6. known' \in Directory
  BY <1>1 DEF Tell, TypeInv, TypeOK, Directory
<1>. QED
  BY <1>1, <1>5, <1>6
     DEF Tell, TypeInv, TypeOK, publisherVars, browserVars, consumerVars, readerVars

(* The browser keeps the types. *)
LEMMA BrowserType ==
  ASSUME TypeInv, StartBrowsing \/ StopBrowsing \/ StopFails \/ OpenStream \/ DropStream
  PROVE  TypeInv'
<1>1. CASE StartBrowsing
  <2>1. started + 1 \in Channel /\ started + 1 \in 0 .. MaxStarts
    BY <1>1, MaxStartsAssumption DEF StartBrowsing, Channel, TypeInv, TypeOK
  <2>. QED
    BY <1>1, <2>1
       DEF StartBrowsing, Directory, Nothing, Consumer, publisherVars, readerVars,
           TypeInv, TypeOK
<1>2. CASE StopBrowsing
  BY <1>2 DEF StopBrowsing, Directory, Nothing, publisherVars, consumerVars,
              readerVars, TypeInv, TypeOK
<1>3. CASE OpenStream
  BY <1>3 DEF OpenStream, Stream, publisherVars, browserVars, TypeInv, TypeOK
<1>4. CASE DropStream
  BY <1>4 DEF DropStream, publisherVars, browserVars, readerVars, TypeInv, TypeOK
<1>5. CASE StopFails
  BY <1>5 DEF StopFails, publisherVars, consumerVars, readerVars, TypeInv, TypeOK
<1>. QED
  BY <1>1, <1>2, <1>3, <1>4, <1>5

(* A turn of a consumer keeps the types. *)
LEMMA TurnType ==
  ASSUME TypeInv, NEW c \in Consumer, Turn(c)
  PROVE  TypeInv'
<1>1. CASE CheckBrowsing(c)
  BY <1>1 DEF CheckBrowsing, Goto, publisherVars, browserVars, readerVars, TypeInv, TypeOK
<1>2. CASE Receive(c)
  <2>1. source[c] \in Channel /\ chan[source[c]] \in Seq(Report)
    BY DEF TypeInv, TypeOK
  <2>2. Head(chan[source[c]]) \in Report /\ Tail(chan[source[c]]) \in Seq(Report)
    BY <1>2, <2>1, HeadTailProperties DEF Receive
  <2>3. event' \in [Consumer -> Report \cup {None}] /\ event'[c] \in Report
    BY <1>2, <2>2 DEF Receive, TypeInv, TypeOK
  <2>4. None \notin Report
    BY NoneIsNoReport
  <2>5. chan' \in [Channel -> Seq(Report)]
    BY <1>2, <2>1, <2>2 DEF Receive, TypeInv, TypeOK
  <2>. QED
    BY <1>2, <2>3, <2>4, <2>5
       DEF Receive, Goto, publisherVars, browserVars, readerVars, TypeInv, TypeOK
<1>3. CASE Disconnected(c)
  BY <1>3 DEF Disconnected, Goto, publisherVars, browserVars, readerVars, TypeInv, TypeOK
<1>4. CASE Write(c)
  <2>1. event[c] \in Report
    BY <1>4 DEF Write, TypeInv, TypeOK
  <2>2. Apply(services, event[c]) \in Directory /\ Apply(view, event[c]) \in Directory
    BY <2>1 DEF Apply, Directory, Report, TypeInv, TypeOK
  <2>. QED
    BY <1>4, <2>2 DEF Write, Goto, publisherVars, browserVars, TypeInv, TypeOK
<1>. QED
  BY <1>1, <1>2, <1>3, <1>4 DEF Turn

(* Every step keeps the types. *)
LEMMA NextType == TypeInv /\ [Next]_vars => TypeInv'
<1>. SUFFICES ASSUME TypeInv, [Next]_vars PROVE TypeInv'
  OBVIOUS
<1>1. CASE UNCHANGED vars
  BY <1>1 DEF vars, TypeInv, TypeOK
<1>2. CASE Next
  BY <1>2, PublishType, UnpublishType, OtherDeviceType, DaemonType, BrowserType,
     TurnType, SubsetAssumption DEF Next
<1>. QED
  BY <1>1, <1>2

(* The variables keep their types, however often browsing starts and with  *)
(* any streams: the indices of channels and consumers fit together.        *)
THEOREM TypesHold == Spec => []TypeInv
<1>. QED
  BY InitType, NextType, PTL DEF Spec

(* The state variables have their types (TypeOK of mdns_discovery). *)
THEOREM TypeCorrect == Spec => []TypeOK
<1>1. TypeInv => TypeOK
  BY DEF TypeInv
<1>. QED
  BY <1>1, TypesHold, PTL

----------------------------------------------------------------------------
(* The first browsing session, whose task is the only consumer *)

Silent(n) == \A i \in 1 .. Len(chan[1]) : chan[1][i].name # n

(* The last report about n in the channel *)
LastReport(n, i) ==
  /\ i \in 1 .. Len(chan[1])
  /\ chan[1][i].name = n
  /\ \A j \in 1 .. Len(chan[1]) : j > i => chan[1][j].name # n

(* The last word on n: in the channel, in the task's hands, in the map. *)
Queued(n) == \E i \in 1 .. Len(chan[1]) : LastReport(n, i) /\ chan[1][i].info = known[n]

InHand(n) ==
  Silent(n) /\ pc[1] = "write" /\ event[1].name = n /\ event[1].info = known[n]

Shown(n) ==
  /\ Silent(n)
  /\ pc[1] = "write" => event[1].name # n
  /\ known[n] \notin Unreadable => services[n] = known[n]

LastWord(n) == Queued(n) \/ InHand(n) \/ Shown(n)

(* Channels and tasks exist as far as browsing was started, and the daemon *)
(* reports to the newest one while the flag is up.                         *)
Frame ==
  /\ source[1] = 1
  /\ ~streamed => pc[Stream] = "off"
  /\ \A c \in Channel : c > started => pc[c] = "off" /\ chan[c] = <<>>
  /\ live # None => live <= started
  /\ browsing => live = started
  /\ started = 0 /\ ~streamed => services = Nothing

SessionInv ==
  /\ Frame
  /\ browsing /\ Sole => \A n \in Name : LastWord(n)

(* The types and the frame of the state, which the lemmas below start from.*)
LEMMA Indices ==
  ASSUME TypeInv
  PROVE  /\ 1 \in Channel /\ 1 \in Consumer /\ Stream \in Consumer /\ Stream # 1
         /\ started \in Nat /\ Channel \subseteq Nat \ {0}
         /\ None \notin Channel /\ None \notin Nat
         /\ chan[1] \in Seq(Report)
<1>1. 1 \in Channel /\ Channel \subseteq Nat \ {0} /\ started \in Nat
  BY MaxStartsAssumption DEF Channel, TypeInv, TypeOK
<1>2. 1 \in Consumer /\ Stream \in Consumer /\ Stream # 1
  BY <1>1 DEF Consumer, Stream
<1>3. None \notin Channel /\ None \notin Nat
  BY <1>1, NoneIsNoValue
<1>4. chan[1] \in Seq(Report)
  BY <1>1 DEF TypeInv, TypeOK
<1>. QED
  BY <1>1, <1>2, <1>3, <1>4

(* Every step keeps the frame. *)
LEMMA FrameStep ==
  ASSUME TypeInv, Frame, [Next]_vars
  PROVE  Frame'
<1>0. /\ 1 \in Channel /\ 1 \in Consumer /\ Stream \in Consumer /\ Stream # 1
      /\ started \in Nat /\ Channel \subseteq Nat \ {0}
      /\ None \notin Channel /\ None \notin Nat
      /\ Stream \notin Channel /\ Channel \subseteq Consumer
  BY Indices DEF Consumer, Stream
<1>1. CASE UNCHANGED <<browserVars, services, live, known, chan, consumerVars, readerVars>>
  BY <1>1 DEF Frame, browserVars, consumerVars, readerVars
<1>2. CASE \E n \in Name \ Foreign, i \in Info \ Unreadable : Publish(n, i)
  BY <1>1, <1>2 DEF Publish
<1>3. CASE Unpublish
  BY <1>1, <1>3 DEF Unpublish
<1>4. CASE \E n \in Foreign : OtherDevice(n)
  BY <1>1, <1>4 DEF OtherDevice
<1>5. CASE \E n \in Name : Daemon(n)
  <2>1. PICK n \in Name, i \in Info \cup {None} : Tell(n, i)
    BY <1>5, DaemonTells
  <2>2. live \in Channel /\ live <= started
    BY <2>1 DEF Tell, Frame, TypeInv, TypeOK
  <2>3. \A c \in Channel : c > started => chan'[c] = chan[c]
    BY <1>0, <2>1, <2>2 DEF Tell, TypeInv, TypeOK
  <2>. QED
    BY <2>1, <2>3 DEF Tell, Frame, browserVars, consumerVars, readerVars
<1>6. CASE StartBrowsing
  <2>1. started' = started + 1 /\ started + 1 \in Channel /\ live' = started'
    BY <1>6, MaxStartsAssumption DEF StartBrowsing, Channel, TypeInv, TypeOK
  <2>2. \A c \in Consumer : c # started' => pc'[c] = pc[c]
    BY <1>6, <2>1 DEF StartBrowsing, TypeInv, TypeOK
  <2>3. \A c \in Channel : c > started' => pc'[c] = "off" /\ chan'[c] = <<>>
    <3>. SUFFICES ASSUME NEW c \in Channel, c > started'
                  PROVE  pc'[c] = "off" /\ chan'[c] = <<>>
      OBVIOUS
    <3>1. c > started /\ c # started' /\ c \in Consumer
      BY <1>0, <2>1
    <3>. QED
      BY <1>6, <2>2, <3>1 DEF StartBrowsing, Frame
  <2>4. ~streamed' => pc'[Stream] = "off"
    BY <1>0, <1>6, <2>1, <2>2 DEF StartBrowsing, Frame, readerVars
  <2>. QED
    BY <1>0, <1>6, <2>1, <2>3, <2>4 DEF StartBrowsing, Frame
<1>7. CASE StopBrowsing
  BY <1>7 DEF StopBrowsing, Frame, consumerVars, readerVars
<1>8. CASE StopFails
  BY <1>8 DEF StopFails, Frame, consumerVars, readerVars
<1>9. CASE OpenStream
  <2>1. source'[1] = source[1] /\ \A c \in Channel : pc'[c] = pc[c]
    BY <1>0, <1>9 DEF OpenStream, TypeInv, TypeOK
  <2>. QED
    BY <1>9, <2>1 DEF OpenStream, Frame, browserVars
<1>10. CASE DropStream
  <2>1. pc'[Stream] = "off" /\ \A c \in Channel : pc'[c] = pc[c]
    BY <1>0, <1>10 DEF DropStream, TypeInv, TypeOK
  <2>. QED
    BY <1>10, <2>1 DEF DropStream, Frame, browserVars, readerVars
<1>11. ASSUME NEW c \in Consumer, Turn(c) PROVE Frame'
  <2>1. /\ pc[c] # "off" /\ \A d \in Consumer : d # c => pc'[d] = pc[d]
        /\ UNCHANGED <<source, streamed, live, browsing, started>>
    BY <1>11 DEF Turn, CheckBrowsing, Receive, Disconnected, Write, Goto, TypeInv, TypeOK,
                 browserVars, readerVars
  <2>2. ~streamed => c \in Channel /\ pc'[Stream] = "off" /\ started # 0
    <3>. SUFFICES ASSUME ~streamed
                  PROVE  c \in Channel /\ pc'[Stream] = "off" /\ started # 0
      OBVIOUS
    <3>1. c # Stream /\ pc[Stream] = "off"
      BY <2>1 DEF Frame
    <3>2. c \in Channel
      BY <3>1 DEF Consumer
    <3>3. ~(c > started)
      BY <2>1, <3>2 DEF Frame
    <3>4. pc'[Stream] = "off"
      BY <1>0, <2>1, <3>1
    <3>. QED
      BY <1>0, <3>2, <3>3, <3>4
  <2>3. \A d \in Channel : d > started => d # c /\ pc'[d] = "off"
    BY <1>0, <2>1 DEF Frame
  <2>4. \A d \in Channel : d > started => chan'[d] = <<>>
    <3>1. CASE Receive(c)
      <4>1. source[c] \in Channel /\ chan[source[c]] # <<>>
        BY <3>1 DEF Receive, TypeInv, TypeOK
      <4>2. \A d \in Channel : d # source[c] => chan'[d] = chan[d]
        BY <3>1 DEF Receive, TypeInv, TypeOK
      <4>. QED
        BY <4>1, <4>2 DEF Frame
    <3>2. CASE ~Receive(c)
      <4>1. chan' = chan
        BY <1>11, <3>2 DEF Turn, CheckBrowsing, Disconnected, Write
      <4>. QED
        BY <4>1 DEF Frame
    <3>. QED
      BY <3>1, <3>2
  <2>. QED
    BY <2>1, <2>2, <2>3, <2>4 DEF Frame
<1>12. CASE UNCHANGED vars
  BY <1>1, <1>12 DEF vars, browserVars, consumerVars, readerVars
<1>. QED
  BY <1>2, <1>3, <1>4, <1>5, <1>6, <1>7, <1>8, <1>9, <1>10, <1>11, <1>12 DEF Next

(* The daemon reports: its report is the last one of that name. *)
LEMMA DaemonSession ==
  ASSUME TypeInv, SessionInv, browsing, Sole, NEW m \in Name, Daemon(m)
  PROVE  \A n \in Name : LastWord(n)'
<1>0. /\ 1 \in Channel /\ started \in Nat /\ Channel \subseteq Nat \ {0}
      /\ None \notin Nat /\ chan[1] \in Seq(Report)
  BY Indices
<1>1. PICK i \in Info \cup {None} : Tell(m, i)
  BY DaemonTells
<1>2. live = 1
  <2>1. live = started /\ live \in Channel
    BY <1>1 DEF Tell, SessionInv, Frame, TypeInv, TypeOK
  <2>. QED
    BY <1>0, <2>1 DEF Sole
<1>3. [name |-> m, info |-> i] \in Report
  BY DEF Report
<1>4. chan'[1] = Append(chan[1], [name |-> m, info |-> i])
  BY <1>0, <1>1, <1>2 DEF Tell, TypeInv, TypeOK
<1>5. /\ Len(chan'[1]) = Len(chan[1]) + 1
      /\ \A j \in 1 .. Len(chan[1]) : chan'[1][j] = chan[1][j]
      /\ chan'[1][Len(chan[1]) + 1].name = m
      /\ chan'[1][Len(chan[1]) + 1].info = i
      /\ Len(chan[1]) \in Nat
  BY <1>0, <1>3, <1>4
<1>6. Queued(m)'
  <2>1. PICK l \in Nat : l = Len(chan[1]) + 1
    BY <1>5
  <2>2. LastReport(m, l)'
    BY <1>5, <2>1 DEF LastReport
  <2>3. l \in 1 .. Len(chan'[1]) /\ chan'[1][l].info = known'[m]
    BY <1>1, <1>5, <2>1 DEF Tell, TypeInv, TypeOK, Directory
  <2>. QED
    BY <2>2, <2>3 DEF Queued
<1>7. ASSUME NEW n \in Name, n # m PROVE LastWord(n)'
  <2>1. known'[n] = known[n] /\ UNCHANGED <<pc, event, services>>
    BY <1>1, <1>7 DEF Tell, consumerVars, TypeInv, TypeOK, Directory
  <2>2. Silent(n) => Silent(n)'
    BY <1>5, <1>7 DEF Silent
  <2>3. ASSUME NEW k \in 1 .. Len(chan[1]), LastReport(n, k), chan[1][k].info = known[n]
        PROVE  Queued(n)'
    <3>0. ASSUME NEW j \in 1 .. Len(chan'[1]), j > k
          PROVE  chan'[1][j].name # n
      <4>1. CASE j = Len(chan[1]) + 1
        BY <1>5, <1>7, <4>1
      <4>2. CASE j # Len(chan[1]) + 1
        <5>1. j \in 1 .. Len(chan[1])
          BY <1>5, <4>2
        <5>. QED
          BY <1>5, <2>3, <3>0, <5>1 DEF LastReport
      <4>. QED
        BY <4>1, <4>2
    <3>1. LastReport(n, k)'
      <4>1. k \in 1 .. Len(chan'[1]) /\ chan'[1][k] = chan[1][k]
        BY <1>5
      <4>. QED
        BY <2>3, <3>0, <4>1 DEF LastReport
    <3>2. k \in 1 .. Len(chan'[1]) /\ chan'[1][k].info = known'[n]
      BY <1>5, <2>1, <2>3
    <3>. QED
      BY <3>1, <3>2 DEF Queued
  <2>4. Queued(n) \/ InHand(n) \/ Shown(n)
    BY DEF SessionInv, LastWord
  <2>. QED
    BY <2>1, <2>2, <2>3, <2>4 DEF LastWord, Queued, InHand, Shown
<1>. QED
  BY <1>6, <1>7 DEF LastWord

(* The task takes the oldest report: it is in hand, the others move up. *)
LEMMA ReceiveSession ==
  ASSUME TypeInv, SessionInv, Receive(1), NEW n \in Name, LastWord(n)
  PROVE  LastWord(n)'
<1>1. 1 \in Channel /\ 1 \in Consumer /\ chan[1] \in Seq(Report)
  BY Indices
<1>2. source[1] = 1 /\ chan[1] # <<>>
  BY <1>1 DEF SessionInv, Frame, Receive
<1>3. /\ chan'[1] = Tail(chan[1]) /\ event'[1] = Head(chan[1])
      /\ pc[1] = "receive" /\ pc'[1] = "write"
  BY <1>1, <1>2 DEF Receive, Goto, TypeInv, TypeOK
<1>4. /\ Len(chan[1]) \in Nat /\ Len(chan[1]) > 0
      /\ Len(chan'[1]) = Len(chan[1]) - 1
      /\ \A j \in 1 .. Len(chan'[1]) : chan'[1][j] = chan[1][j + 1]
      /\ event'[1] = chan[1][1]
  BY <1>1, <1>2, <1>3, HeadTailProperties
<1>5. UNCHANGED <<known, services>>
  BY DEF Receive
<1>6. CASE Queued(n)
  <2>1. PICK k \in 1 .. Len(chan[1]) : LastReport(n, k) /\ chan[1][k].info = known[n]
    BY <1>6 DEF Queued
  <2>2. CASE k = 1
    BY <1>3, <1>4, <1>5, <2>1, <2>2 DEF LastReport, InHand, Silent, LastWord
  <2>3. CASE k # 1
    <3>1. k - 1 \in 1 .. Len(chan'[1]) /\ chan'[1][k - 1] = chan[1][k]
      BY <1>4, <2>3
    <3>2. LastReport(n, k - 1)'
      BY <1>4, <2>1, <3>1, SMTT(30) DEF LastReport
    <3>. QED
      BY <1>5, <2>1, <3>1, <3>2 DEF Queued, LastWord
  <2>. QED
    BY <2>2, <2>3
<1>7. CASE Shown(n)
  BY <1>3, <1>4, <1>5, <1>7 DEF Shown, Silent, LastWord
<1>. QED
  BY <1>3, <1>6, <1>7 DEF InHand, LastWord

(* The task writes what it has in hand, if it can read it. *)
LEMMA WriteSession ==
  ASSUME TypeInv, SessionInv, Write(1), NEW n \in Name, LastWord(n)
  PROVE  LastWord(n)'
<1>1. 1 \in Consumer
  BY Indices
<1>2. pc[1] = "write" /\ pc'[1] = "check" /\ UNCHANGED <<known, chan>>
  BY <1>1 DEF Write, Goto, TypeInv, TypeOK
<1>3. event[1] \in Report /\ event[1].name \in Name
  BY <1>1, <1>2 DEF Report, TypeInv, TypeOK
<1>4. event[1].info \notin Unreadable =>
        services' = [services EXCEPT ![event[1].name] = event[1].info]
  BY DEF Write, Apply
<1>5. event[1].info \in Unreadable => services' = services
  BY DEF Write, Apply
<1>6. event[1].name # n => services'[n] = services[n]
  BY <1>3, <1>4, <1>5 DEF TypeInv, TypeOK, Directory
<1>7. event[1].name = n /\ event[1].info \notin Unreadable => services'[n] = event[1].info
  BY <1>4 DEF TypeInv, TypeOK, Directory
<1>8. CASE Queued(n)
  BY <1>2, <1>8 DEF Queued, LastReport, LastWord
<1>9. CASE InHand(n)
  BY <1>2, <1>7, <1>9 DEF InHand, Shown, Silent, LastWord
<1>10. CASE Shown(n)
  BY <1>2, <1>6, <1>10 DEF Shown, Silent, LastWord
<1>. QED
  BY <1>8, <1>9, <1>10 DEF LastWord

(* Every other step leaves the session's reports where they are. *)
LEMMA SessionStep ==
  ASSUME TypeInv, SessionInv, [Next]_vars
  PROVE  SessionInv'
<1>0. /\ 1 \in Channel /\ 1 \in Consumer /\ Stream \in Consumer
      /\ started \in Nat /\ Channel \subseteq Nat \ {0}
  BY Indices
<1>. SUFFICES ASSUME browsing', Sole' PROVE \A n \in Name : LastWord(n)'
  BY FrameStep DEF SessionInv
<1>1. ASSUME UNCHANGED <<browserVars, services, live, known, chan, consumerVars, readerVars>>
      PROVE  \A n \in Name : LastWord(n)'
  BY <1>1 DEF SessionInv, Sole, LastWord, Queued, LastReport, InHand, Shown, Silent,
              browserVars, consumerVars, readerVars
<1>2. CASE \E n \in Name \ Foreign, i \in Info \ Unreadable : Publish(n, i)
  BY <1>1, <1>2 DEF Publish
<1>3. CASE Unpublish
  BY <1>1, <1>3 DEF Unpublish
<1>4. CASE \E n \in Foreign : OtherDevice(n)
  BY <1>1, <1>4 DEF OtherDevice
<1>5. CASE \E n \in Name : Daemon(n)
  <2>1. PICK m \in Name : Daemon(m)
    BY <1>5
  <2>2. UNCHANGED <<browsing, started, streamed>>
    BY <2>1 DEF Daemon, ServiceResolved, ServiceRemoved, Tell, browserVars, readerVars
  <2>3. browsing /\ Sole
    BY <2>2 DEF Sole
  <2>. QED
    BY <2>1, <2>3, DaemonSession
<1>6. CASE StartBrowsing
  <2>1. started = 0 /\ ~streamed
    BY <1>0, <1>6 DEF StartBrowsing, Sole, readerVars
  <2>2. chan'[1] = <<>> /\ services' = Nothing /\ known' = Nothing
    BY <1>0, <1>6, <2>1 DEF StartBrowsing, SessionInv, Frame
  <2>3. pc'[1] = "check"
    BY <1>0, <1>6, <2>1 DEF StartBrowsing, TypeInv, TypeOK
  <2>. QED
    BY <2>2, <2>3 DEF LastWord, Shown, Silent
<1>7. CASE StopBrowsing \/ StopFails
  BY <1>7 DEF StopBrowsing, StopFails
<1>8. CASE OpenStream
  BY <1>8 DEF OpenStream, Sole
<1>9. CASE DropStream
  BY <1>9 DEF DropStream, SessionInv, Frame, Sole, readerVars
<1>10. ASSUME NEW c \in Consumer, Turn(c) PROVE \A n \in Name : LastWord(n)'
  <2>0. UNCHANGED <<browsing, started, streamed>> /\ pc[c] # "off"
    BY <1>10 DEF Turn, CheckBrowsing, Receive, Disconnected, Write,
                 browserVars, readerVars
  <2>1. browsing /\ Sole /\ pc[c] # "off"
    BY <2>0 DEF Sole
  <2>2. c = 1
    <3>1. c # Stream
      BY <2>1 DEF SessionInv, Frame, Sole
    <3>2. c \in Channel /\ ~(c > started)
      BY <2>1, <3>1 DEF SessionInv, Frame, Consumer
    <3>. QED
      BY <1>0, <2>1, <3>2 DEF Sole
  <2>3. \A n \in Name : LastWord(n)
    BY <2>1 DEF SessionInv
  <2>4. CASE CheckBrowsing(1)
    <3>1. pc[1] # "write" /\ pc'[1] # "write"
      BY <1>0, <2>4 DEF CheckBrowsing, Goto, TypeInv, TypeOK
    <3>. QED
      BY <2>3, <2>4, <3>1 DEF CheckBrowsing, LastWord, Queued, LastReport, InHand,
                              Shown, Silent
  <2>5. CASE Disconnected(1)
    <3>1. live # 1 /\ live = started /\ started <= 1
      BY <2>1, <2>5 DEF Disconnected, SessionInv, Frame, Sole
    <3>2. started = 0
      BY <1>0, <3>1
    <3>. QED
      BY <1>0, <2>1, <2>2, <3>2 DEF SessionInv, Frame
  <2>. QED
    BY <1>10, <2>2, <2>3, <2>4, <2>5, ReceiveSession, WriteSession DEF Turn
<1>11. CASE UNCHANGED vars
  BY <1>1, <1>11 DEF vars, browserVars, consumerVars, readerVars
<1>. QED
  BY <1>2, <1>3, <1>4, <1>5, <1>6, <1>7, <1>8, <1>9, <1>10, <1>11 DEF Next

(* When nothing is on its way, the map has the last word on every name. *)
LEMMA SessionSettles ==
  ASSUME TypeInv, SessionInv
  PROVE  SnapshotIsCurrent
<1>. SUFFICES ASSUME Settled, Sole, NEW n \in Name, known[n] \notin Unreadable
              PROVE  services[n] = known[n]
  BY DEF SnapshotIsCurrent
<1>1. browsing /\ chan[1] = <<>> /\ pc[1] # "write"
  BY Indices DEF Settled
<1>2. \A i : i \notin 1 .. Len(chan[1])
  BY <1>1
<1>3. ~Queued(n) /\ ~InHand(n)
  BY <1>1, <1>2 DEF Queued, InHand
<1>. QED
  BY <1>1, <1>3 DEF SessionInv, LastWord, Shown

(* While the task of the first session alone writes the map,               *)
(* discovered_services() shows, once the reports are taken, what was last  *)
(* reported of every service it could read (SnapshotIsCurrent).            *)
THEOREM SnapshotCurrent == Spec => []SnapshotIsCurrent
<1>1. Init => SessionInv
  <2>. SUFFICES ASSUME Init PROVE SessionInv
    OBVIOUS
  <2>1. 1 \in Consumer /\ Stream \in Consumer /\ Stream # 1
    BY InitType, Indices
  <2>. QED
    BY <2>1 DEF Init, SessionInv, Frame, Consumer
<1>2. TypeInv /\ SessionInv /\ [Next]_vars => SessionInv'
  BY SessionStep
<1>3. TypeInv /\ SessionInv => SnapshotIsCurrent
  BY SessionSettles
<1>. QED
  BY <1>1, <1>2, <1>3, TypesHold, PTL DEF Spec
=============================================================================
