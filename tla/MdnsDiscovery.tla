--------------------------- MODULE MdnsDiscovery ---------------------------
(***************************************************************************)
(* Discovery over mDNS (openscreen-discovery-mdns): a publisher that       *)
(* registers services, and a browser that keeps a map of the services it   *)
(* has been told of and offers a stream of discovery events.               *)
(*                                                                         *)
(* The mdns-sd daemon reports to the browser through a channel.  Every     *)
(* start_browsing() makes a channel and spawns a task that reads it; the   *)
(* event stream reads a clone of the receiver, that is the SAME channel:   *)
(* an event goes to whoever takes it first.  Every consumer is a loop      *)
(* whose awaits (the flag's lock, the channel, the map's lock) are where   *)
(* the others run.                                                         *)
(*                                                                         *)
(* Of the daemon (the crate mdns-sd) this module assumes that it reports   *)
(* every change in order and loses none, and that a second browse() of the *)
(* same service type replaces the listener of the first, whose channel is  *)
(* then closed.                                                            *)
(***************************************************************************)
EXTENDS Naturals, Sequences

CONSTANTS
  Name,         \* service names
  Info,         \* what the records of a service say
  Foreign,      \* the names of other devices' services
  Unreadable,   \* the records service_info_from_mdns() refuses
  None,
  MaxStarts,    \* bound on the calls of start_browsing()
  MaxAnnounce   \* bound on the services announced, by anybody

ASSUME MaxStartsAssumption == MaxStarts \in Nat \ {0}
ASSUME MaxAnnounceAssumption == MaxAnnounce \in Nat
ASSUME SubsetAssumption == Foreign \subseteq Name /\ Unreadable \subseteq Info
ASSUME NoneIsNoValue == None \notin Name /\ None \notin Info /\ None \notin Nat

Channel == 1 .. MaxStarts

(* The tasks are named after the channel they read; 0 is the event stream. *)
Stream == 0
Consumer == {Stream} \cup Channel

VARIABLES
  registered,  \* what is on the air
  fullname,    \* MdnsPublisher.service_fullname
  announced,   \* announcements so far
  browsing,    \* MdnsBrowser.browsing
  receiver,    \* MdnsBrowser.receiver
  services,    \* MdnsBrowser.services
  started,     \* calls of start_browsing() so far
  live,        \* the channel the browser's daemon reports to
  known,       \* what the daemon has reported on that channel
  chan,        \* the reports nobody has taken yet
  pc,          \* where a consumer's loop is
  source,      \* the channel it reads
  event,       \* the report it has taken
  view,        \* what the reader of the event stream knows
  streamed     \* (history) the event stream has been opened

publisherVars == <<registered, fullname, announced>>
browserVars == <<browsing, receiver, started>>
consumerVars == <<pc, source, event>>
readerVars == <<view, streamed>>
vars == <<registered, fullname, announced, browsing, receiver, services,
          started, live, known, chan, pc, source, event, view, streamed>>

Directory == [Name -> Info \cup {None}]

Nothing == [n \in Name |-> None]

(* ServiceResolved carries the records, ServiceRemoved (info None) does not *)
Report == [name : Name, info : Info \cup {None}]

ASSUME NoneIsNoReport == None \notin Report

TypeOK ==
  /\ registered \in Directory /\ fullname \in Name \cup {None}
  /\ announced \in 0 .. MaxAnnounce
  /\ browsing \in BOOLEAN /\ receiver \in Channel \cup {None}
  /\ services \in Directory /\ view \in Directory
  /\ started \in 0 .. MaxStarts
  /\ live \in Channel \cup {None} /\ known \in Directory
  /\ chan \in [Channel -> Seq(Report)]
  /\ pc \in [Consumer -> {"off", "check", "receive", "write"}]
  /\ source \in [Consumer -> Channel]
  /\ event \in [Consumer -> Report \cup {None}]
  /\ streamed \in BOOLEAN

Init ==
  /\ registered = Nothing /\ fullname = None /\ announced = 0
  /\ browsing = FALSE /\ receiver = None /\ services = Nothing /\ started = 0
  /\ live = None /\ known = Nothing
  /\ chan = [c \in Channel |-> <<>>]
  /\ pc = [c \in Consumer |-> "off"]
  /\ source = [c \in Consumer |-> IF c = Stream THEN 1 ELSE c]
  /\ event = [c \in Consumer |-> None]
  /\ view = Nothing /\ streamed = FALSE

----------------------------------------------------------------------------
(* MdnsPublisher, and the other devices of the network.  A register() or   *)
(* unregister() that errs changes nothing.                                 *)

Announce(n, i) ==
  /\ announced < MaxAnnounce
  /\ announced' = announced + 1
  /\ registered' = [registered EXCEPT ![n] = i]

Withdraw(n) ==
  /\ registered' = [registered EXCEPT ![n] = None]
  /\ UNCHANGED announced

Publish(n, i) ==
  /\ Announce(n, i)
  /\ fullname' = n
  /\ UNCHANGED <<browserVars, services, live, known, chan, consumerVars, readerVars>>

Unpublish ==
  /\ fullname # None
  /\ Withdraw(fullname)
  /\ fullname' = None
  /\ UNCHANGED <<browserVars, services, live, known, chan, consumerVars, readerVars>>

(* Another device announces a service, or changes or withdraws it.         *)
OtherDevice(n) ==
  /\ \/ registered[n] # None /\ Withdraw(n)
     \/ \E i \in Info : Announce(n, i)
  /\ UNCHANGED <<fullname, browserVars, services, live, known, chan,
                 consumerVars, readerVars>>

----------------------------------------------------------------------------
(* The daemon of the browser: it reports what changed, in order. *)

Tell(n, i) ==
  /\ live # None
  /\ chan' = [chan EXCEPT ![live] = Append(@, [name |-> n, info |-> i])]
  /\ known' = [known EXCEPT ![n] = i]
  /\ UNCHANGED <<publisherVars, browserVars, services, live, consumerVars,
                 readerVars>>

ServiceResolved(n) ==
  registered[n] \notin {None, known[n]} /\ Tell(n, registered[n])

ServiceRemoved(n) ==
  registered[n] = None /\ known[n] # None /\ Tell(n, None)

----------------------------------------------------------------------------
(* MdnsBrowser.  The event stream borrows the browser, so neither of these *)
(* is called while a stream exists.                                        *)

(* A new channel takes the place of the old one, and a task is spawned.    *)
StartBrowsing ==
  LET c == started + 1 IN
  /\ pc[Stream] = "off"
  /\ started < MaxStarts
  /\ started' = c
  /\ live' = c /\ known' = Nothing
  /\ receiver' = c
  /\ browsing' = TRUE
  /\ pc' = [pc EXCEPT ![c] = "check"]
  /\ UNCHANGED <<publisherVars, services, chan, source, event, readerVars>>

(* Mistake: the flag alone is to end the tasks. *)
StopByFlag ==
  /\ pc[Stream] = "off"
  /\ receiver # None
  /\ browsing' = FALSE
  /\ receiver' = None
  /\ UNCHANGED <<publisherVars, services, started, live, known, chan,
                 consumerVars, readerVars>>

(* stop_browse() makes the daemon drop its end of the channel. *)
StopBrowsing ==
  /\ pc[Stream] = "off"
  /\ receiver # None
  /\ browsing' = FALSE
  /\ live' = None /\ known' = Nothing
  /\ receiver' = None
  /\ UNCHANGED <<publisherVars, services, started, chan, consumerVars, readerVars>>

(* It errs: the flag is down, but the receiver and the daemon's end stay.  *)
StopFails ==
  /\ pc[Stream] = "off"
  /\ receiver # None
  /\ browsing' = FALSE
  /\ UNCHANGED <<publisherVars, receiver, started, services, live, known, chan,
                 consumerVars, readerVars>>

(* The application takes a snapshot and from then on reads the stream. *)
OpenStream ==
  /\ pc[Stream] = "off"
  /\ receiver # None
  /\ pc' = [pc EXCEPT ![Stream] = "check"]
  /\ source' = [source EXCEPT ![Stream] = receiver]
  /\ view' = services /\ streamed' = TRUE
  /\ UNCHANGED <<publisherVars, browserVars, services, live, known, chan, event>>

(* It is dropped at whichever await it is suspended, the map's lock too:   *)
(* then the report it has taken is lost.                                   *)
DropStream ==
  /\ pc[Stream] # "off"
  /\ pc' = [pc EXCEPT ![Stream] = "off"]
  /\ event' = [event EXCEPT ![Stream] = None]
  /\ UNCHANGED <<publisherVars, browserVars, services, live, known, chan,
                 source, readerVars>>

----------------------------------------------------------------------------
(* The loop of a consumer, a task or the stream *)

Goto(c, l) == pc' = [pc EXCEPT ![c] = l]

CheckBrowsing(c) ==
  /\ pc[c] = "check"
  /\ Goto(c, IF browsing THEN "receive" ELSE "off")
  /\ UNCHANGED <<publisherVars, browserVars, services, live, known, chan,
                 source, event, readerVars>>

Receive(c) ==
  /\ pc[c] = "receive"
  /\ chan[source[c]] # <<>>
  /\ event' = [event EXCEPT ![c] = Head(chan[source[c]])]
  /\ chan' = [chan EXCEPT ![source[c]] = Tail(@)]
  /\ Goto(c, "write")
  /\ UNCHANGED <<publisherVars, browserVars, services, live, known, source,
                 readerVars>>

(* The channel is empty and the daemon has dropped its end. *)
Disconnected(c) ==
  /\ pc[c] = "receive"
  /\ chan[source[c]] = <<>>
  /\ live # source[c]
  /\ Goto(c, "off")
  /\ UNCHANGED <<publisherVars, browserVars, services, live, known, chan,
                 source, event, readerVars>>

(* Mistake: removals are left to the expiry of the records. *)
ApplyResolved(directory, e) ==
  IF e.info \in Unreadable \cup {None}
  THEN directory
  ELSE [directory EXCEPT ![e.name] = e.info]

(* Records that cannot be read are logged: what was there before remains.  *)
Apply(directory, e) ==
  IF e.info \in Unreadable THEN directory ELSE [directory EXCEPT ![e.name] = e.info]

(* The map is written under its lock; the stream also yields the event, if *)
(* it could read it.                                                       *)
Write(c) ==
  /\ pc[c] = "write"
  /\ services' = Apply(services, event[c])
  /\ view' = IF c = Stream THEN Apply(view, event[c]) ELSE view
  /\ event' = [event EXCEPT ![c] = None]
  /\ Goto(c, "check")
  /\ UNCHANGED <<publisherVars, browserVars, live, known, chan, source, streamed>>

Turn(c) == CheckBrowsing(c) \/ Receive(c) \/ Disconnected(c) \/ Write(c)

Daemon(n) == ServiceResolved(n) \/ ServiceRemoved(n)

Next ==
  \/ \E n \in Name \ Foreign, i \in Info \ Unreadable : Publish(n, i)
  \/ Unpublish
  \/ \E n \in Foreign : OtherDevice(n)
  \/ \E n \in Name : Daemon(n)
  \/ StartBrowsing \/ StopBrowsing \/ StopFails \/ OpenStream \/ DropStream
  \/ \E c \in Consumer : Turn(c)

Spec == Init /\ [][Next]_vars

(* Tasks are scheduled, an open stream is read, and the daemon hears of    *)
(* every change in the end; the application may do anything or nothing.    *)
FairSpec ==
  /\ Spec
  /\ \A c \in Consumer : WF_vars(Turn(c))
  /\ \A n \in Name : WF_vars(Daemon(n))

----------------------------------------------------------------------------
(* Properties *)

(* Nothing the daemon reported is still on its way to the map. *)
Settled ==
  /\ browsing
  /\ \A c \in Channel : chan[c] = <<>>
  /\ \A c \in Consumer : pc[c] # "write"

(* One task writes the map: browsing was started once, and no event stream *)
(* takes reports away from it.                                             *)
Sole == started <= 1 /\ ~streamed

(* discovered_services(): "Get currently discovered services (snapshot)".  *)
(* Once all reports are taken, the map shows exactly what was reported, but*)
(* for the services whose last records could not be read.                  *)
SnapshotIsCurrent ==
  Settled /\ Sole =>
    \A n \in Name : known[n] \notin Unreadable => services[n] = known[n]

(* While the browser keeps browsing it comes to show every service on the  *)
(* air that it can read, and no withdrawn one, also after what was         *)
(* announced, unreadable and withdrawn while reports were on their way.    *)
DiscoveryConverges ==
  <>[]browsing /\ []Sole =>
    <>[](\A n \in Name : registered[n] \notin Unreadable => services[n] = registered[n])

(* A task whose browsing session is over, stopped or replaced, ends, and   *)
(* does not stay behind blocked on its channel, even when the flag is TRUE *)
(* again before it looks.  (After a stop that failed the session is over   *)
(* when the next one replaces it.)                                         *)
AbandonedTasksEnd ==
  \A c \in Channel : (pc[c] # "off" /\ receiver # c) ~> pc[c] = "off"

(* event_stream(): "Returns a stream that yields DiscoveryEvent items as   *)
(* services are discovered, removed, or updated on the network".  Who      *)
(* keeps reading it comes to know what is on the air.                      *)
StreamFollowsNetwork ==
  <>[](pc[Stream] # "off") =>
    <>[](\A n \in Name : registered[n] \notin Unreadable => view[n] = registered[n])
=============================================================================
