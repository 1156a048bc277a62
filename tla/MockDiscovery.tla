--------------------------- MODULE MockDiscovery ---------------------------
(***************************************************************************)
(* The in-memory discovery of openscreen-discovery-mock: a map of services *)
(* shared by all publishers and browsers, and a broadcast channel of       *)
(* events.  MockBackend changes the map under its lock and sends the event *)
(* after it has released it, so calls of several publishers interleave     *)
(* between the two.  The reader subscribes, takes a snapshot of the map    *)
(* and follows the event stream.                                           *)
(***************************************************************************)
EXTENDS Integers, SequencesExt

CONSTANTS
  Publisher,
  Name,         \* instance names
  Version,      \* what the records of a service say
  None,
  Capacity,     \* of the broadcast channel
  MaxCalls      \* bound on the calls of the publishers

ASSUME MockAssumption ==
  /\ Capacity \in Nat \ {0} /\ MaxCalls \in Nat
  /\ None \notin Name \cup Version
  /\ {"unheard", "missed"} \cap (Version \cup {None}) = {}

VARIABLES
  careful,      \* publishers share no name, unpublish before they publish again
                \* and do not drop an update before its first change
  services,     \* MockBackendInner.services
  current,      \* MockPublisher.current_service
  todo,         \* the changes a publisher's call still has to make
  written,      \* whether the first of them is in the map, and not yet sent
  after,        \* current_service when the call is done
  calls,
  browsing,     \* MockBrowser.browsing
  stream,       \* where the loop of the event stream is
  queue,        \* what the channel holds for it
  lagged,       \* whether the channel has dropped some of that
  view,         \* what the reader knows
  heard         \* (history) what the stream last said of a name, or that it missed that

backend == <<services, current, todo, written, after, calls>>
channel == <<queue, lagged>>
reader == <<stream, view>>
vars == <<careful, backend, channel, browsing, reader, heard>>

\* the service of a name is now this one, or none
Change(n, v) == [name |-> n, version |-> v]

Nothing == Change(None, None)

Init ==
  /\ careful \in BOOLEAN
  /\ services = [n \in Name |-> None]
  /\ current = [u \in Publisher |-> Nothing]
  /\ todo = [u \in Publisher |-> <<>>]
  /\ written = [u \in Publisher |-> FALSE]
  /\ after = [u \in Publisher |-> Nothing]
  /\ calls = 0
  /\ browsing = FALSE
  /\ stream = "none" /\ queue = <<>> /\ lagged = FALSE
  /\ view = [n \in Name |-> None] /\ heard = [n \in Name |-> "unheard"]

-----------------------------------------------------------------------------
(* MockPublisher *)

Idle(u) == todo[u] = <<>>

Uses(u, n) == current[u].name = n \/ \E i \in DOMAIN todo[u] : todo[u][i].name = n

\* a call begins: the changes it makes and what the publisher is left with
Call(u, changes, service) ==
  /\ Idle(u) /\ calls < MaxCalls
  /\ todo' = [todo EXCEPT ![u] = changes]
  /\ after' = [after EXCEPT ![u] = service]
  /\ calls' = calls + 1
  /\ UNCHANGED <<careful, services, written, channel, browsing, reader, heard>>

Publish(u, n, v) ==
  /\ careful => current[u] = Nothing /\ \A w \in Publisher \ {u} : ~Uses(w, n)
  /\ Call(u, <<Change(n, v)>>, Change(n, v))
  /\ UNCHANGED current

\* without a service the call returns at once
Unpublish(u) ==
  /\ current[u] # Nothing
  /\ Call(u, <<Change(current[u].name, None)>>, Nothing)
  /\ UNCHANGED current

(* Mistake: the records are replaced in place. *)
UpdateInPlace(u, v) ==
  /\ current[u] # Nothing
  /\ Call(u, <<Change(current[u].name, v)>>, Change(current[u].name, v))
  /\ current' = [current EXCEPT ![u] = Nothing]

\* the service is taken out of current_service for the time of the call
UpdateTxtRecords(u, v) ==
  /\ current[u] # Nothing
  /\ Call(u, <<Change(current[u].name, None), Change(current[u].name, v)>>,
          Change(current[u].name, v))
  /\ current' = [current EXCEPT ![u] = Nothing]

\* the future of a call is dropped while it waits for the lock of the map
Abandon(u) ==
  /\ ~Idle(u) /\ ~written[u]
  /\ careful => Len(todo[u]) = 1
  /\ todo' = [todo EXCEPT ![u] = <<>>]
  /\ UNCHANGED <<careful, services, current, written, after, calls,
                 channel, browsing, reader, heard>>

-----------------------------------------------------------------------------
(* MockBackend *)

WriteServices(u) ==
  /\ ~Idle(u) /\ ~written[u]
  /\ services' = [services EXCEPT ![Head(todo[u]).name] = Head(todo[u]).version]
  /\ written' = [written EXCEPT ![u] = TRUE]
  /\ UNCHANGED <<careful, current, todo, after, calls, channel, browsing, reader, heard>>

(* Mistake: a full channel refuses the event. *)
DropNewest(e) ==
  /\ queue' = IF stream = "none" \/ Len(queue) = Capacity THEN queue ELSE Append(queue, e)
  /\ UNCHANGED <<lagged, heard>>

\* a channel without a subscriber keeps nothing; a full one drops the oldest event
Broadcast(e) ==
  IF stream = "none" THEN UNCHANGED <<channel, heard>>
  ELSE IF Len(queue) < Capacity
       THEN queue' = Append(queue, e) /\ UNCHANGED <<lagged, heard>>
       ELSE /\ queue' = Append(Tail(queue), e) /\ lagged' = TRUE
            /\ heard' = [heard EXCEPT ![Head(queue).name] = "missed"]

(* Mistake: the call leaves current_service as it is. *)
ServiceForgotten(u) == current[u]

ServiceAfter(u) == after[u]

\* after the last event the call sets current_service and returns
SendEvent(u) ==
  /\ ~Idle(u) /\ written[u]
  /\ Broadcast(Head(todo[u]))
  /\ written' = [written EXCEPT ![u] = FALSE]
  /\ todo' = [todo EXCEPT ![u] = Tail(todo[u])]
  /\ current' = IF Len(todo[u]) = 1 THEN [current EXCEPT ![u] = ServiceAfter(u)] ELSE current
  /\ UNCHANGED <<careful, services, after, calls, browsing, reader>>

\* clear() tells nobody
Clear ==
  /\ ~careful
  /\ services' = [n \in Name |-> None]
  /\ UNCHANGED <<careful, current, todo, written, after, calls, channel, browsing, reader, heard>>

-----------------------------------------------------------------------------
(* MockBrowser.  The stream borrows the browser: while there is one,       *)
(* browsing is neither started nor stopped.                                *)

StartBrowsing ==
  /\ stream = "none"
  /\ ~browsing /\ browsing' = TRUE
  /\ UNCHANGED <<careful, backend, channel, reader, heard>>

StopBrowsing ==
  /\ stream = "none"
  /\ browsing /\ browsing' = FALSE
  /\ UNCHANGED <<careful, backend, channel, reader, heard>>

EventStream ==
  /\ stream = "none" /\ stream' = "opened"
  /\ UNCHANGED <<careful, backend, channel, browsing, view, heard>>

\* discovered_services() asks the backend, whether browsing or not
DiscoveredServices ==
  /\ stream = "opened" /\ stream' = "check"
  /\ view' = services
  /\ UNCHANGED <<careful, backend, channel, browsing, heard>>

\* the stream goes at whichever await it is, and its receiver with it
DropStream ==
  /\ stream # "none" /\ stream' = "none"
  /\ queue' = <<>> /\ lagged' = FALSE
  /\ view' = [n \in Name |-> None] /\ heard' = [n \in Name |-> "unheard"]
  /\ UNCHANGED <<careful, backend, browsing>>

\* the flag is read; while it is false the loop sleeps and reads it again
CheckBrowsing ==
  /\ stream = "check" /\ browsing
  /\ stream' = "recv"
  /\ UNCHANGED <<careful, backend, channel, browsing, view, heard>>

Receive ==
  /\ stream = "recv" /\ ~lagged /\ queue # <<>>
  /\ queue' = Tail(queue)
  /\ view' = [view EXCEPT ![Head(queue).name] = Head(queue).version]
  /\ heard' = [heard EXCEPT ![Head(queue).name] = Head(queue).version]
  /\ stream' = "check"
  /\ UNCHANGED <<careful, backend, lagged, browsing>>

(* Mistake: the error ends the stream. *)
LaggedEnds ==
  /\ stream = "recv" /\ lagged
  /\ stream' = "ended"
  /\ UNCHANGED <<careful, backend, channel, browsing, view, heard>>

\* Err(Lagged): what was missed is passed over
ReceiveLagged ==
  /\ stream = "recv" /\ lagged
  /\ lagged' = FALSE
  /\ stream' = "check"
  /\ UNCHANGED <<careful, backend, queue, browsing, view, heard>>

-----------------------------------------------------------------------------
Next ==
  \/ \E u \in Publisher :
       \/ \E n \in Name, v \in Version : Publish(u, n, v)
       \/ Unpublish(u)
       \/ \E v \in Version : UpdateTxtRecords(u, v)
       \/ WriteServices(u) \/ SendEvent(u) \/ Abandon(u)
  \/ Clear
  \/ StartBrowsing \/ StopBrowsing
  \/ EventStream \/ DiscoveredServices \/ DropStream
  \/ CheckBrowsing \/ Receive \/ ReceiveLagged

Spec == Init /\ [][Next]_vars

(* Calls that have begun go on, and the reader polls its stream. *)
Fairness ==
  /\ \A u \in Publisher : WF_vars(WriteServices(u)) /\ WF_vars(SendEvent(u))
  /\ WF_vars(DiscoveredServices)
  /\ WF_vars(CheckBrowsing)
  /\ WF_vars(Receive)
  /\ WF_vars(ReceiveLagged)

FairSpec == Spec /\ Fairness

-----------------------------------------------------------------------------
(* Properties *)

(* The variables keep their types, and the channel its capacity. *)
TypeOK ==
  /\ services \in [Name -> Version \cup {None}] /\ view \in [Name -> Version \cup {None}]
  /\ \A u \in Publisher : current[u] = Nothing \/ current[u] \in [name : Name, version : Version]
  /\ Len(queue) <= Capacity
  /\ stream \in {"none", "opened", "check", "recv"}
  /\ heard \in [Name -> Version \cup {None, "unheard", "missed"}]

Following == careful /\ stream \notin {"none", "opened"}

\* the events about n that the channel holds
Events(n) == {i \in DOMAIN queue : queue[i].name = n}

\* the last event about these was dropped from a full channel
Gone == {n \in Name : heard[n] = "missed" /\ Events(n) = {}}

(* A reader who subscribes before it takes the snapshot loses nothing:     *)
(* what it knows and what the channel holds for it lead to the map of the  *)
(* backend, up to changes whose event is not sent yet, and but for the     *)
(* services of which the last event was dropped from a full channel.       *)
ViewFollowsServices ==
  Following =>
    \A n \in Name \ Gone :
      \/ services[n] = IF Events(n) = {} THEN view[n] ELSE queue[Max(Events(n))].version
      \/ \E u \in Publisher : written[u] /\ Head(todo[u]).name = n

(* A change of the records is told as a removal and a new service ("blink" *)
(* in the comment of update_txt_records): whatever the publishers' calls   *)
(* do in between, a reader hears of a service and of its removal by turns, *)
(* unless the channel has dropped what came in between from it.            *)
ChangesBlink ==
  careful /\ queue # <<>> =>
    LET e == Head(queue)
    IN  heard[e.name] \in Version \cup {None} => (heard[e.name] = None <=> e.version # None)

(* What is in the map can be taken out of it: its publisher still has it   *)
(* as its current service, or is in a call about it, also when calls are   *)
(* dropped before they have changed anything or between their two changes. *)
EveryServiceIsOwned ==
  careful => \A n \in Name : services[n] # None => \E u \in Publisher : Uses(u, n)

(* Liveness: with publishers that keep to their names, a reader that keeps *)
(* browsing comes to know what is published, also after it has lagged.     *)
ReaderCatchesUp ==
  <>[](browsing /\ Following) => <>[](\A n \in Name \ Gone : view[n] = services[n])
=============================================================================
