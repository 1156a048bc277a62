------------------------------ MODULE MockProofs ------------------------------
(***************************************************************************)
(* Proofs about MockDiscovery, for any number of publishers and names.     *)
(* Two publishers that keep apart never write the same name (Apart), so    *)
(* what one has written stays as it is until its event is sent (InMap);    *)
(* with that, a call that ends leaves the map and current_service in       *)
(* agreement.  What a reader of the events comes to know rests on a third  *)
(* invariant (Fine), without which dropped calls could leave the map and   *)
(* current_service apart.                                                  *)
(***************************************************************************)
EXTENDS MockDiscovery, SequenceTheorems, WellFoundedInduction, TLAPS

Service == [name : Name, version : Version]

Typed ==
  /\ services \in [Name -> Version \cup {None}]
  /\ current \in [Publisher -> Service \cup {Nothing}]
  /\ after \in [Publisher -> Service \cup {Nothing}]
  /\ written \in [Publisher -> BOOLEAN]
  /\ todo \in [Publisher -> Seq([name : Name, version : Version \cup {None}])]

\* what a call has still to do, and what it leaves
Shape(u) ==
  \/ todo[u] = <<>> /\ ~written[u]
  \/ /\ Len(todo[u]) = 1
     /\ IF todo[u][1].version = None
        THEN after[u] = Nothing /\ current[u].name = todo[u][1].name
        ELSE after[u] = todo[u][1] /\ current[u] = Nothing
  \/ /\ Len(todo[u]) = 2
     /\ todo[u][1].version = None /\ todo[u][2].version # None
     /\ todo[u][1].name = todo[u][2].name
     /\ after[u] = todo[u][2] /\ current[u] = Nothing

InMap(u) == written[u] => todo[u] # <<>> /\ services[todo[u][1].name] = todo[u][1].version

Apart == \A n \in Name : \A u, w \in Publisher : Uses(u, n) /\ Uses(w, n) => u = w

Owned == \A n \in Name : services[n] # None => \E u \in Publisher : Uses(u, n)

Kept == Apart /\ Owned /\ \A u \in Publisher : Shape(u) /\ InMap(u)

IInv == Typed /\ (careful => Kept)

\* a write that is still to come makes a service of none or none of a service
Fresh(u) ==
  /\ todo[u] # <<>> /\ ~written[u] =>
       (services[todo[u][1].name] = None <=> todo[u][1].version # None)
  /\ todo[u] = <<>> /\ current[u] # Nothing => services[current[u].name] # None

-----------------------------------------------------------------------------
(* The publishers *)

(* None is no name and no version; a service is not Nothing. *)
LEMMA NothingFacts ==
  /\ Nothing.name = None /\ None \notin Name /\ None \notin Version
  /\ \A s \in Service : s.name \in Name /\ s.version # None /\ s # Nothing
  BY MockAssumption DEF Nothing, Change, Service

(* A sequence with one element has an element. *)
LEMMA OneIsNotEmpty ==
  ASSUME NEW S, NEW s \in Seq(S), Len(s) = 1
  PROVE  s # <<>>
  OBVIOUS

(* Which names a publisher uses, by the length of what it has to do. *)
LEMMA UsesFacts ==
  ASSUME Typed, NEW u \in Publisher, Shape(u), NEW n \in Name
  PROVE  Uses(u, n) <=> current[u].name = n \/ (todo[u] # <<>> /\ todo[u][1].name = n)
  <1>0. PICK S : todo[u] \in Seq(S)
    BY DEF Typed
  <1>1. CASE todo[u] = <<>>
    BY <1>1 DEF Uses
  <1>2. CASE Len(todo[u]) = 1
    <2>1. todo[u] # <<>>
      BY <1>0, <1>2, OneIsNotEmpty
    <2>2. DOMAIN todo[u] = 1..Len(todo[u])
      BY <1>0
    <2>3. 1 \in DOMAIN todo[u] /\ \A i \in DOMAIN todo[u] : i = 1
      BY <1>2, <2>2
    <2> QED BY <2>1, <2>3 DEF Uses
  <1>3. CASE Len(todo[u]) = 2 /\ todo[u][1].name = todo[u][2].name
    <2>1. DOMAIN todo[u] = {1, 2} /\ todo[u] # <<>>
      BY <1>0, <1>3
    <2> QED BY <1>3, <2>1 DEF Uses
  <1> QED BY <1>1, <1>2, <1>3 DEF Shape

(* The first of a publisher's changes and the others. *)
LEMMA SeqFacts ==
  ASSUME NEW S, NEW s \in Seq(S), s # <<>>
  PROVE  /\ Head(s) = s[1] /\ s[1] \in S /\ 1 \in DOMAIN s /\ Tail(s) \in Seq(S)
         /\ Len(s) = 1 => Tail(s) = <<>>
         /\ Len(s) = 2 => Len(Tail(s)) = 1 /\ Tail(s)[1] = s[2] /\ Tail(s) # <<>>
  <1>1. Head(s) = s[1] /\ s[1] \in S /\ 1 \in DOMAIN s /\ Tail(s) \in Seq(S)
    OBVIOUS
  <1>2. Len(Tail(s)) = Len(s) - 1 /\ \A i \in 1 .. Len(s) - 1 : Tail(s)[i] = s[i + 1]
    OBVIOUS
  <1>3. ASSUME Len(s) = 1 PROVE Tail(s) = <<>>
    <2>1. Len(Tail(s)) = 0
      BY <1>2, <1>3
    <2> QED BY <1>1, <2>1, EmptySeq
  <1>4. ASSUME Len(s) = 2 PROVE Len(Tail(s)) = 1 /\ Tail(s)[1] = s[2] /\ Tail(s) # <<>>
    <2>1. Len(Tail(s)) = 1 /\ Tail(s)[1] = s[2]
      BY <1>2, <1>4
    <2>2. Tail(s) # <<>>
      BY <1>1, <2>1, OneIsNotEmpty
    <2> QED BY <2>1, <2>2
  <1> QED BY <1>1, <1>3, <1>4

(* Initially nobody has anything. *)
LEMMA InitIInv == Init => IInv
  <1> SUFFICES ASSUME Init PROVE IInv
    OBVIOUS
  <1>1. Typed /\ \A u \in Publisher : Shape(u)
    BY DEF Init, Typed, Shape
  <1>2. Owned /\ \A u \in Publisher : InMap(u)
    BY DEF Init, Owned, InMap
  <1>3. \A u \in Publisher, n \in Name : ~Uses(u, n)
    BY NothingFacts DEF Init, Uses
  <1>4. Apart
    BY <1>3 DEF Apart
  <1> QED BY <1>1, <1>2, <1>4 DEF IInv, Kept

(* What the others are and use does not change with u's own records. *)
LEMMA OthersKeep ==
  ASSUME Typed, NEW u \in Publisher, NEW t, NEW a, NEW c, NEW b,
         todo' = [todo EXCEPT ![u] = t], after' = [after EXCEPT ![u] = a],
         current' = [current EXCEPT ![u] = c], written' = [written EXCEPT ![u] = b]
  PROVE  /\ todo'[u] = t /\ after'[u] = a /\ current'[u] = c /\ written'[u] = b
         /\ \A w \in Publisher \ {u} :
              /\ todo'[w] = todo[w] /\ after'[w] = after[w]
              /\ current'[w] = current[w] /\ written'[w] = written[w]
              /\ Shape(w) => Shape(w)'
              /\ \A n \in Name : Uses(w, n)' <=> Uses(w, n)
  <1>1. /\ todo'[u] = t /\ after'[u] = a /\ current'[u] = c /\ written'[u] = b
        /\ \A w \in Publisher \ {u} :
             /\ todo'[w] = todo[w] /\ after'[w] = after[w]
             /\ current'[w] = current[w] /\ written'[w] = written[w]
    BY DEF Typed
  <1> QED BY <1>1 DEF Shape, Uses

(* A call begins.  Its publisher uses what it used before, and besides at  *)
(* most a name that nobody else uses.                                      *)
LEMMA CallBegins ==
  ASSUME Typed, Kept, NEW u \in Publisher, NEW t, NEW a, NEW c,
         todo[u] = <<>>, UNCHANGED <<services, written>>,
         todo' = [todo EXCEPT ![u] = t], after' = [after EXCEPT ![u] = a],
         current' = [current EXCEPT ![u] = c],
         Shape(u)',
         \A n \in Name : Uses(u, n) => Uses(u, n)',
         \A n \in Name : Uses(u, n)' => Uses(u, n) \/ \A w \in Publisher \ {u} : ~Uses(w, n)
  PROVE  Kept'
  <1>1. written' = [written EXCEPT ![u] = written[u]]
    BY DEF Typed
  <1>2. \A w \in Publisher \ {u} :
          /\ todo'[w] = todo[w] /\ written'[w] = written[w]
          /\ Shape(w) => Shape(w)'
          /\ \A n \in Name : Uses(w, n)' <=> Uses(w, n)
    <2> HIDE DEF Typed
    <2> QED BY <1>1, OthersKeep
  <1>3. ~written'[u]
    BY DEF Kept, Shape
  <1>4. Apart'
    BY <1>2 DEF Kept, Apart
  <1>5. Owned'
    BY <1>2 DEF Kept, Owned
  <1>6. \A w \in Publisher : Shape(w)' /\ InMap(w)'
    BY <1>2, <1>3 DEF Kept, InMap
  <1> QED BY <1>4, <1>5, <1>6 DEF Kept

(* publish() begins: careful publishers take a name that nobody uses. *)
LEMMA PublishStep ==
  ASSUME IInv, NEW u \in Publisher, NEW n \in Name, NEW v \in Version, Publish(u, n, v)
  PROVE  IInv'
  <1> DEFINE c == Change(n, v)
  <1>1. /\ c \in Service /\ c \in [name : Name, version : Version \cup {None}]
        /\ c.name = n /\ c.version = v /\ v # None
    BY NothingFacts DEF Change, Service
  <1>2. /\ todo[u] = <<>> /\ UNCHANGED <<careful, services, written, current>>
        /\ todo' = [todo EXCEPT ![u] = <<c>>] /\ after' = [after EXCEPT ![u] = c]
        /\ careful => current[u] = Nothing /\ \A w \in Publisher \ {u} : ~Uses(w, n)
    BY DEF Publish, Call, Idle
  <1> HIDE DEF c
  <1>3. /\ Typed /\ current' = [current EXCEPT ![u] = current[u]]
        /\ todo'[u] = <<c>> /\ after'[u] = c /\ current'[u] = current[u]
    BY <1>2 DEF IInv, Typed
  <1>4. Typed'
    <2>1. <<c>> \in Seq([name : Name, version : Version \cup {None}])
      BY <1>1
    <2> QED BY <1>1, <1>2, <1>3, <2>1 DEF Typed
  <1>5. Len(<<c>>) = 1 /\ <<c>>[1] = c /\ DOMAIN <<c>> = {1}
    OBVIOUS
  <1>6. ASSUME careful PROVE Kept'
    <2>1. Shape(u)'
      BY <1>1, <1>2, <1>3, <1>5, <1>6 DEF Shape
    <2>2. \A k \in Name : Uses(u, k) => Uses(u, k)'
      BY <1>2, <1>3 DEF Uses
    <2>3. \A k \in Name : Uses(u, k)' => Uses(u, k) \/ k = n
      BY <1>1, <1>3, <1>5 DEF Uses
    <2> QED BY <1>2, <1>3, <1>6, <2>1, <2>2, <2>3, CallBegins DEF IInv
  <1> QED BY <1>2, <1>4, <1>6 DEF IInv

(* unpublish() and update_txt_records() begin: they use the name of the    *)
(* publisher's service.                                                    *)
LEMMA UnpublishStep ==
  ASSUME IInv, NEW u \in Publisher, Unpublish(u)
  PROVE  IInv'
  <1> DEFINE c == Change(current[u].name, None)
  <1>1. Typed /\ current[u] \in Service /\ current[u] # Nothing
    BY DEF IInv, Typed, Unpublish
  <1>2. /\ c \in [name : Name, version : Version \cup {None}]
        /\ c.name = current[u].name /\ c.version = None
    BY <1>1 DEF Change, Service
  <1>3. /\ todo[u] = <<>> /\ UNCHANGED <<careful, services, written, current>>
        /\ todo' = [todo EXCEPT ![u] = <<c>>] /\ after' = [after EXCEPT ![u] = Nothing]
    BY DEF Unpublish, Call, Idle
  <1> HIDE DEF c
  <1>4. /\ current' = [current EXCEPT ![u] = current[u]]
        /\ todo'[u] = <<c>> /\ after'[u] = Nothing /\ current'[u] = current[u]
    BY <1>1, <1>3 DEF Typed
  <1>5. Typed'
    <2>1. <<c>> \in Seq([name : Name, version : Version \cup {None}])
      BY <1>2
    <2> QED BY <1>1, <1>3, <2>1 DEF Typed
  <1>6. Len(<<c>>) = 1 /\ <<c>>[1] = c /\ DOMAIN <<c>> = {1}
    OBVIOUS
  <1>7. ASSUME careful PROVE Kept'
    <2>1. Shape(u)'
      BY <1>2, <1>4, <1>6 DEF Shape
    <2>2. \A k \in Name : Uses(u, k) => Uses(u, k)'
      BY <1>3, <1>4 DEF Uses
    <2>3. \A k \in Name : Uses(u, k)' => Uses(u, k)
      BY <1>2, <1>4, <1>6 DEF Uses
    <2> QED BY <1>1, <1>3, <1>4, <1>7, <2>1, <2>2, <2>3, CallBegins DEF IInv
  <1> QED BY <1>3, <1>5, <1>7 DEF IInv

LEMMA UpdateStep ==
  ASSUME IInv, NEW u \in Publisher, NEW v \in Version, UpdateTxtRecords(u, v)
  PROVE  IInv'
  <1> DEFINE b == Change(current[u].name, None)
             c == Change(current[u].name, v)
  <1>1. Typed /\ current[u] \in Service /\ current[u] # Nothing
    BY DEF IInv, Typed, UpdateTxtRecords
  <1>2. /\ b \in [name : Name, version : Version \cup {None}]
        /\ c \in [name : Name, version : Version \cup {None}] /\ c \in Service
        /\ b.name = current[u].name /\ b.version = None
        /\ c.name = current[u].name /\ c.version # None
    BY <1>1, NothingFacts DEF Change, Service
  <1>3. /\ todo[u] = <<>> /\ UNCHANGED <<careful, services, written>>
        /\ todo' = [todo EXCEPT ![u] = <<b, c>>] /\ after' = [after EXCEPT ![u] = c]
        /\ current' = [current EXCEPT ![u] = Nothing]
    BY DEF UpdateTxtRecords, Call, Idle
  <1> HIDE DEF b, c
  <1>4. todo'[u] = <<b, c>> /\ after'[u] = c /\ current'[u] = Nothing
    BY <1>1, <1>3 DEF Typed
  <1>5. Typed'
    <2>1. <<b, c>> \in Seq([name : Name, version : Version \cup {None}])
      BY <1>2
    <2> QED BY <1>1, <1>2, <1>3, <2>1 DEF Typed
  <1>6. Len(<<b, c>>) = 2 /\ <<b, c>>[1] = b /\ <<b, c>>[2] = c /\ DOMAIN <<b, c>> = {1, 2}
    OBVIOUS
  <1>7. ASSUME careful PROVE Kept'
    <2>1. Shape(u)'
      BY <1>2, <1>4, <1>6 DEF Shape
    <2>2. \A k \in Name : Uses(u, k) => Uses(u, k)'
      BY <1>2, <1>3, <1>4, <1>6 DEF Uses
    <2>3. \A k \in Name : Uses(u, k)' => Uses(u, k)
      BY <1>2, <1>4, <1>6, NothingFacts DEF Uses
    <2> QED BY <1>1, <1>3, <1>7, <2>1, <2>2, <2>3, CallBegins DEF IInv
  <1> QED BY <1>3, <1>5, <1>7 DEF IInv

(* The map is written: nobody else has written the same name. *)
LEMMA WriteStep ==
  ASSUME IInv, NEW u \in Publisher, WriteServices(u)
  PROVE  IInv'
  <1> DEFINE h == todo[u][1]
  <1>1. /\ Typed /\ todo[u] # <<>> /\ Head(todo[u]) = h
        /\ h \in [name : Name, version : Version \cup {None}]
        /\ 1 \in DOMAIN todo[u]
    <2>1. Typed /\ todo[u] # <<>> /\ todo[u] \in Seq([name : Name, version : Version \cup {None}])
      BY DEF IInv, Typed, WriteServices, Idle
    <2> QED BY <2>1, SeqFacts
  <1>2. /\ services' = [services EXCEPT ![h.name] = h.version]
        /\ written' = [written EXCEPT ![u] = TRUE]
        /\ UNCHANGED <<careful, current, todo, after>>
    BY <1>1 DEF WriteServices
  <1> HIDE DEF h
  <1>3. h.name \in Name /\ h.version \in Version \cup {None}
    BY <1>1
  <1>4. Typed'
    BY <1>1, <1>2, <1>3 DEF Typed
  <1>5. /\ services'[h.name] = h.version
        /\ \A n \in Name \ {h.name} : services'[n] = services[n]
        /\ written'[u] /\ \A w \in Publisher \ {u} : written'[w] = written[w]
    BY <1>1, <1>2, <1>3 DEF Typed
  <1>6. ASSUME careful PROVE Kept'
    <2>1. Kept /\ \A w \in Publisher : Shape(w)
      BY <1>6 DEF IInv, Kept
    <2>2. \A w \in Publisher, n \in Name : Uses(w, n)' <=> Uses(w, n)
      BY <1>2 DEF Uses
    <2>3. Uses(u, h.name)
      BY <1>1 DEF Uses, h
    <2>4. Apart'
      BY <2>1, <2>2 DEF Kept, Apart
    <2>5. Owned'
      BY <1>3, <1>5, <2>1, <2>2, <2>3 DEF Kept, Owned
    <2>6. ASSUME NEW w \in Publisher PROVE Shape(w)' /\ InMap(w)'
      <3>1. CASE w = u
        BY <1>1, <1>2, <1>5, <2>1, <3>1 DEF Shape, InMap, h
      <3>2. CASE w # u
        <4>1. Shape(w)'
          BY <1>2, <1>5, <2>1, <3>2 DEF Shape
        <4>2. ASSUME written[w] PROVE /\ todo[w] # <<>> /\ todo[w][1].name \in Name \ {h.name}
                                      /\ services[todo[w][1].name] = todo[w][1].version
          <5>1. todo[w] # <<>> /\ services[todo[w][1].name] = todo[w][1].version
            BY <2>1, <4>2 DEF Kept, InMap
          <5>2. todo[w][1].name \in Name /\ Uses(w, todo[w][1].name)
            <6>1. todo[w] \in Seq([name : Name, version : Version \cup {None}])
              BY <1>1 DEF Typed
            <6>2. todo[w][1] \in [name : Name, version : Version \cup {None}] /\ 1 \in DOMAIN todo[w]
              BY <5>1, <6>1, SeqFacts
            <6> QED BY <6>2 DEF Uses
          <5>3. todo[w][1].name # h.name
            BY <1>3, <2>1, <2>3, <3>2, <5>2 DEF Kept, Apart
          <5> QED BY <5>1, <5>2, <5>3
        <4>3. InMap(w)'
          BY <1>2, <1>5, <3>2, <4>2 DEF InMap
        <4> QED BY <4>1, <4>3
      <3> QED BY <3>1, <3>2
    <2> QED BY <2>4, <2>5, <2>6 DEF Kept
  <1> QED BY <1>2, <1>4, <1>6 DEF IInv

(* The event is sent, and with the last one the call is over: the service  *)
(* it leaves is the one in the map.                                        *)
LEMMA SendStep ==
  ASSUME IInv, NEW u \in Publisher, SendEvent(u)
  PROVE  IInv'
  <1> DEFINE h == todo[u][1]
             r == Tail(todo[u])
             c == IF Len(todo[u]) = 1 THEN after[u] ELSE current[u]
  <1>1. /\ Typed /\ todo[u] # <<>> /\ written[u] /\ UNCHANGED <<careful, services, after>>
        /\ todo' = [todo EXCEPT ![u] = r] /\ written' = [written EXCEPT ![u] = FALSE]
    BY DEF IInv, SendEvent, Idle
  <1>2. current' = [current EXCEPT ![u] = c] /\ after' = [after EXCEPT ![u] = after[u]]
    BY <1>1 DEF SendEvent, ServiceAfter, Typed
  <1>3. /\ h \in [name : Name, version : Version \cup {None}] /\ 1 \in DOMAIN todo[u]
        /\ r \in Seq([name : Name, version : Version \cup {None}])
        /\ Len(todo[u]) = 1 => r = <<>>
        /\ Len(todo[u]) = 2 => Len(r) = 1 /\ r[1] = todo[u][2] /\ r # <<>>
        /\ c \in Service \cup {Nothing}
    <2>1. todo[u] \in Seq([name : Name, version : Version \cup {None}])
      BY <1>1 DEF Typed
    <2>2. c \in Service \cup {Nothing}
      BY <1>1 DEF Typed
    <2> QED BY <1>1, <2>1, <2>2, SeqFacts
  <1> HIDE DEF r, c
  <1>4. Typed'
    BY <1>1, <1>2, <1>3 DEF Typed
  <1>5. ASSUME careful PROVE Kept'
    <2>1. Kept /\ Shape(u) /\ InMap(u)
      BY <1>5 DEF IInv, Kept
    <2>2. /\ todo'[u] = r /\ after'[u] = after[u] /\ current'[u] = c /\ ~written'[u]
          /\ \A w \in Publisher \ {u} :
               /\ todo'[w] = todo[w] /\ after'[w] = after[w]
               /\ current'[w] = current[w] /\ written'[w] = written[w]
               /\ Shape(w) => Shape(w)'
               /\ \A n \in Name : Uses(w, n)' <=> Uses(w, n)
      <3>1. todo'[u] = r /\ after'[u] = after[u] /\ current'[u] = c /\ written'[u] = FALSE
        BY <1>1, <1>2 DEF Typed
      <3>2. \A w \in Publisher \ {u} :
              /\ todo'[w] = todo[w] /\ after'[w] = after[w]
              /\ current'[w] = current[w] /\ written'[w] = written[w]
        BY <1>1, <1>2 DEF Typed
      <3> QED BY <3>1, <3>2 DEF Shape, Uses
    <2>3. services[h.name] = h.version
      BY <1>1, <2>1 DEF InMap
    <2>4. /\ Shape(u)'
          /\ \A n \in Name : Uses(u, n)' => Uses(u, n)
          /\ \A n \in Name : Uses(u, n) /\ services[n] # None => Uses(u, n)'
      <3>1. CASE Len(todo[u]) = 1
        <4>1. /\ after[u] = IF h.version = None THEN Nothing ELSE h
              /\ current[u] = Nothing \/ current[u].name = h.name
              /\ r = <<>> /\ c = after[u]
          BY <1>1, <1>3, <2>1, <3>1 DEF Shape, c
        <4>2. \A n \in Name : Uses(u, n)' <=> c.name = n
          BY <2>2, <4>1 DEF Uses
        <4>3. Shape(u)'
          BY <2>2, <4>1 DEF Shape
        <4>4. \A n \in Name : Uses(u, n) <=> n = h.name
          BY <1>1, <1>3, <2>1, <4>1, UsesFacts, NothingFacts
        <4> QED BY <2>3, <4>1, <4>2, <4>3, <4>4, NothingFacts
      <3>2. CASE Len(todo[u]) = 2
        <4>1. /\ h.version = None /\ todo[u][2].version # None /\ h.name = todo[u][2].name
              /\ after[u] = todo[u][2] /\ current[u] = Nothing
              /\ Len(r) = 1 /\ r[1] = todo[u][2] /\ r # <<>> /\ c = Nothing
          BY <1>1, <1>3, <2>1, <3>2 DEF Shape, c
        <4>2. Shape(u)'
          BY <2>2, <4>1 DEF Shape
        <4>3. \A n \in Name : Uses(u, n) <=> n = h.name
          BY <1>1, <1>3, <2>1, <4>1, UsesFacts, NothingFacts
        <4>4. \A n \in Name : Uses(u, n)' <=> n = h.name
          <5>1. DOMAIN r = {1}
            BY <1>3, <4>1
          <5> QED BY <2>2, <4>1, <5>1, NothingFacts DEF Uses
        <4> QED BY <4>2, <4>3, <4>4
      <3> QED BY <1>1, <2>1, <3>1, <3>2 DEF Shape
    <2>5. Apart'
      BY <2>1, <2>2, <2>4 DEF Kept, Apart
    <2>6. Owned'
      BY <1>1, <2>1, <2>2, <2>4 DEF Kept, Owned
    <2>7. \A w \in Publisher : Shape(w)' /\ InMap(w)'
      BY <1>1, <2>1, <2>2, <2>4 DEF Kept, InMap
    <2> QED BY <2>5, <2>6, <2>7 DEF Kept
  <1> QED BY <1>1, <1>4, <1>5 DEF IInv

(* A call is dropped before it has changed anything, or between its two    *)
(* changes: what it was about to write is not in the map, and what it was  *)
(* about to take out is still the current service.                         *)
LEMMA AbandonStep ==
  ASSUME IInv, NEW u \in Publisher, careful => Fresh(u), Abandon(u)
  PROVE  IInv'
  <1>1. /\ Typed /\ todo[u] # <<>> /\ ~written[u] /\ todo' = [todo EXCEPT ![u] = <<>>]
        /\ UNCHANGED <<careful, services, current, written, after>>
        /\ careful => Len(todo[u]) = 1
    BY DEF IInv, Abandon, Idle
  <1>2. Typed'
    <2>1. <<>> \in Seq([name : Name, version : Version \cup {None}])
      OBVIOUS
    <2> QED BY <1>1, <2>1 DEF Typed
  <1>3. todo'[u] = <<>> /\ \A w \in Publisher \ {u} : todo'[w] = todo[w]
    BY <1>1 DEF Typed
  <1>4. ASSUME careful PROVE Kept'
    <2>1. Kept /\ Shape(u) /\ Len(todo[u]) = 1
      BY <1>1, <1>4 DEF IInv, Kept
    <2>2. \A w \in Publisher \ {u} :
            /\ Shape(w)' /\ InMap(w)' /\ \A n \in Name : Uses(w, n)' <=> Uses(w, n)
      BY <1>1, <1>3, <2>1 DEF Kept, Shape, InMap, Uses
    <2>3. Shape(u)' /\ InMap(u)'
      BY <1>1, <1>3 DEF Shape, InMap
    <2>4. \A n \in Name : Uses(u, n)' <=> current[u].name = n
      BY <1>1, <1>3 DEF Uses
    <2>5. \A n \in Name : Uses(u, n) <=> current[u].name = n \/ todo[u][1].name = n
      BY <1>1, <2>1, UsesFacts
    <2>6. services[todo[u][1].name] # None => current[u].name = todo[u][1].name
      BY <1>1, <1>4, <2>1 DEF Fresh, Shape
    <2>7. Apart'
      BY <2>1, <2>2, <2>4, <2>5 DEF Kept, Apart
    <2>8. Owned'
      BY <1>1, <2>1, <2>2, <2>4, <2>5, <2>6 DEF Kept, Owned
    <2> QED BY <2>2, <2>3, <2>7, <2>8 DEF Kept
  <1> QED BY <1>1, <1>2, <1>4 DEF IInv

(* The other steps do not touch the publishers, but for clear(). *)
LEMMA OtherStep ==
  ASSUME IInv, UNCHANGED <<careful, backend>> \/ Clear
  PROVE  IInv'
  <1>1. CASE UNCHANGED <<careful, backend>>
    <2>1. UNCHANGED <<careful, services, current, todo, written, after>>
      BY <1>1 DEF backend
    <2>2. Typed'
      BY <2>1 DEF IInv, Typed
    <2>3. \A u \in Publisher : (Shape(u) => Shape(u)') /\ (InMap(u) => InMap(u)')
      BY <2>1 DEF Shape, InMap
    <2>4. \A u \in Publisher, n \in Name : Uses(u, n)' <=> Uses(u, n)
      BY <2>1 DEF Uses
    <2>5. careful => Kept'
      BY <2>1, <2>3, <2>4 DEF IInv, Kept, Apart, Owned
    <2> QED BY <2>1, <2>2, <2>5 DEF IInv
  <1>2. CASE Clear
    BY <1>2 DEF Clear, IInv, Typed
  <1> QED BY <1>1, <1>2

(* Every step keeps the invariant. *)
LEMMA NextIInv == IInv /\ (careful => \A u \in Publisher : Fresh(u)) /\ [Next]_vars => IInv'
  <1> SUFFICES ASSUME IInv, careful => \A u \in Publisher : Fresh(u), [Next]_vars PROVE IInv'
    OBVIOUS
  <1>1. CASE \E u \in Publisher :
               \/ \E n \in Name, v \in Version : Publish(u, n, v)
               \/ Unpublish(u)
               \/ \E v \in Version : UpdateTxtRecords(u, v)
               \/ WriteServices(u) \/ SendEvent(u) \/ Abandon(u)
    BY <1>1, PublishStep, UnpublishStep, UpdateStep, WriteStep, SendStep, AbandonStep
  <1>2. CASE Clear
    BY <1>2, OtherStep
  <1>3. CASE \/ StartBrowsing \/ StopBrowsing \/ EventStream \/ DiscoveredServices \/ DropStream
             \/ CheckBrowsing \/ Receive \/ ReceiveLagged \/ UNCHANGED vars
    <2>1. UNCHANGED <<careful, backend>>
      BY <1>3 DEF StartBrowsing, StopBrowsing, EventStream, DiscoveredServices, DropStream, CheckBrowsing,
                  Receive, ReceiveLagged, vars
    <2> QED BY <2>1, OtherStep
  <1> QED BY <1>1, <1>2, <1>3 DEF Next

-----------------------------------------------------------------------------
(* Types *)

Changes == [name : Name, version : Version \cup {None}]

\* what the channel holds and where the loop of the stream is
Channelled ==
  /\ queue \in Seq(Changes) /\ Len(queue) <= Capacity
  /\ view \in [Name -> Version \cup {None}]
  /\ stream \in {"none", "opened", "check", "recv"}
  /\ heard \in [Name -> Version \cup {None, "unheard", "missed"}]

(* A sequence with one more element, and one without its first. *)
LEMMA QueueFacts ==
  ASSUME NEW S, NEW s \in Seq(S), NEW e \in S
  PROVE  /\ Append(s, e) \in Seq(S) /\ Len(Append(s, e)) = Len(s) + 1 /\ Len(s) \in Nat
         /\ s # <<>> => /\ Head(s) \in S
                        /\ Tail(s) \in Seq(S) /\ Len(Tail(s)) = Len(s) - 1
                        /\ Append(Tail(s), e) \in Seq(S) /\ Len(Append(Tail(s), e)) = Len(s)
  OBVIOUS

(* An event goes into the channel; a full one first drops its oldest. *)
LEMMA BroadcastTyped ==
  ASSUME Channelled, NEW e \in Changes, Broadcast(e)
  PROVE  /\ queue' \in Seq(Changes) /\ Len(queue') <= Capacity
         /\ heard' \in [Name -> Version \cup {None, "unheard", "missed"}]
  <1>1. queue \in Seq(Changes) /\ Len(queue) <= Capacity /\ Capacity \in Nat \ {0}
    BY MockAssumption DEF Channelled
  <1>2. CASE stream = "none"
    BY <1>1, <1>2 DEF Broadcast, channel, Channelled
  <1>3. CASE stream # "none" /\ Len(queue) < Capacity
    BY <1>1, <1>3, QueueFacts DEF Broadcast, Channelled
  <1>4. CASE stream # "none" /\ ~(Len(queue) < Capacity)
    <2>1. Len(queue) # 0
      BY <1>1, <1>4, QueueFacts
    <2>2. queue # <<>>
      BY <1>1, <2>1, EmptySeq
    <2>3. queue' = Append(Tail(queue), e)
      BY <1>4 DEF Broadcast
    <2>4. heard' \in [Name -> Version \cup {None, "unheard", "missed"}]
      BY <1>4 DEF Broadcast, Channelled
    <2> QED BY <1>1, <2>2, <2>3, <2>4, QueueFacts
  <1> QED BY <1>2, <1>3, <1>4

(* Every step keeps the types of the channel and of its reader. *)
LEMMA ChannelledStep == IInv /\ Channelled /\ [Next]_vars => Channelled'
  <1> SUFFICES ASSUME IInv, Channelled, [Next]_vars PROVE Channelled'
    OBVIOUS
  <1>1. CASE UNCHANGED <<queue, view, stream, heard>>
    BY <1>1 DEF Channelled
  <1>2. CASE StartBrowsing \/ StopBrowsing
    BY <1>1, <1>2 DEF StartBrowsing, StopBrowsing, reader, channel
  <1>3. CASE EventStream \/ DiscoveredServices \/ CheckBrowsing \/ ReceiveLagged
    BY <1>3 DEF EventStream, DiscoveredServices, CheckBrowsing, ReceiveLagged,
                channel, Channelled, IInv, Typed
  <1>4. CASE Receive
    <2>1. queue # <<>> /\ queue \in Seq(Changes) /\ Len(queue) <= Capacity /\ Capacity \in Nat
      BY <1>4, MockAssumption DEF Receive, Channelled
    <2>2. Head(queue) \in Changes
      BY <2>1
    <2>3. Tail(queue) \in Seq(Changes) /\ Len(Tail(queue)) = Len(queue) - 1 /\ Len(queue) \in Nat
      BY <2>1, <2>2, QueueFacts
    <2>4. /\ view' \in [Name -> Version \cup {None}] /\ stream' = "check"
          /\ heard' \in [Name -> Version \cup {None, "unheard", "missed"}]
      BY <1>4, <2>2 DEF Receive, Channelled, Changes
    <2>5. queue' = Tail(queue)
      BY <1>4 DEF Receive
    <2> QED BY <2>1, <2>3, <2>4, <2>5 DEF Channelled
  <1>5. CASE \E u \in Publisher : SendEvent(u)
    <2> PICK u \in Publisher : SendEvent(u)
      BY <1>5
    <2>1. todo[u] \in Seq(Changes) /\ todo[u] # <<>>
      BY DEF SendEvent, Idle, IInv, Typed, Changes
    <2>2. Head(todo[u]) \in Changes
      BY <2>1
    <2>3. Broadcast(Head(todo[u])) /\ UNCHANGED <<view, stream>>
      BY DEF SendEvent, reader
    <2> QED BY <2>2, <2>3, BroadcastTyped DEF Channelled
  <1>6. CASE \E u \in Publisher :
               \/ \E n \in Name, v \in Version : Publish(u, n, v)
               \/ Unpublish(u)
               \/ \E v \in Version : UpdateTxtRecords(u, v)
               \/ WriteServices(u) \/ Abandon(u)
    BY <1>1, <1>6 DEF Publish, Unpublish, UpdateTxtRecords, Call, WriteServices, Abandon, reader, channel
  <1>7. CASE Clear \/ UNCHANGED vars
    BY <1>1, <1>7 DEF Clear, vars, reader, channel
  <1>8. CASE DropStream
    BY <1>8, MockAssumption, EmptySeq DEF DropStream, Channelled
  <1> QED BY <1>2, <1>3, <1>4, <1>5, <1>6, <1>7, <1>8 DEF Next

-----------------------------------------------------------------------------
(* The reader.  Every write turns none into a service or a service into    *)
(* none (Fresh), so what the last event of a name has said is what the map *)
(* holds, or just the contrary while the next event is still to be sent    *)
(* (Told); and where the channel holds no event of a name, the reader has  *)
(* taken the last one or has seen the map (Known).  What the stream has    *)
(* told the reader goes on in the channel by turns (Heard).                *)

\* a change of n is in the map and its event not sent
Pending(n) == \E u \in Publisher : written[u] /\ todo[u][1].name = n

Latest(s, i) == i \in DOMAIN s /\ \A j \in DOMAIN s : i < j => s[j].name # s[i].name

Absent(s, n) == \A i \in DOMAIN s : s[i].name # n

Blinks(s) ==
  \A i, j \in DOMAIN s :
    /\ i < j /\ s[i].name = s[j].name
    /\ \A k \in DOMAIN s : i < k /\ k < j => s[k].name # s[i].name
    => (s[i].version = None <=> s[j].version # None)

\* what the last event about n has said
Tells(n, v) ==
  IF Pending(n) THEN v = None <=> services[n] # None ELSE services[n] = v

Told ==
  /\ stream = "none" => queue = <<>>
  /\ \A i \in DOMAIN queue : Latest(queue, i) => Tells(queue[i].name, queue[i].version)
  /\ Blinks(queue)

Known ==
  stream \notin {"none", "opened"} =>
    \A n \in Name :
      heard[n] # "missed" /\ Absent(queue, n) /\ ~Pending(n) => view[n] = services[n]

First(s, i) == i \in DOMAIN s /\ \A j \in DOMAIN s : j < i => s[j].name # s[i].name

Word(w) == w \in Version \cup {None}

Heard ==
  /\ stream = "none" => \A n \in Name : heard[n] = "unheard"
  /\ \A i \in DOMAIN queue : First(queue, i) /\ Word(heard[queue[i].name]) =>
       (heard[queue[i].name] = None <=> queue[i].version # None)
  /\ \A n \in Name : Absent(queue, n) /\ Word(heard[n]) => Tells(n, heard[n])

Fine == (\A u \in Publisher : Fresh(u)) /\ Told /\ Known /\ Heard

(* What one event more, and the first one less, make of the channel. *)
LEMMA OneMore ==
  ASSUME NEW s \in Seq(Changes), NEW e \in Changes
  PROVE  LET r == Append(s, e)
         IN  /\ \A i \in DOMAIN r : r[i] = e \/ (i \in DOMAIN s /\ r[i] = s[i])
             /\ \A i \in DOMAIN r : Latest(r, i) =>
                  r[i] = e \/ (Latest(s, i) /\ r[i] = s[i] /\ s[i].name # e.name)
             /\ \A n : Absent(r, n) => Absent(s, n) /\ e.name # n
             /\ /\ Blinks(s)
                /\ \A i \in DOMAIN s : Latest(s, i) /\ s[i].name = e.name =>
                     (s[i].version = None <=> e.version # None)
                => Blinks(r)
  <1> DEFINE r == Append(s, e)
  <1>1. /\ Len(s) \in Nat /\ DOMAIN s = 1 .. Len(s) /\ DOMAIN r = 1 .. Len(s) + 1
        /\ r[Len(s) + 1] = e /\ \A i \in 1 .. Len(s) : r[i] = s[i]
    OBVIOUS
  <1> HIDE DEF r
  <1>2. \A i \in DOMAIN r : r[i] = e \/ (i \in DOMAIN s /\ r[i] = s[i])
    BY <1>1
  <1>3. ASSUME NEW i \in DOMAIN r, Latest(r, i)
        PROVE  r[i] = e \/ (Latest(s, i) /\ r[i] = s[i] /\ s[i].name # e.name)
    <2>1. CASE i = Len(s) + 1
      BY <1>1, <2>1
    <2>2. CASE i \in DOMAIN s
      <3>1. r[i] = s[i] /\ i < Len(s) + 1 /\ Len(s) + 1 \in DOMAIN r
        BY <1>1, <2>2
      <3>2. s[i].name # e.name
        BY <1>1, <1>3, <3>1 DEF Latest
      <3>3. \A j \in DOMAIN s : j \in DOMAIN r /\ r[j] = s[j]
        BY <1>1
      <3>4. Latest(s, i)
        BY <1>3, <2>2, <3>1, <3>3 DEF Latest
      <3> QED BY <3>1, <3>2, <3>4
    <2> QED BY <1>1, <2>1, <2>2
  <1>4. \A n : Absent(r, n) => Absent(s, n) /\ e.name # n
    <2> SUFFICES ASSUME NEW n, Absent(r, n) PROVE Absent(s, n) /\ e.name # n
      OBVIOUS
    <2>1. Len(s) + 1 \in DOMAIN r /\ \A j \in DOMAIN s : j \in DOMAIN r /\ r[j] = s[j]
      BY <1>1
    <2> QED BY <1>1, <2>1 DEF Absent
  <1>5. ASSUME Blinks(s),
               \A i \in DOMAIN s : Latest(s, i) /\ s[i].name = e.name =>
                 (s[i].version = None <=> e.version # None)
        PROVE  Blinks(r)
    <2> SUFFICES ASSUME NEW i \in DOMAIN r, NEW j \in DOMAIN r, i < j, r[i].name = r[j].name,
                        \A k \in DOMAIN r : i < k /\ k < j => r[k].name # r[i].name
                 PROVE  r[i].version = None <=> r[j].version # None
      BY DEF Blinks
    <2>1. i \in DOMAIN s /\ r[i] = s[i] /\ \A k \in DOMAIN s : k \in DOMAIN r /\ r[k] = s[k]
      BY <1>1
    <2>2. CASE j \in DOMAIN s
      <3>1. r[j] = s[j] /\ \A k \in DOMAIN s : i < k /\ k < j => s[k].name # s[i].name
        BY <2>1, <2>2
      <3> QED BY <1>5, <2>1, <2>2, <3>1 DEF Blinks
    <2>3. CASE j = Len(s) + 1
      <3>1. \A k \in DOMAIN s : i < k => s[k].name # s[i].name
        <4> SUFFICES ASSUME NEW k \in DOMAIN s, i < k PROVE s[k].name # s[i].name
          OBVIOUS
        <4>1. k < j /\ k \in DOMAIN r
          BY <1>1, <2>3
        <4> QED BY <2>1, <4>1
      <3>2. Latest(s, i)
        BY <2>1, <3>1 DEF Latest
      <3>3. r[j] = e
        BY <1>1, <2>3
      <3> QED BY <1>5, <2>1, <3>2, <3>3
    <2> QED BY <1>1, <2>2, <2>3
  <1> QED BY <1>2, <1>3, <1>4, <1>5, Zenon DEF r

LEMMA OneLess ==
  ASSUME NEW s \in Seq(Changes), s # <<>>
  PROVE  LET r == Tail(s)
         IN  /\ Head(s) = s[1] /\ 1 \in DOMAIN s /\ s[1] \in Changes /\ r \in Seq(Changes)
             /\ \A i \in DOMAIN r : i + 1 \in DOMAIN s /\ r[i] = s[i + 1]
             /\ \A i \in DOMAIN r : Latest(r, i) => Latest(s, i + 1)
             /\ \A n : Absent(r, n) /\ s[1].name # n => Absent(s, n)
             /\ Absent(r, s[1].name) => Latest(s, 1)
             /\ Blinks(s) => Blinks(r)
  <1> DEFINE r == Tail(s)
  <1>1. /\ Head(s) = s[1] /\ s[1] \in Changes /\ r \in Seq(Changes)
        /\ Len(s) \in Nat /\ Len(s) > 0 /\ DOMAIN s = 1 .. Len(s)
        /\ DOMAIN r = 1 .. Len(s) - 1 /\ \A i \in 1 .. Len(s) - 1 : r[i] = s[i + 1]
    OBVIOUS
  <1> HIDE DEF r
  <1>2. /\ 1 \in DOMAIN s /\ DOMAIN r \subseteq Nat /\ DOMAIN s \subseteq Nat
        /\ \A i \in DOMAIN r : i + 1 \in DOMAIN s /\ r[i] = s[i + 1]
        /\ \A i \in DOMAIN s : i # 1 => i - 1 \in DOMAIN r /\ r[i - 1] = s[i]
    BY <1>1
  <1>3. ASSUME NEW i \in DOMAIN r, Latest(r, i) PROVE Latest(s, i + 1)
    <2> SUFFICES ASSUME NEW j \in DOMAIN s, i + 1 < j PROVE s[j].name # s[i + 1].name
      BY <1>2 DEF Latest
    <2>1. j # 1 /\ i < j - 1
      BY <1>2
    <2>2. j - 1 \in DOMAIN r /\ r[j - 1] = s[j] /\ r[i] = s[i + 1]
      BY <1>2, <2>1
    <2>3. r[j - 1].name # r[i].name
      BY <1>3, <2>1, <2>2 DEF Latest
    <2> QED BY <2>2, <2>3
  <1>4. ASSUME NEW n, Absent(r, n) PROVE \A j \in DOMAIN s : j # 1 => s[j].name # n
    BY <1>2, <1>4 DEF Absent
  <1>5. \A n : Absent(r, n) /\ s[1].name # n => Absent(s, n)
    BY <1>4 DEF Absent
  <1>6. Absent(r, s[1].name) => Latest(s, 1)
    <2> SUFFICES ASSUME Absent(r, s[1].name) PROVE Latest(s, 1)
      OBVIOUS
    <2>1. \A j \in DOMAIN s : j # 1 => s[j].name # s[1].name
      BY <1>4
    <2>2. \A j \in DOMAIN s : 1 < j => j # 1
      BY <1>2
    <2> QED BY <1>2, <2>1, <2>2 DEF Latest
  <1>7. ASSUME Blinks(s) PROVE Blinks(r)
    <2> SUFFICES ASSUME NEW i \in DOMAIN r, NEW j \in DOMAIN r, i < j, r[i].name = r[j].name,
                        \A k \in DOMAIN r : i < k /\ k < j => r[k].name # r[i].name
                 PROVE  r[i].version = None <=> r[j].version # None
      BY DEF Blinks
    <2>1. /\ i + 1 \in DOMAIN s /\ j + 1 \in DOMAIN s /\ i + 1 < j + 1
          /\ r[i] = s[i + 1] /\ r[j] = s[j + 1]
      BY <1>2
    <2>2. ASSUME NEW k \in DOMAIN s, i + 1 < k, k < j + 1 PROVE s[k].name # s[i + 1].name
      <3>1. k # 1 /\ i < k - 1 /\ k - 1 < j
        BY <1>2, <2>2
      <3>2. k - 1 \in DOMAIN r /\ r[k - 1] = s[k]
        BY <1>2, <3>1
      <3>3. r[k - 1].name # r[i].name
        BY <3>1, <3>2
      <3> QED BY <2>1, <3>2, <3>3
    <2> QED BY <1>7, <2>1, <2>2 DEF Blinks
  <1> QED BY <1>1, <1>2, <1>3, <1>5, <1>6, <1>7, Zenon DEF r

(* Which events are the first of their names then. *)
LEMMA FirstOfMore ==
  ASSUME NEW s \in Seq(Changes), NEW e \in Changes, NEW i \in DOMAIN Append(s, e),
         First(Append(s, e), i)
  PROVE  \/ First(s, i) /\ Append(s, e)[i] = s[i]
         \/ Append(s, e)[i] = e /\ Absent(s, e.name)
  <1> DEFINE r == Append(s, e)
  <1>1. /\ Len(s) \in Nat /\ DOMAIN s = 1 .. Len(s) /\ DOMAIN r = 1 .. Len(s) + 1
        /\ r[Len(s) + 1] = e /\ \A j \in 1 .. Len(s) : r[j] = s[j]
    OBVIOUS
  <1>2. First(r, i) /\ i \in DOMAIN r
    OBVIOUS
  <1> HIDE DEF r
  <1>3. CASE i \in DOMAIN s
    <2>1. \A j \in DOMAIN s : j \in DOMAIN r /\ r[j] = s[j]
      BY <1>1
    <2> QED BY <1>2, <1>3, <2>1, Zenon DEF First, r
  <1>4. CASE i = Len(s) + 1
    <2>1. \A j \in DOMAIN s : j \in DOMAIN r /\ r[j] = s[j] /\ j < i
      BY <1>1, <1>4
    <2>2. r[i] = e
      BY <1>1, <1>4
    <2>3. \A j \in DOMAIN s : s[j].name # e.name
      BY <1>2, <2>1, <2>2 DEF First
    <2> QED BY <2>2, <2>3, Zenon DEF Absent, r
  <1> QED BY <1>1, <1>2, <1>3, <1>4

LEMMA FirstOfLess ==
  ASSUME NEW s \in Seq(Changes), s # <<>>, NEW i \in DOMAIN Tail(s), First(Tail(s), i)
  PROVE  /\ i + 1 \in DOMAIN s /\ Tail(s)[i] = s[i + 1]
         /\ s[i + 1].name # s[1].name => First(s, i + 1)
         /\ s[i + 1].name = s[1].name /\ Blinks(s) =>
              (s[1].version = None <=> s[i + 1].version # None)
  <1>1. /\ Len(s) \in Nat /\ Len(s) > 0 /\ DOMAIN s = 1 .. Len(s)
        /\ DOMAIN Tail(s) = 1 .. Len(s) - 1
        /\ \A j \in 1 .. Len(s) - 1 : Tail(s)[j] = s[j + 1]
    OBVIOUS
  <1>2. i + 1 \in DOMAIN s /\ Tail(s)[i] = s[i + 1] /\ 1 \in DOMAIN s /\ 1 < i + 1
    BY <1>1
  <1>3. ASSUME NEW k \in DOMAIN s, 1 < k, k < i + 1 PROVE s[k].name # s[i + 1].name
    <2>1. k - 1 \in DOMAIN Tail(s) /\ k - 1 < i /\ Tail(s)[k - 1] = s[k]
      BY <1>1, <1>3
    <2>2. Tail(s)[k - 1].name # Tail(s)[i].name
      BY <2>1 DEF First
    <2> QED BY <1>2, <2>1, <2>2
  <1>4. s[i + 1].name # s[1].name => First(s, i + 1)
    <2> SUFFICES ASSUME s[i + 1].name # s[1].name, NEW j \in DOMAIN s, j < i + 1
                 PROVE  s[j].name # s[i + 1].name
      BY <1>2 DEF First
    <2>1. j = 1 \/ 1 < j
      BY <1>1
    <2> QED BY <1>3, <2>1
  <1>5. s[i + 1].name = s[1].name /\ Blinks(s) => (s[1].version = None <=> s[i + 1].version # None)
    <2> SUFFICES ASSUME s[i + 1].name = s[1].name, Blinks(s)
                 PROVE  s[1].version = None <=> s[i + 1].version # None
      OBVIOUS
    <2>1. \A k \in DOMAIN s : 1 < k /\ k < i + 1 => s[k].name # s[1].name
      BY <1>3
    <2> QED BY <1>2, <2>1 DEF Blinks
  <1> QED BY <1>2, <1>4, <1>5

(* A call begins: nothing is in the map that was not, and what the caller  *)
(* is going to write is new if it is so for the caller.                    *)
LEMMA CallFresh ==
  ASSUME Typed, Kept, NEW u \in Publisher, NEW t, NEW c,
         todo[u] = <<>>, UNCHANGED <<services, written>>,
         todo' = [todo EXCEPT ![u] = t], current' = [current EXCEPT ![u] = c],
         \A w \in Publisher : Fresh(w), Fresh(u)'
  PROVE  (\A w \in Publisher : Fresh(w)') /\ \A n : Pending(n)' <=> Pending(n)
  <1>1. \A w \in Publisher \ {u} : todo'[w] = todo[w] /\ current'[w] = current[w]
    BY DEF Typed
  <1>2. ~written[u]
    BY DEF Kept, Shape
  <1>3. \A w \in Publisher \ {u} : Fresh(w)'
    BY <1>1 DEF Fresh
  <1>4. \A n : Pending(n)' <=> Pending(n)
    BY <1>1, <1>2 DEF Pending
  <1> QED BY <1>3, <1>4

(* What the reader is told does not change. *)
LEMMA SameTold ==
  ASSUME Told, Known, Heard, \A n : Pending(n)' <=> Pending(n),
         UNCHANGED <<services, queue, heard, view>>,
         stream' = stream \/ (stream \notin {"none", "opened"} /\ stream' \notin {"none", "opened"})
  PROVE  Told' /\ Known' /\ Heard'
  <1>1. Told'
    BY DEF Told, Tells
  <1>2. Known'
    BY DEF Known
  <1>3. Heard'
    BY DEF Heard, Tells
  <1> QED BY <1>1, <1>2, <1>3

(* publish(), unpublish() and update_txt_records() begin. *)
LEMMA PublishFine ==
  ASSUME IInv, careful, Fine, NEW u \in Publisher, NEW n \in Name, NEW v \in Version, Publish(u, n, v)
  PROVE  Fine'
  <1> DEFINE c == Change(n, v)
  <1>1. c.name = n /\ c.version = v /\ v # None
    BY NothingFacts DEF Change
  <1>2. /\ Typed /\ Kept /\ todo[u] = <<>>
        /\ UNCHANGED <<services, written, current, queue, heard, view, stream>>
        /\ todo' = [todo EXCEPT ![u] = <<c>>]
        /\ current[u] = Nothing /\ \A w \in Publisher \ {u} : ~Uses(w, n)
    BY DEF Publish, Call, Idle, channel, reader, IInv
  <1> HIDE DEF c
  <1>3. current' = [current EXCEPT ![u] = current[u]] /\ todo'[u] = <<c>>
    BY <1>2 DEF Typed
  <1>4. services[n] = None
    <2>1. ~Uses(u, n)
      BY <1>2, NothingFacts DEF Uses
    <2> QED BY <1>2, <2>1 DEF Kept, Owned
  <1>5. Fresh(u)'
    BY <1>1, <1>2, <1>3, <1>4 DEF Fresh
  <1> QED BY <1>2, <1>3, <1>5, CallFresh, SameTold DEF Fine

LEMMA UnpublishFine ==
  ASSUME IInv, careful, Fine, NEW u \in Publisher, Unpublish(u)
  PROVE  Fine'
  <1> DEFINE c == Change(current[u].name, None)
  <1>1. c.name = current[u].name /\ c.version = None
    BY DEF Change
  <1>2. /\ Typed /\ Kept /\ todo[u] = <<>>
        /\ UNCHANGED <<services, written, current, queue, heard, view, stream>>
        /\ todo' = [todo EXCEPT ![u] = <<c>>] /\ current[u] # Nothing
    BY DEF Unpublish, Call, Idle, channel, reader, IInv
  <1> HIDE DEF c
  <1>3. current' = [current EXCEPT ![u] = current[u]] /\ todo'[u] = <<c>>
    BY <1>2 DEF Typed
  <1>4. services[current[u].name] # None
    BY <1>2 DEF Fine, Fresh
  <1>5. Fresh(u)'
    BY <1>1, <1>2, <1>3, <1>4 DEF Fresh
  <1> QED BY <1>2, <1>3, <1>5, CallFresh, SameTold DEF Fine

LEMMA UpdateFine ==
  ASSUME IInv, careful, Fine, NEW u \in Publisher, NEW v \in Version, UpdateTxtRecords(u, v)
  PROVE  Fine'
  <1> DEFINE b == Change(current[u].name, None)
             c == Change(current[u].name, v)
  <1>1. b.name = current[u].name /\ b.version = None
    BY DEF Change
  <1>2. /\ Typed /\ Kept /\ todo[u] = <<>> /\ UNCHANGED <<services, written, queue, heard, view, stream>>
        /\ todo' = [todo EXCEPT ![u] = <<b, c>>] /\ current[u] # Nothing
        /\ current' = [current EXCEPT ![u] = Nothing]
    BY DEF UpdateTxtRecords, Call, Idle, channel, reader, IInv
  <1> HIDE DEF b, c
  <1>3. todo'[u] = <<b, c>> /\ <<b, c>>[1] = b /\ <<b, c>> # <<>>
    BY <1>2 DEF Typed
  <1>4. services[current[u].name] # None
    BY <1>2 DEF Fine, Fresh
  <1>5. Fresh(u)'
    BY <1>1, <1>2, <1>3, <1>4 DEF Fresh
  <1> QED BY <1>2, <1>5, CallFresh, SameTold DEF Fine

(* A call is dropped: what its publisher still has is in the map. *)
LEMMA AbandonFine ==
  ASSUME IInv, careful, Fine, NEW u \in Publisher, Abandon(u)
  PROVE  Fine'
  <1>1. /\ Typed /\ Kept /\ todo[u] # <<>> /\ ~written[u] /\ Len(todo[u]) = 1
        /\ UNCHANGED <<services, written, current, queue, heard, view, stream>>
        /\ todo' = [todo EXCEPT ![u] = <<>>]
    BY DEF Abandon, Idle, channel, reader, IInv
  <1>2. todo'[u] = <<>> /\ \A w \in Publisher \ {u} : todo'[w] = todo[w]
    BY <1>1 DEF Typed
  <1>3. \A n : Pending(n)' <=> Pending(n)
    BY <1>1, <1>2 DEF Pending
  <1>4. Fresh(u)'
    <2>1. Shape(u) /\ Fresh(u)
      BY <1>1 DEF Kept, Fine
    <2> QED BY <1>1, <1>2, <2>1 DEF Fresh, Shape
  <1>5. \A w \in Publisher \ {u} : Fresh(w)'
    BY <1>1, <1>2 DEF Fine, Fresh
  <1>6. Told' /\ Known' /\ Heard'
    BY <1>1, <1>3, SameTold DEF Fine
  <1> QED BY <1>4, <1>5, <1>6 DEF Fine

(* A written name is used by its writer alone. *)
LEMMA PendingFacts ==
  ASSUME Typed, Kept, NEW w \in Publisher
  PROVE  /\ todo[w] # <<>> => todo[w][1].name \in Name /\ Uses(w, todo[w][1].name)
         /\ written[w] => todo[w] # <<>> /\ services[todo[w][1].name] = todo[w][1].version
         /\ current[w] # Nothing => current[w].name \in Name /\ Uses(w, current[w].name)
  <1>1. todo[w] # <<>> => todo[w][1].name \in Name /\ Uses(w, todo[w][1].name)
    <2> SUFFICES ASSUME todo[w] # <<>> PROVE todo[w][1].name \in Name /\ Uses(w, todo[w][1].name)
      OBVIOUS
    <2>1. todo[w] \in Seq([name : Name, version : Version \cup {None}])
      BY DEF Typed
    <2>2. todo[w][1] \in [name : Name, version : Version \cup {None}] /\ 1 \in DOMAIN todo[w]
      BY <2>1, SeqFacts
    <2> QED BY <2>2 DEF Uses
  <1>2. written[w] => todo[w] # <<>> /\ services[todo[w][1].name] = todo[w][1].version
    BY DEF Kept, InMap
  <1>3. current[w] # Nothing => current[w].name \in Name /\ Uses(w, current[w].name)
    BY DEF Typed, Uses, Service
  <1> QED BY <1>1, <1>2, <1>3

(* The map is written: what was last said of the name is no longer so. *)
LEMMA WriteFine ==
  ASSUME IInv, Channelled, careful, Fine, NEW u \in Publisher, WriteServices(u)
  PROVE  Fine'
  <1>h. PICK h : h = todo[u][1]
    OBVIOUS
  <1>1. Typed /\ Kept /\ todo[u] # <<>> /\ ~written[u]
    BY DEF IInv, WriteServices, Idle
  <1>2. /\ Head(todo[u]) = h /\ h \in [name : Name, version : Version \cup {None}]
    <2>1. todo[u] \in Seq([name : Name, version : Version \cup {None}])
      BY <1>1 DEF Typed
    <2> QED BY <1>1, <1>h, <2>1, SeqFacts
  <1>3. /\ services' = [services EXCEPT ![h.name] = h.version]
        /\ written' = [written EXCEPT ![u] = TRUE]
        /\ UNCHANGED <<current, todo, queue, heard, view, stream>>
    BY <1>2 DEF WriteServices, channel, reader
  <1>4. Uses(u, h.name) /\ h.name \in Name /\ h.version \in Version \cup {None}
    BY <1>1, <1>2, <1>h, PendingFacts
  <1>5. services[h.name] = None <=> h.version # None
    BY <1>1, <1>h DEF Fine, Fresh
  <1>6. /\ services'[h.name] = h.version
        /\ \A n \in Name \ {h.name} : services'[n] = services[n]
        /\ written'[u] /\ \A w \in Publisher \ {u} : written'[w] = written[w]
    BY <1>1, <1>3, <1>4 DEF Typed
  <1>7. \A w \in Publisher \ {u} : todo[w] # <<>> => todo[w][1].name \in Name \ {h.name}
    BY <1>1, <1>4, PendingFacts DEF Kept, Apart
  <1>8. \A w \in Publisher \ {u} : current[w] # Nothing => current[w].name \in Name \ {h.name}
    BY <1>1, <1>4, PendingFacts DEF Kept, Apart
  <1>9. ~Pending(h.name) /\ Pending(h.name)' /\ \A n : n # h.name => (Pending(n)' <=> Pending(n))
    <2>1. ~Pending(h.name)
      BY <1>1, <1>7, <1>h, PendingFacts DEF Pending
    <2>2. Pending(h.name)'
      BY <1>3, <1>6, <1>h DEF Pending
    <2>3. ASSUME NEW n, n # h.name PROVE Pending(n)' <=> Pending(n)
      BY <1>3, <1>6, <1>h, <2>3 DEF Pending
    <2> QED BY <2>1, <2>2, <2>3
  <1>10. \A w \in Publisher : Fresh(w)'
    <2>1. Fresh(u)'
      BY <1>1, <1>3, <1>6, <1>h DEF Fresh
    <2>2. ASSUME NEW w \in Publisher \ {u} PROVE Fresh(w)'
      <3>1. Fresh(w)
        BY DEF Fine
      <3> QED BY <1>3, <1>6, <1>7, <1>8, <3>1 DEF Fresh
    <2> QED BY <2>1, <2>2
  <1>11. ASSUME NEW n \in Name, NEW v, Tells(n, v) PROVE Tells(n, v)'
    <2>1. CASE n = h.name
      BY <1>5, <1>6, <1>9, <1>11, <2>1 DEF Tells
    <2>2. CASE n # h.name
      BY <1>6, <1>9, <1>11, <2>2 DEF Tells
    <2> QED BY <2>1, <2>2
  <1>12. \A i \in DOMAIN queue : queue[i].name \in Name
    <2>1. \A i \in DOMAIN queue : queue[i] \in Changes
      BY DEF Channelled
    <2> QED BY <2>1 DEF Changes
  <1>13. Told'
    <2>1. ASSUME NEW i \in DOMAIN queue, Latest(queue, i)
          PROVE  Tells(queue[i].name, queue[i].version)'
      <3>1. PICK n, v : n \in Name /\ n = queue[i].name /\ v = queue[i].version
        BY <1>12
      <3>2. Tells(n, v)
        BY <2>1, <3>1 DEF Fine, Told
      <3>3. Tells(n, v)'
        BY <1>11, <3>1, <3>2
      <3> QED BY <1>3, <3>1, <3>3 DEF Tells, Pending
    <2> QED BY <1>3, <2>1 DEF Fine, Told
  <1>14. Known'
    BY <1>3, <1>6, <1>9 DEF Fine, Known
  <1>15. Heard'
    <2>1. ASSUME NEW n \in Name, Absent(queue, n), Word(heard[n]) PROVE Tells(n, heard[n])'
      <3>1. Tells(n, heard[n])
        BY <2>1 DEF Fine, Heard
      <3>2. PICK v : v = heard[n]
        OBVIOUS
      <3>3. Tells(n, v)'
        BY <1>11, <3>1, <3>2
      <3> QED BY <1>3, <3>2, <3>3 DEF Tells, Pending
    <2> QED BY <1>3, <2>1 DEF Fine, Heard, Word
  <1> QED BY <1>10, <1>13, <1>14, <1>15 DEF Fine

(* The event is sent: it is the last that is told of its name, and the one *)
(* before it has told the contrary.                                        *)
LEMMA SendFine ==
  ASSUME IInv, Channelled, careful, Fine, NEW u \in Publisher, SendEvent(u)
  PROVE  Fine'
  <1>h. PICK h : h = todo[u][1]
    OBVIOUS
  <1>1. Typed /\ Kept /\ Shape(u) /\ todo[u] # <<>> /\ written[u]
    BY DEF IInv, Kept, SendEvent, Idle
  <1>2. Head(todo[u]) = h /\ h \in Changes
    <2>1. todo[u] \in Seq([name : Name, version : Version \cup {None}])
      BY <1>1 DEF Typed
    <2> QED BY <1>1, <1>h, <2>1, SeqFacts DEF Changes
  <1>3. /\ todo' = [todo EXCEPT ![u] = Tail(todo[u])] /\ written' = [written EXCEPT ![u] = FALSE]
        /\ current' = IF Len(todo[u]) = 1 THEN [current EXCEPT ![u] = after[u]] ELSE current
        /\ UNCHANGED <<services, view, stream>> /\ Broadcast(h)
    BY <1>2 DEF SendEvent, ServiceAfter, reader
  <1>4. Uses(u, h.name) /\ h.name \in Name /\ services[h.name] = h.version
    BY <1>1, <1>h, PendingFacts
  <1>5. /\ todo'[u] = Tail(todo[u]) /\ ~written'[u]
        /\ current'[u] = IF Len(todo[u]) = 1 THEN after[u] ELSE current[u]
        /\ \A w \in Publisher \ {u} :
             todo'[w] = todo[w] /\ written'[w] = written[w] /\ current'[w] = current[w]
    BY <1>1, <1>3 DEF Typed
  <1>6. \A w \in Publisher \ {u} : written[w] => todo[w][1].name # h.name
    BY <1>1, <1>4, PendingFacts DEF Kept, Apart
  <1>7. Pending(h.name) /\ ~Pending(h.name)' /\ \A n : n # h.name => (Pending(n)' <=> Pending(n))
    <2>1. Pending(h.name)
      BY <1>1, <1>h DEF Pending
    <2>2. ~Pending(h.name)'
      BY <1>5, <1>6 DEF Pending
    <2>3. ASSUME NEW n, n # h.name PROVE Pending(n)' <=> Pending(n)
      BY <1>5, <1>h, <2>3 DEF Pending
    <2> QED BY <2>1, <2>2, <2>3
  <1>8. \A w \in Publisher : Fresh(w)'
    <2>1. Fresh(u)'
      <3>0. todo[u] \in Seq([name : Name, version : Version \cup {None}])
        BY <1>1 DEF Typed
      <3>1. CASE Len(todo[u]) = 1
        <4>1. todo'[u] = <<>>
          BY <1>1, <1>5, <3>0, <3>1, SeqFacts
        <4>2. current'[u] = IF h.version = None THEN Nothing ELSE h
          BY <1>1, <1>5, <1>h, <3>1 DEF Shape
        <4> QED BY <1>3, <1>4, <4>1, <4>2 DEF Fresh
      <3>2. CASE Len(todo[u]) = 2
        <4>1. todo'[u] # <<>> /\ todo'[u][1] = todo[u][2]
          BY <1>1, <1>5, <3>0, <3>2, SeqFacts
        <4>2. h.version = None /\ todo[u][2].version # None /\ h.name = todo[u][2].name
          BY <1>1, <1>h, <3>2 DEF Shape
        <4> QED BY <1>3, <1>4, <4>1, <4>2 DEF Fresh
      <3> QED BY <1>1, <3>1, <3>2 DEF Shape
    <2>2. ASSUME NEW w \in Publisher \ {u} PROVE Fresh(w)'
      <3>1. Fresh(w)
        BY DEF Fine
      <3> QED BY <1>3, <1>5, <3>1 DEF Fresh
    <2> QED BY <2>1, <2>2
  <1>9. ASSUME NEW n, n # h.name, NEW v, Tells(n, v) PROVE Tells(n, v)'
    BY <1>3, <1>7, <1>9 DEF Tells
  <1>10. Tells(h.name, h.version)'
    BY <1>3, <1>4, <1>7 DEF Tells
  <1>11. ASSUME NEW s \in Seq(Changes), Blinks(s), queue' = Append(s, h), stream # "none",
                \A i \in DOMAIN s : Latest(s, i) => Tells(s[i].name, s[i].version)
         PROVE  Told'
    <2>1. \A i \in DOMAIN s : Latest(s, i) /\ s[i].name = h.name => (s[i].version = None <=> h.version # None)
      BY <1>4, <1>7, <1>11 DEF Tells
    <2>2. Blinks(queue')
      BY <1>2, <1>11, <2>1, OneMore
    <2>3. ASSUME NEW i \in DOMAIN queue', Latest(queue', i)
          PROVE  Tells(queue[i].name, queue[i].version)'
      <3>1. PICK n, v : n = queue'[i].name /\ v = queue'[i].version
        OBVIOUS
      <3>2. queue'[i] = h \/ (i \in DOMAIN s /\ Latest(s, i) /\ queue'[i] = s[i] /\ s[i].name # h.name)
        BY <1>2, <1>11, <2>3, OneMore DEF Latest
      <3>3. Tells(n, v)'
        <4>1. CASE queue'[i] = h
          BY <1>10, <3>1, <4>1 DEF Tells, Pending
        <4>2. CASE i \in DOMAIN s /\ Latest(s, i) /\ queue'[i] = s[i] /\ s[i].name # h.name
          <5>1. Tells(n, v) /\ n # h.name
            BY <1>11, <3>1, <4>2
          <5> QED BY <1>9, <5>1
        <4> QED BY <3>2, <4>1, <4>2
      <3> QED BY <3>1, <3>3 DEF Tells, Pending
    <2> QED BY <1>3, <1>11, <2>2, <2>3 DEF Told
  <1>12. Told /\ Known /\ Heard /\ queue \in Seq(Changes)
    BY DEF Fine, Channelled
  <1>13. ASSUME NEW s \in Seq(Changes), queue' = Append(s, h), stream # "none",
                \A i \in DOMAIN s : First(s, i) /\ Word(heard'[s[i].name]) =>
                  (heard'[s[i].name] = None <=> s[i].version # None),
                \A n \in Name : Absent(s, n) /\ Word(heard'[n]) => Tells(n, heard'[n])
         PROVE  Heard'
    <2>1. ASSUME NEW i \in DOMAIN queue', First(queue', i), Word(heard'[queue'[i].name])
          PROVE  heard'[queue'[i].name] = None <=> queue'[i].version # None
      <3>1. \/ First(s, i) /\ queue'[i] = s[i]
            \/ queue'[i] = h /\ Absent(s, h.name)
        BY <1>2, <1>13, <2>1, FirstOfMore
      <3>2. CASE First(s, i) /\ queue'[i] = s[i]
        BY <1>13, <2>1, <3>2 DEF First
      <3>3. CASE queue'[i] = h /\ Absent(s, h.name)
        <4>1. Tells(h.name, heard'[h.name])
          BY <1>4, <1>13, <2>1, <3>3
        <4> QED BY <1>4, <1>7, <3>3, <4>1 DEF Tells
      <3> QED BY <3>1, <3>2, <3>3
    <2>2. ASSUME NEW n \in Name, Absent(queue', n), Word(heard'[n])
          PROVE  Tells(n, heard[n])'
      <3>1. Absent(s, n) /\ n # h.name
        BY <1>2, <1>13, <2>2, OneMore
      <3>2. PICK v : v = heard'[n]
        OBVIOUS
      <3>3. Tells(n, v)
        BY <1>13, <2>2, <3>1, <3>2
      <3>4. Tells(n, v)'
        BY <1>9, <3>1, <3>3
      <3> QED BY <3>2, <3>4 DEF Tells, Pending
    <2> QED BY <1>3, <1>13, <2>1, <2>2 DEF Heard, First, Absent, Word
  <1>14. CASE stream = "none"
    <2>1. UNCHANGED <<queue, heard>> /\ queue = <<>> /\ DOMAIN queue = {}
      BY <1>3, <1>12, <1>14 DEF Broadcast, channel, Told
    <2>2. Told'
      BY <1>3, <1>14, <2>1 DEF Told, Blinks
    <2>3. \A n \in Name : heard'[n] = "unheard" /\ ~Word(heard'[n])
      BY <1>12, <1>14, <2>1, MockAssumption DEF Heard, Word
    <2>4. Heard'
      BY <2>1, <2>3 DEF Heard, Word
    <2> QED BY <1>3, <1>8, <1>14, <2>2, <2>4 DEF Fine, Known
  <1>15. CASE stream # "none" /\ Len(queue) < Capacity
    <2>1. queue' = Append(queue, h) /\ heard' = heard
      BY <1>3, <1>15 DEF Broadcast
    <2>2. Told'
      BY <1>11, <1>12, <1>15, <2>1 DEF Told
    <2>3. ASSUME NEW n \in Name, Absent(queue', n) PROVE n # h.name /\ Absent(queue, n)
      BY <1>2, <1>12, <2>1, <2>3, OneMore
    <2>4. Known'
      BY <1>3, <1>7, <1>12, <2>1, <2>3 DEF Known
    <2>5. Heard'
      BY <1>12, <1>13, <1>15, <2>1 DEF Heard
    <2> QED BY <1>8, <2>2, <2>4, <2>5 DEF Fine
  <1>16. CASE stream # "none" /\ ~(Len(queue) < Capacity)
    <2>0. queue # <<>>
      <3>1. Len(queue) # 0
        BY <1>12, <1>16, MockAssumption
      <3> QED BY <3>1, <1>12
    <2>s. PICK s : s = Tail(queue)
      OBVIOUS
    <2>1. queue' = Append(s, h) /\ heard' = [heard EXCEPT ![queue[1].name] = "missed"]
      BY <1>3, <1>12, <1>16, <2>0, <2>s, OneLess DEF Broadcast
    <2>2. /\ s \in Seq(Changes) /\ Blinks(s)
          /\ \A i \in DOMAIN s : Latest(s, i) => Tells(s[i].name, s[i].version)
      <3>1. /\ s \in Seq(Changes) /\ Blinks(s)
            /\ \A i \in DOMAIN s : i + 1 \in DOMAIN queue /\ s[i] = queue[i + 1]
            /\ \A i \in DOMAIN s : Latest(s, i) => Latest(queue, i + 1)
        BY <1>12, <2>0, <2>s, OneLess DEF Told
      <3>2. ASSUME NEW i \in DOMAIN s, Latest(s, i) PROVE Tells(s[i].name, s[i].version)
        <4>1. Tells(queue[i + 1].name, queue[i + 1].version)
          BY <1>12, <3>1, <3>2 DEF Told
        <4> QED BY <3>1, <4>1
      <3> QED BY <3>1, <3>2
    <2>3. Told'
      BY <1>11, <1>16, <2>1, <2>2
    <2>4. /\ queue[1].name \in Name /\ heard'[queue[1].name] = "missed"
          /\ \A n \in Name : n # queue[1].name => heard'[n] = heard[n]
          /\ ~Word("missed")
      <3>1. queue[1] \in Changes
        BY <1>12, <2>0, OneLess
      <3>2. heard \in [Name -> Version \cup {None, "unheard", "missed"}]
        BY DEF Channelled
      <3> QED BY <2>1, <3>1, <3>2, MockAssumption DEF Changes, Word
    <2>5. \A n \in Name : Absent(s, n) /\ n # queue[1].name => Absent(queue, n)
      BY <1>12, <2>0, <2>s, OneLess
    <2>6. Known'
      <3>1. ASSUME NEW n \in Name, heard'[n] # "missed", Absent(queue', n)
            PROVE  n # h.name /\ heard[n] # "missed" /\ Absent(queue, n)
        <4>1. Absent(s, n) /\ n # h.name
          BY <1>2, <2>1, <2>2, <3>1, OneMore
        <4> QED BY <2>4, <2>5, <3>1, <4>1
      <3> QED BY <1>3, <1>7, <1>12, <3>1 DEF Known
    <2>7. ASSUME NEW i \in DOMAIN s, First(s, i), Word(heard'[s[i].name])
          PROVE  heard'[s[i].name] = None <=> s[i].version # None
      <3>1. /\ i + 1 \in DOMAIN queue /\ s[i] = queue[i + 1]
            /\ queue[i + 1].name # queue[1].name => First(queue, i + 1)
        BY <1>12, <2>0, <2>s, <2>7, FirstOfLess
      <3>2. s[i].name \in Name
        <4>1. s \in Seq(Changes) /\ i \in DOMAIN s
          BY <2>2, <2>7
        <4>2. s[i] \in Changes
          BY <4>1
        <4> QED BY <4>2 DEF Changes
      <3>3. s[i].name # queue[1].name
        BY <2>4, <2>7
      <3>4. heard'[s[i].name] = heard[s[i].name]
        BY <2>4, <3>2, <3>3
      <3> QED BY <1>12, <2>7, <3>1, <3>3, <3>4 DEF Heard
    <2>8. ASSUME NEW n \in Name, Absent(s, n), Word(heard'[n]) PROVE Tells(n, heard'[n])
      <3>1. n # queue[1].name
        BY <2>4, <2>8
      <3>2. heard'[n] = heard[n] /\ Absent(queue, n)
        BY <2>4, <2>5, <2>8, <3>1
      <3> QED BY <1>12, <2>8, <3>2 DEF Heard
    <2>9. Heard'
      BY <1>13, <1>16, <2>1, <2>2, <2>7, <2>8
    <2> QED BY <1>8, <2>3, <2>6, <2>9 DEF Fine
  <1> QED BY <1>14, <1>15, <1>16

(* The reader takes an event, or finds that it has lagged. *)
LEMMA ReceiveFine ==
  ASSUME Channelled, Fine, Receive
  PROVE  Fine'
  <1>1. /\ queue \in Seq(Changes) /\ queue # <<>> /\ queue' = Tail(queue)
        /\ view \in [Name -> Version \cup {None}]
        /\ view' = [view EXCEPT ![queue[1].name] = queue[1].version]
        /\ stream \notin {"none", "opened"} /\ stream' \notin {"none", "opened"}
        /\ heard \in [Name -> Version \cup {None, "unheard", "missed"}]
        /\ heard' = [heard EXCEPT ![queue[1].name] = queue[1].version]
        /\ UNCHANGED <<services, current, todo, written>>
    BY OneLess DEF Receive, Channelled, backend
  <1>2. /\ queue[1] \in Changes /\ 1 \in DOMAIN queue /\ queue' \in Seq(Changes)
        /\ \A i \in DOMAIN queue' : i + 1 \in DOMAIN queue /\ queue'[i] = queue[i + 1]
        /\ \A i \in DOMAIN queue' : Latest(queue', i) => Latest(queue, i + 1)
        /\ \A n : Absent(queue', n) /\ queue[1].name # n => Absent(queue, n)
        /\ Absent(queue', queue[1].name) => Latest(queue, 1)
        /\ Blinks(queue) => Blinks(queue')
    BY <1>1, OneLess
  <1>3. \A n : Pending(n)' <=> Pending(n)
    BY <1>1 DEF Pending
  <1>4. \A u \in Publisher : Fresh(u)'
    BY <1>1 DEF Fine, Fresh
  <1>5. Told'
    <2>1. ASSUME NEW i \in DOMAIN queue', Latest(queue', i)
          PROVE  Tells(queue[i].name, queue[i].version)'
      <3>1. PICK n, v : n = queue'[i].name /\ v = queue'[i].version
        OBVIOUS
      <3>2. Tells(n, v)
        BY <1>2, <2>1, <3>1 DEF Fine, Told
      <3>3. Tells(n, v)'
        BY <1>1, <1>3, <3>2 DEF Tells
      <3> QED BY <3>1, <3>3 DEF Tells, Pending
    <2> QED BY <1>1, <1>2, <2>1 DEF Fine, Told
  <1>6. Known'
    <2> SUFFICES ASSUME NEW n \in Name, heard'[n] # "missed", Absent(queue', n), ~Pending(n)
                 PROVE  view'[n] = services[n]
      BY <1>1, <1>3 DEF Known
    <2>1. CASE queue[1].name = n
      <3>1. view'[n] = queue[1].version
        BY <1>1, <2>1
      <3>2. Tells(n, queue[1].version)
        BY <1>2, <2>1 DEF Fine, Told
      <3> QED BY <3>1, <3>2 DEF Tells
    <2>2. CASE queue[1].name # n
      <3>1. view'[n] = view[n] /\ heard'[n] = heard[n]
        BY <1>1, <1>2, <2>2 DEF Changes
      <3> QED BY <1>1, <1>2, <2>2, <3>1 DEF Fine, Known
    <2> QED BY <2>1, <2>2
  <1>7. /\ queue[1].name \in Name /\ heard'[queue[1].name] = queue[1].version
        /\ \A n \in Name : n # queue[1].name => heard'[n] = heard[n]
    BY <1>1, <1>2 DEF Changes
  <1>8. Heard'
    <2>1. ASSUME NEW i \in DOMAIN queue', First(queue', i), Word(heard'[queue'[i].name])
          PROVE  heard'[queue'[i].name] = None <=> queue'[i].version # None
      <3>1. /\ i + 1 \in DOMAIN queue /\ queue'[i] = queue[i + 1]
            /\ queue[i + 1].name # queue[1].name => First(queue, i + 1)
            /\ queue[i + 1].name = queue[1].name /\ Blinks(queue) =>
                 (queue[1].version = None <=> queue[i + 1].version # None)
        BY <1>1, <2>1, FirstOfLess
      <3>2. CASE queue[i + 1].name = queue[1].name
        BY <1>7, <3>1, <3>2 DEF Fine, Told
      <3>3. CASE queue[i + 1].name # queue[1].name
        <4>1. queue'[i] \in Changes
          BY <1>2, <2>1
        <4>2. heard'[queue'[i].name] = heard[queue[i + 1].name]
          BY <1>7, <3>1, <3>3, <4>1 DEF Changes
        <4> QED BY <2>1, <3>1, <3>3, <4>2 DEF Fine, Heard
      <3> QED BY <3>2, <3>3
    <2>2. ASSUME NEW n \in Name, Absent(queue', n), Word(heard'[n]) PROVE Tells(n, heard[n])'
      <3>1. PICK v : v = heard'[n]
        OBVIOUS
      <3>2. Tells(n, v)
        <4>1. CASE n = queue[1].name
          BY <1>2, <1>7, <2>2, <3>1, <4>1 DEF Fine, Told
        <4>2. CASE n # queue[1].name
          BY <1>2, <1>7, <2>2, <3>1, <4>2 DEF Fine, Heard
        <4> QED BY <4>1, <4>2
      <3>3. Tells(n, v)'
        BY <1>1, <1>3, <3>2 DEF Tells
      <3> QED BY <3>1, <3>3 DEF Tells, Pending
    <2> QED BY <1>1, <2>1, <2>2 DEF Heard, First, Absent, Word
  <1> QED BY <1>4, <1>5, <1>6, <1>8 DEF Fine

(* The other steps, the snapshot among them, which settles what the reader *)
(* knows.                                                                  *)
LEMMA StreamFine ==
  ASSUME Fine,
         \/ StartBrowsing \/ StopBrowsing \/ EventStream \/ DiscoveredServices \/ DropStream
         \/ CheckBrowsing \/ ReceiveLagged \/ UNCHANGED vars
  PROVE  Fine'
  <1>1. UNCHANGED <<services, current, todo, written>>
    BY DEF StartBrowsing, StopBrowsing, EventStream, DiscoveredServices, DropStream, CheckBrowsing,
           ReceiveLagged, vars, backend
  <1>2. \A n : Pending(n)' <=> Pending(n)
    BY <1>1 DEF Pending
  <1>3. \A u \in Publisher : Fresh(u)'
    BY <1>1 DEF Fine, Fresh
  <1>4. CASE EventStream \/ DiscoveredServices
    <2>0. UNCHANGED <<queue, heard>> /\ stream' # "none"
      BY <1>4 DEF EventStream, DiscoveredServices, channel
    <2>1. Told'
      BY <1>1, <1>2, <2>0 DEF Fine, Told, Tells
    <2>2. Known'
      BY <1>1, <1>4, <2>0 DEF EventStream, DiscoveredServices, Fine, Known
    <2>3. Heard'
      BY <1>1, <1>2, <2>0 DEF Fine, Heard, Tells
    <2> QED BY <1>3, <2>1, <2>2, <2>3 DEF Fine
  <1>5. CASE StartBrowsing \/ StopBrowsing \/ CheckBrowsing \/ ReceiveLagged \/ UNCHANGED vars
    <2>1. /\ UNCHANGED <<queue, heard>> /\ view' = view
          /\ stream' = stream \/ (stream \notin {"none", "opened"} /\ stream' \notin {"none", "opened"})
      BY <1>5 DEF StartBrowsing, StopBrowsing, CheckBrowsing, ReceiveLagged, vars, reader, channel
    <2> QED BY <1>1, <1>2, <1>3, <2>1, SameTold DEF Fine
  <1>6. CASE DropStream
    <2>1. stream' = "none" /\ queue' = <<>> /\ DOMAIN queue' = {}
      BY <1>6 DEF DropStream
    <2>2. \A n \in Name : heard'[n] = "unheard" /\ ~Word(heard'[n])
      BY <1>6, MockAssumption DEF DropStream, Word
    <2>3. Told' /\ Known'
      BY <2>1 DEF Told, Known, Blinks
    <2>4. Heard'
      BY <2>1, <2>2 DEF Heard, Word
    <2> QED BY <1>3, <2>3, <2>4 DEF Fine
  <1> QED BY <1>4, <1>5, <1>6

(* Every step keeps what the reader is told. *)
LEMMA NextFine == IInv /\ Channelled /\ (careful => Fine) /\ [Next]_vars => (careful => Fine)'
  <1> SUFFICES ASSUME IInv, Channelled, careful => Fine, [Next]_vars, careful' PROVE Fine'
    OBVIOUS
  <1>1. CASE \E u \in Publisher :
               \/ \E n \in Name, v \in Version : Publish(u, n, v)
               \/ Unpublish(u)
               \/ \E v \in Version : UpdateTxtRecords(u, v)
               \/ WriteServices(u) \/ SendEvent(u) \/ Abandon(u)
    <2>1. careful
      BY <1>1 DEF Publish, Unpublish, UpdateTxtRecords, Call, WriteServices, SendEvent, Abandon
    <2> QED BY <1>1, <2>1, PublishFine, UnpublishFine, UpdateFine, WriteFine, SendFine, AbandonFine
  <1>2. CASE Clear
    BY <1>2 DEF Clear
  <1>3. CASE \/ StartBrowsing \/ StopBrowsing \/ EventStream \/ DiscoveredServices \/ DropStream
             \/ CheckBrowsing \/ Receive \/ ReceiveLagged \/ UNCHANGED vars
    <2>1. careful
      BY <1>3 DEF StartBrowsing, StopBrowsing, EventStream, DiscoveredServices, DropStream, CheckBrowsing,
                  Receive, ReceiveLagged, vars
    <2> QED BY <1>3, <2>1, ReceiveFine, StreamFine
  <1> QED BY <1>1, <1>2, <1>3 DEF Next

(* Initially nothing is there to be known. *)
LEMMA InitFine == Init => Fine
  <1> SUFFICES ASSUME Init PROVE Fine
    OBVIOUS
  <1>1. \A u \in Publisher : Fresh(u)
    BY DEF Init, Fresh
  <1>2. Told /\ Known
    BY DEF Init, Told, Blinks, Known
  <1>3. Heard
    <2>1. \A n \in Name : heard[n] = "unheard" /\ ~Word(heard[n])
      BY MockAssumption DEF Init, Word
    <2> QED BY <2>1 DEF Init, Heard
  <1> QED BY <1>1, <1>2, <1>3 DEF Fine

(* The invariants hold together: a call that is dropped leaves the map and *)
(* current_service in agreement because its write was to be a fresh one.   *)
LEMMA Invariance == Spec => [](IInv /\ Channelled /\ (careful => Fine))
  <1>1. Init => Channelled
    BY MockAssumption, EmptySeq DEF Init, Channelled
  <1>2. Init => (careful => Fine)
    BY InitFine
  <1>3. (careful => Fine) => (careful => \A u \in Publisher : Fresh(u))
    BY DEF Fine
  <1> QED BY <1>1, <1>2, <1>3, InitIInv, NextIInv, ChannelledStep, NextFine, PTL DEF Spec

(* The variables keep their types, and the channel its capacity, also with *)
(* publishers that are not careful.                                        *)
THEOREM TypeCorrect == Spec => []TypeOK
  <1>1. IInv /\ Channelled => TypeOK
    BY DEF IInv, Typed, Channelled, TypeOK, Service
  <1> QED BY <1>1, Invariance, PTL

(* Publishers that keep apart leave no service in the map that none of     *)
(* them can take out again, at whatever points their calls interleave and  *)
(* are dropped.                                                            *)
THEOREM NoOrphans == Spec => []EveryServiceIsOwned
  <1>1. IInv => EveryServiceIsOwned
    BY DEF IInv, Kept, Owned, EveryServiceIsOwned
  <1> QED BY <1>1, Invariance, PTL

(* What the channel holds for the reader, and what its publishers still    *)
(* have to say, agree with the map and with what the reader has heard.     *)
THEOREM ChannelAgrees == Spec => [](careful => Fine)
  <1> QED BY Invariance, PTL

(* Numbers: a set of them has a smallest, and one of indices a greatest.   *)
LEMMA Smallest ==
  ASSUME NEW T \in SUBSET Nat, T # {}
  PROVE  \E x \in T : \A y \in T : x <= y
  <1> DEFINE R == {ss \in Nat \X Nat : ss[1] < ss[2]}
  <1>1. R = OpToRel(<, Nat)
    BY DEF OpToRel
  <1>2. IsWellFoundedOn(R, Nat)
    BY <1>1, NatLessThanWellFounded
  <1> HIDE DEF R
  <1>3. PICK x \in T : \A y \in T : ~ (<<y, x>> \in R)
    BY <1>2, WFMin
  <1>4. ASSUME NEW y \in T PROVE x <= y
    <2>1. x \in Nat /\ y \in Nat
      OBVIOUS
    <2>2. y < x => <<y, x>> \in R
      BY <2>1 DEF R
    <2> QED BY <1>3, <2>1, <2>2
  <1> QED BY <1>4

LEMMA GreatestIndex ==
  ASSUME NEW n \in Nat, NEW S \in SUBSET (1 .. n), S # {}
  PROVE  Max(S) \in S /\ \A y \in S : y <= Max(S)
  <1> DEFINE T == {n - y : y \in S}
  <1>1. T \in SUBSET Nat /\ T # {}
    <2>1. \A y \in S : n - y \in Nat
      OBVIOUS
    <2> QED BY <2>1
  <1>2. PICK d \in T : \A e \in T : d <= e
    BY <1>1, Smallest
  <1>3. PICK x \in S : d = n - x
    OBVIOUS
  <1>4. \A y \in S : x >= y
    <2> TAKE y \in S
    <2>1. n - y \in T
      OBVIOUS
    <2>2. n - x <= n - y
      BY <1>2, <1>3, <2>1
    <2> QED BY <2>2
  <1>5. Max(S) \in S /\ \A y \in S : Max(S) >= y
    BY <1>4 DEF Max
  <1>6. \A y \in S : y \in Int /\ Max(S) \in Int
    BY <1>5
  <1> QED BY <1>5, <1>6

(* A reader who subscribes before it takes its snapshot loses nothing, how *)
(* ever slowly it reads and however the publishers' calls interleave.      *)
THEOREM NothingLost == Spec => []ViewFollowsServices
  <1>1. ASSUME IInv, Channelled, careful => Fine PROVE ViewFollowsServices
    <2> SUFFICES ASSUME Following, NEW n \in Name \ Gone, ~Pending(n)
                 PROVE  services[n] = IF Events(n) = {} THEN view[n] ELSE queue[Max(Events(n))].version
      <3>1. ASSUME NEW u \in Publisher, written[u] PROVE Head(todo[u]) = todo[u][1]
        BY <1>1, <3>1 DEF IInv, Kept, InMap, Typed
      <3> QED BY <3>1 DEF ViewFollowsServices, Pending
    <2>1. Told /\ Known /\ queue \in Seq(Changes) /\ stream \notin {"none", "opened"}
      BY <1>1 DEF Fine, Following, Channelled
    <2>2. CASE Events(n) = {}
      <3>1. Absent(queue, n)
        BY <2>2 DEF Events, Absent
      <3>2. heard[n] # "missed"
        BY <2>2 DEF Gone
      <3> QED BY <2>1, <2>2, <3>1, <3>2 DEF Known
    <2>3. CASE Events(n) # {}
      <3>1. Len(queue) \in Nat /\ DOMAIN queue = 1 .. Len(queue) /\ Events(n) \in SUBSET (1 .. Len(queue))
        BY <2>1 DEF Events
      <3>2. PICK i : i = Max(Events(n))
        OBVIOUS
      <3>3. i \in Events(n) /\ \A j \in Events(n) : j <= i
        BY <2>3, <3>1, <3>2, GreatestIndex
      <3>4. i \in DOMAIN queue /\ queue[i].name = n
        BY <3>3 DEF Events
      <3>5. Latest(queue, i)
        BY <3>1, <3>3, <3>4 DEF Latest, Events
      <3>6. Tells(n, queue[i].version)
        BY <2>1, <3>4, <3>5 DEF Told
      <3> QED BY <2>3, <3>2, <3>6 DEF Tells
    <2> QED BY <2>2, <2>3
  <1> QED BY <1>1, Invariance, PTL

(* A change of the records is told as a removal and a new service, also in *)
(* a channel that loses its oldest events, if it has not lost these.       *)
THEOREM EveryChangeBlinks == Spec => []ChangesBlink
  <1>1. ASSUME Channelled, careful => Fine PROVE ChangesBlink
    <2> SUFFICES ASSUME careful, queue # <<>>, Word(heard[Head(queue).name])
                 PROVE  heard[Head(queue).name] = None <=> Head(queue).version # None
      BY DEF ChangesBlink, Word
    <2>1. queue \in Seq(Changes) /\ Heard
      BY <1>1 DEF Fine, Channelled
    <2>2. 1 \in DOMAIN queue /\ Head(queue) = queue[1] /\ DOMAIN queue \subseteq Nat \ {0}
      BY <2>1
    <2>3. First(queue, 1)
      BY <2>2 DEF First
    <2> QED BY <2>1, <2>2, <2>3 DEF Heard
  <1> QED BY <1>1, Invariance, PTL
=============================================================================
