---------------------------- MODULE ContentProofs ----------------------------
(***************************************************************************)
(* What the decoders of MessageCodec make of a message, proved: a message  *)
(* that is accepted means what was sent and is within the limits, and one  *)
(* that is complete and well-formed is not refused.                        *)
(*                                                                         *)
(* CodecProofs shows where the decoder is in the frame of a message; here  *)
(* is what it holds there.  First what the tables of fields have in common *)
(* and what the recursive functions of the model compute, as facts about   *)
(* any type t, message m and stream w; then what a decoder that has read p *)
(* units of w holds (Contents) and what follows from it at the end; last,  *)
(* that every step of senders and decoder keeps the inductive invariant.   *)
(***************************************************************************)
EXTENDS CodecProofs, FiniteSetTheorems, WellFoundedInduction

-----------------------------------------------------------------------------
(* The tables of fields *)

MayMiss(f) == f.treat \in {"optional", "sparse"}

(* A kind that a field may have: what the sizes of an array or a map can be *)
(* and what the largest of them is.                                         *)
GoodKind(kind) ==
  Composite(kind) =>
    /\ kind.sizes \subseteq Nat /\ Most(kind.sizes) \in Nat
    /\ kind.is = "array" => 0 \in kind.sizes

GoodField(f) ==
  /\ f.is = "field" /\ GoodKind(f.kind)
  /\ f.treat \in {"required", "optional", "collected", "sparse"}
  /\ IsCollected(f) => f.kind.is = "array"

(* What the proofs need to know of a table: its fields are numbered, no two *)
(* have one name, at most one may be left out, and the decoder takes maps   *)
(* with all of them and maps without that one.                              *)
Tabled(fields, counts) ==
  /\ \A i \in DOMAIN fields : GoodField(fields[i]) /\ fields[i].key = i - 1
  /\ \A i, j \in DOMAIN fields : fields[i].name = fields[j].name => i = j
  /\ \A i, j \in DOMAIN fields : MayMiss(fields[i]) /\ MayMiss(fields[j]) => i = j
  /\ Len(fields) \in counts
  /\ (\E i \in DOMAIN fields : MayMiss(fields[i])) => Len(fields) - 1 \in counts
  /\ (\A i \in DOMAIN fields : fields[i].treat = "required") => counts = {Len(fields)}

(* The kinds that the tables are made of.                                   *)
LEMMA KindsAreGood ==
  /\ GoodKind(U64) /\ GoodKind(U32) /\ GoodKind(U16) /\ GoodKind(HttpHeader)
  /\ \A S : GoodKind(OneOf(S))
  /\ \A max : GoodKind(Str(max)) /\ GoodKind(Bytes(max))
  /\ \A leaf : \A cap \in Nat : GoodKind(Array(leaf, cap)) /\ Array(leaf, cap).is = "array"
  /\ \A leaf : GoodKind(Nested(leaf, {1})) /\ GoodKind(Nested(leaf, {0, 1}))
  <1>1. /\ GoodKind(U64) /\ GoodKind(U32) /\ GoodKind(U16) /\ GoodKind(HttpHeader)
        /\ \A S : GoodKind(OneOf(S))
        /\ \A max : GoodKind(Str(max)) /\ GoodKind(Bytes(max))
    BY DEF GoodKind, Composite, U64, U32, U16, HttpHeader, OneOf, Str, Bytes
  <1>2. ASSUME NEW leaf, NEW cap \in Nat
        PROVE  GoodKind(Array(leaf, cap)) /\ Array(leaf, cap).is = "array"
    <2>1. Most(0..cap) = cap
      <3>1. cap \in 0..cap /\ \A k \in 0..cap : k <= cap
        OBVIOUS
      <3>2. Most(0..cap) \in 0..cap /\ \A k \in 0..cap : k <= Most(0..cap)
        BY <3>1 DEF Most
      <3> QED BY <3>1, <3>2
    <2> QED BY <2>1 DEF GoodKind, Composite, Array
  <1>3. ASSUME NEW leaf PROVE GoodKind(Nested(leaf, {1})) /\ GoodKind(Nested(leaf, {0, 1}))
    <2>1. Most({1}) = 1
      BY DEF Most
    <2>2. Most({0, 1}) = 1
      <3>1. 1 \in {0, 1} /\ \A k \in {0, 1} : k <= 1
        OBVIOUS
      <3>2. Most({0, 1}) \in {0, 1} /\ \A k \in {0, 1} : k <= Most({0, 1})
        BY <3>1 DEF Most
      <3> QED BY <3>1, <3>2
    <2> QED BY <2>1, <2>2 DEF GoodKind, Composite, Nested
  <1> QED BY <1>1, <1>2, <1>3

(* A field of any treatment is good if its kind is.                         *)
LEMMA FieldsAreGood ==
  ASSUME NEW key, NEW name, NEW kind, GoodKind(kind)
  PROVE  /\ GoodField(Required(key, name, kind)) /\ GoodField(Optional(key, name, kind))
         /\ Required(key, name, kind).treat = "required" /\ Optional(key, name, kind).treat = "optional"
         /\ Collected(key, name, kind).treat = "collected" /\ Sparse(key, name, kind).treat = "sparse"
         /\ \A f \in {Required(key, name, kind), Optional(key, name, kind),
                      Collected(key, name, kind), Sparse(key, name, kind)} :
              f.key = key /\ f.name = name
         /\ kind.is = "array" =>
              GoodField(Collected(key, name, kind)) /\ GoodField(Sparse(key, name, kind))
  BY DEF GoodField, Required, Optional, Collected, Sparse, Field, IsCollected

(* Tables of one to five fields. *)
LEMMA TableOf1 ==
  ASSUME NEW a, NEW counts, GoodField(a), a.key = 0, a.treat = "required", counts = {1}
  PROVE  Tabled(<<a>>, counts)
  BY DEF Tabled, MayMiss

LEMMA TableOf2 ==
  ASSUME NEW a, NEW b, NEW counts, GoodField(a), GoodField(b), a.key = 0, b.key = 1,
         a.name # b.name, a.treat = "required",
         2 \in counts, MayMiss(b) => 1 \in counts, b.treat = "required" => counts = {2}
  PROVE  Tabled(<<a, b>>, counts)
  BY DEF Tabled, MayMiss

LEMMA TableOf3 ==
  ASSUME NEW a, NEW b, NEW c, NEW counts, GoodField(a), GoodField(b), GoodField(c),
         a.key = 0, b.key = 1, c.key = 2, a.name # b.name, a.name # c.name, b.name # c.name,
         a.treat = "required", c.treat = "required",
         3 \in counts, MayMiss(b) => 2 \in counts, b.treat = "required" => counts = {3}
  PROVE  Tabled(<<a, b, c>>, counts)
  BY DEF Tabled, MayMiss

LEMMA TableOf4 ==
  ASSUME NEW a, NEW b, NEW c, NEW d, NEW counts,
         GoodField(a), GoodField(b), GoodField(c), GoodField(d),
         a.key = 0, b.key = 1, c.key = 2, d.key = 3,
         a.name # b.name, a.name # c.name, a.name # d.name, b.name # c.name, b.name # d.name, c.name # d.name,
         a.treat = "required", b.treat = "required", ~(MayMiss(c) /\ MayMiss(d)),
         4 \in counts, MayMiss(c) \/ MayMiss(d) => 3 \in counts,
         c.treat = "required" /\ d.treat = "required" => counts = {4}
  PROVE  Tabled(<<a, b, c, d>>, counts)
  <1> DEFINE s == <<a, b, c, d>>
  <1>1. DOMAIN s = 1..4 /\ Len(s) = 4 /\ s[1] = a /\ s[2] = b /\ s[3] = c /\ s[4] = d
    OBVIOUS
  <1> HIDE DEF s
  <1>2. \A i \in 1..4 : i = 1 \/ i = 2 \/ i = 3 \/ i = 4
    OBVIOUS
  <1>3. \A i \in DOMAIN s : GoodField(s[i]) /\ s[i].key = i - 1
    BY <1>1, <1>2
  <1>4. \A i, j \in DOMAIN s : s[i].name = s[j].name => i = j
    BY <1>1, <1>2
  <1>5. \A i, j \in DOMAIN s : MayMiss(s[i]) /\ MayMiss(s[j]) => i = j
    BY <1>1, <1>2 DEF MayMiss
  <1>6. (\E i \in DOMAIN s : MayMiss(s[i])) => Len(s) - 1 \in counts
    BY <1>1, <1>2 DEF MayMiss
  <1>7. (\A i \in DOMAIN s : s[i].treat = "required") => counts = {Len(s)}
    BY <1>1, <1>2
  <1> QED BY <1>1, <1>3, <1>4, <1>5, <1>6, <1>7 DEF Tabled, s

LEMMA TableOf5 ==
  ASSUME NEW a, NEW b, NEW c, NEW d, NEW e, NEW counts,
         GoodField(a), GoodField(b), GoodField(c), GoodField(d), GoodField(e),
         a.key = 0, b.key = 1, c.key = 2, d.key = 3, e.key = 4,
         a.name # b.name, a.name # c.name, a.name # d.name, a.name # e.name, b.name # c.name,
         b.name # d.name, b.name # e.name, c.name # d.name, c.name # e.name, d.name # e.name,
         \A f \in {a, b, c, d, e} : ~MayMiss(f), c.treat # "required", 5 \in counts
  PROVE  Tabled(<<a, b, c, d, e>>, counts)
  <1> DEFINE s == <<a, b, c, d, e>>
  <1>1. DOMAIN s = 1..5 /\ Len(s) = 5 /\ s[1] = a /\ s[2] = b /\ s[3] = c /\ s[4] = d /\ s[5] = e
    OBVIOUS
  <1> HIDE DEF s
  <1>2. \A i \in 1..5 : i = 1 \/ i = 2 \/ i = 3 \/ i = 4 \/ i = 5
    OBVIOUS
  <1>3. \A i \in DOMAIN s : GoodField(s[i]) /\ s[i].key = i - 1
    BY <1>1, <1>2
  <1>4. \A i, j \in DOMAIN s : s[i].name = s[j].name => i = j
    BY <1>1, <1>2
  <1>5. \A i \in DOMAIN s : ~MayMiss(s[i])
    BY <1>1, <1>2
  <1>6. ~(\A i \in DOMAIN s : s[i].treat = "required")
    BY <1>1
  <1> QED BY <1>1, <1>3, <1>4, <1>5, <1>6 DEF Tabled, s


(* Every type of message has such a table. *)
LEMMA Tables ==
  ASSUME NEW t \in MessageType
  PROVE  Tabled(Schema[t].fields, Schema[t].counts)
<1> USE KindsAreGood, FieldsAreGood
<1>a. Tabled(AgentInfo, {5})
  BY TableOf5 DEF AgentInfo, MayMiss
<1>b. Tabled(StatusFields, AnyCount)
  <2>1. {1, 2} \subseteq AnyCount
    <3>1. LargestNumber \in Nat /\ LargestNumber >= 2
      BY DEF LargestNumber
    <3> QED BY <3>1 DEF AnyCount
  <2> QED BY <2>1, TableOf2 DEF StatusFields, MayMiss
<1>1. Tabled(AgentInfoRequest.fields, AgentInfoRequest.counts)
  BY TableOf1 DEF AgentInfoRequest, Body, MayMiss
<1>2. Tabled(AgentInfoResponse.fields, AgentInfoResponse.counts)
  BY <1>a DEF AgentInfoResponse, Within
<1>3. Tabled(AgentStatusRequest.fields, AgentStatusRequest.counts)
  BY <1>b DEF AgentStatusRequest, Body
<1>4. Tabled(AgentStatusResponse.fields, AgentStatusResponse.counts)
  BY <1>b DEF AgentStatusResponse, Body
<1>5. Tabled(AgentInfoEvent.fields, AgentInfoEvent.counts)
  BY <1>a DEF AgentInfoEvent, Within
<1>6. Tabled(PresentationUrlAvailabilityRequest.fields, PresentationUrlAvailabilityRequest.counts)
  BY TableOf4 DEF PresentationUrlAvailabilityRequest, Body, MayMiss, MAX_URLS
<1>7. Tabled(PresentationUrlAvailabilityResponse.fields, PresentationUrlAvailabilityResponse.counts)
  BY TableOf2 DEF PresentationUrlAvailabilityResponse, Body, MayMiss, MAX_URLS
<1>8. Tabled(PresentationUrlAvailabilityEvent.fields, PresentationUrlAvailabilityEvent.counts)
  BY TableOf2 DEF PresentationUrlAvailabilityEvent, Body, MayMiss, MAX_URLS
<1>9. Tabled(PresentationStartRequest.fields, PresentationStartRequest.counts)
  BY TableOf4 DEF PresentationStartRequest, Body, MayMiss
<1>10. Tabled(PresentationStartResponse.fields, PresentationStartResponse.counts)
  BY TableOf4 DEF PresentationStartResponse, Body, MayMiss
<1>11. Tabled(PresentationTerminationRequest.fields, PresentationTerminationRequest.counts)
  BY TableOf3 DEF PresentationTerminationRequest, Body, MayMiss
<1>12. Tabled(PresentationTerminationResponse.fields, PresentationTerminationResponse.counts)
  BY TableOf2 DEF PresentationTerminationResponse, Body, MayMiss
<1>13. Tabled(PresentationTerminationEvent.fields, PresentationTerminationEvent.counts)
  BY TableOf3 DEF PresentationTerminationEvent, Body, MayMiss
<1>14. Tabled(PresentationConnectionOpenRequest.fields, PresentationConnectionOpenRequest.counts)
  BY TableOf3 DEF PresentationConnectionOpenRequest, Body, MayMiss
<1>15. Tabled(PresentationConnectionOpenResponse.fields, PresentationConnectionOpenResponse.counts)
  BY TableOf4 DEF PresentationConnectionOpenResponse, Body, MayMiss
<1>16. Tabled(PresentationConnectionCloseEvent.fields, PresentationConnectionCloseEvent.counts)
  BY TableOf4 DEF PresentationConnectionCloseEvent, Body, MayMiss
<1>17. Tabled(PresentationConnectionMessage.fields, PresentationConnectionMessage.counts)
  BY TableOf2 DEF PresentationConnectionMessage, Body, MayMiss
<1>18. Tabled(PresentationChangeEvent.fields, PresentationChangeEvent.counts)
  BY TableOf2 DEF PresentationChangeEvent, Body, MayMiss
<1>19. Tabled(AuthCapabilities.fields, AuthCapabilities.counts)
  BY TableOf3 DEF AuthCapabilities, Body, MayMiss
<1>20. Tabled(AuthSpake2Handshake.fields, AuthSpake2Handshake.counts)
  BY TableOf3 DEF AuthSpake2Handshake, Body, MayMiss
<1>21. Tabled(AuthSpake2Confirmation.fields, AuthSpake2Confirmation.counts)
  BY TableOf1 DEF AuthSpake2Confirmation, Body, MayMiss
<1>22. Tabled(AuthStatus.fields, AuthStatus.counts)
  BY TableOf1 DEF AuthStatus, Body, MayMiss
<1> QED
  BY TypesOf, <1>1, <1>2, <1>3, <1>4, <1>5, <1>6, <1>7, <1>8, <1>9, <1>10, <1>11, <1>12, <1>13, <1>14, <1>15, <1>16, <1>17, <1>18, <1>19, <1>20, <1>21, <1>22
    DEF MessageType, ApplicationMessage, NetworkMessage

(* Before the body there is at most one field, the request id of an         *)
(* agent-info-response, whose name no field of the body has.                *)
LEMMA Leads ==
  ASSUME NEW t \in MessageType
  PROVE  /\ \A i \in DOMAIN Schema[t].lead :
              Schema[t].lead[i].is = "field" =>
                t = "AgentInfoResponse" /\ i = 2 /\ Schema[t].lead[i] = Required(0, "request_id", U64)
         /\ t = "AgentInfoResponse" => \A f \in ToSet(Schema[t].fields) : f.name # "request_id"
<1>1. CASE t = "AgentInfoResponse"
  <2>1. Schema[t] = AgentInfoResponse
    BY <1>1, TypesOf DEF ApplicationMessage
  <2>2. Schema[t].lead = << MapOf(2), Required(0, "request_id", U64), KeyOf(1) >> /\ Schema[t].fields = AgentInfo
    BY <2>1 DEF AgentInfoResponse, Within
  <2>3. \A i \in DOMAIN Schema[t].lead : i \in {1, 2, 3}
    BY <2>2
  <2>4. MapOf(2).is # "field" /\ KeyOf(1).is # "field"
    BY DEF MapOf, KeyOf
  <2>5. \A f \in ToSet(AgentInfo) : f.name # "request_id"
    BY DEF AgentInfo, ToSet, Required, Collected, Field
  <2> QED BY <1>1, <2>2, <2>3, <2>4, <2>5
<1>2. CASE t = "AgentInfoEvent"
  <2>1. Schema[t] = AgentInfoEvent
    BY <1>2, TypesOf DEF ApplicationMessage
  <2>2. Schema[t].lead = << MapOf(1), KeyOf(0) >>
    BY <2>1 DEF AgentInfoEvent, Within
  <2>3. \A i \in DOMAIN Schema[t].lead : i \in {1, 2}
    BY <2>2
  <2>4. MapOf(1).is # "field" /\ KeyOf(0).is # "field"
    BY DEF MapOf, KeyOf
  <2> QED BY <1>2, <2>2, <2>3, <2>4
<1>3. CASE t \notin {"AgentInfoResponse", "AgentInfoEvent"}
  <2>1. Schema[t].lead = <<>>
    <3> USE DEF Body
    <3>1. AgentInfoRequest.lead = <<>>
      BY DEF AgentInfoRequest
    <3>2. AgentStatusRequest.lead = <<>>
      BY DEF AgentStatusRequest
    <3>3. AgentStatusResponse.lead = <<>>
      BY DEF AgentStatusResponse
    <3>4. PresentationUrlAvailabilityRequest.lead = <<>>
      BY DEF PresentationUrlAvailabilityRequest
    <3>5. PresentationUrlAvailabilityResponse.lead = <<>>
      BY DEF PresentationUrlAvailabilityResponse
    <3>6. PresentationUrlAvailabilityEvent.lead = <<>>
      BY DEF PresentationUrlAvailabilityEvent
    <3>7. PresentationStartRequest.lead = <<>>
      BY DEF PresentationStartRequest
    <3>8. PresentationStartResponse.lead = <<>>
      BY DEF PresentationStartResponse
    <3>9. PresentationTerminationRequest.lead = <<>>
      BY DEF PresentationTerminationRequest
    <3>10. PresentationTerminationResponse.lead = <<>>
      BY DEF PresentationTerminationResponse
    <3>11. PresentationTerminationEvent.lead = <<>>
      BY DEF PresentationTerminationEvent
    <3>12. PresentationConnectionOpenRequest.lead = <<>>
      BY DEF PresentationConnectionOpenRequest
    <3>13. PresentationConnectionOpenResponse.lead = <<>>
      BY DEF PresentationConnectionOpenResponse
    <3>14. PresentationConnectionCloseEvent.lead = <<>>
      BY DEF PresentationConnectionCloseEvent
    <3>15. PresentationConnectionMessage.lead = <<>>
      BY DEF PresentationConnectionMessage
    <3>16. PresentationChangeEvent.lead = <<>>
      BY DEF PresentationChangeEvent
    <3>17. AuthCapabilities.lead = <<>>
      BY DEF AuthCapabilities
    <3>18. AuthSpake2Handshake.lead = <<>>
      BY DEF AuthSpake2Handshake
    <3>19. AuthSpake2Confirmation.lead = <<>>
      BY DEF AuthSpake2Confirmation
    <3>20. AuthStatus.lead = <<>>
      BY DEF AuthStatus
    <3> QED
      BY <1>3, TypesOf, <3>1, <3>2, <3>3, <3>4, <3>5, <3>6, <3>7, <3>8, <3>9, <3>10, <3>11, <3>12, <3>13, <3>14, <3>15, <3>16, <3>17, <3>18, <3>19, <3>20
        DEF MessageType, ApplicationMessage, NetworkMessage
  <2> QED BY <1>3, <2>1
<1> QED BY <1>1, <1>2, <1>3

-----------------------------------------------------------------------------
(* Numbers and recursive functions *)

(* A set of numbers has a smallest one. *)
LEMMA Smallest ==
  ASSUME NEW T \in SUBSET Nat, T # {}
  PROVE  \E x \in T : \A y \in T : x <= y
  <1> DEFINE R == {ss \in Nat \X Nat : ss[1] < ss[2]}
  <1>1. R = OpToRel(<, Nat)
    BY DEF OpToRel
  <1>2. IsWellFoundedOn(R, Nat)
    BY <1>1, NatLessThanWellFounded
  <1> HIDE DEF R
  <1>3. PICK x \in T : \A y \in T : ~ (<<y, x>> \in R)
    BY <1>2, WFMin
  <1>4. ASSUME NEW y \in T PROVE x <= y
    <2>1. x \in Nat /\ y \in Nat
      OBVIOUS
    <2>2. y < x => <<y, x>> \in R
      BY <2>1 DEF R
    <2> QED BY <1>3, <2>1, <2>2
  <1> QED BY <1>4

(* Induction over the numbers up to n, for the members of a set. *)
LEMMA UpTo ==
  ASSUME NEW n \in Nat, NEW S, 0 \in S, \A i \in 1..n : i - 1 \in S => i \in S
  PROVE  0..n \subseteq S
  <1> DEFINE T == {i \in 0..n : i \notin S}
  <1> SUFFICES ASSUME T # {} PROVE FALSE
    OBVIOUS
  <1>1. T \in SUBSET Nat
    OBVIOUS
  <1> HIDE DEF T
  <1>2. PICK i \in T : \A j \in T : i <= j
    BY <1>1, Smallest
  <1>3. i \in 0..n /\ i \notin S
    BY DEF T
  <1>4. i # 0
    BY <1>3
  <1>5. i - 1 \in 0..n /\ i \in 1..n
    BY <1>3, <1>4
  <1>6. i - 1 \notin T
    BY <1>2, <1>5
  <1>7. i - 1 \in S
    BY <1>5, <1>6 DEF T
  <1> QED BY <1>3, <1>5, <1>7

(* The places of an entry among the units of a stream joined so far. *)
Joins(j, units, b, key) ==
  j = [n \in 0..Len(units) |->
         IF n <= b THEN <<>>
         ELSE IF units[n].key = key THEN j[n - 1] \o units[n].item.v
         ELSE j[n - 1]]

(* The joined arrays are what their recursive definition says. *)
LEMMA JoinedFacts ==
  ASSUME NEW units, NEW b \in Nat, NEW key, Len(units) \in Nat
  PROVE  Joins(Joined(units, b, key), units, b, key)
  <1> DEFINE N == Len(units)
             Step(j, n) == IF n <= b THEN <<>>
                           ELSE IF units[n].key = key THEN j[n - 1] \o units[n].item.v
                           ELSE j[n - 1]
             Up(j, k) == DOMAIN j = 0..k /\ \A n \in 0..k : j[n] = Step(j, n)
             S == {k \in 0..N : \E j : Up(j, k)}
  <1>1. 0 \in S
    <2> DEFINE j == [n \in 0..0 |-> <<>>]
    <2>1. Up(j, 0)
      <3>1. \A n \in 0..0 : n <= b /\ j[n] = <<>>
        OBVIOUS
      <3>2. \A n \in 0..0 : j[n] = Step(j, n)
        BY <3>1
      <3> QED BY <3>2
    <2>2. \E g : Up(g, 0)
      BY <2>1
    <2> QED BY <2>2
  <1>2. ASSUME NEW i \in 1..N, i - 1 \in S PROVE i \in S
    <2>1. PICK g : Up(g, i - 1)
      BY <1>2
    <2> DEFINE j == [n \in 0..i |-> IF n = i THEN Step(g, n) ELSE g[n]]
    <2>2. Up(j, i)
      <3>1. DOMAIN j = 0..i
        OBVIOUS
      <3>2. ASSUME NEW n \in 0..i - 1 PROVE j[n] = Step(j, n)
        <4>0. n \in 0..i /\ n # i
          OBVIOUS
        <4>1. j[n] = g[n] /\ g[n] = Step(g, n)
          <5> HIDE DEF Step
          <5> QED BY <2>1, <4>0
        <4>2. CASE n <= b
          BY <4>1, <4>2
        <4>3. CASE ~(n <= b)
          <5>1. n - 1 \in 0..i - 1 /\ n - 1 # i
            BY <4>3
          <5>2. j[n - 1] = g[n - 1]
            BY <5>1
          <5> QED BY <4>1, <5>2
        <4> QED BY <4>2, <4>3
      <3>3. j[i] = Step(j, i)
        <4>1. i \in 0..i /\ i - 1 \in 0..i /\ i - 1 # i
          OBVIOUS
        <4>2. j[i] = Step(g, i) /\ j[i - 1] = g[i - 1]
          BY <4>1
        <4> QED BY <4>2
      <3>4. ASSUME NEW n \in 0..i PROVE n = i \/ n \in 0..i - 1
        OBVIOUS
      <3> QED BY <3>1, <3>2, <3>3, <3>4
    <2> HIDE DEF j, Up
    <2>3. \E h : Up(h, i)
      BY <2>2
    <2> QED BY <2>3
  <1>3. N \in S
    <2> HIDE DEF S
    <2>1. 0..N \subseteq S
      BY <1>1, <1>2, UpTo
    <2> QED BY <2>1
  <1>4. PICK g : Up(g, N)
    BY <1>3
  <1> DEFINE F(j) == j = [n \in 0..N |-> Step(j, n)]
  <1>5. F([n \in 0..N |-> g[n]])
    <2> DEFINE h == [n \in 0..N |-> g[n]]
    <2>1. ASSUME NEW n \in 0..N PROVE h[n] = Step(h, n)
      <3>1. h[n] = Step(g, n)
        BY <1>4
      <3>2. ~(n <= b) => h[n - 1] = g[n - 1]
        OBVIOUS
      <3> QED BY <3>1, <3>2
    <2> HIDE DEF Step
    <2> QED BY <2>1
  <1>6. \E j : F(j)
    <2> HIDE DEF F
    <2> QED BY <1>5
  <1>7. F(CHOOSE j : F(j))
    <2> HIDE DEF F
    <2> QED BY <1>6
  <1>8. Joined(units, b, key) = CHOOSE j : F(j)
    BY DEF Joined
  <1>9. F(Joined(units, b, key))
    <2> HIDE DEF F
    <2> QED BY <1>7, <1>8
  <1> QED BY <1>9 DEF Joins

-----------------------------------------------------------------------------
(* The messages of a type *)

(* What is known of a message made for the first i parts of a type. *)
Made(m, parts, i) ==
  /\ m = [n \in DOMAIN m |-> m[n]]
  /\ \A n \in DOMAIN m : \E j \in 1..i : parts[j].is = "field" /\ parts[j].name = n
  /\ \A j \in 1..i : parts[j].is = "field" =>
       /\ parts[j].treat # "optional" => parts[j].name \in DOMAIN m
       /\ parts[j].name \in DOMAIN m => m[parts[j].name] \in Values(parts[j].kind)

(* One part more: its value, unless it is an Option that is None, and the   *)
(* values of the parts before it.                                           *)
LEMMA MadeMore ==
  ASSUME NEW parts, NEW i \in Nat \ {0}, NEW ms, NEW m \in Extended(ms, parts[i]),
         \A k \in ms : Made(k, parts, i - 1),
         \A j, k \in 1..i : parts[j].is = "field" /\ parts[k].is = "field" /\ parts[j].name = parts[k].name => j = k
  PROVE  Made(m, parts, i)
  <1>1. ASSUME NEW j \in 1..i PROVE j = i \/ (j \in 1..i - 1 /\ j # i)
    OBVIOUS
  <1>2. i \in 1..i /\ 1..i - 1 \subseteq 1..i
    OBVIOUS
  <1>3. CASE parts[i].is # "field"
    <2>1. Made(m, parts, i - 1)
      BY <1>3 DEF Extended
    <2> QED BY <1>1, <1>2, <1>3, <2>1 DEF Made
  <1>4. ASSUME parts[i].is = "field", NEW k \in ms, NEW v \in Values(parts[i].kind), m = With(k, parts[i].name, v)
        PROVE  Made(m, parts, i)
    <2>1. Made(k, parts, i - 1)
      OBVIOUS
    <2>2. /\ DOMAIN m = DOMAIN k \cup {parts[i].name} /\ m[parts[i].name] = v
          /\ \A n \in DOMAIN k : n # parts[i].name => m[n] = k[n]
          /\ m = [n \in DOMAIN m |-> m[n]]
      <3>1. PICK name : name = parts[i].name
        OBVIOUS
      <3>2. m = With(k, name, v)
        BY <1>4, <3>1
      <3>3. /\ DOMAIN m = DOMAIN k \cup {name} /\ m[name] = v
            /\ m = [n \in DOMAIN m |-> m[n]]
        BY <3>2 DEF With
      <3>4. \A n \in DOMAIN k : n # name => m[n] = k[n]
        BY <3>2 DEF With
      <3> QED BY <3>1, <3>3, <3>4
    <2>3. \A n \in DOMAIN m : \E j \in 1..i : parts[j].is = "field" /\ parts[j].name = n
      BY <1>2, <1>4, <2>1, <2>2 DEF Made
    <2>4. ASSUME NEW j \in 1..i, parts[j].is = "field"
          PROVE  /\ parts[j].treat # "optional" => parts[j].name \in DOMAIN m
                 /\ parts[j].name \in DOMAIN m => m[parts[j].name] \in Values(parts[j].kind)
      <3>1. CASE j = i
        BY <1>4, <2>2, <3>1
      <3>2. CASE j \in 1..i - 1 /\ j # i
        <4>1. parts[j].name # parts[i].name
          BY <1>2, <1>4, <2>4, <3>2
        <4>2. /\ parts[j].treat # "optional" => parts[j].name \in DOMAIN k
              /\ parts[j].name \in DOMAIN k => k[parts[j].name] \in Values(parts[j].kind)
          BY <2>1, <2>4, <3>2 DEF Made
        <4> QED BY <2>2, <4>1, <4>2
      <3> QED BY <1>1, <3>1, <3>2
    <2> QED BY <2>2, <2>3, <2>4 DEF Made
  <1>5. ASSUME parts[i].is = "field", parts[i].treat = "optional", m \in ms PROVE Made(m, parts, i)
    <2>1. Made(m, parts, i - 1)
      BY <1>5
    <2>2. parts[i].name \notin DOMAIN m
      BY <1>1, <1>2, <1>5, <2>1 DEF Made
    <2>3. ASSUME NEW j \in 1..i, parts[j].is = "field"
          PROVE  /\ parts[j].treat # "optional" => parts[j].name \in DOMAIN m
                 /\ parts[j].name \in DOMAIN m => m[parts[j].name] \in Values(parts[j].kind)
      BY <1>1, <1>5, <2>1, <2>2, <2>3 DEF Made
    <2>4. \A n \in DOMAIN m : \E j \in 1..i : parts[j].is = "field" /\ parts[j].name = n
      BY <1>2, <2>1 DEF Made
    <2> QED BY <2>1, <2>3, <2>4 DEF Made
  <1> QED BY <1>3, <1>4, <1>5 DEF Extended

(* The sets of messages that Beginnings makes are what its recursive        *)
(* definition says.                                                         *)
Begun(ms, t) ==
  ms = [i \in 0..Len(Parts(t)) |->
          IF i = 0 THEN {NoFields} ELSE Extended(ms[i - 1], Parts(t)[i])]

(* The messages with values for the first i parts, as Beginnings defines    *)
(* them.                                                                    *)
LEMMA BeginningsFacts ==
  ASSUME NEW t, Len(Parts(t)) \in Nat
  PROVE  Begun(Beginnings(t), t)
  <1> DEFINE N == Len(Parts(t))
             Step(ms, i) == IF i = 0 THEN {NoFields} ELSE Extended(ms[i - 1], Parts(t)[i])
             Up(ms, k) == DOMAIN ms = 0..k /\ \A i \in 0..k : ms[i] = Step(ms, i)
             S == {k \in 0..N : \E ms : Up(ms, k)}
  <1>1. 0 \in S
    <2> DEFINE ms == [i \in 0..0 |-> {NoFields}]
    <2>1. Up(ms, 0)
      OBVIOUS
    <2>2. \E g : Up(g, 0)
      BY <2>1
    <2> QED BY <2>2
  <1>2. ASSUME NEW i \in 1..N, i - 1 \in S PROVE i \in S
    <2>1. PICK g : Up(g, i - 1)
      BY <1>2
    <2> DEFINE ms == [n \in 0..i |-> IF n = i THEN Step(g, n) ELSE g[n]]
    <2>2. Up(ms, i)
      <3>1. DOMAIN ms = 0..i
        OBVIOUS
      <3>2. ASSUME NEW n \in 0..i - 1 PROVE ms[n] = Step(ms, n)
        <4>0. n \in 0..i /\ n # i
          OBVIOUS
        <4>1. ms[n] = g[n] /\ g[n] = Step(g, n)
          <5> HIDE DEF Step
          <5> QED BY <2>1, <4>0
        <4>2. CASE n = 0
          BY <4>1, <4>2
        <4>3. CASE n # 0
          <5>1. n - 1 \in 0..i - 1 /\ n - 1 # i /\ n - 1 \in 0..i
            BY <4>3
          <5>2. ms[n - 1] = g[n - 1]
            BY <5>1
          <5> HIDE DEF ms
          <5> QED BY <4>1, <5>2
        <4> QED BY <4>2, <4>3
      <3>3. ms[i] = Step(ms, i)
        <4>1. i \in 0..i /\ i - 1 \in 0..i /\ i - 1 # i
          OBVIOUS
        <4>2. ms[i] = Step(g, i) /\ ms[i - 1] = g[i - 1]
          <5> HIDE DEF Step
          <5> QED BY <4>1
        <4> HIDE DEF ms
        <4> QED BY <4>2
      <3>4. ASSUME NEW n \in 0..i PROVE n = i \/ n \in 0..i - 1
        OBVIOUS
      <3> HIDE DEF Step, ms
      <3> QED BY <3>1, <3>2, <3>3, <3>4
    <2> HIDE DEF ms, Up
    <2>3. \E h : Up(h, i)
      BY <2>2
    <2> QED BY <2>3
  <1>3. N \in S
    <2> HIDE DEF S
    <2>1. 0..N \subseteq S
      BY <1>1, <1>2, UpTo
    <2> QED BY <2>1
  <1>4. PICK g : Up(g, N)
    BY <1>3
  <1> DEFINE F(ms) == ms = [i \in 0..N |-> Step(ms, i)]
  <1>5. F([i \in 0..N |-> g[i]])
    <2> DEFINE h == [i \in 0..N |-> g[i]]
    <2>1. ASSUME NEW n \in 0..N PROVE h[n] = Step(h, n)
      <3>1. h[n] = Step(g, n)
        <4> HIDE DEF Step
        <4> QED BY <1>4
      <3>2. n # 0 => h[n - 1] = g[n - 1]
        OBVIOUS
      <3> HIDE DEF h
      <3> QED BY <3>1, <3>2
    <2> HIDE DEF Step
    <2> QED BY <2>1
  <1>6. \E ms : F(ms)
    <2> HIDE DEF F
    <2> QED BY <1>5
  <1>7. F(CHOOSE ms : F(ms))
    <2> HIDE DEF F
    <2> QED BY <1>6
  <1>8. Beginnings(t) = CHOOSE ms : F(ms)
    BY DEF Beginnings
  <1>9. F(Beginnings(t))
    <2> HIDE DEF F
    <2> QED BY <1>7, <1>8
  <1> QED BY <1>9 DEF Begun

(* The parts of a type are its fields and what separates them. *)
LEMMA PartFacts ==
  ASSUME NEW t \in MessageType
  PROVE  /\ Len(Parts(t)) \in Nat
         /\ \A i \in 1..Len(Parts(t)) : Parts(t)[i].is = "field" => Parts(t)[i] \in AllFields(t)
         /\ \A f \in AllFields(t) : f.is = "field" /\ \E i \in 1..Len(Parts(t)) : Parts(t)[i] = f
         /\ \A i, j \in 1..Len(Parts(t)) :
              Parts(t)[i].is = "field" /\ Parts(t)[j].is = "field" /\ Parts(t)[i].name = Parts(t)[j].name => i = j
  <1> DEFINE lead == Schema[t].lead
             fields == Schema[t].fields
             n == Len(lead)
             k == Len(fields)
             parts == lead \o fields
  <1>1. IsSeq(lead) /\ IsSeq(fields) /\ n \in Nat /\ k \in Nat /\ DOMAIN lead = 1..n /\ DOMAIN fields = 1..k
    BY SchemaShape, IsSeqFacts DEF Shaped
  <1>2. /\ Len(parts) = n + k /\ \A i \in 1..n : parts[i] = lead[i]
        /\ \A i \in 1..k : parts[n + i] = fields[i]
    <2> HIDE DEF lead, fields
    <2> QED BY <1>1, ConcatIsSeq
  <1>3. Parts(t) = parts
    BY DEF Parts
  <1>4. /\ \A i \in 1..k : fields[i].is = "field"
        /\ \A i, j \in 1..k : fields[i].name = fields[j].name => i = j
    BY <1>1, Tables DEF Tabled, GoodField
  <1>5. /\ \A i \in 1..n : lead[i].is = "field" => i = 2 /\ lead[i].name = "request_id"
        /\ \A i \in 1..n, j \in 1..k : lead[i].is = "field" => lead[i].name # fields[j].name
    <2>1. Required(0, "request_id", U64).name = "request_id"
      BY DEF Required, Field
    <2>2. \A j \in 1..k : fields[j] \in ToSet(fields)
      BY <1>1 DEF ToSet
    <2> QED BY <1>1, <2>1, <2>2, Leads
  <1> HIDE DEF parts, n, k, lead, fields
  <1>6. ASSUME NEW i \in 1..Len(parts)
        PROVE  \/ i \in 1..n /\ parts[i] = lead[i]
               \/ \E j \in 1..k : i = n + j /\ parts[i] = fields[j]
    <2>1. i \in 1..n \/ (i - n \in 1..k /\ i = n + (i - n))
      BY <1>1, <1>2
    <2> QED BY <1>2, <2>1
  <1>7. \A i \in 1..Len(parts) : parts[i].is = "field" => parts[i] \in AllFields(t)
    BY <1>1, <1>6 DEF AllFields, ToSet, lead, fields
  <1>8. \A f \in AllFields(t) : f.is = "field" /\ \E i \in 1..Len(parts) : parts[i] = f
    <2>1. ASSUME NEW i \in 1..n PROVE i \in 1..Len(parts)
      BY <1>1, <1>2
    <2>2. ASSUME NEW i \in 1..k PROVE n + i \in 1..Len(parts)
      BY <1>1, <1>2
    <2>3. ASSUME NEW f \in AllFields(t)
          PROVE  \/ f.is = "field" /\ \E i \in 1..n : lead[i] = f
                 \/ \E i \in 1..k : fields[i] = f
      BY <1>1 DEF AllFields, ToSet, lead, fields
    <2> QED BY <1>2, <1>4, <2>1, <2>2, <2>3
  <1>9. ASSUME NEW i \in 1..Len(parts), NEW j \in 1..Len(parts), parts[i].is = "field", parts[j].is = "field",
               parts[i].name = parts[j].name
        PROVE  i = j
    <2>1. CASE i \in 1..n /\ parts[i] = lead[i] /\ j \in 1..n /\ parts[j] = lead[j]
      BY <1>5, <1>9, <2>1
    <2>2. ASSUME i \in 1..n, parts[i] = lead[i], NEW b \in 1..k, parts[j] = fields[b] PROVE FALSE
      BY <1>5, <1>9, <2>2
    <2>3. ASSUME j \in 1..n, parts[j] = lead[j], NEW b \in 1..k, parts[i] = fields[b] PROVE FALSE
      BY <1>5, <1>9, <2>3
    <2>4. ASSUME NEW a \in 1..k, i = n + a, parts[i] = fields[a], NEW b \in 1..k, j = n + b, parts[j] = fields[b]
          PROVE  i = j
      BY <1>4, <1>9, <2>4
    <2> QED BY <1>6, <2>1, <2>2, <2>3, <2>4
  <1> QED BY <1>1, <1>2, <1>3, <1>7, <1>8, <1>9

(* A message of a type has values of the right kind for fields of the type, *)
(* and one for each field that is not an Option.                            *)
LEMMA MessageFacts ==
  ASSUME NEW t \in MessageType, NEW m \in Messages(t)
  PROVE  /\ m = [n \in DOMAIN m |-> m[n]]
         /\ DOMAIN m \subseteq FieldNames(t)
         /\ \A f \in AllFields(t) :
              /\ f.treat # "optional" => f.name \in DOMAIN m
              /\ f.name \in DOMAIN m => m[f.name] \in Values(f.kind)
  <1> DEFINE N == Len(Parts(t))
             B == Beginnings(t)
             S == {i \in 0..N : \A k \in B[i] : Made(k, Parts(t), i)}
  <1>1. N \in Nat /\ Begun(B, t)
    BY PartFacts, BeginningsFacts
  <1> HIDE DEF B
  <1>2. 0 \in S
    <2>1. B[0] = {NoFields}
      BY <1>1 DEF Begun
    <2>2. Made(NoFields, Parts(t), 0)
      BY DEF Made, NoFields
    <2> QED BY <1>1, <2>1, <2>2
  <1>3. ASSUME NEW i \in 1..N, i - 1 \in S PROVE i \in S
    <2>1. B[i] = Extended(B[i - 1], Parts(t)[i])
      <3>1. i \in 0..Len(Parts(t)) /\ i # 0
        BY <1>1
      <3> QED BY <1>1, <3>1 DEF Begun
    <2>2. \A j, k \in 1..i : j \in 1..N /\ k \in 1..N
      BY <1>1
    <2>3. \A j, k \in 1..i : Parts(t)[j].is = "field" /\ Parts(t)[k].is = "field"
                               /\ Parts(t)[j].name = Parts(t)[k].name => j = k
      BY <2>2, PartFacts
    <2>4. i \in Nat \ {0} /\ i \in 0..N
      BY <1>1
    <2>5. \A k \in B[i - 1] : Made(k, Parts(t), i - 1)
      BY <1>3
    <2>6. ASSUME NEW k \in B[i] PROVE Made(k, Parts(t), i)
      BY <2>1, <2>3, <2>4, <2>5, MadeMore
    <2> QED BY <2>4, <2>6
  <1>4. \A k \in B[N] : Made(k, Parts(t), N)
    <2> HIDE DEF S
    <2>1. 0..N \subseteq S
      BY <1>1, <1>2, <1>3, UpTo
    <2> QED BY <1>1, <2>1 DEF S
  <1>5. Made(m, Parts(t), N)
    BY <1>4 DEF Messages, B
  <1> HIDE DEF N
  <1>6. DOMAIN m \subseteq FieldNames(t)
    BY <1>5, PartFacts DEF Made, FieldNames, N
  <1>7. ASSUME NEW f \in AllFields(t)
        PROVE  /\ f.treat # "optional" => f.name \in DOMAIN m
               /\ f.name \in DOMAIN m => m[f.name] \in Values(f.kind)
    <2>1. PICK i \in 1..N : Parts(t)[i] = f /\ f.is = "field"
      BY PartFacts DEF N
    <2> QED BY <1>5, <2>1 DEF Made
  <1> QED BY <1>5, <1>6, <1>7 DEF Made

-----------------------------------------------------------------------------
(* The entries of an encoding *)

FieldsOf(t) == ToSet(Schema[t].fields)

(* The fields of a type are known by their numbers and by their names. *)
LEMMA FieldFacts ==
  ASSUME NEW t \in MessageType
  PROVE  /\ \A f \in ToSet(Schema[t].fields) :
              GoodField(f) /\ \E i \in DOMAIN Schema[t].fields : f = Schema[t].fields[i] /\ f.key = i - 1
         /\ \A f, g \in ToSet(Schema[t].fields) : f.key = g.key => f = g
         /\ \A f, g \in ToSet(Schema[t].fields) : f.name = g.name => f = g
         /\ DOMAIN Schema[t].fields = 1..Len(Schema[t].fields) /\ Len(Schema[t].fields) \in Nat
  <1> DEFINE fields == Schema[t].fields
  <1>1. DOMAIN fields = 1..Len(fields) /\ Len(fields) \in Nat
    BY SchemaShape, IsSeqFacts DEF Shaped
  <1>2. Tabled(fields, Schema[t].counts)
    BY Tables
  <1> HIDE DEF fields
  <1>3. \A f \in ToSet(fields) : \E i \in DOMAIN fields : f = fields[i]
    BY DEF ToSet
  <1>4. \A f \in ToSet(fields) :
          GoodField(f) /\ \E i \in DOMAIN fields : f = fields[i] /\ f.key = i - 1
    BY <1>2, <1>3 DEF Tabled
  <1>5. \A f, g \in ToSet(fields) : f.key = g.key => f = g
    <2> SUFFICES ASSUME NEW f \in ToSet(fields), NEW g \in ToSet(fields), f.key = g.key PROVE f = g
      OBVIOUS
    <2>1. PICK i \in DOMAIN fields : f = fields[i] /\ f.key = i - 1
      BY <1>4
    <2>2. PICK j \in DOMAIN fields : g = fields[j] /\ g.key = j - 1
      BY <1>4
    <2>3. i = j
      BY <1>1, <2>1, <2>2
    <2> QED BY <2>1, <2>2, <2>3
  <1>6. \A f, g \in ToSet(fields) : f.name = g.name => f = g
    BY <1>2, <1>3 DEF Tabled
  <1> QED BY <1>1, <1>4, <1>5, <1>6 DEF fields

(* A sequence without its i-th element. *)
LEMMA RemoveFacts ==
  ASSUME NEW s, IsSeq(s), NEW i \in DOMAIN s
  PROVE  /\ Len(RemoveAt(s, i)) = Len(s) - 1
         /\ \A j \in 1..Len(s) - 1 : RemoveAt(s, i)[j] = IF j < i THEN s[j] ELSE s[j + 1]
  <1> DEFINE S == {s[j] : j \in DOMAIN s}
             a == SubSeq(s, 1, i - 1)
             b == SubSeq(s, i + 1, Len(s))
  <1>1. s \in Seq(S)
    BY DEF IsSeq
  <1>2. Len(s) \in Nat /\ i \in 1..Len(s)
    BY IsSeqFacts
  <1> HIDE DEF S
  <1>3. a \in Seq(S) /\ Len(a) = i - 1 /\ \A j \in 1..i - 1 : a[j] = s[j]
    BY <1>1, <1>2
  <1>4. b \in Seq(S) /\ Len(b) = Len(s) - i /\ \A j \in 1..Len(s) - i : b[j] = s[i + j]
    BY <1>1, <1>2
  <1>5. RemoveAt(s, i) = a \o b
    BY DEF RemoveAt
  <1> HIDE DEF a, b
  <1>6. Len(a \o b) = Len(s) - 1
    BY <1>2, <1>3, <1>4
  <1>7. ASSUME NEW j \in 1..Len(s) - 1 PROVE (a \o b)[j] = IF j < i THEN s[j] ELSE s[j + 1]
    <2>1. CASE j < i
      <3>1. j \in 1..i - 1
        BY <1>2, <2>1
      <3>0. j \in 1..Len(a)
        BY <1>3, <3>1
      <3>2. (a \o b)[j] = a[j]
        BY <1>3, <1>4, <3>0
      <3> QED BY <1>3, <2>1, <3>1, <3>2
    <2>2. CASE ~(j < i)
      <3>1. PICK k : k = j - (i - 1)
        OBVIOUS
      <3>2. k \in 1..Len(b) /\ j = Len(a) + k /\ i + k = j + 1
        BY <1>2, <1>3, <1>4, <2>2, <3>1
      <3>3. (a \o b)[Len(a) + k] = b[k]
        <4>1. a \in Seq(S) /\ b \in Seq(S)
          BY <1>3, <1>4
        <4>2. \A p \in 1..Len(b) : (a \o b)[Len(a) + p] = b[p]
          BY <4>1
        <4> QED BY <3>2, <4>2
      <3>4. b[k] = s[i + k]
        BY <1>4, <3>2
      <3> QED BY <2>2, <3>2, <3>3, <3>4
    <2> QED BY <2>1, <2>2
  <1> QED BY <1>5, <1>6, <1>7

(* The fields that the encoder writes are those that it should, each once,  *)
(* and the decoder takes a map of that length.                              *)
LEMMA WrittenFacts ==
  ASSUME NEW t \in MessageType, NEW m
  PROVE  LET fields == Schema[t].fields
             w      == WrittenFields(t, m)
         IN  /\ DOMAIN w = 1..Len(w) /\ Len(w) \in Nat /\ Len(w) \in Schema[t].counts
             /\ \A j \in 1..Len(w) : w[j] \in ToSet(fields) /\ Written(w[j], m)
             /\ \A f \in ToSet(fields) : Written(f, m) => \E j \in 1..Len(w) : w[j] = f
             /\ \A j, k \in 1..Len(w) : w[j].key = w[k].key => j = k
  <1> DEFINE fields == Schema[t].fields
             n == Len(fields)
             w == WrittenFields(t, m)
             out == {i \in DOMAIN fields : ~Written(fields[i], m)}
  <1>1. IsSeq(fields) /\ DOMAIN fields = 1..n /\ n \in Nat
    BY SchemaShape, IsSeqFacts DEF Shaped
  <1>2. /\ \A i \in 1..n : fields[i].key = i - 1
        /\ \A i, j \in 1..n : MayMiss(fields[i]) /\ MayMiss(fields[j]) => i = j
        /\ n \in Schema[t].counts /\ ((\E i \in 1..n : MayMiss(fields[i])) => n - 1 \in Schema[t].counts)
    BY <1>1, Tables DEF Tabled
  <1>3. \A i \in out : MayMiss(fields[i])
    BY DEF Written, MayMiss
  <1>4. \A f \in ToSet(fields) : \E i \in 1..n : f = fields[i]
    BY <1>1 DEF ToSet
  <1>5. \A i \in 1..n : fields[i] \in ToSet(fields)
    BY <1>1 DEF ToSet
  <1>6. CASE out = {}
    <2>1. w = fields
      BY <1>6 DEF WrittenFields
    <2>2. \A i \in 1..n : Written(fields[i], m)
      BY <1>1, <1>6
    <2>3. \A j, k \in 1..n : fields[j].key = fields[k].key => j = k
      BY <1>2
    <2> HIDE DEF fields, w
    <2> QED BY <1>1, <1>2, <1>4, <1>5, <2>1, <2>2, <2>3 DEF fields, w
  <1>7. CASE out # {}
    <2>1. PICK i : i \in out /\ w = RemoveAt(fields, i)
      BY <1>7 DEF WrittenFields
    <2>2. i \in 1..n /\ ~Written(fields[i], m) /\ MayMiss(fields[i])
      BY <1>1, <1>3, <2>1
    <2>3. \A j \in 1..n : ~Written(fields[j], m) => j = i
      BY <1>1, <1>2, <1>3, <2>2
    <2> HIDE DEF fields, w, out
    <2>4. Len(w) = n - 1 /\ \A j \in 1..n - 1 : w[j] = IF j < i THEN fields[j] ELSE fields[j + 1]
      BY <1>1, <2>1, <2>2, RemoveFacts
    <2>5. IsSeq(w)
      BY <1>1, <2>1, <2>2, RemoveIsSeq
    <2>6. DOMAIN w = 1..Len(w) /\ Len(w) \in Nat /\ Len(w) \in Schema[t].counts
      BY <1>2, <2>2, <2>4, <2>5, IsSeqFacts
    <2>7. ASSUME NEW j \in 1..n - 1
          PROVE  \E k \in 1..n : w[j] = fields[k] /\ k # i /\ (j < i => k = j) /\ (~(j < i) => k = j + 1)
      <3>1. j \in 1..n /\ j + 1 \in 1..n
        BY <1>1
      <3> QED BY <2>2, <2>4, <3>1
    <2>8. \A j \in 1..Len(w) : w[j] \in ToSet(fields) /\ Written(w[j], m)
      BY <1>5, <2>3, <2>4, <2>7
    <2>9. ASSUME NEW f \in ToSet(fields), Written(f, m) PROVE \E j \in 1..Len(w) : w[j] = f
      <3>1. PICK k \in 1..n : f = fields[k]
        BY <1>4
      <3>2. k # i
        BY <2>2, <2>9, <3>1
      <3>3. CASE k < i
        <4>1. k \in 1..n - 1
          BY <1>1, <2>2, <3>3
        <4> QED BY <2>4, <3>1, <3>3, <4>1
      <3>4. CASE i < k
        <4>1. k - 1 \in 1..n - 1 /\ ~(k - 1 < i) /\ (k - 1) + 1 = k
          BY <1>1, <2>2, <3>4
        <4>2. w[k - 1] = fields[(k - 1) + 1]
          BY <2>4, <4>1
        <4> QED BY <2>4, <3>1, <4>1, <4>2
      <3> QED BY <2>2, <3>2, <3>3, <3>4
    <2>10. ASSUME NEW j \in 1..Len(w), NEW k \in 1..Len(w), w[j].key = w[k].key PROVE j = k
      <3>1. PICK a \in 1..n : w[j] = fields[a] /\ a # i /\ (j < i => a = j) /\ (~(j < i) => a = j + 1)
        BY <2>4, <2>7
      <3>2. PICK b \in 1..n : w[k] = fields[b] /\ b # i /\ (k < i => b = k) /\ (~(k < i) => b = k + 1)
        BY <2>4, <2>7
      <3>3. a = b
        BY <1>2, <2>10, <3>1, <3>2
      <3> QED BY <1>1, <2>2, <2>4, <3>1, <3>2, <3>3
    <2> QED BY <2>6, <2>8, <2>9, <2>10 DEF fields, w
  <1> QED BY <1>6, <1>7

(* What the encoder writes for a field. *)
EntryOf(f, m) == Entry(f.key, Item(f.kind, m[f.name]))

(* Entries that say each field that is written, and say it once. *)
SayOnce(es, t, m) ==
  /\ IsSeq(es) /\ Len(es) \in Nat /\ Len(es) \in Schema[t].counts
  /\ \A j \in 1..Len(es) : \E f \in FieldsOf(t) : Written(f, m) /\ es[j] = EntryOf(f, m)
  /\ \A f \in FieldsOf(t) : Written(f, m) => \E j \in 1..Len(es) : es[j] = EntryOf(f, m)
  /\ \A j, k \in 1..Len(es) : es[j].key = es[k].key => j = k

(* The entries of a body are those of the fields that are written, no key   *)
(* twice.                                                                   *)
LEMMA EntriesFacts ==
  ASSUME NEW t \in MessageType, NEW m
  PROVE  SayOnce(Entries(t, m), t, m)
  <1> DEFINE fields == ToSet(Schema[t].fields)
             w  == WrittenFields(t, m)
             es == Entries(t, m)
  <1>1. /\ DOMAIN w = 1..Len(w) /\ Len(w) \in Nat /\ Len(w) \in Schema[t].counts
        /\ \A j \in 1..Len(w) : w[j] \in fields /\ Written(w[j], m)
        /\ \A f \in fields : Written(f, m) => \E j \in 1..Len(w) : w[j] = f
        /\ \A j, k \in 1..Len(w) : w[j].key = w[k].key => j = k
    BY WrittenFacts
  <1>2. IsSeq(es) /\ DOMAIN es = 1..Len(es) /\ Len(es) \in Nat
    BY EntriesIsSeq, IsSeqFacts
  <1>3. DOMAIN es = DOMAIN w /\ \A j \in DOMAIN w : es[j] = EntryOf(w[j], m)
    <2>1. es = [j \in DOMAIN w |-> EntryOf(w[j], m)]
      BY DEF Entries, EntryOf
    <2> HIDE DEF es, w
    <2> QED BY <2>1
  <1> HIDE DEF fields, w, es
  <1>4. Len(es) = Len(w)
    <2>1. 1..Len(es) = 1..Len(w)
      <3>1. DOMAIN es = 1..Len(es) /\ DOMAIN w = 1..Len(w) /\ DOMAIN es = DOMAIN w
        BY <1>1, <1>2, <1>3
      <3> QED BY ONLY <3>1
    <2>2. ASSUME NEW a \in Nat, NEW b \in Nat, 1..a = 1..b PROVE a <= b
      <3>1. a > 0 => a \in 1..a
        OBVIOUS
      <3> QED BY <2>2, <3>1
    <2>3. Len(es) \in Nat /\ Len(w) \in Nat
      BY <1>1, <1>2
    <2>4. Len(es) <= Len(w) /\ Len(w) <= Len(es)
      BY <2>1, <2>2, <2>3
    <2> QED BY <2>3, <2>4
  <1>5. \A f : EntryOf(f, m).key = f.key
    BY DEF EntryOf, Entry
  <1>6. FieldsOf(t) = fields
    BY DEF FieldsOf, fields
  <1>7. SayOnce(es, t, m)
    BY <1>1, <1>2, <1>3, <1>4, <1>5, <1>6 DEF SayOnce
  <1> QED BY <1>7 DEF es

-----------------------------------------------------------------------------
(* Values and the units that carry them *)

IsEntry(u) == u.is = "entry" /\ (u.item.is \in {"array", "map"} => IsSeq(u.item.v))

(* What a decoder takes for a kind is of that kind, however it was sent. *)
LEMMA ReadAgain ==
  ASSUME NEW kind, NEW item, ValueRead(kind, item)
  PROVE  ValueRead(kind, Item(kind, item.v))
  <1>1. CASE Composite(kind)
    <2>1. Item(kind, item.v) = [is |-> kind.is, of |-> OnWire(kind.of), v |-> item.v]
      BY <1>1 DEF Item
    <2>2. Len(item.v) \in kind.sizes /\ \A i \in DOMAIN item.v : LeafRead(kind.of, item.of, item.v[i])
      BY <1>1 DEF ValueRead
    <2>3. \A i \in DOMAIN item.v : LeafRead(kind.of, OnWire(kind.of), item.v[i])
      BY <2>2 DEF LeafRead
    <2> QED BY <1>1, <2>1, <2>2, <2>3 DEF ValueRead
  <1>2. CASE ~Composite(kind)
    <2>1. Item(kind, item.v) = [is |-> OnWire(kind), v |-> item.v]
      BY <1>2 DEF Item
    <2>2. item.is \notin {"array", "map"} /\ LeafRead(kind, item.is, item.v)
      BY <1>2 DEF ValueRead
    <2>3. item.is = OnWire(kind)
      BY <2>2 DEF LeafRead
    <2> QED BY <1>2, <2>1, <2>2, <2>3 DEF ValueRead
  <1> QED BY <1>1, <1>2

(* An empty array, and two arrays that are joined, if they fit. *)
LEMMA EmptyRead ==
  ASSUME NEW kind, kind.is = "array", 0 \in kind.sizes
  PROVE  ValueRead(kind, Item(kind, <<>>)) /\ IsSeq(<<>>)
  <1>1. Composite(kind)
    BY DEF Composite
  <1>2. Item(kind, <<>>) = [is |-> kind.is, of |-> OnWire(kind.of), v |-> <<>>]
    BY <1>1 DEF Item
  <1>3. DOMAIN <<>> = {} /\ Len(<<>>) = 0
    OBVIOUS
  <1>4. ValueRead(kind, Item(kind, <<>>))
    BY <1>1, <1>2, <1>3 DEF ValueRead
  <1> QED BY <1>4, TupleIsSeq

(* Two arrays that fit together are, joined, an array that the decoder      *)
(* takes.                                                                   *)
LEMMA JoinedRead ==
  ASSUME NEW kind, NEW a, NEW item, kind.is = "array", IsSeq(a), IsSeq(item.v),
         ValueRead(kind, Item(kind, a)), ValueRead(kind, item), Len(a) + Len(item.v) \in kind.sizes
  PROVE  ValueRead(kind, Item(kind, a \o item.v)) /\ IsSeq(a \o item.v)
  <1>0. PICK b : b = item.v
    OBVIOUS
  <1>1. Composite(kind)
    BY DEF Composite
  <1>2. \A v : Item(kind, v) = [is |-> kind.is, of |-> OnWire(kind.of), v |-> v]
    BY <1>1 DEF Item
  <1>3. \A i \in DOMAIN a : LeafRead(kind.of, OnWire(kind.of), a[i])
    BY <1>1, <1>2 DEF ValueRead
  <1>4. \A i \in DOMAIN b : LeafRead(kind.of, OnWire(kind.of), b[i])
    <2>1. ValueRead(kind, Item(kind, b))
      BY <1>0, ReadAgain
    <2> QED BY <1>1, <1>2, <2>1 DEF ValueRead
  <1>5. /\ IsSeq(a) /\ IsSeq(b) /\ Len(a) \in Nat /\ Len(b) \in Nat /\ DOMAIN a = 1..Len(a) /\ DOMAIN b = 1..Len(b)
    BY <1>0, IsSeqFacts
  <1> DEFINE c == a \o b
  <1>6. /\ IsSeq(c) /\ Len(c) = Len(a) + Len(b)
        /\ \A i \in 1..Len(a) : c[i] = a[i]
        /\ \A i \in 1..Len(b) : c[Len(a) + i] = b[i]
    BY <1>5, ConcatIsSeq
  <1> HIDE DEF c
  <1>7. DOMAIN c = 1..Len(c)
    BY <1>6, IsSeqFacts
  <1>8. ASSUME NEW i \in DOMAIN c PROVE LeafRead(kind.of, OnWire(kind.of), c[i])
    <2>1. CASE i \in 1..Len(a)
      BY <1>3, <1>5, <1>6, <2>1
    <2>2. CASE i \notin 1..Len(a)
      <3>1. PICK k : k = i - Len(a)
        OBVIOUS
      <3>2. k \in 1..Len(b) /\ i = Len(a) + k
        BY <1>5, <1>6, <1>7, <2>2, <3>1
      <3>3. c[i] = b[k]
        BY <1>6, <3>2
      <3> QED BY <1>4, <1>5, <3>2, <3>3
    <2> QED BY <2>1, <2>2
  <1>9. Len(c) \in kind.sizes
    BY <1>0, <1>6
  <1>10. ValueRead(kind, Item(kind, c))
    BY <1>1, <1>2, <1>8, <1>9 DEF ValueRead
  <1> QED BY <1>0, <1>6, <1>10 DEF c

(* Joining a sequence to the empty one yields that sequence.                *)
LEMMA EmptyConcat ==
  ASSUME NEW v, IsSeq(v)
  PROVE  <<>> \o v = v
  <1> DEFINE S == {v[i] : i \in DOMAIN v}
  <1>1. v \in Seq(S)
    BY DEF IsSeq
  <1> HIDE DEF S
  <1> QED BY <1>1, ConcatEmptySeq

(* What this code encodes, and what another implementation does, are        *)
(* entries.                                                                 *)
LEMMA ValueIsEntry ==
  ASSUME NEW kind, GoodKind(kind), NEW v \in Values(kind), NEW key
  PROVE  IsEntry(Entry(key, Item(kind, v)))
  <1>1. CASE Composite(kind)
    <2>1. PICK n \in kind.sizes \cap {0, 1, Most(kind.sizes)} : \E leaf : v = [i \in 1..n |-> leaf]
      BY <1>1 DEF Values
    <2>2. n \in Nat
      BY <1>1, <2>1 DEF GoodKind
    <2>3. PICK leaf : v = [i \in 1..n |-> leaf]
      BY <2>1
    <2>4. v \in [1..n -> {leaf}]
      BY <2>3
    <2>5. IsSeq(v)
      BY <2>2, <2>4, FunctionIsSeq
    <2> QED BY <1>1, <2>5 DEF IsEntry, Entry, Item
  <1>2. CASE ~Composite(kind)
    <2>1. OnWire(kind) \notin {"array", "map"}
      BY <1>2 DEF OnWire, Composite
    <2> QED BY <1>2, <2>1 DEF IsEntry, Entry, Item
  <1> QED BY <1>1, <1>2

(* A value as another implementation sends it can be read as an entry.      *)
LEMMA PeerValueIsEntry ==
  ASSUME NEW kind, GoodKind(kind), NEW v \in PeerValues(kind), NEW key
  PROVE  IsEntry(Entry(key, Item(kind, v)))
  <1>1. CASE Composite(kind)
    <2>1. IsSeq(v)
      <3>1. \/ \E leaf : v = <<leaf>>
            \/ \E leaf : v = [i \in 1..Most(kind.sizes) |-> leaf]
        BY <1>1 DEF PeerValues
      <3>2. ASSUME NEW leaf, v = [i \in 1..Most(kind.sizes) |-> leaf] PROVE IsSeq(v)
        <4>1. v \in [1..Most(kind.sizes) -> {leaf}] /\ Most(kind.sizes) \in Nat
          BY <1>1, <3>2 DEF GoodKind
        <4> QED BY <4>1, FunctionIsSeq
      <3> QED BY <3>1, <3>2, TupleIsSeq
    <2> QED BY <1>1, <2>1 DEF IsEntry, Entry, Item
  <1>2. CASE ~Composite(kind)
    <2>1. OnWire(kind) \notin {"array", "map"}
      BY <1>2 DEF OnWire, Composite
    <2> QED BY <1>2, <2>1 DEF IsEntry, Entry, Item
  <1> QED BY <1>1, <1>2

(* So can each of the entries it writes.                                    *)
LEMMA PeerEntryIsEntry ==
  ASSUME type \in MessageType, NEW u \in PeerEntries
  PROVE  IsEntry(u)
  <1>1. CASE u = Entry(Len(Schema[type].fields), Item(U64, 0))
    <2>1. Item(U64, 0) = [is |-> "uint", v |-> 0]
      BY DEF Item, U64, OnWire, Composite
    <2> QED BY <1>1, <2>1 DEF IsEntry, Entry
  <1>2. ASSUME NEW f \in ToSet(Schema[type].fields), NEW v \in PeerValues(f.kind), u = Entry(f.key, Item(f.kind, v))
        PROVE  IsEntry(u)
    <2>1. GoodKind(f.kind)
      BY FieldFacts DEF GoodField
    <2> QED BY <1>2, <2>1, PeerValueIsEntry
  <1> QED BY <1>1, <1>2 DEF PeerEntries

(* A request id is within its limits, as every number is. *)
LEMMA RequestIdRead ==
  ASSUME NEW v \in Values(U64)
  PROVE  ValueRead(U64, Item(U64, v))
  <1>1. ~Composite(U64) /\ U64.is = "uint" /\ OnWire(U64) = "uint"
    BY DEF Composite, U64, OnWire
  <1>2. v \in Leaves(U64)
    BY <1>1 DEF Values
  <1>3. v <= U64.max
    BY <1>1, <1>2 DEF Leaves
  <1>4. Item(U64, v) = [is |-> "uint", v |-> v]
    BY <1>1 DEF Item
  <1>5. LeafRead(U64, "uint", v)
    BY <1>1, <1>3 DEF LeafRead
  <1> QED BY <1>1, <1>4, <1>5 DEF ValueRead

-----------------------------------------------------------------------------
(* The units of an encoding *)

(* What is where in a frame, beside what Frame says. *)
LEMMA FrameContent ==
  ASSUME NEW b, NEW lead, NEW h, NEW es, IsSeq(lead), IsSeq(es)
  PROVE  /\ \A i \in 1..Len(lead) : (<< b >> \o lead \o << h >> \o es)[i + 1] = lead[i]
         /\ \A i \in 1..Len(es) : (<< b >> \o lead \o << h >> \o es)[Len(lead) + 2 + i] = es[i]
  <1> DEFINE w1 == << b >> \o lead
             w2 == w1 \o << h >>
             w  == w2 \o es
  <1>1. IsSeq(<< b >>) /\ IsSeq(<< h >>) /\ Len(<< b >>) = 1 /\ Len(<< h >>) = 1
    BY TupleIsSeq
  <1>2. Len(lead) \in Nat /\ Len(es) \in Nat
    BY IsSeqFacts
  <1>3. IsSeq(w1) /\ Len(w1) = 1 + Len(lead) /\ \A i \in 1..Len(lead) : w1[1 + i] = lead[i]
    BY <1>1, ConcatIsSeq
  <1>4. IsSeq(w2) /\ Len(w2) = Len(lead) + 2 /\ \A i \in 1..Len(w1) : w2[i] = w1[i]
    <2> HIDE DEF w1
    <2>1. IsSeq(w2) /\ Len(w2) = Len(w1) + 1
      BY <1>1, <1>3, ConcatIsSeq
    <2>2. \A i \in 1..Len(w1) : w2[i] = w1[i]
      BY <1>1, <1>3, ConcatIsSeq
    <2> QED BY <1>2, <1>3, <2>1, <2>2
  <1>5. /\ \A i \in 1..Len(w2) : w[i] = w2[i]
        /\ \A i \in 1..Len(es) : w[Len(w2) + i] = es[i]
    <2> HIDE DEF w2
    <2> QED BY <1>4, ConcatIsSeq
  <1> HIDE DEF w1, w2, w
  <1>6. ASSUME NEW i \in 1..Len(lead) PROVE w[i + 1] = lead[i]
    <2>1. i + 1 \in 1..Len(w1) /\ i + 1 \in 1..Len(w2) /\ i + 1 = 1 + i
      BY <1>2, <1>3, <1>4
    <2> QED BY <1>3, <1>4, <1>5, <2>1
  <1>7. ASSUME NEW i \in 1..Len(es) PROVE w[Len(lead) + 2 + i] = es[i]
    BY <1>4, <1>5
  <1> QED BY <1>6, <1>7 DEF w, w1, w2

(* An encoding is a frame around the entries of the message.                *)
LEMMA EncodingFacts ==
  ASSUME NEW t \in MessageType, NEW m
  PROVE  LET lead == Schema[t].lead
             es   == Entries(t, m)
             w    == Encoding(t, m)
         IN  /\ Len(w) = Len(lead) + 2 + Len(es)
             /\ \A i \in 1..Len(lead) : w[i + 1] = LeadUnit(lead[i], m)
             /\ \A i \in 1..Len(es) : w[Len(lead) + 2 + i] = es[i]
  <1> DEFINE b == TypeKey(EncodeTypeKey(Schema[t].key))
             units == LeadUnits(t, m)
             h == MapOf(Len(Entries(t, m)))
             es == Entries(t, m)
             w == Encoding(t, m)
             n == Len(Schema[t].lead)
  <1>1. IsSeq(units) /\ Len(units) = n /\ IsSeq(es) /\ DOMAIN Schema[t].lead = 1..n
    BY EntriesIsSeq, LeadUnitsIsSeq, SchemaShape, IsSeqFacts DEF Shaped
  <1>2. w = << b >> \o units \o << h >> \o es
    BY DEF Encoding
  <1>3. \A i \in 1..n : units[i] = LeadUnit(Schema[t].lead[i], m)
    BY <1>1 DEF LeadUnits
  <1> HIDE DEF b, units, h, es, w, n
  <1>4. Len(w) = n + 2 + Len(es)
    BY <1>1, <1>2, Frame
  <1>5. /\ \A i \in 1..n : w[i + 1] = units[i]
        /\ \A i \in 1..Len(es) : w[n + 2 + i] = es[i]
    BY <1>1, <1>2, FrameContent
  <1> QED BY <1>3, <1>4, <1>5 DEF es, w, n

-----------------------------------------------------------------------------
(* Counting *)

(* Each key of the units of S is in T, and each of T is the key of a unit.  *)
Covers(k, S, T) == (\A i \in S : k[i] \in T) /\ \A q \in T : \E i \in S : k[i] = q

NoneTwice(k, S) == \A i, j \in S : k[i] = k[j] => i = j

(* No key is there twice just when there are as many places as keys.        *)
LEMMA AsMany ==
  ASSUME NEW S, NEW T, IsFiniteSet(S), IsFiniteSet(T), NEW k, Covers(k, S, T)
  PROVE  NoneTwice(k, S) <=> Cardinality(S) = Cardinality(T)
  <1> DEFINE f == [i \in S |-> k[i]]
  <1>1. f \in Surjection(S, T)
    BY DEF Surjection, Covers
  <1>2. ASSUME NoneTwice(k, S) PROVE Cardinality(S) = Cardinality(T)
    <2>1. f \in Injection(S, T)
      BY <1>2 DEF Injection, IsInjective, NoneTwice, Covers
    <2>2. ExistsBijection(S, T)
      BY <1>1, <2>1 DEF Bijection, ExistsBijection
    <2> QED BY <2>2, FS_Bijection
  <1>3. ASSUME Cardinality(S) = Cardinality(T) PROVE NoneTwice(k, S)
    <2>1. \A i \in S : f[i] = k[i]
      OBVIOUS
    <2> HIDE DEF f
    <2>2. f \in Injection(S, T)
      BY <1>1, <1>3, FS_SurjSameCardinalityImpliesInj
    <2> QED BY <2>1, <2>2 DEF Injection, IsInjective, NoneTwice
  <1> QED BY <1>2, <1>3

(* The places of a body of n units, the numbers below n, and all but one.   *)
LEMMA Sizes ==
  ASSUME NEW b \in Nat, NEW N \in Nat, b <= N
  PROVE  IsFiniteSet(b + 1..N) /\ Cardinality(b + 1..N) = N - b
  <1>1. b + 1 \in Int /\ N \in Int /\ (b + 1 > N => N - b = 0) /\ (N - (b + 1)) + 1 = N - b
    OBVIOUS
  <1>2. IsFiniteSet(b + 1..N) /\ Cardinality(b + 1..N) = IF b + 1 > N THEN 0 ELSE (N - (b + 1)) + 1
    BY <1>1, FS_Interval
  <1> QED BY <1>1, <1>2

(* There are n numbers below n, and one less without one of them.           *)
LEMMA SizesBelow ==
  ASSUME NEW n \in Nat
  PROVE  /\ IsFiniteSet(0..n - 1) /\ Cardinality(0..n - 1) = n
         /\ \A o \in 0..n - 1 : IsFiniteSet((0..n - 1) \ {o}) /\ Cardinality((0..n - 1) \ {o}) = n - 1
  <1>1. IsFiniteSet(0..n - 1) /\ Cardinality(0..n - 1) = n
    BY FS_Interval
  <1> QED BY <1>1, FS_RemoveElement

-----------------------------------------------------------------------------
(* What a decoder has made of the units it has read.  Everything here is   *)
(* about any stream w of a message of type t, the number p of the units    *)
(* read and the fields g.                                                  *)

BodyAt(t) == Len(Schema[t].lead) + 2

(* The places of field f that were read. *)
Read(t, w, p, f) == {i \in BodyAt(t) + 1..p : w[i].key = f.key}

(* A field that collects has all that was read, joined; it is empty before  *)
(* the first place and what this one says before the second.                *)
Collects(t, w, p, g, f) ==
  /\ f.name \in DOMAIN g
  /\ g[f.name] = Joined(w, BodyAt(t), f.key)[p]
  /\ IsSeq(g[f.name]) /\ ValueRead(f.kind, Item(f.kind, g[f.name]))
  /\ Read(t, w, p, f) = {} => g[f.name] = <<>>
  /\ \A i \in Read(t, w, p, f) : Read(t, w, p, f) = {i} => g[f.name] = w[i].item.v

(* Any other field has what the last place says. *)
Keeps(t, w, p, g, f) ==
  /\ Read(t, w, p, f) = {} => f.name \notin DOMAIN g
  /\ Read(t, w, p, f) # {} =>
       /\ f.name \in DOMAIN g
       /\ \E i \in Read(t, w, p, f) :
            g[f.name] = w[i].item.v /\ \A j \in Read(t, w, p, f) : j <= i

Held(t, w, p, g, f) == IF IsCollected(f) THEN Collects(t, w, p, g, f) ELSE Keeps(t, w, p, g, f)

(* A field before the body has what its only place says. *)
LeadHeld(t, w, p, g) ==
  \A i \in DOMAIN Schema[t].lead :
    LET l == Schema[t].lead[i] IN
    l.is = "field" =>
      /\ l.name \in DOMAIN g <=> i < p
      /\ i < p => g[l.name] = w[i + 1].item.v /\ ValueRead(l.kind, w[i + 1].item)

(* Everything that was read was an entry of one of the fields. *)
Understood(t, w, p) ==
  \A i \in BodyAt(t) + 1..p : \E f \in FieldsOf(t) :
    f.key = w[i].key /\ ValueRead(f.kind, w[i].item)

Contents(t, w, p, g) ==
  /\ g = [n \in DOMAIN g |-> g[n]]
  /\ \A f \in FieldsOf(t) : Held(t, w, p, g, f)
  /\ LeadHeld(t, w, p, g)
  /\ Understood(t, w, p)

(* The fields as Tables and Leads have them. *)
LEMMA TypeFacts ==
  ASSUME NEW t \in MessageType
  PROVE  /\ BodyAt(t) \in Nat /\ BodyAt(t) >= 2 /\ Len(Schema[t].lead) = BodyAt(t) - 2
         /\ DOMAIN Schema[t].lead = 1..BodyAt(t) - 2
         /\ \A f \in FieldsOf(t) : GoodField(f)
         /\ \A f, g \in FieldsOf(t) : f.key = g.key => f = g
         /\ \A f, g \in FieldsOf(t) : f.name = g.name => f = g
         /\ \A i, j \in DOMAIN Schema[t].lead :
              Schema[t].lead[i].is = "field" /\ Schema[t].lead[j].is = "field" => i = j
         /\ \A i \in DOMAIN Schema[t].lead, f \in FieldsOf(t) :
              Schema[t].lead[i].is = "field" => Schema[t].lead[i].name # f.name
  <1>1. BodyAt(t) \in Nat /\ BodyAt(t) >= 2 /\ Len(Schema[t].lead) = BodyAt(t) - 2
        /\ DOMAIN Schema[t].lead = 1..BodyAt(t) - 2
    BY SchemaShape, IsSeqFacts DEF Shaped, BodyAt
  <1>2. Required(0, "request_id", U64).name = "request_id"
    BY DEF Required, Field
  <1>3. \A i, j \in DOMAIN Schema[t].lead :
              Schema[t].lead[i].is = "field" /\ Schema[t].lead[j].is = "field" => i = j
    BY Leads
  <1>4. \A i \in DOMAIN Schema[t].lead, f \in FieldsOf(t) :
              Schema[t].lead[i].is = "field" => Schema[t].lead[i].name # f.name
    BY <1>2, Leads DEF FieldsOf
  <1> QED BY <1>1, <1>3, <1>4, FieldFacts DEF FieldsOf

(* The joined arrays from one unit to the next. *)
LEMMA JoinedStep ==
  ASSUME NEW w, Len(w) \in Nat, NEW b \in Nat, NEW key, NEW p \in 0..Len(w)
  PROVE  /\ p <= b => Joined(w, b, key)[p] = <<>>
         /\ b < p => Joined(w, b, key)[p] =
              IF w[p].key = key THEN Joined(w, b, key)[p - 1] \o w[p].item.v
                                ELSE Joined(w, b, key)[p - 1]
  <1> DEFINE J == Joined(w, b, key)
  <1>1. Joins(J, w, b, key)
    BY JoinedFacts
  <1> HIDE DEF J
  <1>2. J[p] = IF p <= b THEN <<>>
               ELSE IF w[p].key = key THEN J[p - 1] \o w[p].item.v
               ELSE J[p - 1]
    BY <1>1 DEF Joins
  <1> QED BY <1>2 DEF J

(* Nothing of the body has been read yet. *)
LEMMA ReadNothing ==
  ASSUME NEW t \in MessageType, NEW w, NEW p \in Nat, p <= BodyAt(t), NEW f
  PROVE  Read(t, w, p, f) = {}
  BY TypeFacts DEF Read

(* A field has the same before and after a step that does not concern it,   *)
(* be it in front of the body or within it.                                 *)
LEMMA HeldKept ==
  ASSUME NEW t \in MessageType, NEW w, Len(w) \in Nat, NEW p \in Nat, p < Len(w), NEW g, NEW h,
         NEW f, Held(t, w, p, g, f),
         p + 1 <= BodyAt(t) \/ w[p + 1].key # f.key,
         f.name \in DOMAIN h <=> f.name \in DOMAIN g,
         f.name \in DOMAIN g => h[f.name] = g[f.name]
  PROVE  Held(t, w, p + 1, h, f)
  <1>1. BodyAt(t) \in Nat
    BY TypeFacts
  <1>2. Read(t, w, p + 1, f) = Read(t, w, p, f)
    <2>1. \A i \in BodyAt(t) + 1..p + 1 : i = p + 1 \/ i \in BodyAt(t) + 1..p
      BY <1>1
    <2>2. \A i \in BodyAt(t) + 1..p : i \in BodyAt(t) + 1..p + 1
      BY <1>1
    <2>3. p + 1 \notin BodyAt(t) + 1..p + 1 \/ w[p + 1].key # f.key
      BY <1>1
    <2> QED BY <2>1, <2>2, <2>3 DEF Read
  <1>3. Joined(w, BodyAt(t), f.key)[p + 1] = Joined(w, BodyAt(t), f.key)[p]
    <2>1. p \in 0..Len(w) /\ p + 1 \in 0..Len(w) /\ (p + 1) - 1 = p
      OBVIOUS
    <2>2. CASE p + 1 <= BodyAt(t)
      BY <1>1, <2>1, <2>2, JoinedStep
    <2>3. CASE ~(p + 1 <= BodyAt(t))
      BY <1>1, <2>1, <2>3, JoinedStep
    <2> QED BY <2>2, <2>3
  <1>4. CASE IsCollected(f)
    BY <1>2, <1>3, <1>4 DEF Held, Collects
  <1>5. CASE ~IsCollected(f)
    BY <1>2, <1>5 DEF Held, Keeps
  <1> QED BY <1>4, <1>5

(* Before the first unit of a message is read there are only the empty Vecs *)
(* that collect.                                                            *)
LEMMA ContentsBegin ==
  ASSUME NEW t \in MessageType, NEW w, Len(w) \in Nat, Len(w) >= 1
  PROVE  Contents(t, w, 1, [n \in Collections(t) |-> <<>>])
  <1> DEFINE g == [n \in Collections(t) |-> <<>>]
  <1>1. DOMAIN g = Collections(t) /\ \A n \in Collections(t) : g[n] = <<>>
    OBVIOUS
  <1>2. g = [n \in DOMAIN g |-> g[n]]
    BY <1>1
  <1> HIDE DEF g
  <1>3. BodyAt(t) \in Nat /\ 1 <= BodyAt(t) /\ 1 \in 0..Len(w)
    BY TypeFacts
  <1>4. ASSUME NEW f \in FieldsOf(t) PROVE Held(t, w, 1, g, f)
    <2>1. Read(t, w, 1, f) = {}
      BY <1>3, ReadNothing
    <2>2. CASE IsCollected(f)
      <3>1. f.name \in Collections(t)
        BY <2>2 DEF Collections, FieldsOf
      <3>2. f.kind.is = "array" /\ 0 \in f.kind.sizes
        <4>1. GoodField(f)
          BY TypeFacts
        <4> QED BY <2>2, <4>1 DEF GoodField, GoodKind, Composite
      <3>3. Joined(w, BodyAt(t), f.key)[1] = <<>>
        <4>1. PICK b \in Nat : b = BodyAt(t) /\ 1 <= b
          BY <1>3
        <4>2. \A p \in 0..Len(w) : p <= b => Joined(w, b, f.key)[p] = <<>>
          BY <4>1, JoinedStep
        <4> QED BY <1>3, <4>1, <4>2
      <3> QED BY <1>1, <2>1, <2>2, <3>1, <3>2, <3>3, EmptyRead DEF Held, Collects
    <2>3. CASE ~IsCollected(f)
      <3>1. f.name \notin Collections(t)
        BY <2>3, TypeFacts DEF Collections, FieldsOf
      <3> QED BY <1>1, <2>1, <2>3, <3>1 DEF Held, Keeps
    <2> QED BY <2>2, <2>3
  <1>5. LeadHeld(t, w, 1, g)
    <2> SUFFICES ASSUME NEW i \in DOMAIN Schema[t].lead, Schema[t].lead[i].is = "field"
                 PROVE  Schema[t].lead[i].name \notin DOMAIN g /\ ~(i < 1)
      BY DEF LeadHeld
    <2>1. Schema[t].lead[i].name \notin Collections(t)
      BY TypeFacts DEF Collections, FieldsOf
    <2>2. ~(i < 1)
      BY TypeFacts
    <2> QED BY <1>1, <2>1, <2>2
  <1>6. Understood(t, w, 1)
    BY <1>3 DEF Understood
  <1> QED BY <1>2, <1>4, <1>5, <1>6 DEF Contents, g

-----------------------------------------------------------------------------
(* The steps of a decoder *)

(* A unit in front of the body. *)
LEMMA ContentsLead ==
  ASSUME NEW t \in MessageType, NEW w, Len(w) \in Nat, NEW p \in DOMAIN Schema[t].lead, p < Len(w),
         NEW g, NEW h, Contents(t, w, p, g),
         Schema[t].lead[p].is # "field" => h = g,
         Schema[t].lead[p].is = "field" =>
           /\ h = With(g, Schema[t].lead[p].name, w[p + 1].item.v)
           /\ ValueRead(Schema[t].lead[p].kind, w[p + 1].item)
  PROVE  Contents(t, w, p + 1, h)
  <1> DEFINE l == Schema[t].lead[p]
  <1>0. PICK b \in Nat : b = BodyAt(t) /\ p \in 1..b - 2
    BY TypeFacts
  <1>1. p \in Nat /\ p + 1 <= b
    BY <1>0
  <1>2. /\ h = [n \in DOMAIN h |-> h[n]]
        /\ \A n : l.is # "field" \/ n # l.name => (n \in DOMAIN h <=> n \in DOMAIN g) /\ (n \in DOMAIN g => h[n] = g[n])
        /\ l.is = "field" => l.name \in DOMAIN h /\ h[l.name] = w[p + 1].item.v
    <2>1. CASE l.is # "field"
      BY <2>1 DEF Contents
    <2>2. CASE l.is = "field"
      <3>1. PICK nm, v : nm = l.name /\ v = w[p + 1].item.v
        OBVIOUS
      <3>2. h = [n \in DOMAIN g \cup {nm} |-> IF n = nm THEN v ELSE g[n]]
        BY <2>2, <3>1 DEF With
      <3>3. /\ h = [n \in DOMAIN h |-> h[n]]
            /\ \A n : n # nm => (n \in DOMAIN h <=> n \in DOMAIN g) /\ (n \in DOMAIN g => h[n] = g[n])
            /\ nm \in DOMAIN h /\ h[nm] = v
        BY ONLY <3>2
      <3> QED BY <2>2, <3>1, <3>3
    <2> QED BY <2>1, <2>2
  <1>3. ASSUME NEW f \in FieldsOf(t) PROVE Held(t, w, p + 1, h, f)
    <2>1. Held(t, w, p, g, f)
      BY DEF Contents
    <2>2. l.is = "field" => l.name # f.name
      BY TypeFacts
    <2>3. /\ f.name \in DOMAIN h <=> f.name \in DOMAIN g
          /\ f.name \in DOMAIN g => h[f.name] = g[f.name]
      BY <1>2, <2>2
    <2> HIDE DEF l
    <2> QED BY <1>0, <1>1, <2>1, <2>3, HeldKept
  <1>4. LeadHeld(t, w, p + 1, h)
    <2> SUFFICES ASSUME NEW i \in DOMAIN Schema[t].lead, Schema[t].lead[i].is = "field"
                 PROVE  /\ Schema[t].lead[i].name \in DOMAIN h <=> i < p + 1
                        /\ i < p + 1 => h[Schema[t].lead[i].name] = w[i + 1].item.v
                                        /\ ValueRead(Schema[t].lead[i].kind, w[i + 1].item)
      BY DEF LeadHeld
    <2>1. CASE l.is = "field"
      <3>1. i = p
        BY <2>1, TypeFacts
      <3>2. i < p + 1
        BY <1>1, <3>1
      <3> QED BY <1>2, <2>1, <3>1, <3>2
    <2>2. CASE l.is # "field"
      <3>1. i \in Nat /\ i # p
        BY <2>2, TypeFacts
      <3>2. i < p + 1 <=> i < p
        BY <1>1, <3>1
      <3>3. h = g
        BY <2>2
      <3>4. LeadHeld(t, w, p, g)
        BY DEF Contents
      <3>5. /\ Schema[t].lead[i].name \in DOMAIN g <=> i < p
            /\ i < p => g[Schema[t].lead[i].name] = w[i + 1].item.v /\ ValueRead(Schema[t].lead[i].kind, w[i + 1].item)
        BY <3>4 DEF LeadHeld
      <3> QED BY <3>2, <3>3, <3>5
    <2> QED BY <2>1, <2>2
  <1>5. Understood(t, w, p + 1)
    <2>1. b + 1..p + 1 = {}
      BY <1>0, <1>1
    <2> QED BY <1>0, <2>1 DEF Understood
  <1> QED BY <1>2, <1>3, <1>4, <1>5 DEF Contents

(* The head of the body's map. *)
LEMMA ContentsMap ==
  ASSUME NEW t \in MessageType, NEW w, Len(w) \in Nat, NEW p, p = Len(Schema[t].lead) + 1, p < Len(w),
         NEW g, Contents(t, w, p, g)
  PROVE  Contents(t, w, p + 1, g)
  <1>0. PICK b \in Nat : b = BodyAt(t) /\ p = b - 1 /\ b >= 2 /\ DOMAIN Schema[t].lead = 1..b - 2
    BY TypeFacts
  <1>1. p \in Nat /\ p + 1 <= b
    BY <1>0
  <1>2. ASSUME NEW f \in FieldsOf(t) PROVE Held(t, w, p + 1, g, f)
    <2>1. Held(t, w, p, g, f)
      BY DEF Contents
    <2> QED BY <1>0, <1>1, <2>1, HeldKept
  <1>3. LeadHeld(t, w, p + 1, g)
    <2>1. \A i \in DOMAIN Schema[t].lead : i < p + 1 /\ i < p
      BY <1>0
    <2>2. LeadHeld(t, w, p, g)
      BY DEF Contents
    <2> QED BY <2>1, <2>2 DEF LeadHeld
  <1>4. Understood(t, w, p + 1)
    <2>1. b + 1..p + 1 = {}
      BY <1>0, <1>1
    <2> QED BY <1>0, <2>1 DEF Understood
  <1> QED BY <1>2, <1>3, <1>4 DEF Contents

(* An entry that a field of the loop takes. *)
TakenBy(f, g, u) ==
  f.key = u.key /\ ValueRead(f.kind, u.item) /\ Fits(f, g, u.item)

(* An array more that is joined. *)
LEMMA JoinedMore ==
  ASSUME NEW t \in MessageType, NEW w, Len(w) \in Nat, NEW p \in Nat, p >= BodyAt(t), p < Len(w),
         NEW f, w[p + 1].key = f.key
  PROVE  Joined(w, BodyAt(t), f.key)[p + 1] = Joined(w, BodyAt(t), f.key)[p] \o w[p + 1].item.v
  <1>1. PICK b \in Nat : b = BodyAt(t)
    BY TypeFacts
  <1>2. PICK q \in 0..Len(w) : q = p + 1 /\ q - 1 = p /\ b < q
    BY <1>1
  <1>3. PICK k : k = f.key
    OBVIOUS
  <1>4. b < q => Joined(w, b, k)[q] =
              IF w[q].key = k THEN Joined(w, b, k)[q - 1] \o w[q].item.v
                              ELSE Joined(w, b, k)[q - 1]
    BY JoinedStep
  <1> QED BY <1>1, <1>2, <1>3, <1>4

(* The field that an entry is taken for holds what the entry says.          *)
LEMMA HeldTaken ==
  ASSUME NEW t \in MessageType, NEW w, Len(w) \in Nat, NEW p \in Nat, p >= BodyAt(t), p < Len(w),
         NEW f \in FieldsOf(t), NEW g, NEW h, Held(t, w, p, g, f),
         TakenBy(f, g, w[p + 1]), IsEntry(w[p + 1]),
         f.name \in DOMAIN h,
         h[f.name] = IF IsCollected(f) THEN g[f.name] \o w[p + 1].item.v ELSE w[p + 1].item.v
  PROVE  Held(t, w, p + 1, h, f)
  <1>0. PICK b \in Nat : b = BodyAt(t) /\ p >= b
    BY TypeFacts
  <1>1. PICK R : R = Read(t, w, p, f)
    OBVIOUS
  <1>2. R \subseteq b + 1..p /\ p + 1 \notin R /\ R \cup {p + 1} # {}
    BY <1>0, <1>1 DEF Read
  <1>3. Read(t, w, p + 1, f) = R \cup {p + 1}
    <2>1. \A i : i \in b + 1..p + 1 <=> i = p + 1 \/ i \in b + 1..p
      BY <1>0
    <2>2. w[p + 1].key = f.key
      BY DEF TakenBy
    <2> QED BY <1>0, <1>1, <2>1, <2>2 DEF Read
  <1>4. CASE IsCollected(f)
    <2>1. /\ f.name \in DOMAIN g
          /\ g[f.name] = Joined(w, b, f.key)[p]
          /\ IsSeq(g[f.name]) /\ ValueRead(f.kind, Item(f.kind, g[f.name]))
          /\ R = {} => g[f.name] = <<>>
      BY <1>0, <1>1, <1>4 DEF Held, Collects
    <2>2. f.kind.is = "array"
      BY <1>4, TypeFacts DEF GoodField
    <2>3. ValueRead(f.kind, w[p + 1].item) /\ Len(g[f.name]) + Len(w[p + 1].item.v) \in f.kind.sizes
      BY <1>4 DEF TakenBy, Fits
    <2>4. IsSeq(w[p + 1].item.v)
      BY <2>2, <2>3 DEF ValueRead, Composite, IsEntry
    <2>5. /\ ValueRead(f.kind, Item(f.kind, g[f.name] \o w[p + 1].item.v))
          /\ IsSeq(g[f.name] \o w[p + 1].item.v)
      BY <2>1, <2>2, <2>3, <2>4, JoinedRead
    <2>6. h[f.name] = g[f.name] \o w[p + 1].item.v
      BY <1>4
    <2>7. h[f.name] = Joined(w, b, f.key)[p + 1]
      <3>1. w[p + 1].key = f.key
        BY DEF TakenBy
      <3>2. Joined(w, BodyAt(t), f.key)[p + 1] = Joined(w, BodyAt(t), f.key)[p] \o w[p + 1].item.v
        BY <3>1, JoinedMore
      <3> QED BY <1>0, <2>1, <2>6, <3>2
    <2>8. \A i : R \cup {p + 1} = {i} => h[f.name] = w[i].item.v
      <3> SUFFICES ASSUME NEW i, R \cup {p + 1} = {i} PROVE h[f.name] = w[i].item.v
        OBVIOUS
      <3>1. i = p + 1 /\ R = {}
        BY <1>2
      <3> QED BY <2>1, <2>4, <2>6, <3>1, EmptyConcat
    <2> QED BY <1>0, <1>2, <1>3, <1>4, <2>5, <2>6, <2>7, <2>8 DEF Held, Collects
  <1>5. CASE ~IsCollected(f)
    <2>1. h[f.name] = w[p + 1].item.v
      BY <1>5
    <2>2. \A j \in R \cup {p + 1} : j <= p + 1
      BY <1>0, <1>2
    <2> QED BY <1>2, <1>3, <1>5, <2>1, <2>2 DEF Held, Keeps
  <1> QED BY <1>4, <1>5

(* An entry of the body.                                                    *)
LEMMA ContentsEntry ==
  ASSUME NEW t \in MessageType, NEW w, Len(w) \in Nat, NEW p \in Nat, p >= BodyAt(t), p < Len(w),
         NEW f \in FieldsOf(t), NEW g, Contents(t, w, p, g),
         TakenBy(f, g, w[p + 1]), IsEntry(w[p + 1])
  PROVE  Contents(t, w, p + 1, Keep(f, g, w[p + 1].item))
  <1>0. PICK b \in Nat : b = BodyAt(t) /\ b >= 2 /\ p >= b /\ DOMAIN Schema[t].lead = 1..b - 2
    BY TypeFacts
  <1>1. PICK h : h = Keep(f, g, w[p + 1].item)
    OBVIOUS
  <1>2. /\ h = [n \in DOMAIN h |-> h[n]]
        /\ \A n : n # f.name => (n \in DOMAIN h <=> n \in DOMAIN g) /\ (n \in DOMAIN g => h[n] = g[n])
        /\ f.name \in DOMAIN h
        /\ h[f.name] = IF IsCollected(f) THEN g[f.name] \o w[p + 1].item.v ELSE w[p + 1].item.v
    <2>1. PICK nm, v : nm = f.name
              /\ v = IF IsCollected(f) THEN g[f.name] \o w[p + 1].item.v ELSE w[p + 1].item.v
      OBVIOUS
    <2>2. h = [n \in DOMAIN g \cup {nm} |-> IF n = nm THEN v ELSE g[n]]
      BY <1>1, <2>1 DEF Keep, With
    <2>3. /\ h = [n \in DOMAIN h |-> h[n]]
          /\ \A n : n # nm => (n \in DOMAIN h <=> n \in DOMAIN g) /\ (n \in DOMAIN g => h[n] = g[n])
          /\ nm \in DOMAIN h /\ h[nm] = v
      BY <2>2
    <2> QED BY <2>1, <2>3
  <1>3. ASSUME NEW k \in FieldsOf(t) PROVE Held(t, w, p + 1, h, k)
    <2>1. Held(t, w, p, g, k)
      BY DEF Contents
    <2>2. CASE k = f
      BY <1>2, <2>1, <2>2, HeldTaken
    <2>3. CASE k # f
      <3>1. k.name # f.name /\ w[p + 1].key # k.key
        BY <2>3, TypeFacts DEF TakenBy
      <3>2. /\ k.name \in DOMAIN h <=> k.name \in DOMAIN g
            /\ k.name \in DOMAIN g => h[k.name] = g[k.name]
        BY <1>2, <3>1
      <3> QED BY <2>1, <3>1, <3>2, HeldKept
    <2> QED BY <2>2, <2>3
  <1>4. LeadHeld(t, w, p + 1, h)
    <2>1. LeadHeld(t, w, p, g)
      BY DEF Contents
    <2>2. \A i \in DOMAIN Schema[t].lead : i < p + 1 /\ i < p
      BY <1>0
    <2>3. \A i \in DOMAIN Schema[t].lead : Schema[t].lead[i].is = "field" => Schema[t].lead[i].name # f.name
      BY TypeFacts
    <2> QED BY <1>2, <2>1, <2>2, <2>3 DEF LeadHeld
  <1>5. Understood(t, w, p + 1)
    <2>1. Understood(t, w, p)
      BY DEF Contents
    <2>2. \A i : i \in b + 1..p + 1 => i = p + 1 \/ i \in b + 1..p
      BY <1>0
    <2>3. f.key = w[p + 1].key /\ ValueRead(f.kind, w[p + 1].item)
      BY DEF TakenBy
    <2> QED BY <1>0, <2>1, <2>2, <2>3 DEF Understood
  <1>6. Contents(t, w, p + 1, h)
    BY <1>2, <1>3, <1>4, <1>5 DEF Contents
  <1> QED BY <1>1, <1>6

-----------------------------------------------------------------------------
(* What a decoder has at the end *)

(* What was read of a field that is not joined is what the decoder takes    *)
(* for it.                                                                  *)
LEMMA ReadIsTaken ==
  ASSUME NEW t \in MessageType, NEW w, NEW p, Understood(t, w, p),
         NEW f \in FieldsOf(t), NEW i \in Read(t, w, p, f)
  PROVE  ValueRead(f.kind, w[i].item)
  <1>1. i \in BodyAt(t) + 1..p /\ w[i].key = f.key
    BY DEF Read
  <1>2. PICK k \in FieldsOf(t) : k.key = w[i].key /\ ValueRead(k.kind, w[i].item)
    BY <1>1 DEF Understood
  <1>3. k = f
    BY <1>1, <1>2, TypeFacts
  <1> QED BY <1>2, <1>3

(* What was read of a message to its end is within the limits.              *)
LEMMA ContentsInLimits ==
  ASSUME NEW t \in MessageType, NEW w, NEW p, NEW g, Contents(t, w, p, g),
         NEW f \in AllFields(t), f.name \in DOMAIN g
  PROVE  ValueRead(f.kind, Item(f.kind, g[f.name]))
  <1>1. CASE f \in FieldsOf(t)
    <2>1. Held(t, w, p, g, f) /\ Understood(t, w, p)
      BY <1>1 DEF Contents
    <2>2. CASE IsCollected(f)
      BY <2>1, <2>2 DEF Held, Collects
    <2>3. CASE ~IsCollected(f)
      <3>1. PICK i \in Read(t, w, p, f) : g[f.name] = w[i].item.v
        BY <2>1, <2>3 DEF Held, Keeps
      <3>2. ValueRead(f.kind, w[i].item)
        BY <1>1, <2>1, ReadIsTaken
      <3> QED BY <3>1, <3>2, ReadAgain
    <2> QED BY <2>2, <2>3
  <1>2. CASE f \notin FieldsOf(t)
    <2>1. PICK i \in DOMAIN Schema[t].lead : f = Schema[t].lead[i] /\ f.is = "field"
      BY <1>2 DEF AllFields, FieldsOf, ToSet
    <2>2. LeadHeld(t, w, p, g)
      BY DEF Contents
    <2>3. g[f.name] = w[i + 1].item.v /\ ValueRead(f.kind, w[i + 1].item)
      BY <2>1, <2>2 DEF LeadHeld
    <2> QED BY <2>3, ReadAgain
  <1> QED BY <1>1, <1>2

(* The last place counts. *)
LEMMA ContentsLast ==
  ASSUME NEW t \in MessageType, NEW w, Len(w) \in Nat, NEW g, Contents(t, w, Len(w), g), NEW f \in FieldsOf(t)
  PROVE  IF IsCollected(f) THEN g[f.name] = Joined(w, BodyAt(t), f.key)[Len(w)]
         ELSE IF Read(t, w, Len(w), f) = {} THEN f.name \notin DOMAIN g
         ELSE f.name \in DOMAIN g /\ g[f.name] = w[Most(Read(t, w, Len(w), f))].item.v
  <1>1. Held(t, w, Len(w), g, f)
    BY DEF Contents
  <1>2. CASE IsCollected(f)
    BY <1>1, <1>2 DEF Held, Collects
  <1>3. CASE ~IsCollected(f) /\ Read(t, w, Len(w), f) = {}
    BY <1>1, <1>3 DEF Held, Keeps
  <1>4. CASE ~IsCollected(f) /\ Read(t, w, Len(w), f) # {}
    <2>1. PICK R : R = Read(t, w, Len(w), f)
      OBVIOUS
    <2>2. R \subseteq Int
      BY <2>1, TypeFacts DEF Read
    <2>3. PICK i \in R : f.name \in DOMAIN g /\ g[f.name] = w[i].item.v /\ \A j \in R : j <= i
      BY <1>1, <1>4, <2>1 DEF Held, Keeps
    <2>4. Most(R) = i
      <3>1. Most(R) \in R /\ \A k \in R : k <= Most(R)
        BY <2>3 DEF Most
      <3>2. PICK m : m = Most(R)
        OBVIOUS
      <3>3. m \in R /\ m \in Int /\ i \in Int /\ m <= i /\ i <= m
        BY <2>2, <2>3, <3>1, <3>2
      <3>4. m = i
        BY ONLY <3>3
      <3> QED BY <3>2, <3>4
    <2> QED BY <1>4, <2>1, <2>3, <2>4
  <1> QED BY <1>2, <1>3, <1>4

(* The keys that were read are the numbers of fields. *)
LEMMA KeysRead ==
  ASSUME NEW t \in MessageType, NEW w, NEW p, Understood(t, w, p), NEW i \in BodyAt(t) + 1..p
  PROVE  w[i].key \in 0..Len(Schema[t].fields) - 1
  <1>1. PICK k \in FieldsOf(t) : k.key = w[i].key
    BY DEF Understood
  <1>2. PICK j \in DOMAIN Schema[t].fields : k.key = j - 1
    BY FieldFacts DEF FieldsOf
  <1>3. DOMAIN Schema[t].fields = 1..Len(Schema[t].fields) /\ Len(Schema[t].fields) \in Nat
    BY FieldFacts
  <1> QED BY <1>1, <1>2, <1>3

(* Every number below the number of fields is the key of one. *)
LEMMA KeysOfFields ==
  ASSUME NEW t \in MessageType, NEW q \in 0..Len(Schema[t].fields) - 1
  PROVE  \E f \in FieldsOf(t) : f.key = q
  <1>1. PICK i \in 1..Len(Schema[t].fields) : i = q + 1
    BY FieldFacts
  <1>2. PICK f : f = Schema[t].fields[i]
    OBVIOUS
  <1>3. f.key = i - 1
    BY <1>2, FieldFacts, Tables DEF Tabled
  <1>4. f \in FieldsOf(t)
    BY <1>2, FieldFacts DEF FieldsOf, ToSet
  <1> QED BY <1>1, <1>3, <1>4

(* Where nothing may be missing each field was there exactly once. *)
LEMMA ContentsOnce ==
  ASSUME NEW t \in MessageType, NEW w, Len(w) \in Nat, Len(w) >= BodyAt(t), NEW g, Contents(t, w, Len(w), g),
         Len(w) - BodyAt(t) \in Schema[t].counts, RequiredNames(t) \subseteq DOMAIN g,
         \A f \in FieldsOf(t) : f.treat = "required",
         NEW f \in FieldsOf(t)
  PROVE  \E i \in 1..Len(w) : Read(t, w, Len(w), f) = {i}
  <1>1. PICK b \in Nat : b = BodyAt(t) /\ b <= Len(w)
    BY TypeFacts
  <1>2. PICK n \in Nat : n = Len(Schema[t].fields)
    BY FieldFacts
  <1>3. Len(w) - b = n
    <2>1. \A i \in DOMAIN Schema[t].fields : Schema[t].fields[i].treat = "required"
      BY DEF FieldsOf, ToSet
    <2>2. Schema[t].counts = {n}
      BY <1>2, <2>1, Tables DEF Tabled
    <2> QED BY <1>1, <2>2
  <1>4. ASSUME NEW k \in FieldsOf(t) PROVE Read(t, w, Len(w), k) # {}
    <2>1. k.name \in DOMAIN g /\ ~IsCollected(k)
      BY DEF RequiredNames, FieldsOf, IsCollected
    <2>2. Held(t, w, Len(w), g, k)
      BY DEF Contents
    <2> QED BY <2>1, <2>2 DEF Held, Keeps
  <1>5. PICK k : k = [i \in b + 1..Len(w) |-> w[i].key]
    OBVIOUS
  <1>6. \A i \in b + 1..Len(w) : k[i] = w[i].key
    BY <1>5
  <1>7. \A i \in b + 1..Len(w) : k[i] \in 0..n - 1
    <2>1. Understood(t, w, Len(w))
      BY DEF Contents
    <2> QED BY <1>1, <1>2, <1>6, <2>1, KeysRead
  <1>8. \A q \in 0..n - 1 : \E i \in b + 1..Len(w) : k[i] = q
    <2> SUFFICES ASSUME NEW q \in 0..n - 1 PROVE \E i \in b + 1..Len(w) : k[i] = q
      OBVIOUS
    <2>1. PICK e \in FieldsOf(t) : e.key = q
      BY <1>2, KeysOfFields
    <2>2. PICK i \in b + 1..Len(w) : w[i].key = q
      BY <1>1, <1>4, <2>1 DEF Read
    <2> QED BY <1>6, <2>2
  <1>9. NoneTwice(k, b + 1..Len(w))
    <2>1. Covers(k, b + 1..Len(w), 0..n - 1)
      BY <1>7, <1>8 DEF Covers
    <2>2. /\ IsFiniteSet(b + 1..Len(w)) /\ Cardinality(b + 1..Len(w)) = n
          /\ IsFiniteSet(0..n - 1) /\ Cardinality(0..n - 1) = n
      BY <1>1, <1>3, Sizes, SizesBelow
    <2> QED BY <2>1, <2>2, AsMany
  <1>10. PICK i \in Read(t, w, Len(w), f) : TRUE
    BY <1>4
  <1>11. Read(t, w, Len(w), f) = {i} /\ i \in b + 1..Len(w)
    BY <1>1, <1>6, <1>9, <1>10 DEF Read, NoneTwice
  <1>12. i \in 1..Len(w)
    BY <1>1, <1>11
  <1> QED BY <1>11, <1>12

-----------------------------------------------------------------------------
(* What this code sends *)

(* Where the encoder puts the fields of the body. *)
LEMMA EncodingBody ==
  ASSUME NEW t \in MessageType, NEW m
  PROVE  LET w == Encoding(t, m) IN
         /\ Len(w) \in Nat /\ Len(w) >= BodyAt(t) /\ Len(w) - BodyAt(t) \in Schema[t].counts
         /\ \A i \in BodyAt(t) + 1..Len(w) :
              \E f \in FieldsOf(t) : Written(f, m) /\ w[i] = EntryOf(f, m)
         /\ \A f \in FieldsOf(t) : Written(f, m) => \E i \in BodyAt(t) + 1..Len(w) : w[i] = EntryOf(f, m)
         /\ \A i, j \in BodyAt(t) + 1..Len(w) : w[i].key = w[j].key => i = j
  <1>1. PICK w, es : w = Encoding(t, m) /\ es = Entries(t, m)
    OBVIOUS
  <1>2. PICK b \in Nat : b = BodyAt(t) /\ b = Len(Schema[t].lead) + 2
    BY TypeFacts DEF BodyAt
  <1>3. /\ Len(es) \in Nat /\ Len(es) \in Schema[t].counts
        /\ \A j \in 1..Len(es) : \E f \in FieldsOf(t) : Written(f, m) /\ es[j] = EntryOf(f, m)
        /\ \A f \in FieldsOf(t) : Written(f, m) => \E j \in 1..Len(es) : es[j] = EntryOf(f, m)
        /\ \A j, k \in 1..Len(es) : es[j].key = es[k].key => j = k
    <2>1. SayOnce(es, t, m)
      BY <1>1, EntriesFacts
    <2> QED BY <2>1 DEF SayOnce
  <1>4. Len(w) = b + Len(es) /\ \A j \in 1..Len(es) : w[b + j] = es[j]
    BY <1>1, <1>2, EncodingFacts
  <1>5. PICK n \in Nat : n = Len(es) /\ Len(w) = b + n
    <2>1. Len(es) \in Nat
      BY <1>3
    <2>2. Len(w) = b + Len(es)
      BY <1>4
    <2> QED BY <2>1, <2>2
  <1>6. \A i \in b + 1..Len(w) : \E j \in 1..n : i = b + j /\ w[i] = es[j]
    <2> SUFFICES ASSUME NEW i \in b + 1..Len(w) PROVE \E j \in 1..n : i = b + j /\ w[i] = es[j]
      OBVIOUS
    <2>1. PICK j \in 1..n : i = b + j
      <3>1. i - b \in 1..n /\ i = b + (i - b)
        BY <1>5
      <3> QED BY <3>1
    <2> QED BY <1>4, <1>5, <2>1
  <1>7. \A j \in 1..n : b + j \in b + 1..Len(w) /\ w[b + j] = es[j]
    BY <1>4, <1>5
  <1>8. Len(w) \in Nat /\ Len(w) >= b /\ Len(w) - b \in Schema[t].counts
    <2>1. Len(w) - b = n
      BY <1>5
    <2> QED BY <1>3, <1>5, <2>1
  <1>9. \A i \in b + 1..Len(w) : \E f \in FieldsOf(t) : Written(f, m) /\ w[i] = EntryOf(f, m)
    BY <1>3, <1>5, <1>6
  <1>10. \A f \in FieldsOf(t) : Written(f, m) => \E i \in b + 1..Len(w) : w[i] = EntryOf(f, m)
    BY <1>3, <1>5, <1>7
  <1>11. \A i, j \in b + 1..Len(w) : w[i].key = w[j].key => i = j
    <2> SUFFICES ASSUME NEW i \in b + 1..Len(w), NEW j \in b + 1..Len(w), w[i].key = w[j].key PROVE i = j
      OBVIOUS
    <2>1. PICK a \in 1..n : i = b + a /\ w[i] = es[a]
      BY <1>6
    <2>2. PICK c \in 1..n : j = b + c /\ w[j] = es[c]
      BY <1>6
    <2>3. a = c
      BY <1>3, <1>5, <2>1, <2>2
    <2> QED BY <2>1, <2>2, <2>3
  <1>12. b = BodyAt(t) /\ w = Encoding(t, m)
    BY <1>1, <1>2
  <1> QED BY ONLY <1>8, <1>9, <1>10, <1>11, <1>12

(* The parts of the entry of a field.                                       *)
LEMMA EntryParts ==
  ASSUME NEW f, NEW m
  PROVE  EntryOf(f, m).key = f.key /\ EntryOf(f, m).item.v = m[f.name] /\ EntryOf(f, m).is = "entry"
  <1>1. \A kind, v : Item(kind, v).v = v
    BY DEF Item
  <1> QED BY <1>1 DEF EntryOf, Entry

(* In an encoding each field that is written has one place, and no other    *)
(* has any.                                                                 *)
LEMMA EncodingPlaces ==
  ASSUME NEW t \in MessageType, NEW m, NEW w, w = Encoding(t, m), NEW f \in FieldsOf(t)
  PROVE  /\ Written(f, m) => \E i : Read(t, w, Len(w), f) = {i} /\ w[i].item.v = m[f.name]
         /\ ~Written(f, m) => Read(t, w, Len(w), f) = {}
  <1>1. PICK S : S = BodyAt(t) + 1..Len(w)
    OBVIOUS
  <1>2. /\ \A i \in S : \E k \in FieldsOf(t) : Written(k, m) /\ w[i] = EntryOf(k, m)
        /\ \A k \in FieldsOf(t) : Written(k, m) => \E i \in S : w[i] = EntryOf(k, m)
        /\ \A i, j \in S : w[i].key = w[j].key => i = j
    BY <1>1, EncodingBody
  <1>3. Read(t, w, Len(w), f) = {i \in S : w[i].key = f.key}
    BY <1>1 DEF Read
  <1>4. ASSUME Written(f, m)
        PROVE  \E i : Read(t, w, Len(w), f) = {i} /\ w[i].item.v = m[f.name]
    <2>1. PICK i \in S : w[i] = EntryOf(f, m)
      BY <1>2, <1>4
    <2>2. w[i].key = f.key /\ w[i].item.v = m[f.name]
      BY <2>1, EntryParts
    <2>3. Read(t, w, Len(w), f) = {i}
      BY <1>2, <1>3, <2>2
    <2> QED BY <2>2, <2>3
  <1>5. ASSUME ~Written(f, m), NEW i \in Read(t, w, Len(w), f) PROVE FALSE
    <2>1. PICK k \in FieldsOf(t) : Written(k, m) /\ w[i] = EntryOf(k, m)
      BY <1>2, <1>3
    <2>2. k.key = f.key
      BY <1>3, <2>1, EntryParts
    <2>3. k = f
      BY <2>2, TypeFacts
    <2> QED BY <1>5, <2>1, <2>3
  <1> QED BY <1>4, <1>5

(* What this code encodes comes back as it was. *)
LEMMA RoundTrip ==
  ASSUME NEW t \in MessageType, NEW m \in Messages(t), NEW w, w = Encoding(t, m),
         NEW g, Contents(t, w, Len(w), g), DOMAIN g \subseteq FieldNames(t)
  PROVE  g = m
  <1>1. /\ m = [n \in DOMAIN m |-> m[n]]
        /\ DOMAIN m \subseteq FieldNames(t)
        /\ \A f \in AllFields(t) : f.treat # "optional" => f.name \in DOMAIN m
    BY MessageFacts
  <1>2. Len(w) \in Nat /\ Len(w) >= BodyAt(t)
    BY EncodingBody
  <1>3. ASSUME NEW f \in FieldsOf(t)
        PROVE  (f.name \in DOMAIN g <=> f.name \in DOMAIN m) /\ (f.name \in DOMAIN g => g[f.name] = m[f.name])
    <2>1. PICK R : R = Read(t, w, Len(w), f)
      OBVIOUS
    <2>2. /\ Written(f, m) => \E i : R = {i} /\ w[i].item.v = m[f.name]
          /\ ~Written(f, m) => R = {}
      BY <2>1, EncodingPlaces
    <2>3. f.treat # "optional" => f.name \in DOMAIN m
      BY <1>1 DEF AllFields, FieldsOf
    <2>4. Held(t, w, Len(w), g, f)
      BY DEF Contents
    <2>5. f.treat \in {"required", "optional", "collected", "sparse"}
      BY TypeFacts DEF GoodField
    <2>6. CASE IsCollected(f)
      <3>1. f.name \in DOMAIN g /\ (R = {} => g[f.name] = <<>>) /\ \A i \in R : R = {i} => g[f.name] = w[i].item.v
        BY <2>1, <2>4, <2>6 DEF Held, Collects
      <3>2. f.treat # "optional"
        BY <2>6 DEF IsCollected
      <3>3. ~Written(f, m) => m[f.name] = <<>>
        BY <3>2 DEF Written
      <3> QED BY <2>2, <2>3, <3>1, <3>2, <3>3
    <2>7. CASE ~IsCollected(f)
      <3>1. /\ R = {} => f.name \notin DOMAIN g
            /\ R # {} => f.name \in DOMAIN g /\ \E i \in R : g[f.name] = w[i].item.v
        BY <2>1, <2>4, <2>7 DEF Held, Keeps
      <3>2. Written(f, m) <=> f.name \in DOMAIN m
        BY <2>3, <2>5, <2>7 DEF IsCollected, Written
      <3> QED BY <2>2, <3>1, <3>2
    <2> QED BY <2>6, <2>7
  <1>4. ASSUME NEW f \in AllFields(t), f \notin FieldsOf(t)
        PROVE  f.name \in DOMAIN g /\ f.name \in DOMAIN m /\ g[f.name] = m[f.name]
    <2>1. PICK i \in DOMAIN Schema[t].lead : f = Schema[t].lead[i] /\ f.is = "field"
      BY <1>4 DEF AllFields, FieldsOf, ToSet
    <2>2. f.treat = "required"
      BY <2>1, Leads DEF Required, Field
    <2>3. i \in 1..Len(Schema[t].lead) /\ i < Len(w)
      BY <1>2, TypeFacts
    <2>4. f.name \in DOMAIN g /\ g[f.name] = w[i + 1].item.v
      BY <2>1, <2>3 DEF Contents, LeadHeld
    <2>5. w[i + 1] = EntryOf(f, m)
      BY <2>1, <2>3, EncodingFacts DEF LeadUnit, EntryOf
    <2> QED BY <1>1, <2>2, <2>4, <2>5, EntryParts
  <1>5. DOMAIN g = DOMAIN m /\ \A n \in DOMAIN g : g[n] = m[n]
    <2>1. ASSUME NEW n \in FieldNames(t)
          PROVE  (n \in DOMAIN g <=> n \in DOMAIN m) /\ (n \in DOMAIN g => g[n] = m[n])
      <3>1. PICK f \in AllFields(t) : n = f.name
        BY DEF FieldNames
      <3> QED BY <1>3, <1>4, <3>1
    <2> QED BY <1>1, <2>1
  <1>6. g = [n \in DOMAIN g |-> g[n]]
    BY DEF Contents
  <1> QED BY <1>1, <1>5, <1>6

-----------------------------------------------------------------------------
(* What is well-formed *)

(* A map of fields that does not say anything twice, and nothing of what    *)
(* every encoder writes not at all, has a length that the decoder takes.    *)
LEMMA CountTaken ==
  ASSUME NEW t \in MessageType, NEW w, Len(w) \in Nat, Len(w) >= BodyAt(t), Understood(t, w, Len(w)),
         \A i, j \in BodyAt(t) + 1..Len(w) : w[i].key = w[j].key => i = j,
         \A f \in FieldsOf(t) : ~MayMiss(f) => Read(t, w, Len(w), f) # {}
  PROVE  Len(w) - BodyAt(t) \in Schema[t].counts
  <1>1. PICK b, N \in Nat : b = BodyAt(t) /\ b <= N /\ N = Len(w)
    BY TypeFacts
  <1>2. PICK n \in Nat : n = Len(Schema[t].fields)
    BY FieldFacts
  <1>3. PICK k : k = [i \in b + 1..N |-> w[i].key]
    OBVIOUS
  <1>4. \A i \in b + 1..N : k[i] = w[i].key
    BY <1>3
  <1>5. \A i \in b + 1..N : k[i] \in 0..n - 1
    BY <1>1, <1>2, <1>4, KeysRead
  <1>6. NoneTwice(k, b + 1..N)
    BY <1>1, <1>4 DEF NoneTwice
  <1>7. ASSUME NEW f \in FieldsOf(t), Read(t, w, Len(w), f) # {}
        PROVE  \E i \in b + 1..N : k[i] = f.key
    BY <1>1, <1>4, <1>7 DEF Read
  <1>8. ASSUME NEW i \in b + 1..N, NEW f \in FieldsOf(t), k[i] = f.key
        PROVE  Read(t, w, Len(w), f) # {}
    BY <1>1, <1>4, <1>8 DEF Read
  <1>9. \A i, j \in DOMAIN Schema[t].fields : MayMiss(Schema[t].fields[i]) /\ MayMiss(Schema[t].fields[j]) => i = j
    BY Tables DEF Tabled
  <1>10. CASE \A f \in FieldsOf(t) : Read(t, w, Len(w), f) # {}
    <2>1. \A q \in 0..n - 1 : \E i \in b + 1..N : k[i] = q
      BY <1>2, <1>7, <1>10, KeysOfFields
    <2>2. N - b = n
      <3>1. Covers(k, b + 1..N, 0..n - 1)
        BY <1>5, <2>1 DEF Covers
      <3>2. /\ IsFiniteSet(b + 1..N) /\ Cardinality(b + 1..N) = N - b
            /\ IsFiniteSet(0..n - 1) /\ Cardinality(0..n - 1) = n
        BY <1>1, Sizes, SizesBelow
      <3> QED BY <1>6, <3>1, <3>2, AsMany
    <2>3. n \in Schema[t].counts
      BY <1>2, Tables DEF Tabled
    <2> QED BY <1>1, <2>2, <2>3
  <1>11. CASE \E f \in FieldsOf(t) : Read(t, w, Len(w), f) = {}
    <2>1. PICK f \in FieldsOf(t) : Read(t, w, Len(w), f) = {} /\ MayMiss(f)
      BY <1>11
    <2>2. PICK a \in DOMAIN Schema[t].fields : f = Schema[t].fields[a] /\ f.key = a - 1
      BY FieldFacts DEF FieldsOf
    <2>3. PICK o : o = f.key /\ o \in 0..n - 1
      BY <1>2, <2>2, FieldFacts
    <2>4. \A i \in b + 1..N : k[i] # o
      BY <1>8, <2>1, <2>3
    <2>5. ASSUME NEW q \in 0..n - 1, q # o PROVE \E i \in b + 1..N : k[i] = q
      <3>1. PICK e \in FieldsOf(t) : e.key = q
        BY <1>2, KeysOfFields
      <3>2. ~MayMiss(e)
        <4>1. PICK c \in DOMAIN Schema[t].fields : e = Schema[t].fields[c]
          BY FieldFacts DEF FieldsOf
        <4> QED BY <1>9, <2>1, <2>2, <2>3, <2>5, <3>1, <4>1
      <3> QED BY <1>7, <3>1, <3>2
    <2>6. N - b = n - 1
      <3>1. Covers(k, b + 1..N, (0..n - 1) \ {o})
        BY <1>5, <2>4, <2>5 DEF Covers
      <3>2. /\ IsFiniteSet(b + 1..N) /\ Cardinality(b + 1..N) = N - b
            /\ IsFiniteSet((0..n - 1) \ {o}) /\ Cardinality((0..n - 1) \ {o}) = n - 1
        BY <1>1, <2>3, Sizes, SizesBelow
      <3> QED BY <1>6, <3>1, <3>2, AsMany
    <2>7. n - 1 \in Schema[t].counts
      BY <1>2, <2>1, <2>2, Tables DEF Tabled
    <2> QED BY <1>1, <2>6, <2>7
  <1> QED BY <1>10, <1>11

(* What comes first of a field fits. *)
LEMMA FirstFits ==
  ASSUME NEW t \in MessageType, NEW w, NEW p, NEW g, Contents(t, w, p, g),
         NEW f \in FieldsOf(t), NEW item, ValueRead(f.kind, item), Read(t, w, p, f) = {}
  PROVE  Fits(f, g, item)
  <1> SUFFICES ASSUME IsCollected(f) PROVE Len(g[f.name]) + Len(item.v) \in f.kind.sizes
    BY DEF Fits
  <1>1. g[f.name] = <<>>
    BY DEF Contents, Held, Collects
  <1>2. GoodField(f)
    BY TypeFacts
  <1>3. f.kind.is = "array" /\ f.kind.sizes \subseteq Nat
    BY <1>2 DEF GoodField, GoodKind, Composite
  <1>4. Len(item.v) \in f.kind.sizes
    BY <1>3 DEF ValueRead, Composite
  <1>5. Len(<<>>) = 0
    OBVIOUS
  <1>6. 0 + Len(item.v) = Len(item.v)
    BY <1>3, <1>4
  <1> QED BY <1>1, <1>4, <1>5, <1>6

-----------------------------------------------------------------------------
(* The inductive invariant, part two *)

(* In a message it knows the decoder has made of the units it has read what *)
(* they say; behind the head of the body's map the message is a complete    *)
(* one of a length that the decoder takes.                                  *)
ContentInv ==
  /\ pc \in {"lead", "map", "loop", "accepted"} => Contents(type, wire, pos, got)
  /\ pc \in {"loop", "accepted"} =>
       Framed /\ Len(wire) - Body1 \in Schema[type].counts /\ pos >= Body1
  /\ pc = "accepted" => RequiredNames(type) \subseteq DOMAIN got

(* What any sender puts behind the head of the body's map are entries, and  *)
(* a field before the body is within its limits.                            *)
Sent == pc \notin {"idle", "not_encoded"}

EntryInv ==
  Sent =>
    /\ \A i \in Body1 + 1..Len(wire) : IsEntry(wire[i])
    /\ \A i \in DOMAIN Schema[type].lead :
         Schema[type].lead[i].is = "field" /\ i < Len(wire) /\ wire[i + 1].is = "entry" =>
           ValueRead(Schema[type].lead[i].kind, wire[i + 1].item)

(* What this code sends, all at once, is the encoding of a message.         *)
OwnInv ==
  /\ pc = "writing" => sender = "peer"
  /\ Sent /\ sender = "own" => msg \in Messages(type) /\ wire = Encoding(type, msg)

Meaning == ContentInv /\ EntryInv /\ OwnInv /\ WellFormedIsAccepted

CInv == IInv /\ Meaning

(* The names of the codec's properties for what the lemmas speak of. *)
LEMMA Names ==
  /\ Body1 = BodyAt(type) /\ ToSet(Schema[type].fields) = FieldsOf(type)
  /\ \A f : Places(f) = Read(type, wire, Len(wire), f)
  BY DEF Body1, BodyAt, FieldsOf, Places, Read

(* What WellFormed says, in the words of the lemmas.                        *)
LEMMA WellFormedFacts ==
  ASSUME type \in MessageType, WellFormed
  PROVE  /\ Len(wire) >= BodyAt(type) /\ wire[BodyAt(type)] = MapOf(Len(wire) - BodyAt(type))
         /\ \A i \in DOMAIN Schema[type].lead :
              IF Schema[type].lead[i].is = "field"
              THEN wire[i + 1].is = "entry" /\ wire[i + 1].key = Schema[type].lead[i].key
              ELSE wire[i + 1] = Schema[type].lead[i]
         /\ Understood(type, wire, Len(wire))
         /\ \A i, j \in BodyAt(type) + 1..Len(wire) : wire[i].key = wire[j].key => i = j
         /\ \A f \in FieldsOf(type) : ~MayMiss(f) => Read(type, wire, Len(wire), f) # {}
  <1>1. \A f \in FieldsOf(type) : ~MayMiss(f) => f.treat \in {"required", "collected"}
    BY TypeFacts DEF GoodField, MayMiss
  <1>2. \A f \in FieldsOf(type) : f.treat \in {"required", "collected"} => Read(type, wire, Len(wire), f) # {}
    BY Names DEF WellFormed
  <1>3. Understood(type, wire, Len(wire))
    BY Names DEF WellFormed, Understood
  <1>4. \A i, j \in BodyAt(type) + 1..Len(wire) : wire[i].key = wire[j].key => i = j
    BY Names DEF WellFormed
  <1>5. \A i \in DOMAIN Schema[type].lead :
              IF Schema[type].lead[i].is = "field"
              THEN wire[i + 1].is = "entry" /\ wire[i + 1].key = Schema[type].lead[i].key
              ELSE wire[i + 1] = Schema[type].lead[i]
    BY DEF WellFormed
  <1>6. Len(wire) >= BodyAt(type) /\ wire[BodyAt(type)] = MapOf(Len(wire) - BodyAt(type))
    BY Names DEF WellFormed
  <1> QED BY <1>1, <1>2, <1>3, <1>4, <1>5, <1>6

(* Steps that leave alone what was sent. *)
LEMMA WellFormedKept ==
  ASSUME type' = type, wire' = wire
  PROVE  WellFormed' <=> WellFormed
  <1>1. Body1' = Body1
    BY DEF Body1
  <1>2. \A f : Places(f)' = Places(f)
    BY <1>1 DEF Places
  <1> QED BY <1>1, <1>2 DEF WellFormed

(* A step that leaves alone what was sent keeps what is known of it.        *)
LEMMA InputKept ==
  ASSUME EntryInv, OwnInv, Sent, UNCHANGED <<sender, type, msg, wire>>, pc' = "writing" => pc = "writing"
  PROVE  EntryInv' /\ OwnInv'
  <1>1. Body1' = Body1
    BY DEF Body1
  <1>2. EntryInv'
    BY <1>1 DEF EntryInv
  <1>3. OwnInv'
    BY DEF OwnInv
  <1> QED BY <1>2, <1>3

(* A refusal is due when the message is complete and known only if it is    *)
(* not well-formed.                                                         *)
LEMMA Refusal ==
  ASSUME EntryInv, OwnInv, Sent, Refuse, arrived = Len(wire) /\ type \in Known[reader] => ~WellFormed
  PROVE  Meaning'
  <1>1. EntryInv' /\ OwnInv'
    BY InputKept DEF Refuse, input
  <1>2. ContentInv'
    BY DEF ContentInv, Refuse
  <1>3. WellFormed' <=> WellFormed
    BY WellFormedKept DEF Refuse, input
  <1>4. WellFormedIsAccepted'
    BY <1>3 DEF WellFormedIsAccepted, Refuse, input
  <1> QED BY <1>1, <1>2, <1>4 DEF Meaning

-----------------------------------------------------------------------------
(* Every step of the decoder keeps it *)

(* What the invariant says while the decoder runs.                          *)
LEMMA Context ==
  ASSUME IInv
  PROVE  /\ type \in MessageType /\ Len(wire) \in Nat /\ DOMAIN wire = 1..Len(wire)
         /\ arrived \in Nat /\ pos \in Nat /\ left \in Nat /\ pos <= arrived /\ arrived <= Len(wire)
         /\ pc \in {"lead", "map", "loop", "accepted"} => as = type
         /\ Body1 = BodyAt(type) /\ BodyAt(type) \in Nat /\ BodyAt(type) >= 2
         /\ Len(Schema[type].lead) = BodyAt(type) - 2
  <1>1. type \in MessageType /\ IsSeq(wire) /\ arrived \in 0..Len(wire) /\ pos \in 0..arrived /\ left \in Nat
    BY DEF IInv, TypeOK, Frames
  <1>2. Len(wire) \in Nat /\ DOMAIN wire = 1..Len(wire)
    BY <1>1, IsSeqFacts
  <1>3. pc \in {"lead", "map", "loop", "accepted"} => as = type
    BY DEF IInv, Identified
  <1>4. Body1 = BodyAt(type) /\ BodyAt(type) \in Nat /\ BodyAt(type) >= 2
        /\ Len(Schema[type].lead) = BodyAt(type) - 2
    BY <1>1, Names, TypeFacts
  <1>5. arrived \in Nat /\ pos \in Nat /\ pos <= arrived /\ arrived <= Len(wire)
    BY <1>1, <1>2
  <1> QED BY <1>1, <1>2, <1>3, <1>4, <1>5

(* A step on which the decoder goes on. *)
LEMMA Onward ==
  ASSUME EntryInv, OwnInv, Sent, UNCHANGED <<sender, type, msg, wire>>, ContentInv',
         pc' \notin {"refused", "writing"}
  PROVE  Meaning'
  BY InputKept DEF Meaning, WellFormedIsAccepted

(* Whether a body is framed is a matter of the wire and the type only.      *)
LEMMA FramedKept ==
  ASSUME type' = type, wire' = wire
  PROVE  Framed' <=> Framed
  BY DEF Framed, KeyOnWire, Body1

(* The input ends: no message that is complete breaks off there.            *)
LEMMA EndOfInputMeans == CInv /\ EndOfInput => Meaning'
  <1> SUFFICES ASSUME CInv, EndOfInput PROVE Meaning'
    OBVIOUS
  <1>1. EntryInv /\ OwnInv /\ Sent /\ Refuse /\ IInv
    BY DEF CInv, Meaning, EndOfInput, Sent
  <1>2. ASSUME arrived = Len(wire), WellFormed PROVE FALSE
    <2>1. Len(wire) >= BodyAt(type)
      BY <1>1, <1>2, Context, WellFormedFacts
    <2>2. pos = Len(wire)
      BY <1>1, <1>2, Context DEF EndOfInput, HasUnit
    <2>3. CASE pc = "loop"
      <3>1. left = Len(wire) - pos /\ left > 0
        BY <1>1, <2>3 DEF IInv, Position, EndOfInput
      <3> QED BY <1>1, <2>2, <3>1, Context
    <2>4. CASE pc = "type"
      <3>1. pos = 0
        BY <1>1, <2>4 DEF IInv, Position
      <3> QED BY <1>1, <2>1, <2>2, <3>1, Context
    <2>5. CASE pc = "lead"
      <3>1. as = type
        BY <1>1, <2>5, Context
      <3>2. pos \in 1..Len(Schema[type].lead)
        BY <1>1, <2>5, <3>1 DEF IInv, Position
      <3> QED BY <1>1, <2>1, <2>2, <3>2, Context
    <2>6. CASE pc = "map"
      <3>1. as = type
        BY <1>1, <2>6, Context
      <3>2. pos = Len(Schema[type].lead) + 1
        BY <1>1, <2>6, <3>1 DEF IInv, Position
      <3> QED BY <1>1, <2>1, <2>2, <3>2, Context
    <2> QED BY <2>3, <2>4, <2>5, <2>6 DEF EndOfInput
  <1> QED BY <1>1, <1>2, Refusal

(* The type key: nothing of the message is held yet.                        *)
LEMMA ReadTypeKeyMeans == CInv /\ ReadTypeKey => Meaning'
  <1> SUFFICES ASSUME CInv, ReadTypeKey PROVE Meaning'
    OBVIOUS
  <1> DEFINE key == DecodeTypeKey(Unit.bytes)
  <1>1. EntryInv /\ OwnInv /\ Sent /\ IInv /\ pc = "type" /\ pos = 0
    BY DEF CInv, Meaning, ReadTypeKey, Sent, IInv, Position
  <1>2. type \in MessageType /\ Len(wire) \in Nat /\ Len(wire) >= 1
    BY <1>1, Context DEF ReadTypeKey, HasUnit
  <1>3. CASE \E t \in KnownAs(key) :
          /\ as' = t
          /\ got' = [n \in Collections(t) |-> <<>>]
          /\ pos' = pos + 1
          /\ pc' = IF Schema[t].lead = <<>> THEN "map" ELSE "lead"
          /\ UNCHANGED <<input, left>>
    <2>1. PICK t \in KnownAs(key) :
          /\ as' = t
          /\ got' = [n \in Collections(t) |-> <<>>]
          /\ pos' = pos + 1
          /\ pc' = IF Schema[t].lead = <<>> THEN "map" ELSE "lead"
          /\ UNCHANGED <<input, left>>
      BY <1>3
    <2>2. UNCHANGED <<sender, type, msg, wire>> /\ pos' = 1
      BY <1>1, <2>1 DEF input
    <2>3. IInv'
      BY <1>1, ReadTypeKeyKeeps
    <2>4. t = type
      <3>1. as' = type'
        BY <2>1, <2>3 DEF IInv, Identified
      <3> QED BY <2>1, <2>2, <3>1
    <2>5. Contents(type, wire, 1, [n \in Collections(type) |-> <<>>])
      BY <1>2, ContentsBegin
    <2>6. ContentInv'
      <3>1. Contents(type', wire', pos', got')
        BY <2>1, <2>2, <2>4, <2>5
      <3>2. pc' \in {"map", "lead"}
        BY <2>1
      <3> QED BY <3>1, <3>2 DEF ContentInv
    <2> QED BY <1>1, <2>1, <2>2, <2>6, Onward
  <1>4. CASE pc' = "panicked" /\ UNCHANGED <<input, decoder>>
    <2>1. ContentInv'
      BY <1>4 DEF ContentInv
    <2> QED BY <1>1, <1>4, <2>1, Onward DEF input
  <1>5. CASE KnownAs(key) = {} /\ Refuse
    <2>1. ASSUME type \in Known[reader], WellFormed PROVE FALSE
      <3>1. Len(wire) >= BodyAt(type) /\ BodyAt(type) >= 2 /\ BodyAt(type) \in Nat /\ Len(wire) \in Nat
        BY <1>1, <2>1, Context, WellFormedFacts
      <3>2. ~NeedsPsk
        <4>1. PICK n, b \in Nat : n = Len(wire) /\ b = BodyAt(type) /\ n >= b /\ b >= 2
          BY <3>1
        <4>2. n # 1
          BY <4>1
        <4> QED BY <4>1, <4>2 DEF NeedsPsk
      <3>3. KeyOnWire(Schema[type].key)
        BY <1>1, <3>2 DEF IInv, Frames, Framed, Swapped
      <3>4. key = Schema[type].key
        BY <1>1, <3>3 DEF KeyOnWire, Unit
      <3>5. type \in KnownAs(key)
        BY <2>1, <3>4 DEF KnownAs
      <3> QED BY <1>5, <3>5
    <2> QED BY <1>1, <1>5, <2>1, Refusal
  <1> QED BY <1>3, <1>4, <1>5 DEF ReadTypeKey

(* A unit in front of the body.                                             *)
LEMMA ReadLeadMeans == CInv /\ ReadLead => Meaning'
  <1> SUFFICES ASSUME CInv, ReadLead PROVE Meaning'
    OBVIOUS
  <1>1. EntryInv /\ OwnInv /\ Sent /\ IInv /\ ContentInv /\ pc = "lead" /\ pos < arrived
    BY DEF CInv, Meaning, ReadLead, Sent, HasUnit
  <1>2. /\ type \in MessageType /\ Len(wire) \in Nat /\ as = type /\ pos < Len(wire) /\ arrived <= Len(wire)
        /\ pos \in DOMAIN Schema[type].lead
    <2>1. as = type /\ type \in MessageType /\ Len(wire) \in Nat /\ pos < Len(wire) /\ arrived <= Len(wire)
      BY <1>1, Context
    <2>2. pos \in 1..Len(Schema[type].lead)
      BY <1>1, <2>1 DEF IInv, Position
    <2>3. DOMAIN Schema[type].lead = 1..Len(Schema[type].lead)
      BY <2>1, TypeFacts
    <2> QED BY <2>1, <2>2, <2>3
  <1>3. PICK l : l = Schema[type].lead[pos]
    OBVIOUS
  <1>4. Contents(type, wire, pos, got)
    BY <1>1 DEF ContentInv
  <1>5. ASSUME UNCHANGED input, pos' = pos + 1, pc' \in {"map", "lead"},
               l.is # "field" => got' = got,
               l.is = "field" => got' = With(got, l.name, wire[pos + 1].item.v)
                                 /\ ValueRead(l.kind, wire[pos + 1].item)
        PROVE  Meaning'
    <2>1. Contents(type, wire, pos + 1, got')
      BY <1>2, <1>3, <1>4, <1>5, ContentsLead
    <2>2. ContentInv'
      BY <1>5, <2>1 DEF ContentInv, input
    <2> QED BY <1>1, <1>5, <2>2, Onward DEF input
  <1>6. CASE l.is # "field" /\ Unit = l /\ UNCHANGED got /\ pos' = pos + 1
             /\ pc' = (IF pos = Len(Schema[as].lead) THEN "map" ELSE pc) /\ UNCHANGED <<input, as, left>>
    BY <1>1, <1>5, <1>6
  <1>7. CASE l.is = "field" /\ Unit.is = "entry" /\ Unit.key = l.key /\ ValueRead(l.kind, Unit.item)
             /\ got' = With(got, l.name, Unit.item.v) /\ pos' = pos + 1
             /\ pc' = (IF pos = Len(Schema[as].lead) THEN "map" ELSE pc) /\ UNCHANGED <<input, as, left>>
    BY <1>1, <1>5, <1>7 DEF Unit
  <1>8. CASE Refuse /\ IF l.is = "field"
                       THEN ~(Unit.is = "entry" /\ Unit.key = l.key /\ ValueRead(l.kind, Unit.item))
                       ELSE Unit # l
    <2>1. ASSUME WellFormed PROVE FALSE
      <3>1. IF l.is = "field" THEN Unit.is = "entry" /\ Unit.key = l.key ELSE Unit = l
        BY <1>2, <1>3, <2>1, WellFormedFacts DEF Unit
      <3>2. l.is = "field" => ValueRead(l.kind, Unit.item)
        BY <1>1, <1>2, <1>3, <3>1 DEF EntryInv, Unit
      <3> QED BY <1>8, <3>1, <3>2
    <2> QED BY <1>1, <1>8, <2>1, Refusal
  <1> QED BY <1>2, <1>3, <1>6, <1>7, <1>8 DEF ReadLead

(* The head of the body's map.                                              *)
LEMMA ReadMapMeans == CInv /\ ReadMap => Meaning'
  <1> SUFFICES ASSUME CInv, ReadMap PROVE Meaning'
    OBVIOUS
  <1>1. EntryInv /\ OwnInv /\ Sent /\ IInv /\ ContentInv /\ pc = "map" /\ pos < arrived
    BY DEF CInv, Meaning, ReadMap, Sent, HasUnit
  <1>2. /\ type \in MessageType /\ Len(wire) \in Nat /\ as = type /\ pos < Len(wire)
        /\ pos + 1 = Body1 /\ pos = Len(Schema[type].lead) + 1 /\ Framed
    <2>1. /\ as = type /\ type \in MessageType /\ Len(wire) \in Nat /\ pos < Len(wire)
          /\ Body1 = BodyAt(type) /\ BodyAt(type) \in Nat /\ Len(Schema[type].lead) = BodyAt(type) - 2
      BY <1>1, Context
    <2>2. Framed /\ pos = Len(Schema[type].lead) + 1
      BY <1>1, <2>1 DEF IInv, Position
    <2> QED BY <2>1, <2>2
  <1>3. Unit.n = Len(wire) - Body1
    BY <1>2 DEF Framed, Unit, MapOf
  <1>4. CASE Unit.n \in Schema[as].counts /\ left' = Unit.n /\ pos' = pos + 1 /\ pc' = "loop"
             /\ UNCHANGED <<input, as, got>>
    <2>1. UNCHANGED <<sender, type, msg, wire>> /\ got' = got
      BY <1>4 DEF input
    <2>2. Contents(type, wire, pos + 1, got)
      BY <1>1, <1>2, ContentsMap DEF ContentInv
    <2>3. Framed' /\ Body1' = Body1
      BY <1>2, <2>1, FramedKept DEF Body1
    <2>4. Len(wire) - Body1 \in Schema[type].counts
      BY <1>2, <1>3, <1>4
    <2>5. pos' = Body1 /\ Body1 \in Nat
      BY <1>1, <1>2, <1>4, Context
    <2>6. ContentInv'
      BY <1>4, <2>1, <2>2, <2>3, <2>4, <2>5 DEF ContentInv
    <2> QED BY <1>1, <1>4, <2>1, <2>6, Onward
  <1>5. CASE Unit.n \notin Schema[as].counts /\ Refuse
    <2>1. ASSUME WellFormed PROVE FALSE
      <3>1. Len(wire) - BodyAt(type) \in Schema[type].counts
        BY <1>2, <2>1, WellFormedFacts, CountTaken
      <3> QED BY <1>2, <1>3, <1>5, <3>1, Names
    <2> QED BY <1>1, <1>5, <2>1, Refusal
  <1> QED BY <1>4, <1>5 DEF ReadMap

(* A pass of the decoder's loop.                                            *)
LEMMA ReadEntryMeans == CInv /\ ReadEntry => Meaning'
  <1> SUFFICES ASSUME CInv, ReadEntry PROVE Meaning'
    OBVIOUS
  <1>1. EntryInv /\ OwnInv /\ Sent /\ IInv /\ ContentInv /\ pc = "loop" /\ pos < arrived
    BY DEF CInv, Meaning, ReadEntry, Sent, HasUnit
  <1>2. /\ type \in MessageType /\ Len(wire) \in Nat /\ as = type /\ pos \in Nat /\ pos < Len(wire)
        /\ Body1 = BodyAt(type) /\ BodyAt(type) \in Nat
    BY <1>1, Context
  <1>3. /\ Contents(type, wire, pos, got) /\ Framed /\ pos >= Body1
        /\ Len(wire) - Body1 \in Schema[type].counts
    BY <1>1 DEF ContentInv
  <1>4. pos + 1 \in Body1 + 1..Len(wire)
    BY <1>2, <1>3
  <1>5. IsEntry(wire[pos + 1])
    BY <1>1, <1>4 DEF EntryInv
  <1>6. CASE \E f \in ToSet(Schema[as].fields) :
               /\ Takes(f, Unit)
               /\ got' = Keep(f, got, Unit.item)
               /\ pos' = pos + 1
               /\ left' = left - 1
               /\ UNCHANGED <<input, pc, as>>
    <2>1. PICK f \in FieldsOf(type) :
               /\ Takes(f, Unit)
               /\ got' = Keep(f, got, wire[pos + 1].item)
               /\ pos' = pos + 1
               /\ UNCHANGED <<input, pc>>
      BY <1>2, <1>6 DEF FieldsOf, Unit
    <2>2. UNCHANGED <<sender, type, msg, wire, pc>>
      BY <2>1 DEF input
    <2>3. TakenBy(f, got, wire[pos + 1])
      BY <2>1 DEF Takes, TakenBy, Unit
    <2>4. Contents(type, wire, pos + 1, got')
      BY <1>2, <1>3, <1>5, <2>1, <2>3, ContentsEntry
    <2>5. Framed' /\ Body1' = Body1
      BY <1>3, <2>2, FramedKept DEF Body1
    <2>6. pos' >= Body1
      BY <1>2, <1>3, <2>1
    <2>7. ContentInv'
      BY <1>1, <1>3, <2>1, <2>2, <2>4, <2>5, <2>6 DEF ContentInv
    <2> QED BY <1>1, <2>2, <2>7, Onward
  <1>7. CASE (\A f \in ToSet(Schema[as].fields) : ~Takes(f, Unit)) /\ Refuse
    <2>1. ASSUME WellFormed PROVE FALSE
      <3>1. /\ Understood(type, wire, Len(wire))
            /\ \A i, j \in BodyAt(type) + 1..Len(wire) : wire[i].key = wire[j].key => i = j
        BY <1>2, <2>1, WellFormedFacts
      <3>2. PICK f \in FieldsOf(type) : f.key = Unit.key /\ ValueRead(f.kind, Unit.item)
        BY <1>2, <1>4, <3>1 DEF Understood, Unit
      <3>3. Read(type, wire, pos, f) = {}
        <4> SUFFICES ASSUME NEW i \in BodyAt(type) + 1..pos, wire[i].key = f.key PROVE FALSE
          BY DEF Read
        <4>1. i \in BodyAt(type) + 1..Len(wire) /\ i # pos + 1
          BY <1>2
        <4> QED BY <1>2, <1>4, <3>1, <3>2, <4>1 DEF Unit
      <3>4. Fits(f, got, Unit.item)
        BY <1>2, <1>3, <3>2, <3>3, FirstFits
      <3> QED BY <1>2, <1>7, <3>2, <3>4 DEF Takes, FieldsOf
    <2> QED BY <1>1, <1>7, <2>1, Refusal
  <1> QED BY <1>6, <1>7 DEF ReadEntry

(* The loop is through: what decode_body checks before it returns.          *)
LEMMA FinishMeans == CInv /\ Finish => Meaning'
  <1> SUFFICES ASSUME CInv, Finish PROVE Meaning'
    OBVIOUS
  <1>1. /\ EntryInv /\ OwnInv /\ Sent /\ IInv /\ ContentInv /\ pc = "loop"
        /\ UNCHANGED <<sender, type, msg, wire>> /\ got' = got /\ pos' = pos
    BY DEF CInv, Meaning, Finish, Sent, input, decoder
  <1>2. /\ type \in MessageType /\ Len(wire) \in Nat /\ as = type /\ pos \in Nat /\ pos = Len(wire)
    <2>1. type \in MessageType /\ Len(wire) \in Nat /\ as = type /\ pos \in Nat
      BY <1>1, Context
    <2>2. left = Len(wire) - pos /\ left = 0
      BY <1>1 DEF IInv, Position, Finish
    <2> QED BY <2>1, <2>2
  <1>3. CASE RequiredNames(as) \subseteq DOMAIN got /\ pc' = "accepted"
    <2>1. Framed' /\ Body1' = Body1
      BY <1>1, FramedKept DEF Body1, ContentInv
    <2>2. ContentInv'
      BY <1>1, <1>2, <1>3, <2>1 DEF ContentInv
    <2> QED BY <1>1, <1>3, <2>2, Onward
  <1>4. CASE ~(RequiredNames(as) \subseteq DOMAIN got) /\ pc' = "refused"
    <2>1. Refuse
      BY <1>4 DEF Finish, Refuse
    <2>2. ASSUME WellFormed PROVE FALSE
      <3>1. PICK f \in FieldsOf(type) : f.treat = "required" /\ f.name \notin DOMAIN got
        BY <1>2, <1>4 DEF RequiredNames, FieldsOf
      <3>2. Read(type, wire, Len(wire), f) # {}
        BY <1>2, <2>2, <3>1, WellFormedFacts DEF MayMiss
      <3>3. Held(type, wire, pos, got, f)
        BY <1>1, <3>1 DEF ContentInv, Contents
      <3> QED BY <1>2, <3>1, <3>2, <3>3 DEF Held, Keeps, IsCollected
    <2> QED BY <1>1, <2>1, <2>2, Refusal
  <1> QED BY <1>3, <1>4 DEF Finish

-----------------------------------------------------------------------------
(* Every step of the senders and of the reader keeps it *)

LEMMA InitMeans == Init => Meaning
  BY DEF Init, Meaning, ContentInv, EntryInv, OwnInv, Sent, WellFormedIsAccepted

(* What this code writes for a field is an entry. *)
LEMMA WrittenIsEntry ==
  ASSUME NEW t \in MessageType, NEW m \in Messages(t), NEW f \in AllFields(t), Written(f, m)
  PROVE  IsEntry(EntryOf(f, m)) /\ m[f.name] \in Values(f.kind)
  <1>1. f.name \in DOMAIN m
    <2>1. CASE f.treat = "optional"
      BY <2>1 DEF Written
    <2>2. CASE f.treat # "optional"
      BY <2>2, MessageFacts
    <2> QED BY <2>1, <2>2
  <1>2. m[f.name] \in Values(f.kind)
    BY <1>1, MessageFacts
  <1>3. GoodKind(f.kind)
    <2>1. CASE f \in FieldsOf(t)
      BY <2>1, TypeFacts DEF GoodField
    <2>2. CASE f \notin FieldsOf(t)
      <3>1. PICK i \in DOMAIN Schema[t].lead : f = Schema[t].lead[i] /\ f.is = "field"
        BY <2>2 DEF AllFields, FieldsOf, ToSet
      <3>2. f = Required(0, "request_id", U64)
        BY <3>1, Leads
      <3> QED BY <3>2, KindsAreGood DEF Required, Field
    <2> QED BY <2>1, <2>2
  <1> QED BY <1>2, <1>3, ValueIsEntry DEF EntryOf

(* The field before the body, as this code writes it. *)
LEMMA LeadWritten ==
  ASSUME NEW t \in MessageType, NEW m \in Messages(t),
         NEW i \in DOMAIN Schema[t].lead, Schema[t].lead[i].is = "field"
  PROVE  /\ IsEntry(LeadUnit(Schema[t].lead[i], m))
         /\ ValueRead(Schema[t].lead[i].kind, LeadUnit(Schema[t].lead[i], m).item)
  <1>1. PICK f : f = Schema[t].lead[i]
    OBVIOUS
  <1>2. f \in AllFields(t)
    BY <1>1 DEF AllFields, ToSet
  <1>3. f.treat = "required" /\ f.kind = U64
    BY <1>1, Leads DEF Required, Field
  <1>4. LeadUnit(f, m) = EntryOf(f, m)
    BY <1>1 DEF LeadUnit, EntryOf
  <1>5. Written(f, m)
    BY <1>3 DEF Written
  <1>6. IsEntry(EntryOf(f, m)) /\ m[f.name] \in Values(U64)
    BY <1>2, <1>3, <1>5, WrittenIsEntry
  <1>7. EntryOf(f, m).item = Item(U64, m[f.name])
    BY <1>3 DEF EntryOf, Entry
  <1>8. ValueRead(f.kind, LeadUnit(f, m).item)
    BY <1>3, <1>4, <1>6, <1>7, RequestIdRead
  <1> QED BY <1>1, <1>4, <1>6, <1>8

(* What is sent with entries behind the head of its body and with the field *)
(* before the body within its limits is all that is to be shown of a step   *)
(* on which the decoder has not begun.                                      *)
LEMMA Begins ==
  ASSUME type' = type, pc' \in {"writing", "sent"}, sender' = "peer",
         \A i \in Body1 + 1..Len(wire') : IsEntry(wire'[i]),
         \A i \in DOMAIN Schema[type].lead :
           Schema[type].lead[i].is = "field" /\ i < Len(wire') /\ wire'[i + 1].is = "entry" =>
             ValueRead(Schema[type].lead[i].kind, wire'[i + 1].item)
  PROVE  Meaning'
  <1>1. Body1' = Body1
    BY DEF Body1
  <1>2. EntryInv'
    BY <1>1 DEF EntryInv
  <1>3. OwnInv'
    BY DEF OwnInv
  <1> QED BY <1>2, <1>3 DEF Meaning, ContentInv, WellFormedIsAccepted

(* This code encodes a message.                                             *)
LEMMA EncodeMeans ==
  ASSUME CInv, NEW m \in Messages(type), Encode(m)
  PROVE  Meaning'
  <1>1. type \in MessageType /\ Body1 = BodyAt(type)
    BY Context DEF CInv
  <1>2. PICK w : w = Encoding(type, m)
    OBVIOUS
  <1>3. type' = type /\ wire' = w /\ msg' = m /\ pc' = "sent"
    BY <1>2 DEF Encode
  <1>4. Body1' = Body1
    BY <1>3 DEF Body1
  <1>5. \A i \in Body1 + 1..Len(w) : IsEntry(w[i])
    <2> SUFFICES ASSUME NEW i \in BodyAt(type) + 1..Len(w) PROVE IsEntry(w[i])
      BY <1>1
    <2>1. PICK f \in FieldsOf(type) : Written(f, m) /\ w[i] = EntryOf(f, m)
      BY <1>1, <1>2, EncodingBody
    <2>2. f \in AllFields(type)
      BY DEF AllFields, FieldsOf
    <2> QED BY <1>1, <2>1, <2>2, WrittenIsEntry
  <1>6. \A i \in DOMAIN Schema[type].lead :
          Schema[type].lead[i].is = "field" => ValueRead(Schema[type].lead[i].kind, w[i + 1].item)
    <2> SUFFICES ASSUME NEW i \in DOMAIN Schema[type].lead, Schema[type].lead[i].is = "field"
                 PROVE  ValueRead(Schema[type].lead[i].kind, w[i + 1].item)
      OBVIOUS
    <2>1. i \in 1..Len(Schema[type].lead)
      BY <1>1, TypeFacts
    <2>2. w[i + 1] = LeadUnit(Schema[type].lead[i], m)
      BY <1>1, <1>2, <2>1, EncodingFacts
    <2> QED BY <1>1, <2>2, LeadWritten
  <1>7. EntryInv'
    BY <1>3, <1>4, <1>5, <1>6 DEF EntryInv
  <1>8. OwnInv'
    BY <1>2, <1>3 DEF OwnInv
  <1> QED BY <1>3, <1>7, <1>8 DEF Meaning, ContentInv, WellFormedIsAccepted

(* The outer keys of an agent-info-response in the wrong order.             *)
LEMMA PeerSwapsMeans ==
  ASSUME CInv, NEW m \in Messages(type), PeerSwaps(m)
  PROVE  Meaning'
  <1>1. /\ type \in MessageType /\ type = "AgentInfoResponse" /\ type' = type
        /\ sender' = "peer" /\ pc' = "sent"
    BY Context DEF CInv, PeerSwaps
  <1>2. PICK es, u, h : /\ es = Entries(type, m) /\ u = LeadUnit(Schema[type].lead[2], m)
                        /\ h = << TypeKey(EncodeTypeKey(Schema[type].key)), MapOf(2), KeyOf(1),
                                  MapOf(Len(Entries(type, m))) >>
    OBVIOUS
  <1>3. PICK w : w = (h \o es) \o << u >> /\ wire' = w
    BY <1>2 DEF PeerSwaps
  <1>4. IsSeq(es) /\ Len(es) \in Nat /\ DOMAIN es = 1..Len(es)
    BY <1>1, <1>2, EntriesIsSeq, IsSeqFacts
  <1>5. IsSeq(h) /\ Len(h) = 4 /\ h[3] = KeyOf(1)
    BY <1>2, TupleIsSeq
  <1>6. /\ IsSeq(h \o es) /\ Len(h \o es) = 4 + Len(es)
        /\ \A i \in 1..4 : (h \o es)[i] = h[i]
        /\ \A i \in 1..Len(es) : (h \o es)[4 + i] = es[i]
    <2>1. /\ IsSeq(h \o es) /\ Len(h \o es) = Len(h) + Len(es)
          /\ \A i \in 1..Len(h) : (h \o es)[i] = h[i]
          /\ \A i \in 1..Len(es) : (h \o es)[Len(h) + i] = es[i]
      <3>1. IsSeq(h) /\ IsSeq(es)
        BY <1>4, <1>5
      <3> QED BY ONLY <3>1, ConcatIsSeq
    <2> QED BY ONLY <1>5, <2>1
  <1>7. IsSeq(<< u >>) /\ Len(<< u >>) = 1 /\ << u >>[1] = u
    BY TupleIsSeq
  <1>8. PICK n \in Nat : n = Len(es)
    BY <1>4
  <1>9. PICK hs : hs = h \o es /\ IsSeq(hs) /\ Len(hs) = 4 + n
                  /\ (\A i \in 1..4 : hs[i] = h[i]) /\ \A i \in 1..n : hs[4 + i] = es[i]
    BY <1>6, <1>8
  <1>10. /\ Len(w) = (4 + n) + 1
         /\ \A i \in 1..4 + n : w[i] = hs[i]
         /\ w[(4 + n) + 1] = u
    <2>1. PICK us : us = << u >> /\ IsSeq(us) /\ Len(us) = 1 /\ us[1] = u
      BY <1>7
    <2>2. IsSeq(hs) /\ w = hs \o us
      BY <1>3, <1>9, <2>1
    <2>3. /\ Len(hs \o us) = Len(hs) + Len(us)
          /\ \A i \in 1..Len(hs) : (hs \o us)[i] = hs[i]
          /\ \A i \in 1..Len(us) : (hs \o us)[Len(hs) + i] = us[i]
      BY ONLY <2>1, <2>2, ConcatIsSeq
    <2>4. Len(hs) = 4 + n /\ 1 \in 1..1
      BY <1>9
    <2> QED BY ONLY <2>1, <2>2, <2>3, <2>4
  <1>11. Body1 = 5 /\ Schema[type].lead[2].is = "field" /\ 2 \in DOMAIN Schema[type].lead
    BY <1>1, ResponseLead, TypeFacts DEF Body1
  <1>12. IsEntry(u)
    BY <1>1, <1>2, <1>11, LeadWritten
  <1>13. ASSUME NEW i \in Body1 + 1..Len(w) PROVE IsEntry(w[i])
    <2>1. i \in 6..5 + n
      BY <1>8, <1>10, <1>11
    <2>2. CASE i = 5 + n
      BY <1>8, <1>10, <1>12, <2>2
    <2>3. CASE i # 5 + n
      <3>1. PICK j \in 1..n : i = 4 + j
        <4>1. i - 4 \in 1..n /\ i = 4 + (i - 4)
          BY <1>8, <2>1, <2>3
        <4> QED BY <4>1
      <3>2. w[i] = es[j]
        <4>1. i \in 1..4 + n
          BY <1>8, <3>1
        <4>2. w[i] = hs[i]
          BY <1>10, <4>1
        <4> QED BY <1>9, <3>1, <4>2
      <3>3. PICK f \in FieldsOf(type) : Written(f, m) /\ es[j] = EntryOf(f, m)
        BY <1>1, <1>2, <1>8, EntriesFacts DEF SayOnce
      <3>4. f \in AllFields(type)
        BY DEF AllFields, FieldsOf
      <3> QED BY <1>1, <3>2, <3>3, <3>4, WrittenIsEntry
    <2> QED BY <2>2, <2>3
  <1>14. ASSUME NEW i \in DOMAIN Schema[type].lead, Schema[type].lead[i].is = "field", w[i + 1].is = "entry"
         PROVE  FALSE
    <2>1. i = 2
      BY <1>1, <1>14, Leads
    <2>2. w[3] = KeyOf(1)
      BY <1>5, <1>8, <1>9, <1>10
    <2> QED BY <1>14, <2>1, <2>2 DEF KeyOf
  <1> QED BY <1>1, <1>3, <1>13, <1>14, Begins

(* Another implementation begins a message.                                 *)
LEMMA PeerBeginsMeans ==
  ASSUME CInv, NEW size, NEW count, PeerBegins(size, count)
  PROVE  Meaning'
  <1>1. type \in MessageType /\ type' = type /\ sender' = "peer" /\ pc' = "writing"
    BY Context DEF CInv, PeerBegins
  <1>2. PICK lead, b, h : /\ lead = Schema[type].lead /\ b = TypeKey(VarInt(Schema[type].key, size)) /\ h = MapOf(count)
    OBVIOUS
  <1>3. IsSeq(lead) /\ Len(lead) \in Nat
    BY <1>1, <1>2, SchemaShape, IsSeqFacts DEF Shaped
  <1>4. IsSeq(<< b >>) /\ Len(<< b >>) = 1 /\ IsSeq(<< h >>) /\ Len(<< h >>) = 1
    BY TupleIsSeq
  <1>5. IsSeq(<< b >> \o lead) /\ Len(<< b >> \o lead) = 1 + Len(lead)
    BY <1>3, <1>4, ConcatIsSeq
  <1>6. Len(<< b >> \o lead \o << h >>) = 1 + Len(lead) + 1
    BY <1>4, <1>5, ConcatIsSeq
  <1>7. Len(wire') = Body1 /\ Body1 \in Nat
    <2>1. wire' = << b >> \o lead \o << h >>
      BY <1>2 DEF PeerBegins
    <2> QED BY <1>2, <1>3, <1>6, <2>1 DEF Body1
  <1>8. Body1 + 1..Len(wire') = {}
    BY <1>7
  <1>9. \A i \in DOMAIN Schema[type].lead : Schema[type].lead[i].is # "field"
    BY DEF PeerBegins, ToSet
  <1> QED BY <1>1, <1>8, <1>9, Begins

(* The type that decode has no arm for.                                     *)
LEMMA PeerNeedsPskMeans == CInv /\ PeerNeedsPsk => Meaning'
  <1> SUFFICES ASSUME CInv, PeerNeedsPsk PROVE Meaning'
    OBVIOUS
  <1>1. type' = type /\ sender' = "peer" /\ pc' = "sent" /\ Len(wire') = 1
    BY DEF PeerNeedsPsk
  <1>2. type \in MessageType /\ Body1 \in Nat /\ Body1 >= 2
    BY Context DEF CInv
  <1>3. Body1 + 1..Len(wire') = {}
    BY <1>1, <1>2
  <1>4. \A i \in DOMAIN Schema[type].lead : ~(i < Len(wire'))
    BY <1>1, <1>2, TypeFacts
  <1> QED BY <1>1, <1>3, <1>4, Begins

(* Whoever sends, and whatever.                                             *)
LEMMA SendMeans == CInv /\ Send => Meaning'
  <1> SUFFICES ASSUME CInv, Send PROVE Meaning'
    OBVIOUS
  <1>1. ASSUME NEW m \in Messages(type), EncodeFails(m) PROVE Meaning'
    BY <1>1 DEF EncodeFails, Meaning, ContentInv, EntryInv, OwnInv, Sent, WellFormedIsAccepted
  <1> QED BY <1>1, EncodeMeans, PeerSwapsMeans, PeerBeginsMeans, PeerNeedsPskMeans DEF Send

(* Another implementation writes an entry or has written the last one.      *)
LEMMA WriteMeans == CInv /\ Write => Meaning'
  <1> SUFFICES ASSUME CInv, Write PROVE Meaning'
    OBVIOUS
  <1>1. EntryInv /\ OwnInv /\ IInv /\ pc = "writing" /\ sender = "peer" /\ Sent
    BY DEF CInv, Meaning, Write, OwnInv, Sent
  <1>2. CASE PeerSends
    <2>1. ContentInv'
      BY <1>2 DEF PeerSends, ContentInv
    <2> QED BY <1>1, <1>2, <2>1, Onward DEF PeerSends, input
  <1>3. ASSUME NEW u \in PeerEntries, PeerWrites(u) PROVE Meaning'
    <2>1. type' = type /\ sender' = "peer" /\ pc' = "writing" /\ wire' = Append(wire, u)
      BY <1>1, <1>3 DEF PeerWrites
    <2>2. type \in MessageType /\ IsSeq(wire) /\ Len(wire) \in Nat /\ Len(wire) >= Body1
          /\ Body1 = BodyAt(type) /\ Body1 \in Nat /\ DOMAIN Schema[type].lead = 1..BodyAt(type) - 2
      BY <1>1, Context, TypeFacts DEF IInv, Frames
    <2>3. Len(wire') = Len(wire) + 1 /\ (\A i \in 1..Len(wire) : wire'[i] = wire[i]) /\ wire'[Len(wire) + 1] = u
      BY <2>1, <2>2, AppendIsSeq DEF IsSeq
    <2>4. IsEntry(u)
      BY <2>2, <1>3, PeerEntryIsEntry
    <2>5. ASSUME NEW i \in Body1 + 1..Len(wire') PROVE IsEntry(wire'[i])
      <3>1. CASE i = Len(wire) + 1
        BY <2>3, <2>4, <3>1
      <3>2. CASE i # Len(wire) + 1
        <4>1. i \in Body1 + 1..Len(wire) /\ i \in 1..Len(wire)
          BY <2>2, <2>3, <3>2
        <4> QED BY <1>1, <2>3, <4>1 DEF EntryInv
      <3> QED BY <3>1, <3>2
    <2>6. ASSUME NEW i \in DOMAIN Schema[type].lead, Schema[type].lead[i].is = "field", wire'[i + 1].is = "entry"
          PROVE  ValueRead(Schema[type].lead[i].kind, wire'[i + 1].item)
      <3>1. i < Len(wire) /\ i + 1 \in 1..Len(wire)
        BY <2>2
      <3>2. wire'[i + 1] = wire[i + 1]
        BY <2>3, <3>1
      <3> QED BY <1>1, <2>6, <3>1, <3>2 DEF EntryInv
    <2> QED BY <2>1, <2>5, <2>6, Begins
  <1> QED BY <1>2, <1>3 DEF Write

(* A stream arrives, whole or cut, at one of the two decode functions.      *)
LEMMA ReceiveMeans ==
  ASSUME CInv, NEW r, NEW n, Receive(r, n)
  PROVE  Meaning'
  <1>1. EntryInv /\ OwnInv /\ Sent
    BY DEF CInv, Meaning, Receive, Sent
  <1>2. ContentInv' /\ pc' = "type" /\ UNCHANGED <<sender, type, msg, wire>>
    BY DEF Receive, ContentInv
  <1> QED BY <1>1, <1>2, Onward

-----------------------------------------------------------------------------
(* The theorems *)

(* Every step keeps the invariant.                                          *)
LEMMA StepMeans == CInv /\ [Next]_vars => CInv'
  <1> SUFFICES ASSUME CInv, [Next]_vars PROVE CInv'
    OBVIOUS
  <1>1. IInv'
    BY StepKeeps DEF CInv
  <1> SUFFICES Meaning'
    BY <1>1 DEF CInv
  <1>2. CASE Send
    BY <1>2, SendMeans
  <1>3. CASE Write
    BY <1>3, WriteMeans
  <1>4. CASE \E r \in DOMAIN Known, n \in 0..Len(wire) : Receive(r, n)
    BY <1>4, ReceiveMeans
  <1>5. CASE Decode
    BY <1>5, EndOfInputMeans, ReadTypeKeyMeans, ReadLeadMeans, ReadMapMeans, ReadEntryMeans, FinishMeans DEF Decode
  <1>6. CASE UNCHANGED vars
    <2>1. UNCHANGED <<sender, type, msg, wire, arrived, reader, pc, pos, got>>
      BY <1>6 DEF vars
    <2>2. Framed' <=> Framed
      BY <2>1, FramedKept
    <2>3. Body1' = Body1
      BY <2>1 DEF Body1
    <2>4. WellFormed' <=> WellFormed
      BY <2>1, WellFormedKept
    <2>5. ContentInv'
      BY <2>1, <2>2, <2>3 DEF CInv, Meaning, ContentInv
    <2>6. EntryInv'
      BY <2>1, <2>3 DEF CInv, Meaning, EntryInv, Sent
    <2>7. OwnInv'
      BY <2>1 DEF CInv, Meaning, OwnInv, Sent
    <2>8. WellFormedIsAccepted'
      BY <2>1, <2>4 DEF CInv, Meaning, WellFormedIsAccepted
    <2> QED BY <2>5, <2>6, <2>7, <2>8 DEF Meaning
  <1> QED BY <1>2, <1>3, <1>4, <1>5, <1>6 DEF Next

(* What the decoders have made of a message at any moment: decode_body      *)
(* holds what it has read and no more.                                      *)
THEOREM ContentInvariance == Spec => []CInv
  <1>1. Init => CInv
    BY InitIInv, InitMeans DEF CInv
  <1> QED BY <1>1, StepMeans, PTL DEF Spec

(* What decode has when it accepts. *)
LEMMA Accepted ==
  ASSUME CInv, pc = "accepted"
  PROVE  /\ type \in MessageType /\ as = type /\ Len(wire) \in Nat /\ DOMAIN wire = 1..Len(wire)
         /\ Contents(type, wire, Len(wire), got) /\ DOMAIN got \subseteq FieldNames(type)
         /\ Len(wire) >= BodyAt(type) /\ Len(wire) - BodyAt(type) \in Schema[type].counts
         /\ RequiredNames(type) \subseteq DOMAIN got
  <1>1. IInv /\ ContentInv
    BY DEF CInv, Meaning
  <1>2. pos = Len(wire)
    BY <1>1 DEF IInv, Position
  <1>3. /\ type \in MessageType /\ as = type /\ Len(wire) \in Nat /\ DOMAIN wire = 1..Len(wire)
        /\ Body1 = BodyAt(type)
    BY <1>1, Context
  <1>4. DOMAIN got \subseteq FieldNames(type)
    BY <1>1, <1>3 DEF IInv, TypeOK
  <1>5. /\ Contents(type, wire, Len(wire), got) /\ RequiredNames(type) \subseteq DOMAIN got
        /\ Len(wire) - BodyAt(type) \in Schema[type].counts
    BY <1>1, <1>2, <1>3 DEF ContentInv
  <1>6. Len(wire) >= BodyAt(type)
    BY <1>1, <1>3 DEF ContentInv, Framed
  <1> QED BY <1>3, <1>4, <1>5, <1>6

(* decode hands out nothing beyond the limits it promises, and where every  *)
(* field is required a message that was accepted had each key exactly once. *)
THEOREM AcceptedValid == Spec => []AcceptedIsValid
  <1>1. ASSUME CInv PROVE LimitsHold
    <2> SUFFICES ASSUME pc = "accepted", NEW f \in AllFields(type), f.name \in DOMAIN got
                 PROVE  ValueRead(f.kind, Item(f.kind, got[f.name]))
      BY <1>1, Accepted DEF LimitsHold
    <2> QED BY <1>1, Accepted, ContentsInLimits
  <1>2. ASSUME CInv PROVE EveryFieldOnce
    <2> SUFFICES ASSUME pc = "accepted", \A f \in FieldsOf(type) : f.treat = "required", NEW f \in FieldsOf(type)
                 PROVE  \E i \in DOMAIN wire : Places(f) = {i}
      BY Names DEF EveryFieldOnce
    <2>1. \E i \in 1..Len(wire) : Read(type, wire, Len(wire), f) = {i}
      BY <1>2, Accepted, ContentsOnce
    <2> QED BY <1>2, <2>1, Accepted, Names
  <1>3. CInv => AcceptedIsValid
    BY <1>1, <1>2 DEF AcceptedIsValid
  <1> QED BY <1>3, ContentInvariance, PTL

(* What this code's encoder is given comes back from its decoder as it was; *)
(* of what is sent twice the last counts, and arrays of a Vec are joined.   *)
THEOREM AcceptedMeant == Spec => []AcceptedMeansWhatWasSent
  <1>1. ASSUME CInv, pc = "accepted", sender = "own" PROVE got = msg
    <2>1. msg \in Messages(type) /\ wire = Encoding(type, msg)
      BY <1>1 DEF CInv, Meaning, OwnInv, Sent
    <2> QED BY <1>1, <2>1, Accepted, RoundTrip
  <1>2. ASSUME CInv, pc = "accepted", NEW f \in FieldsOf(type)
        PROVE  IF IsCollected(f) THEN got[f.name] = Joined(wire, Body1, f.key)[Len(wire)]
               ELSE IF Places(f) = {} THEN f.name \notin DOMAIN got
               ELSE f.name \in DOMAIN got /\ got[f.name] = wire[Most(Places(f))].item.v
    BY <1>2, Accepted, ContentsLast, Names
  <1>3. CInv => AcceptedMeansWhatWasSent
    BY <1>1, <1>2, Names DEF AcceptedMeansWhatWasSent
  <1> QED BY <1>3, ContentInvariance, PTL

(* decode refuses no complete message that the CDDL in the comments and its *)
(* own limits allow, whoever wrote it.                                      *)
THEOREM WellFormedAccepted == Spec => []WellFormedIsAccepted
  <1>1. CInv => WellFormedIsAccepted
    BY DEF CInv, Meaning
  <1> QED BY <1>1, ContentInvariance, PTL
==============================================================================
