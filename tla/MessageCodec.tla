----------------------------- MODULE MessageCodec -----------------------------
(***************************************************************************)
(* The codecs of openscreen-application/src/messages.rs and of             *)
(* openscreen-network/src/messages.rs, over the type keys and variable-    *)
(* length integers of openscreen-common.                                   *)
(*                                                                         *)
(* A message is a type key followed by a CBOR map from small numbers to    *)
(* values.  Encoder and decoder of a message type are written out field by *)
(* field in the code; here a message type is a table of its fields and one *)
(* encoder and one decoder interpret the tables.  Bytes appear where the   *)
(* code looks at them (the type key) and where it counts them (lengths);   *)
(* apart from that a unit of the stream is what the code reads in one go:  *)
(* the type key, the head of a map, or a key with its value.  A unit of    *)
(* which a part is missing cannot be read.                                 *)
(***************************************************************************)
EXTENDS Integers, Sequences, FiniteSets, SequencesExt

CONSTANTS
  Text,         \* the texts to encode: records of a content and a length
  Blob,         \* the byte strings to encode, in the same form
  Number,       \* the unsigned integers to encode
  PeerType,     \* the types of message that another implementation sends
  PeerText,     \* the texts it puts into them
  PeerNumber,   \* and the numbers
  Cuttable      \* the types of message whose streams may break off

MAX_MESSAGE_SIZE == 1024
MAX_STRING_LEN   == 256
MAX_BYTES_LEN    == 64
MAX_URLS         == 16

Unlimited     == 2^20   \* more than a message of MAX_MESSAGE_SIZE bytes can hold
LargestNumber == 1024 * 1024 * 1024   \* stands for 2^64 - 1, which TLC has no number for

ASSUME CodecAssumption ==
  /\ \A t \in Text \cup Blob : t.len \in Nat
  /\ Number \subseteq 0..LargestNumber
  /\ PeerText \subseteq Text /\ PeerNumber \subseteq Number


-----------------------------------------------------------------------------
(* Kinds of values.  A leaf is one CBOR item; a composite holds leaves.    *)

U64 == [is |-> "uint", max |-> LargestNumber]
U32 == [is |-> "uint", max |-> LargestNumber]
U16 == [is |-> "uint", max |-> 65535]
OneOf(S)    == [is |-> "enum",  of  |-> S]
Str(max)    == [is |-> "text",  max |-> max]
Bytes(max)  == [is |-> "bytes", max |-> max]

\* an http-header is an array of two texts
HttpHeader == [is |-> "pair", max |-> MAX_STRING_LEN]

Array(leaf, cap)   == [is |-> "array", of |-> leaf, sizes |-> 0..cap]
Nested(leaf, lens) == [is |-> "map",   of |-> leaf, sizes |-> lens]

Composite(kind) == kind.is \in {"array", "map"}

\* an enumeration travels as a number
OnWire(kind) == IF kind.is = "enum" THEN "uint" ELSE kind.is

(* How the code treats a field: an Option that must be Some at the end, an *)
(* Option that may be None, or a Vec made before the loop that collects    *)
(* whatever comes and is never missing.  The encoder of auth-capabilities  *)
(* leaves out an empty Vec; all others write it.                           *)
Field(key, name, kind, treat) ==
  [is |-> "field", key |-> key, name |-> name, kind |-> kind, treat |-> treat]

Required(key, name, kind)  == Field(key, name, kind, "required")
Optional(key, name, kind)  == Field(key, name, kind, "optional")
Collected(key, name, kind) == Field(key, name, kind, "collected")
Sparse(key, name, kind)    == Field(key, name, kind, "sparse")

(* A message type: its key, which decoder knows it, the units read in      *)
(* strict order before the loop over the fields, the lengths of the map    *)
(* the decoder takes, and the fields in the order the encoder writes them. *)
Body(key, counts, fields) ==
  [key |-> key, lead |-> <<>>, counts |-> counts, fields |-> fields]

Within(key, lead, counts, fields) ==
  [key |-> key, lead |-> lead, counts |-> counts, fields |-> fields]

-----------------------------------------------------------------------------
(* Enumerations *)

AgentCapability == 1..8
PresentationResult == {1, 10, 11, 100, 101}
PresentationTerminationSource == {1, 2, 255}
PresentationTerminationReason == {1, 2, 20, 30, 31, 100, 101, 255}
PresentationConnectionCloseReason == {1, 10, 100}
UrlAvailability == {0, 1, 10}
Spake2PskStatus == 0..2
PskInputEase    == 0..3
PskInputMethod  == 0..2
AuthStatusCode  == 0..5

(* Application messages *)

AgentInfo ==
  << Required(0, "display_name", Str(MAX_STRING_LEN)),
     Required(1, "model_name", Str(MAX_STRING_LEN)),
     Collected(2, "capabilities", Array(OneOf(AgentCapability), 16)),
     Required(3, "state_token", Str(MAX_STRING_LEN)),
     Collected(4, "locales", Array(Str(MAX_STRING_LEN), 8)) >>

MapOf(n) == [is |-> "map", n |-> n]
KeyOf(k) == [is |-> "key", key |-> k]

AgentInfoRequest == Body(10, {1}, << Required(0, "request_id", U64) >>)

AgentInfoResponse ==
  Within(11, << MapOf(2), Required(0, "request_id", U64), KeyOf(1) >>, {5}, AgentInfo)

AgentInfoEvent == Within(120, << MapOf(1), KeyOf(0) >>, {5}, AgentInfo)

StatusFields ==
  << Required(0, "request_id", U64),
     Optional(1, "status", Nested(Str(MAX_STRING_LEN), {1})) >>

\* the two decoders of status messages take a map of any definite length
AnyCount == 0..LargestNumber

AgentStatusRequest  == Body(12, AnyCount, StatusFields)

AgentStatusResponse == Body(13, AnyCount, StatusFields)

PresentationStartRequest == Body(104, {4},
  << Required(0, "request_id", U64),
     Required(1, "presentation_id", Str(MAX_STRING_LEN)),
     Required(2, "url", Str(MAX_STRING_LEN)),
     Collected(3, "headers", Array(HttpHeader, 8)) >>)

PresentationStartResponse == Body(105, {3, 4},
  << Required(0, "request_id", U64),
     Required(1, "result", OneOf(PresentationResult)),
     Required(2, "connection_id", U64),
     Optional(3, "http_response_code", U16) >>)

PresentationTerminationRequest == Body(106, {3},
  << Required(0, "request_id", U64),
     Required(1, "presentation_id", Str(Unlimited)),
     Required(2, "reason", OneOf(PresentationTerminationReason)) >>)

PresentationTerminationResponse == Body(107, {2},
  << Required(0, "request_id", U64),
     Required(1, "result", OneOf(PresentationResult)) >>)

PresentationTerminationEvent == Body(108, {3},
  << Required(0, "presentation_id", Str(Unlimited)),
     Required(1, "source", OneOf(PresentationTerminationSource)),
     Required(2, "reason", OneOf(PresentationTerminationReason)) >>)

PresentationConnectionOpenRequest == Body(109, {3},
  << Required(0, "request_id", U64),
     Required(1, "presentation_id", Str(Unlimited)),
     Required(2, "url", Str(Unlimited)) >>)

PresentationConnectionOpenResponse == Body(110, {4},
  << Required(0, "request_id", U64),
     Required(1, "result", OneOf(PresentationResult)),
     Required(2, "connection_id", U64),
     Required(3, "connection_count", U64) >>)

PresentationUrlAvailabilityRequest == Body(14, {4},
  << Required(0, "request_id", U64),
     Required(1, "urls", Array(Str(Unlimited), MAX_URLS)),
     Required(2, "watch_duration", U64),
     Required(3, "watch_id", U64) >>)

PresentationUrlAvailabilityResponse == Body(15, {2},
  << Required(0, "request_id", U64),
     Required(1, "url_availabilities", Array(OneOf(UrlAvailability), MAX_URLS)) >>)

PresentationUrlAvailabilityEvent == Body(103, {2},
  << Required(0, "watch_id", U64),
     Required(1, "url_availabilities", Array(OneOf(UrlAvailability), MAX_URLS)) >>)

PresentationConnectionCloseEvent == Body(113, {3, 4},
  << Required(0, "connection_id", U64),
     Required(1, "reason", OneOf(PresentationConnectionCloseReason)),
     Optional(2, "error_message", Str(Unlimited)),
     Required(3, "connection_count", U64) >>)

PresentationConnectionMessage == Body(16, {2},
  << Required(0, "connection_id", U64),
     Required(1, "message", Bytes(Unlimited)) >>)

PresentationChangeEvent == Body(121, {2},
  << Required(0, "presentation_id", Str(Unlimited)),
     Required(1, "connection_count", U64) >>)

(* Network messages *)

AuthCapabilities == Body(1001, {2, 3},
  << Required(0, "psk_input_ease", OneOf(PskInputEase)),
     Sparse(1, "psk_input_methods", Array(OneOf(PskInputMethod), 8)),
     Required(2, "psk_min_bits_of_entropy", U32) >>)

AuthSpake2Handshake == Body(1005, {3},
  << Required(0, "initiation_token", Nested(Str(MAX_STRING_LEN), {0, 1})),
     Required(1, "psk_status", OneOf(Spake2PskStatus)),
     Required(2, "public_value", Bytes(MAX_BYTES_LEN)) >>)

AuthSpake2Confirmation == Body(1003, {1},
  << Required(0, "confirmation_value", Bytes(Unlimited)) >>)

AuthStatus == Body(1004, {1}, << Required(0, "status", OneOf(AuthStatusCode)) >>)

ApplicationMessage ==
  [ AgentInfoRequest |-> AgentInfoRequest,
    AgentInfoResponse |-> AgentInfoResponse,
    AgentStatusRequest |-> AgentStatusRequest,
    AgentStatusResponse |-> AgentStatusResponse,
    AgentInfoEvent |-> AgentInfoEvent,
    PresentationUrlAvailabilityRequest |-> PresentationUrlAvailabilityRequest,
    PresentationUrlAvailabilityResponse |-> PresentationUrlAvailabilityResponse,
    PresentationUrlAvailabilityEvent |-> PresentationUrlAvailabilityEvent,
    PresentationStartRequest |-> PresentationStartRequest,
    PresentationStartResponse |-> PresentationStartResponse,
    PresentationTerminationRequest |-> PresentationTerminationRequest,
    PresentationTerminationResponse |-> PresentationTerminationResponse,
    PresentationTerminationEvent |-> PresentationTerminationEvent,
    PresentationConnectionOpenRequest |-> PresentationConnectionOpenRequest,
    PresentationConnectionOpenResponse |-> PresentationConnectionOpenResponse,
    PresentationConnectionCloseEvent |-> PresentationConnectionCloseEvent,
    PresentationConnectionMessage |-> PresentationConnectionMessage,
    PresentationChangeEvent |-> PresentationChangeEvent ]

NetworkMessage ==
  [ AuthCapabilities |-> AuthCapabilities,
    AuthSpake2Handshake |-> AuthSpake2Handshake,
    AuthSpake2Confirmation |-> AuthSpake2Confirmation,
    AuthStatus |-> AuthStatus ]

\* auth-spake2-need-psk has a type key and no decoder
AuthSpake2Need == 1002

MessageType == DOMAIN ApplicationMessage \cup DOMAIN NetworkMessage

Schema == [t \in MessageType |->
  IF t \in DOMAIN NetworkMessage THEN NetworkMessage[t] ELSE ApplicationMessage[t]]

\* the types that each of the two decode functions knows
Known == [application |-> DOMAIN ApplicationMessage, network |-> DOMAIN NetworkMessage]

-----------------------------------------------------------------------------
(* Type keys: big-endian numbers of 1, 2, 4 or 8 bytes with the logarithm  *)
(* of their length in the two high bits of the first byte.                 *)

VarIntSizes == {1, 2, 4, 8}

VarInt(x, size) ==
  LET tag == CHOOSE i \in 0..3 : 2^i = size IN
  [i \in 1..size |-> (IF i = 1 THEN 64 * tag ELSE 0) +
                     CASE i = size     -> x % 256
                       [] i = size - 1 -> x \div 256
                       [] OTHER        -> 0]

\* the sizes with room for a type key
FittingSizes(x) == IF x < 2^6 THEN VarIntSizes ELSE VarIntSizes \ {1}

EncodeTypeKey(x) == VarInt(x, IF x < 2^6 THEN 1 ELSE 2)

DecodeTypeKey(bytes) ==
  LET size == 2^(bytes[1] \div 64) IN
  FoldLeft(LAMBDA x, b : 256 * x + b, bytes[1] % 64, SubSeq(bytes, 2, size))

(* What a type key is written as, in any size, is read as the same key.    *)
(* Nothing in this assumption is a parameter: evaluating it settles it.    *)
ASSUME TypeKeysRoundTrip ==
  /\ \A t \in MessageType : \A size \in FittingSizes(Schema[t].key) :
       DecodeTypeKey(VarInt(Schema[t].key, size)) = Schema[t].key
  /\ \A key \in {Schema[t].key : t \in MessageType} \cup {AuthSpake2Need} :
       DecodeTypeKey(EncodeTypeKey(key)) = key

-----------------------------------------------------------------------------
(* Encoding *)

TypeKey(bytes) == [is |-> "type", bytes |-> bytes]
Entry(key, item) == [is |-> "entry", key |-> key, item |-> item]

Item(kind, v) ==
  IF Composite(kind) THEN [is |-> kind.is, of |-> OnWire(kind.of), v |-> v]
                     ELSE [is |-> OnWire(kind), v |-> v]

\* whether the encoder writes field f of message m
Written(f, m) ==
  CASE f.treat = "optional" -> f.name \in DOMAIN m
    [] f.treat = "sparse"   -> m[f.name] # <<>>
    [] OTHER                -> TRUE

LeadUnit(l, m) ==
  IF l.is = "field" THEN Entry(l.key, Item(l.kind, m[l.name])) ELSE l

LeadUnits(t, m) == [i \in DOMAIN Schema[t].lead |-> LeadUnit(Schema[t].lead[i], m)]

\* no message has more than one field that may be left out
WrittenFields(t, m) ==
  LET fields == Schema[t].fields
      out == {i \in DOMAIN fields : ~Written(fields[i], m)}
  IN  IF out = {} THEN fields ELSE RemoveAt(fields, CHOOSE i \in out : TRUE)

Entries(t, m) ==
  [i \in DOMAIN WrittenFields(t, m) |->
     LET f == WrittenFields(t, m)[i] IN Entry(f.key, Item(f.kind, m[f.name]))]

Encoding(t, m) ==
  << TypeKey(EncodeTypeKey(Schema[t].key)) >> \o LeadUnits(t, m)
    \o << MapOf(Len(Entries(t, m))) >> \o Entries(t, m)

(* What a unit takes in the buffer: the head of a CBOR item grows with the *)
(* number in it.                                                           *)
HeadLen(n) == IF n < 24 THEN 1 ELSE IF n < 256 THEN 2 ELSE IF n < 65536 THEN 3 ELSE 5

LeafLen(is, v) ==
  CASE is = "uint" -> HeadLen(v)
    [] is = "pair" -> 1 + HeadLen(v[1].len) + v[1].len + HeadLen(v[2].len) + v[2].len
    [] OTHER       -> HeadLen(v.len) + v.len

ItemLen(item) ==
  IF item.is \in {"array", "map"}
  THEN FoldLeft(LAMBDA n, v : n + LeafLen(item.of, v) + (IF item.is = "map" THEN 1 ELSE 0),
                HeadLen(Len(item.v)), item.v)
  ELSE LeafLen(item.is, item.v)

UnitLen(u) ==
  CASE u.is = "type"  -> Len(u.bytes)
    [] u.is = "entry" -> 1 + ItemLen(u.item)
    [] OTHER          -> 1

ByteLen(units) == FoldLeft(LAMBDA n, u : n + UnitLen(u), 0, units)

-----------------------------------------------------------------------------
(* Decoding one value *)

LeafRead(kind, is, v) ==
  /\ is = OnWire(kind)
  /\ CASE kind.is = "enum" -> v \in kind.of
       [] kind.is = "uint" -> v <= kind.max
       [] kind.is = "pair" -> v[1].len <= kind.max /\ v[2].len <= kind.max
       [] OTHER            -> v.len <= kind.max

ValueRead(kind, item) ==
  IF Composite(kind)
  THEN /\ item.is = kind.is
       /\ Len(item.v) \in kind.sizes
       /\ \A i \in DOMAIN item.v : LeafRead(kind.of, item.of, item.v[i])
  ELSE item.is \notin {"array", "map"} /\ LeafRead(kind, item.is, item.v)

\* an Option keeps the last value, a Vec made before the loop collects them
IsCollected(f) == f.treat \in {"collected", "sparse"}

With(fields, name, v) ==
  [n \in DOMAIN fields \cup {name} |-> IF n = name THEN v ELSE fields[n]]

(* Mistake: what comes again replaces what a Vec has collected. *)
Replace(f, fields, item) == With(fields, f.name, item.v)

Keep(f, fields, item) ==
  With(fields, f.name, IF IsCollected(f) THEN fields[f.name] \o item.v ELSE item.v)

(* Mistake: each array is measured by itself. *)
FitsAlone(f, fields, item) == IsCollected(f) => Len(item.v) \in f.kind.sizes

\* a Vec has a capacity
Fits(f, fields, item) ==
  IsCollected(f) => Len(fields[f.name]) + Len(item.v) \in f.kind.sizes

-----------------------------------------------------------------------------
VARIABLES
  sender,    \* who encoded: "own", this code, or "peer", another implementation
  type,      \* the type of the message that is sent
  msg,       \* the fields this code's encoder was given
  wire,      \* the units of the stream
  arrived,   \* how many of them the reader has when its stream ends
  reader,    \* which decode is called: ApplicationMessage's or NetworkMessage's
  pc,        \* how far sender and decoder are
  pos,       \* how many units the decoder has read
  as,        \* the type it decodes the body as
  left,      \* the turns its loop has left
  got        \* the fields it has read

vars == <<sender, type, msg, wire, arrived, reader, pc, pos, as, left, got>>
input == <<sender, type, msg, wire, arrived, reader>>

Done == {"accepted", "refused", "panicked", "not_encoded"}
PC   == Done \cup {"idle", "writing", "sent", "type", "lead", "map", "loop"}

\* the values of a kind that a program of this code encodes
Leaves(kind) ==
  CASE kind.is = "uint"  -> {n \in Number : n <= kind.max}
    [] kind.is = "enum"  -> Number \cap kind.of
    [] kind.is = "text"  -> Text
    [] kind.is = "bytes" -> Blob
    [] kind.is = "pair"  -> Text \X Text

Most(S) == CHOOSE n \in S : \A k \in S : k <= n

Values(kind) ==
  IF Composite(kind)
  THEN {[i \in 1..n |-> v] : v \in Leaves(kind.of), n \in kind.sizes \cap {0, 1, Most(kind.sizes)}}
  ELSE Leaves(kind)

NoFields == [n \in {} |-> {}]

Parts(t) == Schema[t].lead \o Schema[t].fields

\* messages with a value for part p, too, unless that is an Option that is None
Extended(ms, p) ==
  IF p.is # "field" THEN ms
  ELSE {With(m, p.name, v) : m \in ms, v \in Values(p.kind)}
         \cup (IF p.treat = "optional" THEN ms ELSE {})

\* the messages of type t, with values for their first i parts
Beginnings(t) ==
  LET ms[i \in 0..Len(Parts(t))] ==
        IF i = 0 THEN {NoFields} ELSE Extended(ms[i - 1], Parts(t)[i])
  IN  ms

\* the messages of type t that a program of this code encodes
Messages(t) == Beginnings(t)[Len(Parts(t))]

Init ==
  /\ sender = "own" /\ type \in MessageType /\ msg = NoFields
  /\ wire = <<>> /\ arrived = 0 /\ reader = "application"
  /\ pc = "idle" /\ pos = 0 /\ as = type /\ left = 0 /\ got = NoFields

decoder == <<pos, as, left, got>>

-----------------------------------------------------------------------------
(* msg.encode(buf) and the send that follows it.  A message that does not  *)
(* fit into the buffer is an Err of encode, and the caller sends nothing.  *)

Encode(m) ==
  /\ pc = "idle"
  /\ ByteLen(Encoding(type, m)) <= MAX_MESSAGE_SIZE
  /\ wire' = Encoding(type, m)
  /\ msg' = m
  /\ pc' = "sent"
  /\ UNCHANGED <<sender, type, arrived, reader, decoder>>

EncodeFails(m) ==
  /\ pc = "idle"
  /\ ByteLen(Encoding(type, m)) > MAX_MESSAGE_SIZE
  /\ msg' = m
  /\ pc' = "not_encoded"
  /\ UNCHANGED <<sender, type, wire, arrived, reader, decoder>>

(* Another implementation sends a well-formed map of its own: in any order, *)
(* with entries missing, repeated, of an unknown key or with numbers an     *)
(* enumeration does not have, and with a type key of any size.              *)

PeerBegins(size, count) ==
  /\ pc = "idle"
  /\ type \in PeerType /\ \A l \in ToSet(Schema[type].lead) : l.is # "field"
  /\ sender' = "peer"
  /\ wire' = << TypeKey(VarInt(Schema[type].key, size)) >> \o Schema[type].lead \o << MapOf(count) >>
  /\ left' = count
  /\ pc' = "writing"
  /\ UNCHANGED <<type, msg, arrived, reader, pos, as, got>>

PeerLeaves(kind) ==
  CASE kind.is \in {"uint", "enum"} -> PeerNumber
    [] kind.is = "text"  -> PeerText
    [] kind.is = "bytes" -> Blob
    [] kind.is = "pair"  -> PeerText \X PeerText

PeerValues(kind) ==
  IF Composite(kind)
  THEN {<<v>> : v \in PeerLeaves(kind.of)} \cup
       {[i \in 1..Most(kind.sizes) |-> v] : v \in {CHOOSE l \in PeerLeaves(kind.of) : TRUE}}
  ELSE PeerLeaves(kind)

PeerEntries ==
  {Entry(Len(Schema[type].fields), Item(U64, 0))} \cup
  UNION {{Entry(f.key, Item(f.kind, v)) : v \in PeerValues(f.kind)} : f \in ToSet(Schema[type].fields)}

PeerWrites(u) ==
  /\ pc = "writing" /\ left > 0
  /\ wire' = Append(wire, u)
  /\ left' = left - 1
  /\ UNCHANGED <<sender, type, msg, arrived, reader, pc, pos, as, got>>

PeerSends ==
  /\ pc = "writing" /\ left = 0
  /\ pc' = "sent"
  /\ UNCHANGED <<input, decoder>>

\* an agent-info-response with its two outer keys in the other order
PeerSwaps(m) ==
  /\ pc = "idle"
  /\ type \in PeerType /\ type = "AgentInfoResponse"
  /\ sender' = "peer"
  /\ wire' = << TypeKey(EncodeTypeKey(Schema[type].key)), MapOf(2), KeyOf(1), MapOf(Len(Entries(type, m))) >>
               \o Entries(type, m) \o << LeadUnit(Schema[type].lead[2], m) >>
  /\ pc' = "sent"
  /\ UNCHANGED <<type, msg, arrived, reader, decoder>>

\* another implementation may send auth-spake2-need-psk, too
PeerNeedsPsk ==
  /\ pc = "idle"
  /\ sender' = "peer"
  /\ wire' = << TypeKey(EncodeTypeKey(AuthSpake2Need)) >>
  /\ pc' = "sent"
  /\ UNCHANGED <<type, msg, arrived, reader, decoder>>

(* The reader takes what the stream holds when it ends; a stream that is   *)
(* reset in the middle ends like a complete one.                           *)
Receive(r, n) ==
  /\ pc = "sent"
  /\ n = Len(wire) \/ type \in Cuttable
  /\ reader' = r
  /\ arrived' = n
  /\ pc' = "type"
  /\ UNCHANGED <<sender, type, msg, wire, decoder>>

-----------------------------------------------------------------------------
(* decode and decode_body *)

HasUnit == pos < arrived
Unit    == wire[pos + 1]

Refuse ==
  /\ pc' = "refused"
  /\ UNCHANGED <<input, decoder>>

\* the input ends where a unit is due
EndOfInput ==
  /\ pc \in {"type", "lead", "map", "loop"}
  /\ pc = "loop" => left > 0
  /\ ~HasUnit
  /\ Refuse

(* Mistake: both decoders look into one table of types. *)
KnownAnywhere(key) == {t \in MessageType : Schema[t].key = key}

KnownAs(key) == {t \in Known[reader] : Schema[t].key = key}

\* the Vecs that collect are made before the loop
Collections(t) == {f.name : f \in {g \in ToSet(Schema[t].fields) : IsCollected(g)}}

ReadTypeKey ==
  /\ pc = "type" /\ HasUnit
  /\ LET key == DecodeTypeKey(Unit.bytes) IN
     \/ \E t \in KnownAs(key) :
          /\ as' = t
          /\ got' = [n \in Collections(t) |-> <<>>]
          /\ pos' = pos + 1
          /\ pc' = IF Schema[t].lead = <<>> THEN "map" ELSE "lead"
          /\ UNCHANGED <<input, left>>
     \/ /\ KnownAs(key) = {}
        /\ key = AuthSpake2Need /\ reader = "network"
        /\ pc' = "panicked"
        /\ UNCHANGED <<input, decoder>>
     \/ /\ KnownAs(key) = {}
        /\ ~(key = AuthSpake2Need /\ reader = "network")
        /\ Refuse

\* agent-info-response and agent-info-event: fixed keys in fixed order
ReadLead ==
  /\ pc = "lead" /\ HasUnit
  /\ LET l == Schema[as].lead[pos] IN
     \/ /\ l.is # "field" /\ Unit = l
        /\ UNCHANGED got
        /\ pos' = pos + 1
        /\ pc' = IF pos = Len(Schema[as].lead) THEN "map" ELSE pc
        /\ UNCHANGED <<input, as, left>>
     \/ /\ l.is = "field" /\ Unit.is = "entry" /\ Unit.key = l.key /\ ValueRead(l.kind, Unit.item)
        /\ got' = With(got, l.name, Unit.item.v)
        /\ pos' = pos + 1
        /\ pc' = IF pos = Len(Schema[as].lead) THEN "map" ELSE pc
        /\ UNCHANGED <<input, as, left>>
     \/ /\ IF l.is = "field"
           THEN ~(Unit.is = "entry" /\ Unit.key = l.key /\ ValueRead(l.kind, Unit.item))
           ELSE Unit # l
        /\ Refuse

ReadMap ==
  /\ pc = "map" /\ HasUnit
  /\ \/ /\ Unit.n \in Schema[as].counts
        /\ left' = Unit.n
        /\ pos' = pos + 1
        /\ pc' = "loop"
        /\ UNCHANGED <<input, as, got>>
     \/ /\ Unit.n \notin Schema[as].counts
        /\ Refuse

(* Mistake: the decoder expects the fields in the order of the encoder. *)
TakesNext(f, u) ==
  /\ f.key = u.key /\ ValueRead(f.kind, u.item) /\ Fits(f, got, u.item)
  /\ \A g \in ToSet(Schema[as].fields) : g.treat = "required" /\ g.key < f.key => g.name \in DOMAIN got

\* the field of the loop that takes this entry
Takes(f, u) == f.key = u.key /\ ValueRead(f.kind, u.item) /\ Fits(f, got, u.item)

ReadEntry ==
  /\ pc = "loop" /\ left > 0 /\ HasUnit
  /\ \/ \E f \in ToSet(Schema[as].fields) :
          /\ Takes(f, Unit)
          /\ got' = Keep(f, got, Unit.item)
          /\ pos' = pos + 1
          /\ left' = left - 1
          /\ UNCHANGED <<input, pc, as>>
     \/ /\ \A f \in ToSet(Schema[as].fields) : ~Takes(f, Unit)
        /\ Refuse

RequiredNames(t) == {f.name : f \in {g \in ToSet(Schema[t].fields) : g.treat = "required"}}

(* Mistake: the loop ends as soon as nothing required is missing. *)
FinishEarly ==
  /\ pc = "loop" /\ (left = 0 \/ RequiredNames(as) \subseteq DOMAIN got)
  /\ pc' = IF RequiredNames(as) \subseteq DOMAIN got THEN "accepted" ELSE "refused"
  /\ UNCHANGED <<input, decoder>>

Finish ==
  /\ pc = "loop" /\ left = 0
  /\ pc' = IF RequiredNames(as) \subseteq DOMAIN got THEN "accepted" ELSE "refused"
  /\ UNCHANGED <<input, decoder>>

Decode == EndOfInput \/ ReadTypeKey \/ ReadLead \/ ReadMap \/ ReadEntry \/ Finish

Send ==
  /\ pc = "idle"
  /\ \/ \E m \in Messages(type) : Encode(m) \/ EncodeFails(m) \/ PeerSwaps(m)
     \/ \E size \in FittingSizes(Schema[type].key), count \in 0..Len(Schema[type].fields) :
          PeerBegins(size, count)
     \/ PeerNeedsPsk

Write == pc = "writing" /\ (PeerSends \/ \E u \in PeerEntries : PeerWrites(u))

Next ==
  \/ Send
  \/ Write
  \/ \E r \in DOMAIN Known, n \in 0..Len(wire) : Receive(r, n)
  \/ Decode

Spec == Init /\ [][Next]_vars

-----------------------------------------------------------------------------
(* Properties *)

\* the fields of a message of type t, the one before its body included
AllFields(t) == {l \in ToSet(Schema[t].lead) : l.is = "field"} \cup ToSet(Schema[t].fields)

FieldNames(t) == {f.name : f \in AllFields(t)}

(* The variables keep their types; the decoder never reads past what has   *)
(* arrived and only stores fields of the type it decodes.                  *)
TypeOK ==
  /\ sender \in {"own", "peer"} /\ type \in MessageType /\ as \in MessageType
  /\ reader \in DOMAIN Known /\ pc \in PC
  /\ arrived \in 0..Len(wire) /\ pos \in 0..arrived /\ left \in Nat
  /\ DOMAIN got \subseteq FieldNames(as)

(* A message whose stream broke off is never taken for a complete one: the *)
(* readers of the streams do not tell a reset from an end, so the decoder  *)
(* has to notice, and there is no length in front of a message.            *)
CutNeverAccepted == pc = "accepted" => arrived = Len(wire)

(* Whatever the size of its type key, a message is read as what it was     *)
(* sent as, and only by the decode that knows its type: the application    *)
(* tries its own decode first and gives the rest to the network machine.   *)
RightDecoder == pc = "accepted" => as = type /\ type \in Known[reader]

Body1 == Len(Schema[type].lead) + 2     \* the place of the body's map

\* the places of the body at which field f is sent
Places(f) == {i \in Body1 + 1..Len(wire) : wire[i].key = f.key}

\* the arrays with this key, joined, in the first n units of a stream whose
\* body begins behind unit b
Joined(units, b, key) ==
  LET j[n \in 0..Len(units)] ==
        IF n <= b THEN <<>>
        ELSE IF units[n].key = key THEN j[n - 1] \o units[n].item.v
        ELSE j[n - 1]
  IN  j

(* An accepted message means what was sent.  Of this code's own messages   *)
(* every field comes back as it was; in a foreign message with repeated    *)
(* keys the last value counts, and arrays that are collected are joined.   *)
AcceptedMeansWhatWasSent ==
  pc = "accepted" =>
    /\ sender = "own" => got = msg
    /\ \A f \in ToSet(Schema[type].fields) :
         IF IsCollected(f) THEN got[f.name] = Joined(wire, Body1, f.key)[Len(wire)]
         ELSE IF Places(f) = {} THEN f.name \notin DOMAIN got
         ELSE f.name \in DOMAIN got /\ got[f.name] = wire[Most(Places(f))].item.v

\* a message as the CDDL in the comments wants it, within the decoders' limits
WellFormed ==
  LET body   == Body1 + 1..Len(wire)
      fields == ToSet(Schema[type].fields)
  IN  /\ Len(wire) >= Body1 /\ wire[Body1] = MapOf(Len(wire) - Body1)
      /\ \A i \in DOMAIN Schema[type].lead :
           LET l == Schema[type].lead[i] IN
           IF l.is = "field" THEN wire[i + 1].is = "entry" /\ wire[i + 1].key = l.key
                             ELSE wire[i + 1] = l
      /\ \A i, j \in body : wire[i].key = wire[j].key => i = j
      /\ \A f \in fields : f.treat \in {"required", "collected"} => Places(f) # {}
      /\ \A i \in body : \E f \in fields :
           f.key = wire[i].key /\ ValueRead(f.kind, wire[i].item)

(* A complete and well-formed message within the limits is never refused,  *)
(* whoever wrote it: its entries may come in any order, and its type key   *)
(* may be longer than it has to be.                                        *)
WellFormedIsAccepted ==
  pc = "refused" /\ arrived = Len(wire) /\ type \in Known[reader] => ~WellFormed

(* What the decoder hands out is within the limits it promises: a Vec that *)
(* collects holds no more than its capacity, also when its key is repeated, *)
(* and no text, number or byte string is beyond its limit.                 *)
LimitsHold ==
  pc = "accepted" =>
    \A f \in AllFields(as) :
      f.name \in DOMAIN got => ValueRead(f.kind, Item(f.kind, got[f.name]))

(* Nothing but the number of entries speaks against a key that comes       *)
(* twice.  Where every field is required that is enough: each key was      *)
(* there exactly once.                                                     *)
EveryFieldOnce ==
  LET fields == ToSet(Schema[type].fields) IN
  pc = "accepted" /\ (\A f \in fields : f.treat = "required") =>
    \A f \in fields : \E i \in DOMAIN wire : Places(f) = {i}

(* An accepted message is valid: within the limits and, where every field  *)
(* is required, made of each field once.                                   *)
AcceptedIsValid == LimitsHold /\ EveryFieldOnce
=============================================================================
