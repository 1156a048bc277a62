# openscreen-rs in TLA+

openscreen-rs implements the W3C Open Screen protocol: agents discover each
other with mDNS, connect with QUIC, authenticate each other with SPAKE2 over a
pre-shared key, and then exchange application messages.  This directory models
its core in TLA+, model-checks it with TLC and proves its main theorems with
TLAPS.  Paths below are relative to `src/`.

## 1. The system

| Component | Where | State it keeps | Operations |
|---|---|---|---|
| SPAKE2 authentication state machine | `openscreen-network/src/state_machine/`, `crypto_data.rs` | one of ten states, `CryptoData` (PSK, role, token, public values, transcript, keys, a one-message buffer) | `handle(TransportConnected / DataReceived / CryptoCompleted / Tick)` returns outputs `SendMessage`, `RequestCrypto`, `Event` |
| Crypto provider | `openscreen-crypto`, `openscreen-crypto-rustcrypto` | the SPAKE2 state between Start and Finish | `execute(request)`: SPAKE2 Start, FinishWithConfirmation, VerifyConfirmation; hash, HMAC, HKDF, AEAD, certificates |
| Network message codec | `openscreen-network/src/messages.rs` | none | encode and decode of the four authentication messages |
| Quinn client | `openscreen-quinn/src/lib.rs` | endpoint, the current connection, one state machine for the life of the client | `connect`, `run_until_authenticated` (30 s), `process_event`, `send_application_data`, `receive_application_data` |
| Quinn server | `openscreen-quinn/src/server.rs` | endpoint, PSK, token; one state machine per connection while it is authenticated | `accept`, `authenticate_connection` (10 s), `drive_authentication`, `AuthenticatedConnection` |
| Application state machine | `openscreen-application/src/lib.rs`, `state.rs` | a network state machine, `app_state`, `next_request_id` | eight commands, transport inputs, received messages |
| Application codec | `openscreen-application/src/messages.rs` | none | encode and decode of the agent-info and presentation messages |
| Sender and receiver programs | `openscreen-application/src/bin/` | command line | discover, connect, one agent-info request and its response |
| Certificate identity | `openscreen-application/src/cert.rs`, `storage.rs` | `cert.pem`, `key.pem` | generate, save, load, load or generate |
| Discovery types | `openscreen-discovery` | none | fingerprint, token, TXT records, the browser and publisher traits |
| Discovery over mDNS | `openscreen-discovery-mdns` | map of discovered services, browsing flag, a receiver shared by two tasks; name registered | start and stop browsing, snapshot, event stream; publish, unpublish |
| Discovery in memory | `openscreen-discovery-mock` | registry behind a lock, broadcast channel of 100 events | the same traits |
| Varints and type keys | `openscreen-common` | none | QUIC variable-length integers |

### How they interact

The state machine does no I/O.  A *driver* (the quinn client or server) reads a
unidirectional stream per message, hands the bytes over as `DataReceived`,
sends every `SendMessage` on a stream of its own, runs every `RequestCrypto`
on the provider and hands the answer back as `CryptoCompleted`.  The provider
keeps the SPAKE2 state from Start to Finish.  Once the machine is
authenticated, the driver stops feeding it and gives the connection to the
application.  The receiver program advertises its token and fingerprint over
mDNS; the sender takes both from there and puts the token into its handshake.

`ApplicationStateMachine` is a second way to use the handshake: it owns a
handshake machine, tries received bytes as an application message first and
hands what it cannot decode to that machine, drops the machine's messages
(its comment leaves them to the transport) and passes on its crypto requests.
No program of the repository drives it.

### What is hard

* Four exchanges (capabilities, handshake, confirmation, status) run in both
  directions at once, and each crypto request adds a second source of input.
  A state takes only the input it expects and panics or fails on others.
* Authentication is a two-phase commit over a driver that may time out at any
  moment on either side.
* There are misconfigured peers: two PSKs, an outdated token, two equal roles.
* The client's state machine outlives a connection, the server's does not.
* The server authenticates one connection at a time, the client gives up after
  30 seconds.
* Discovery: two tasks take events from one channel; lock and event order
  differ; a channel with a capacity.
* Two files make one identity, and the program can stop between the writes.
* Nothing frames a message but the end of its stream, and a stream that breaks
  off ends, too.  Map entries come in any order, may be repeated or unknown, and
  the decoders compare only their number.
* `app_state` and the handshake machine both remember the authentication;
  responses of the receiver move the one without a look at the other.  What the
  application's decoder refuses is given to the handshake machine, which it
  poisons.

## 2. Correctness, component by component

* **Handshake**: a peer verifies the other one only if both hold the same
  secret and transcript; nobody is authenticated before both have verified;
  wrong configurations are noticed before that; right ones never meet an error
  in any order of events, never panic, and finish if the drivers do not stop.
* **Drivers**: `connect` returns `Ok` only for a connection that was
  authenticated; a stalled client delays the others by a bounded time; a
  client can retry.
* **Discovery**: what a browser shows follows what is published.
* **Identity**: a stored identity is one certificate with its key, also after a
  crash, and the advertised fingerprint is that of the certificate in use.
* **Application**: the two records of the authentication agree; no command
  reaches a receiver in its handshake and no message of the receiver disturbs
  ours; `app_state` follows what the receiver runs.
* **Codecs**: what is accepted is what was sent, of the type it was sent as, whole
  and within the limits; what is well-formed is accepted.

## 3. The modules

| Module | Models | Composes |
|---|---|---|
| `MutualAuthentication` | the promise of the handshake, without messages, keys or states | |
| `Spake2StateMachine` | two peers, each a state machine, its crypto provider and its driver, and the streams between them | implements `MutualAuthentication` |
| `Spake2Proofs` | the inductive invariant and the theorems | extends `Spake2StateMachine` |
| `QuinnSessions` | clients, the server's accept loop, handler tasks, timeouts, retries, the first request | implements `MutualAuthentication` on every client's first connection |
| `QuinnProofs` | the inductive invariant and the theorems | extends `QuinnSessions` |
| `MdnsDiscovery` | publisher, daemon, browser, its background tasks and the event stream | |
| `MdnsProofs` | theorems about it | extends `MdnsDiscovery` |
| `AgentIdentity` | programs that load or make the certificate and key of one directory | |
| `AgentProofs` | theorems about it | extends `AgentIdentity` |
| `MessageCodec` | encoders and decoders of all 22 messages, another implementation's messages, streams that break off | |
| `MCMessageCodec` | lengths at and beyond the limits, for TLC | extends `MessageCodec` |
| `CodecProofs` | theorems about the frame of a message and where its decoder is in it | extends `MessageCodec` |
| `ContentProofs` | theorems about what the decoder makes of it | extends `CodecProofs` |
| `ApplicationSession` | the application's state machine, its driver, its user and a receiver | |
| `SessionProofs` | theorems about it | extends `ApplicationSession` |
| `MockDiscovery` | discovery in memory: publishers, registry, broadcast channel, browser, stream | |
| `MockProofs` | theorems about it | extends `MockDiscovery` |

### Spake2StateMachine

One action is one call of `Spake2StateMachine::handle`, the outputs included:
`TransportConnected`, one `Receive...` action per state for `DataReceived`
(`BufferData` for the message that overtakes a crypto result, `RejectData` for
every `Err`), one action per crypto result (`HandshakeInitiated`,
`HandshakeGenerated`, `KeysDerived`, `KeysDerivedWithPending`,
`ConfirmationVerified`, `CryptoFailed`), `Panic` for the inputs a state has no
arm for, and `GiveUp` for the driver's timeout.  `Handles` is the table of which
state takes which input.

| Variable | Code |
|---|---|
| `state[p]` | `Spake2StateMachine.state`; `Panicked` stands for a panic in a handler |
| `psk`, `authToken`, `isResponder` | the fields of `CryptoData` that are set before the attempt |
| `data[p]` | the fields the handlers fill: public value, both handshake messages, transcript, keys, `pending_confirmation_bytes` |
| `request[p]` | the `RequestCrypto` output the driver has not answered |
| `provider[p]` | `RustCryptoCryptoProvider.spake2_state`, from Start to Finish |
| `chan[p]` | the unidirectional streams on their way to `p`, in the order they were opened and are accepted |
| `driver[p]` | whether the task that feeds the machine still runs |

Cryptography is symbolic: a key is the record of what it was derived from.  Two
details of the code show in it.  `spake2::finish` fails on a public value of the
same side, so two initiators or two responders meet an error there
(`FinishSucceeds`).  And the TLS fingerprints do not enter the key: the provider
builds `rfc_context` from them (`openscreen-crypto-rustcrypto/src/lib.rs:189-201`)
and does not use it, so `Secret` has no fingerprint.

`synchronous[p]` says whether the driver of `p` answers a request before it
reads the next stream.  Both quinn drivers do; the state machine is written for
drivers that do not, too.  Every combination is an initial state; safety is
checked and proved for all of them, and only `CompatiblePeersAuthenticate` asks
for synchronous drivers (`spake2_buffer` shows why).

### QuinnSessions

One action is one turn of a driver's loop: read a stream, feed it to the
machine, run the crypto, send the answers.  `InitiatorStep` and `ResponderStep`
are what the machine does in such a turn (`Spake2StateMachine` with synchronous
crypto; the two crypto states are passed within the turn).  A turn can be cut
off by the timeout after the machine has moved and before all answers are sent
(`ClientCutOff`, `ServerCutOff`), which is where the two ends get out of step.
A stream can break off while it is read (`ClientReadsCut`, `ServerReadsCut`):
both loops take the error for the end of the stream
(`openscreen-quinn/src/lib.rs:305`, `server.rs:356`), and the rest of a message
poisons the machine.  `accept()` takes a connection (`Accept`), waits for its TLS
handshake and sends its capabilities (`Greet`), which lie outside `AUTH_TIMEOUT`
and may fail (`AcceptFails`), and only then runs the handshake under it.  After
authentication a connection is lost only when an end has closed it.
The client's machine belongs to the client and the server's to the connection,
as in the code; the actions `Reuse...` are what `TransportConnected` does to a
machine that was used before.

| Variable | Code |
|---|---|
| `machine[c]`, `connection[c]` | `QuinnClient.network_state`, `QuinnClient.connection` |
| `call[c]` | where the program that uses the client is: dialing, driving the handshake, returned Ok, awaiting the response, ... |
| `incoming`, `serving` | the endpoint's queue, and the connection `accept()` is authenticating: one at a time |
| `session[k]`, `handler[k]` | the server's machine of a connection, the receiver's task for it |
| `up[k]`, `down[k]`, `closed` | the streams of a connection, and the connections an end has closed |
| `clientCut[k]`, `serverCut[k]` | history: how far an end had come when a stream broke off under it |

### MdnsDiscovery

Every consumer of the channel, a background task or the event stream, is a loop
with a program counter at its awaits: the flag's lock (`check`), the channel
(`receive`), the map's lock (`write`).  `start_browsing` makes a channel and a
task; `stop_browsing` makes the daemon drop its end, or leaves both when
`stop_browse` errs (`StopFails`).  The stream borrows the browser, so neither is
called while it lives.  Records are abstracted to a value `Info`, and a full name
to `Name`; `Unreadable` are records that `service_info_from_mdns` refuses, for
which `Apply` keeps the old entry and tells nobody.  The services of other
devices (`Foreign`) are announced, changed and withdrawn at any time, with any
records (`OtherDevice`).  `publish` overwrites `service_fullname` whatever it was.
`streamed` is history: whether a stream has ever been opened.

The daemon of `mdns-sd` is external.  It is assumed to report, in order, what
changed since its last report, and to replace the listener of a first `browse()`
by that of a second one for the same type, which closes the first one's channel:
`start_browsing` called twice relies on it to be rid of its first task.

### AgentIdentity

`load_or_generate` of `cert.rs`, one action per access to a file: both reads,
and for each write the truncation (`OpenCert`, `OpenKey`) and its end
(`WriteCert`, `WriteKey`), with a `Stop` possible after each.  A certificate or
a key is the number of the pair it was made in; `Torn` is a file that is not
completely written, which the loader cannot parse.  `served` and `overlapped`
are history: the pairs programs have run with, and whether a program has started
while another one was looking for an identity that was not there.  Only stops of
programs are modelled: after a power failure a file system may keep writes in
another order.  Two programs that write one file at once leave in the model what
was written last; the properties that read the files are stated for
starts that do not overlap in this way.

### MessageCodec

The code writes the encoder and the decoder of each type out field by field.
Here a type is a table (`PresentationStartRequest`, `AuthStatus`, ...: its key,
the counts of entries its decoder takes, for each field its number, its kind
with the limit the decoder checks, and whether it is required, optional or
collected), and one encoder and one decoder interpret the tables.  A stream is
a sequence of the units the code reads in one go: the type key, the head of a
map, a key with its value.  Lengths of variable-length integers, heads and
texts are counted in bytes where the code counts them (`ByteLen` against
`MAX_MESSAGE_SIZE`, the size of the type key).

The sender is this code (`Encode`, for every type, with values at and beyond the
limits) or another implementation (`PeerBegins`, `PeerWrites`, `PeerSends`,
`PeerSwaps`), which may leave out, repeat, invent and reorder entries and use a
type key of any size.  `Receive` lets a prefix arrive and picks one of the two
decode functions; `ReadTypeKey`, `ReadLead`, `ReadMap`, `ReadEntry` and `Finish`
are the decoder's steps, `Refuse` every `Err` (its kind is left out).

Facts of the code that show in the model: `AgentInfoResponse` and
`AgentInfoEvent` take their outer keys in order only; agent-status messages take
a map of any definite length; encoders check no limit but the size of the buffer,
so this code can encode what it does not decode; a key that is repeated counts
twice; `auth-spake2-need-psk` is a panic (`unimplemented!`).

### ApplicationSession

One action is one call of `handle_input`: a command, `TransportConnected`,
`DataReceived` (`CutReceived` for a stream that broke off), `CryptoCompleted`,
`StreamReported`, `Tick`.  `Command` lists the commands; each takes a request id
before it encodes, so a text that does not fit or a 17th URL costs an id
(`EncodeFails`, `TooManyUrls`).  `HandleDataReceived` is the fall-through from
the one decoder to the other.  The handshake machine is the initiator of
`Spake2StateMachine`, reduced to the message each state waits for.

| Variable | Code |
|---|---|
| `network`, `request` | `ApplicationStateMachine.network` and its `RequestCrypto` output |
| `app_state`, `next_request_id` | the fields |
| `reply` | what the call returned: the event, the error, or `Ok` |
| `waiting` | the user's start requests without an answer |
| `setting` | whether the transport sends the handshake messages that the machine drops (`carries`), whether the receiver has the empty PSK of `Spake2StateMachine::default()` (`shares`), whether the receiver says nothing of presentations unasked or before the handshake is over (`orderly`), whether the user starts one presentation at a time (`careful`) |
| `peer`, `running`, `toPeer`, `toUs` | the receiver and the streams, read in the order they were opened |
| `garbled` | history: whether a stream to us broke off, or brought an application message that the decoder refuses |

The receiver is not in the repository: it runs the responder's handshake,
answers requests once it is authenticated, ends presentations of its own accord
and speaks unasked; agent-info messages it may send during the handshake, too,
as the specification allows.  One that is not `orderly` says anything at any
time, before it is authenticated as well: that a presentation has started, or
that one is over.  Any receiver may say what `ApplicationMessage::decode` does
not take (`Undecodable`: a value beyond its limits, a key it does not know), as
an answer or unasked, during the handshake or after it; such a message goes to
the handshake machine.

Facts that show: the network machine never emits `AuthenticationFailed`, so
neither does the application; `PresentationUrlAvailabilityResponse`,
`PresentationTerminationResponse` and every request are ignored;
`StreamOpened` and `StreamClosed` panic before a terminal state.

### MockDiscovery

A call of a publisher is its changes of the registry in order; each is two
actions, the write under the lock (`WriteServices`) and the event
(`SendEvent`), between which the others run.  `update_txt_records` is a removal
and a publication, and has taken `current_service` out before it starts.  The
channel of tokio is external: a full one drops its oldest event, and the reader
is told that it lagged.  The reader subscribes, takes a snapshot and follows the
stream, whose loop reads the flag (`CheckBrowsing`) before it waits (`Receive`,
`ReceiveLagged`).  The stream borrows the browser, so browsing is started and
stopped while there is none; `DropStream` drops it at any await, and another one
may follow.  The future of a publisher's call may be dropped while it waits for
the lock of the map (`Abandon`), between the two changes of an update too.

`careful` publishers share no name, unpublish before they publish again and do
not drop an update before its first change.  `heard` is history: what the stream
last said of a name, or that the channel has dropped that.

## 4. What is checked

Bounds are the constants in the `.cfg` files; apart from them nothing is cut.

| Run | Result | What it shows |
|---|---|---|
| `spake2_handshake` | holds | Two agents, two PSKs and two tokens or none, every assignment of roles, drivers that answer crypto at once or at any later time and stop anywhere: `KeyConfirmation`, `AuthenticatedTogether`, `BufferedIsConfirmation`, `NoPanic`, `CompatibleNeverErrs`, `NothingLeftBehind`, the refinement; with synchronous drivers compatible peers authenticate, unless a driver stops |
| `spake2_buffer` | violated | With asynchronous crypto a status can end in the buffer for good |
| `quinn_sessions` | holds | A right client, one with another PSK, one server, timeouts and broken streams: `Ok` means authenticated, streams are not mixed up, the handshake does not stall and derails only with a broken stream, the refinement; everyone is served, an accepted request is answered |
| `quinn_reconnect` | holds | A right client and one with an old token, with a second `connect` on each: what the server accepts is authenticated (2.2 million states) |
| `quinn_reconnect_ok` | violated | The second `connect` of a client returns `Ok` with no authentication |
| `mdns_discovery` | holds | A publisher, another device with records of both kinds, two browsing sessions, stops that may fail, streams opened and dropped: the map is what was reported and comes to be what is on the air, no task stays behind (0.6 million states) |
| `mdns_stream` | violated | The stream's reader misses events |
| `agent_identity` | holds | Two programs on one directory, stopped anywhere: certificate and key match, the identity stays, a complete one is not replaced |
| `message_codec` | holds | All 22 types from this code, six from another implementation, cut anywhere, read by either decoder: no prefix is accepted, no type mistaken, what is accepted is what was sent and within the limits, what is well-formed is accepted (3.7 million states) |
| `application_session` | holds | Every setting, two presentations, two request ids: authentication is mutual, `app_state` never falls behind the handshake machine and with an orderly receiver agrees with it, commands and handshake do not meet, what decodes does not disturb the handshake, `app_state` tells what runs; the handshake completes, a start is answered (0.6 million states) |
| `session_unasked` | violated | A receiver that is not authenticated makes `app_state` Presenting |
| `mock_discovery` | holds | Two publishers, two names, a channel of two events: snapshot and stream lead to the map, no orphans, changes blink for every reader but for what it missed; the reader catches up (0.5 million states) |

Why the bounds are enough.  A handshake has two peers and at most four messages
a side, so `Spake2StateMachine` is finite without a bound; a second PSK and a
second token make every way in which two configurations can differ, and three
of either would only repeat one.  In `QuinnSessions` a right client waits behind a wrong
one; a wrong PSK (`quinn_sessions`) is noticed when a confirmation is verified, an
old token (`quinn_reconnect`) when the server reads the handshake; two calls of `connect` reach every state the
first one can leave behind.  In `MdnsDiscovery` a name of the publisher and one of
another device, with readable and unreadable records, make an update that cannot
be read and a removal after it; two channels make a task that outlives its
session; two announcements bring a name back.  In `AgentIdentity` two programs make a start
beside a running program and beside another start; four pairs let three starts
be cut off at different points before one succeeds.  In `MessageCodec` every
limit has a value at it and one beyond it, and another implementation's messages
are of the six types whose decoders differ in kind (nested maps, a lead field,
any count, optional fields, bytes, numbers).  In `ApplicationSession` two ids
are a start and its end, or a start and another one after the receiver has ended
the first; one command and one unasked message at a
time may be on their way besides what they are answered with.  In
`MockDiscovery` a channel of two (100 in the code) overflows with the third
event, and three calls make an update between a publication and its end.

Type correctness is proved for every module; `quinn_sessions` also checks
`TypeOK`, the other runs leave it to the proofs.

Deadlock checking is off everywhere because attempts, programs and publishers
come to an end.

### Fairness

* `Spake2StateMachine`: weak fairness of `Progress(p)`: a driver polls in a
  loop, so an input that stays available is handed over.  Nothing makes a
  driver give up, and nothing stops it from doing so, hence "unless a driver
  stops".
* `QuinnSessions`: weak fairness of the drivers' turns, of both timeouts and of
  `accept` in the receiver's loop.  Only the clients that are configured right
  are fair; the others may stall anywhere, and so may every dial.  The server's
  wait for a TLS handshake and for the stream of its first message has no timeout
  in this code; that it ends is an assumption about quinn (its idle timeout and
  the stream credit its peers grant).
* `MdnsDiscovery`: weak fairness of each consumer's loop (tokio schedules a
  task that can run; an open stream is polled) and of the daemon's reports.
  The application is not fair: it may stop using the browser.
* `ApplicationSession`: weak fairness of the driver's inputs and of the
  receiver's.  The user is not fair, and `StreamReported` may come at any time,
  hence the exceptions in the properties.
* `MockDiscovery`: weak fairness of a call that has begun and of the reader's
  loop.  `ReaderCatchesUp` is for readers that keep browsing.

### Disagreements between code and text

Each is a run with result "violated", and a finding in `PROJECT.json` with the
lines on both sides.

1. `computing.rs` promises to process the buffered message when crypto
   completes; after `VerifyConfirmation` it does not.
2. `QuinnClient::connect` says `Ok` means authenticated; a client that is
   already authenticated returns `Ok` for any second connection.
3. The event stream of `MdnsBrowser` shares its channel with the background
   task and sees the events that task leaves.
4. `state.rs` says that `ApplicationState::Idle` is "Not authenticated" and
   `is_authenticated()` whether "we're authenticated"; an unasked
   `PresentationStartResponse` or `PresentationTerminationEvent` makes it so
   before the handshake is over.

More are in the model and no run asks for them.  `QuinnClient::connect` says it
returns `Err` when a connection fails (`lib.rs:201-203`); after a timeout in
mid-handshake the next call panics (`ConnectNeverPanics` with one client that is
configured right and `MaxConnect = 2`).  `discovered_services` shows services
that disappeared while the browser was stopped, and a second consumer of the mDNS
channel can write the map in the wrong order (`SnapshotIsCurrent` without `Sole`).
The state flow of
`state_machine/mod.rs` ends every error in `Failed`; the code ends it in
`Poisoned`, and a failed verification is not even reported to the machine, which
stays in `Computing` (`awaiting_confirmation.rs:118-120` says otherwise).  A second
`publish` under another name leaves the first service registered with nobody to
withdraw it.
`load_or_generate` "generates new if not found" (`cert.rs:300`); the code does
so after any error, so that a failed read of intact files costs the agent its
identity (`IdentityPersists` with `ReadErrors = TRUE`).  And two programs that
make an identity at once can leave a certificate with another one's key, which
every later start loads (`LoadedPairMatches` without its condition).  The CDDL
above `PresentationConnectionMessage` allows text, its decoder takes bytes only.
Two publishers of one name in `MockDiscovery`, or `clear()`, leave a reader with
another view than the map (`ViewFollowsServices` without `careful`).  A user who
runs two presentations is told `Authenticated` when the first one ends
(`PresentingIsRunning` without `careful`).

## 5. What is proved

`Spake2Proofs` proves, for all sets of PSKs and tokens, every configuration and
both kinds of drivers:

| Theorem | States |
|---|---|
| `Invariance` | `Spec => []IInv` |
| `TypeCorrect` | `Spec => []TypeOK` |
| `KeyConfirmed` | `Spec => []KeyConfirmation`: who has verified has a compatible peer with the same key and transcript |
| `Agreement` | `Spec => []AuthenticatedTogether`: nobody is authenticated before both have verified |
| `ChannelDrained` | `Spec => []NothingLeftBehind` |
| `Refinement` | `Spec => ImplementsMutualAuthentication` |
| `PathInvariance` | `Spec => [](IInv /\ PathsInv)` |
| `BufferKeepsConfirmation` | `Spec => []BufferedIsConfirmation` |
| `BufferNeverOverwritten` | no step puts a message into a buffer that holds one |
| `PanicFree` | `Spec => []NoPanic`: with one initiator and one responder no handler panics |
| `OnlyTokensRejected` | whatever the configurations, the only message a handler ever refuses is a handshake with a token that is not the advertised one |
| `CompatiblePeersNeverErr` | `Spec => []CompatibleNeverErrs`: no order of inputs brings an error to a right configuration |

Assumptions: the two agents differ, `NoToken` is not a token, `None` is none of
the values an option can hold.  Each is a named `ASSUME` of `Spake2StateMachine`, which TLC evaluates in the runs.

The argument.  None of these properties is inductive: a state in which a
confirmation lies in the buffer of a peer whose partner has no key yet has
nothing wrong with it until the confirmation verifies.  The strengthening is that
a peer's configuration fixes everything it can ever say.  Peer `p` has four
messages in it (`Hello`, `HS(p)`, `Conf(p)`, `Ok`), says each after a point it
never goes back behind, and in this order.  `Sayings(p)` is the set of those it
may have said by now.  `ChannelInv` says that whatever the other peer holds of
`p`, in its channel, its buffer or an open request, is among them, and that a
channel holds them in increasing `Rank`.  Hence a confirmation in somebody's
hands proves that its author has the key, and `RequestInv`, `DataInv` and
`StateInv` carry this to the comparison in `VerifySucceeds`, where equality of
symbolic MACs yields `Compatible` (`VerificationMeansCompatible`).  `VerifiedInv`
is what remains of it in the later states.  The step lemma has one case per
action (`...Inv`); the lemmas `ChannelSend`, `ChannelReceive`, `ChannelQuiet` and
`ChannelKept` say once what an action can do to the channels.  The refinement
follows action by action from the invariant (`StepRefines`).

That a message is on its way only after its author could have said it does not
yet tell what comes next.  The second invariant, `PathsInv`, does: `Told(p)` and
`Taken(p)` count what `p` has said and taken of the four messages, as far as its
state and data show, and `PlaceInv` says that the channel to `p` holds exactly
the messages from `Taken(p)` on to `Told(Other(p))`, in order and without a gap.
So the type of the next message is known in every state, which leaves
`RejectData` nothing but the token (`RejectFacts`) and the buffer nothing but a
confirmation (`BufferDataFacts`).  `ReadyInv` is what an open request relies on
(the provider still has its half of SPAKE2), `RunInv` that a machine whose driver
runs has not failed, `CleanInv` the two properties that are left.

`QuinnProofs` proves, for any number of clients, every configuration of theirs
and timeouts anywhere:

| Theorem | States |
|---|---|
| `Invariance`, `TypeCorrect` | `Spec => []IInv`, `Spec => []TypeOK`, for any number of calls of `connect` |
| `AcceptedAuthenticated` | `Spec => []AcceptedIsAuthenticated`, for any number of calls |
| `FirstConnectAuthenticated` | for any number of calls: the first `connect` of a client returns `Ok` only if the server has verified it |
| `NeverStalls` | for any number of calls: while both ends run the handshake of a connection, a message is on its way to one of them |
| `ConnectAuthenticates` | if `MaxConnect = 1`, `Spec => []ConnectMeansAuthenticated` |
| `StreamsKeptApart` | if `MaxConnect = 1`, `Spec => []StreamsSeparated` |
| `HandshakeCorrect` | if `MaxConnect = 1`, `Spec => []HandshakeProceeds`: the ends never wait for each other, and only a stream that breaks off sends a right configuration astray |
| `SessionsRefine` | if `MaxConnect = 1`, `Spec => SessionsImplementAuthentication` |

`MaxConnect = 1` is a client that calls `connect` once.  The code does not keep
these promises without it: the client's machine outlives the connection, and the
run `quinn_reconnect_ok` shows a second call that returns `Ok` with nobody
authenticated.  What holds for every call is proved for every call.

On a connection each end says five things in a fixed order (`ClientSays`,
`ServerSays`): four of the handshake and one of the application.  How many of the
other end's it has taken (`Taken`) and how many of its own it has said at most
(`ClientTold`, `ServerTold`) can be read off its state.  `WireInv` says that what
is on its way on the connection a client's handshake runs on begins where the
receiving end stands and reaches no further than the sending end's state allows
(`UpInv`, `DownInv`): exactly as far while the sender's driver runs, perhaps less
far once a timeout has cut its turn off between the machine's move and the answers.
`QueueInv` says that a connection waits for `accept` once and untouched,
`SessionInv` and `ClientInv` what either end's state says of its configuration and
that nothing was said yet on a connection younger than the one the client holds.
An end that was poisoned by a stream that broke off keeps the position it had
(`ClientAt`, `ServerAt`, `CutInv`): what it has said before may still decide the
other one.
Agreement comes from the position of the status: it is said by an end that has
taken and verified the other one's confirmation.  The refinement maps every turn to
a step of `MutualAuthentication` for the client it belongs to, or to a stutter.
Assumptions: `None` is no connection, `SamePsk` and `GoodToken` are sets of clients
and `MaxConnect` is a positive number.

`MdnsProofs` proves, for all sets of names and records and any number of
publications:

| Theorem | States |
|---|---|
| `TypesHold`, `TypeCorrect` | `Spec => []TypeInv`, `Spec => []TypeOK`; a consumer about to write has a report in hand |
| `SnapshotCurrent` | `Spec => []SnapshotIsCurrent`, with unreadable records, stops that fail and any number of sessions and streams; the property speaks of the sole task of the first session (`Sole`) |

The condition `Sole` is in the property because the code does not keep it
without (section 4).
`SnapshotIsCurrent` speaks of the end of the reports' way only.  Its invariant
`SessionInv` says where the last word on every name is until then: in the
channel (`Queued`), in the task's hands (`InHand`), or in the map (`Shown`).
Assumptions: `None` is no name, record or report, `Foreign` and `Unreadable` are
sets of names and of records, and the bounds are numbers.

`AgentProofs` proves, for every set of programs, any number of pairs and any
stops:

| Theorem | States |
|---|---|
| `TypesHold`, `TypeCorrect` | `Spec => []TypeInv`, `Spec => []TypeOK` |
| `IdentityHolds` | if `ReadErrors = FALSE`, `Spec => []IdentityInv` |
| `PairsMatch`, `OneIdentity` | from it, `LoadedPairMatches` and `IdentityPersists` |
| `IdentityStays` | if `ReadErrors = FALSE`, `Spec => StoredIdentityStays` |

`LoadedPairMatches` is not inductive: it says nothing of the files a crash
leaves.  `FilesInv` does: a key in the file lies beside its own certificate.
`StartInv` says why: from the failure of its load to the last write of its save
a program sees no key in the file, so it is the only one that starts
(`OneStarts`) and nobody has run before.  `save_to_pem` keeps this because it
destroys nothing but an incomplete identity.  Assumptions: `Missing` and `Torn`
differ and are no numbers, and the bound is a number.

`CodecProofs` proves, for every set of texts, byte strings and numbers, every
choice of types the other implementation sends, and cuts anywhere:

| Theorem | States |
|---|---|
| `Invariance`, `TypeCorrect` | `Spec => []IInv`, `Spec => []TypeOK`; the decoder reads nothing that has not arrived |
| `NeverMistaken` | `Spec => []RightDecoder` |
| `NoPrefixAccepted` | `Spec => []CutNeverAccepted` |

The invariant ties the decoder's counter to the stream: `Frames` says what every
sender puts on the wire (a type key, the lead fields of the type, the head of a
map with the number of entries that follow), `Position` that the loop's `left`
plus `pos` is the end of the message.  So a decoder that is through has read all
of it, and a prefix runs out first.  The tables are constants; that no two types
share a key, and that the sizes of a type key are told apart, are lemmas about
them.

`ContentProofs` goes on from there to what the decoders make of a message:

| Theorem | States |
|---|---|
| `ContentInvariance` | `Spec => []CInv` |
| `AcceptedValid` | `Spec => []AcceptedIsValid` |
| `AcceptedMeant` | `Spec => []AcceptedMeansWhatWasSent` |
| `WellFormedAccepted` | `Spec => []WellFormedIsAccepted` |

The three properties speak of the end, when a decoder has accepted or refused.
`CInv` says what it holds on its way there.  `Contents(t, w, p, got)`: after the
first `p` units of `w` a decoder for type `t` holds, for each field, all arrays so
far joined if it is a `Vec` that collects, else the value of the last place the
field was read at, or nothing; and every unit so far was one it takes (`Understood`).
`EntryInv` says the same of the wire alone: what either sender puts behind the head
of the map is entries.  `OwnInv` keeps what this code encodes equal to `Encoding` of
a message of the type.  Each step of the decoder has its lemma (`ContentsLead`,
`ContentsMap`, `ContentsEntry`), and each theorem its own at the end:
`ContentsInLimits` for the limits; `ContentsOnce` for the keys, by counting (`n`
entries with keys among `n` numbers, none of them missing: `AsMany`); `ContentsLast`
and `RoundTrip` for the meaning, from the values that members of `Messages(t)` have
(`MessageFacts`) and the places where the encoder puts them (`EncodingPlaces`).
That a well-formed message is not refused is due at every refusal: its map has a
length the decoder takes (`CountTaken`), what comes first of a field fits the room
that is left (`FirstFits`), and nothing that is required is missing at the end.

`Tables` and `Leads` are all the proofs know of the 22 types: at most five fields,
numbered from 0, of which at most one may be left out, and at most one field in
front of the body.  The model's two recursive functions, `Joined` and `Beginnings`,
are what their definitions say by an induction up to a bound, drawn from the
well-foundedness of `<` on `Nat` in first-order terms (`UpTo`).

`SessionProofs` proves, for every set of presentations and whatever the bounds:

| Theorem | States |
|---|---|
| `Invariance`, `TypeCorrect` | `Spec => []IInv`, `Spec => []TypeOK` |
| `StatesAgree` | `Spec => []StateMatchesNetwork`: its first half for every receiver, its second for an orderly one |
| `MutualAgreement` | `Spec => []AuthenticatedByBoth` |
| `HandshakeFirst` | `Spec => []CommandsAfterHandshake` |
| `Undisturbed` | `Spec => []HandshakeUndisturbed`: only a broken stream or an undecodable message poisons the machine |
| `PresentingTells` | `Spec => []PresentingIsRunning`, for a user who starts one presentation at a time and an orderly receiver |

A message that moves `app_state` does not ask who sent it, so the second half of
`StatesAgree` rests on what an orderly receiver lets be on its way: such messages
answer requests, and requests are made by an authenticated machine (`Quiet`).  An `Ok` status is said by a receiver that
has verified us (`Agreed`); our status precedes the first request (`Behind`); and
the handshake messages under way to us are exactly those still to be taken, in
order, with anything of the application in between (`InOrder`, with `Taken` and
`Said` for the two ends), which is why none of them poisons the machine.  What the
application's decoder refuses does, and that is what `garbled` records.

`PresentingTells` rests on a second invariant, `Course`.  Each of the three messages
of a presentation, the request (`Asked`), the answer (`Answered`) and the termination
(`Ended`), is on its way at most once; the request with neither of the others, and
the answer before the termination.  So whether one is on its way is a bit, and
`app_state`, the number of starts the user waits for and what the receiver runs
are functions of these bits.  The property alone is not inductive: it does not exclude a second
answer behind the first one.

`MockProofs` proves, for any number of publishers, names and any capacity:

| Theorem | States |
|---|---|
| `TypeCorrect` | `Spec => []TypeOK`, the capacity of the channel included |
| `NoOrphans` | `Spec => []EveryServiceIsOwned` |
| `ChannelAgrees` | `Spec => [](careful => Fine)`, `Fine` as below |
| `NothingLost` | `Spec => []ViewFollowsServices`: what a reader saw in its snapshot and the events in the channel make up the map, but for names whose last event was dropped |
| `EveryChangeBlinks` | `Spec => []ChangesBlink`: what a reader hears of a name is by turns a service and its removal, unless the channel has dropped what came in between |

`NoOrphans` needs that careful publishers keep apart in mid-call as well
(`Apart`), what a call still has to do at each point (`Shape`) and that a change
that was written and not yet sent is still in the map (`InMap`).  `Fine` ties the
channel to the map: a write that is to come makes a service of none or none of a
service (`Fresh`); the last event of a name says what the map has, or just the
contrary while the next event is still to be sent (`Told`); and a name without an
event in the channel is in the reader's view what it is in the map (`Known`).  That
a name has a last event is a fact about finite sets of numbers, which needs
induction over numbers in general; the library's well-foundedness of `<` on `Nat`
(`WFMin`) states it in first-order terms, and `GreatestIndex` draws it from there.

Every invariant that a run checks is proved, under the constants the run gives where
the tables above name them, and so is every refinement.  Only
model-checked: what must eventually happen, which needs fairness and `ENABLED` and
is beyond what TLAPS proves here.  The modules have no `RECURSIVE` operator: the
functions defined by recursion are on numbers up to a bound, and what is needed of
them is proved by the induction above.

## 6. Not modelled

* The bits of CBOR and of variable-length integers within a unit, error kinds,
  indefinite-length arrays, trailing bytes after a message (ignored by every
  decoder), and conversions between integer types: `MessageCodec` keeps the
  units, their order, number and lengths.
* TXT records and `sanitize_instance_name`, `normalize_serial_bytes`,
  fingerprints in hex: pure functions of texts and bytes.  A name is a value here,
  so the cut at byte 63 of `sanitize_instance_name` (`utils.rs:30`), which panics
  inside a multi-byte character, is out of sight; it is listed among the hazards.
* TLS certificates and fingerprint verification: a dial that may fail.
* Hash, HMAC, HKDF, AEAD and certificate requests of the crypto provider: pure
  functions that no driver requests.
* `StreamOpened` and `StreamClosed` in `Spake2StateMachine`: no driver feeds them
  (`ApplicationSession` has them).  `AuthStatus` values other than `Ok` are never
  sent by this code.
* `state_machine/negotiating.rs` and `state.rs` of the network: not constructed
  anywhere.  `FileStore` of `storage.rs`: no caller.
* `update_txt_records` of the mDNS publisher: returns an error and changes
  nothing.
* A mock publisher dropped with a service still published (nothing unpublishes
  it), and the end of the mock's channel: the browser holds a sender as long as
  its stream lives, so `Closed` is out of reach.
* The wrap of the 64-bit request id: out of reach of any session.

## 7. What could follow

An abstract discovery browser that `MockDiscovery` and, with one consumer per
channel, `MdnsDiscovery` implement.
