# TLA+ specifications of dgproto-go

dgproto-go is a Go implementation of DGProto v1: framed messages over TCP,
a Noise XX handshake, ChaCha20-Poly1305 frames with sequence numbers, epochs
and rekeys, and a connection runtime and server around them. These modules
model the parts where order, concurrency and boundaries decide correctness.
Paths below are relative to `src/`.

## The system and its modules

| Part | Source | Module |
|---|---|---|
| Replay window | `internal/replay/window.go`, `replay.go` | `ReplayWindow`, `ReplaySet`, `ReplaySpec`, `ReplayKeepaliveProofs` |
| Session: frames, epochs, rekey, grace | `session*.go`, `rekey.go` | `Session`, `SessionServerProofs` |
| Connection runtime | `connection*.go` | `Connection`, `ConnectionProofs`, `DeliveryProofs`, `MCConnection` |
| Keepalive and idle timers | `connection_keepalive.go` | `Keepalive`, `ReplayKeepaliveProofs`, `MCKeepalive` |
| Settings of clients, servers and runtimes | `client_config.go`, `server_config.go`, `connection.go` | `Config`, `ReplayKeepaliveProofs` |
| Server | `server.go`, `server_runtime.go` | `Server`, `SessionServerProofs` |
| TCP transport | `tcp.go`, `transport.go` | `Transport`, `TransportProofs` |
| Handshake | `handshake.go` | `Handshake`, `EstablishProofs` |
| Client, server side of the handshake | `client.go`, `client_start.go`, `server_handshake.go` | `Establish`, `EstablishProofs`, `MCEstablish` |
| TLV codec | `tlv.go`, `internal/tlv/codec.go` | `Tlv`, `CodecProofs` |
| Messages, frames, headers, AEAD framing | `messages*.go`, `frame.go`, `header.go`, `crypto.go` | `Wire`, `CodecProofs`, `WireProofs`, `MCWire` |
| Key files, key log, statistics, examples | `static_key.go`, `keylog*.go`, `server_stats.go`, `examples/` | see "Not modelled" |

How they interact: `Server.handleConn` performs the handshake, makes a
`Session` from its keys and hands socket and session to a `Connection`. The
connection's writer calls `Session.Send` and `TCPTransport.WriteFrame`, its
reader `ReadFrame` and `Session.Receive`. A session keeps one `ReplayWindow`
per receive key. `Session` uses the window as the set that `ReplayWindow`
implements; `Server` uses of a connection what `Connection` shows (once
closing it comes to Done by itself; a Close or abort before Start keeps it
from running); `Connection` lets the timers of `Keepalive` fire at any time, and
uses of `Transport` that a cancelled read or write returns (`CallsReturn`) and that
no other one is disturbed (`NeverPoisoned`). `Establish` extends `Handshake`: every
routine owns one Handshake object, and the composition implements `HandshakeSpec`. It
ends where `Connection` and the handoff of `Server` begin. `Keepalive` extends
`Config`: its loop runs with whatever settings a client, a server or `NewConnection`
makes of the ones it is given. `Wire` extends `Tlv`, and takes from `Session` that a
frame opens only under the key and sequence number that sealed it.

### ReplayWindow, ReplaySet, ReplaySpec

`ReplayWindow` has the bitmap of `WordCount` words of `WordBits` bits and
shifts it word by word as `Advance` does; tokens are taken by `Check` and used
later by `Commit`, with the generation in between. `ReplaySet` is the same
window as a record of the highest number and the set of numbers seen (pure
operators, shared with `Session`). `ReplaySpec` is the promise: a number is
accepted at most once, and only inside the window. `ReplayWindow` implements
it with the bitmap mapped to the set.

### Session

One direction: the send half of one peer and the receive half of the other.
`frames` holds every frame ever encrypted and the receiver may be handed any of
them at any time, so loss, delay, reordering and duplication are all included.
A key is the number of ratchet steps that led to it. Elapsed times stand for the
two clocks (`sendAge`, `graceLeft`). `Send`, `StartRekey`, `MarkRekeySent`,
`ReceiveRekey`, `ReceiveCurrent`, `ReceivePrevious` and `ReceiveRefused` are the
branches of the code's methods; each holds the mutex of its half throughout, so
each is one step.

### Connection

Every goroutine (reader, writer, handler loop, maintenance loop, context
watcher, joiner, callers of Send, Close, Start and abort) has a control point in
`pc`; a step ends wherever another goroutine can interfere. `life` has the
flags, causes and `sync.Once` states, `queue` the channels and the read leases
of `queueMu`; a pending exclusive lock keeps new readers out, as in Go. A `select`
takes any ready case. `history` is what no code sees: the messages accepted, those
sent, and the frames written, in their order. Message contents, padding
and session cryptography are left out; a rekey is one more frame before the
message (`Encrypt`, `WriteDone`).

### Keepalive

The same maintenance loop with discrete timers: a timer at 0 has a value in its
channel that nobody has read. The loop may be late by any number of ticks. The
peer may answer the last two pings any number of times. The settings of a behaviour
are chosen in `Init` from what `Config` lets through.

### Config

`normalizeClientConfig`, `NewServer` and `NewConnection` as functions from settings to
settings or a refusal. Durations wrap around as `int64` does (`Wrapped`); what is only
checked for being valid (keys, pin, cipher suite, WriteTimeout,
HandlerShutdownTimeout, the sizes of a server's pools) is one field.

### Server

`serve` is the accept loop, `sock` has one worker per socket with its runtime and
watcher, `srv` the server's maps, pools, flags and wait group, `stop` the calls
of Close and Abort with the snapshot they took. Deferred calls of `handleConn`
run in their Go order as the labels from `unregister` on.

### Handshake and Establish

`Handshake` has any number of Handshake objects of both roles. `step`, `transcript` and
`result` are the fields of an object; `flights` is every flight emitted so far, and each
may be read by any object, any number of times, as may junk of the right length. Noise
is symbolic: a transcript is the sequence of public keys mixed in, it stands for hash and
chaining key, and an encrypted part opens only under the transcript that sealed it. An
ephemeral key is named by the object that made it.

`Establish` puts the routines around the objects: `DialContext` and
`DialAndStartContext` with their two contexts, and `performHandshake` with its frame
checks and allow list. A step is what a routine does up to its next transport call.
The peer of a socket is our own routine, or a stranger that sends any flight it has
seen on a wire, junk, and frames of another type or with a session ID. `socket` counts
how often each socket was closed.

### Tlv and Wire

`Tlv` has sizes, alignment, encoding and the two decoding passes. A buffer is its length
and the field headers its bytes hold by offset. `Wire` follows one call from
`Send`, `SendPayload`, a flight or a control message of the session, through the
encoder, `Encrypt` and `WriteFrame`, over the wire to `ReadFrame`, `Decrypt` and the
decoder; or starts with bytes that a peer of a later version may send. Of a payload
there is its length and what the decoders look at. `ValidateFrameSize` and `EncodedLen`
are operators of their own, compared with what encoding does. The loops of the codec are
recursive functions over the rounds: `Lengths`, `Offsets`, `Rounds`, `Reads`. The constant
`Calls` has the inputs; `CallsAssumption` says which inputs there can be, with no bound on
sizes and counts.

### Transport

Each call of `ReadFrame` and `WriteFrame` is a process with its context and, while
it has its lane, a watcher goroutine. `lane` has the tokens in the two channels,
`deadline` says whether a deadline of the socket has passed. Bytes are units, two
for a header, so that a call can stop inside a header or inside a body. The
frames of the peer are chosen as they are read. A header read from the middle of a
frame, after an earlier read was torn, may say anything. The socket (`Serves`,
`Broken`) and contexts (`Cancel`) are external. The check of the whole frame after
its body repeats the checks of the header and cannot fail.

## Runs

| Run | Shows | Bounds |
|---|---|---|
| `replay_window` | check exact, commit once, refinement of `ReplaySpec` | 3 words of 2 bits, numbers to 9 (past the window and a full clear), 2 tokens |
| `session` | nonces, rekey order, agreement, at most once, in-order delivery, grace, headroom | 3 epochs, 4 numbers, window 2, limits 3 frames / 1 tick, grace 2 / 2 |
| `conn_lifecycle` | Done, causes, honest Close | any 2 of 6 kinds of event, 1 Close besides the watcher's and the idle close, 1 inbound message, 1 ping |
| `conn_sending` | queues, completions, order, results | 3 senders (one per API), queues of 1, 1 rekey, 1 Close, cancelled callers or an expired close deadline |
| `conn_progress` | handlers, Done reached, Close and senders return | 2 waiting senders, 1 Close; or 2 inbound of data, ping and protocol error with both handler configurations, or 1 with a keepalive ping out |
| `keepalive` | timeouts neither false nor early, acknowledgements match, silence noticed | 7 settings (own, default, negative and unrepresentable timeouts, idle off or 3), largest duration 7, nonces to 5, 2 refusals |
| `server` | slots, ownership, Close, hooks, liveness | 2 sockets, pools of 1, 1 Close, 1 Abort |
| `transport` | no poisoned call, whole frames, calls return | 2 reads, 2 writes, or 1 and 1; 2 frames with and without a body |
| `establish` | agreement, pin, outcomes of dial and worker, ends final, establishment ends | 5 casts: a pinned, a mispinned and a disallowed client with a worker; client and worker each with a stranger (3 frames); 2 objects of each role called directly |
| `wire` | delivery, sizes, decoding, re-encoding | largest frame 143 bytes, padding to 8; fields, texts and cuts around every limit |

The bounds are the smallest at which each limit is met and passed: a queue of
one is full with a second sender, a pool of one refuses the second socket, a
window of two has numbers below it, three epochs swap the windows twice, and the
last sequence number and epoch are reached. A frame of 143 bytes leaves the same
remainder modulo 4 as 65535 does, which is what the limits of `messages.go` depend on.
Two senders and the retained frame
in the writer are the most that can compete for one place in a queue. `MaxEvents`
bounds how many kinds of disturbance meet in one behaviour. Deadlock is checked
everywhere except in `session`, where both peers may have closed and nothing is left
to do.

Two runs show where the code differs from what its comments or docs say:

* `conn_close_frame`: `connection_lifecycle.go:45` says that Close sends a
  SessionClose when the runtime is active. A ping read after `closing` was set
  cannot enqueue its pong, and the reader then shuts the connection down before
  the frame is written. Close reports this (`CloseHonest`).
* `keepalive_idle`: `connection.go:14` says that an idle timeout means that no
  inbound activity occurred. The idle case of the select does not look at a
  recorded activity, as the pong deadline does.

Two more have no run:

* `connection_receive.go:69` says that queued callbacks are never begun after shutdown.
  `handlerLoop`'s recheck of the context and the call of the handler are two steps
  (`HandlerTake` and `CallbackBegin` in `Connection`), and `shutdown` can run between
  them. What does hold is `HandlersContained`: calls never overlap while they are not
  detached, and without a handler bound none is running once Done is closed.
* `server.go:116` says that Close waits for all server-owned goroutines. The goroutine
  that watches a handed-off connection (`server_runtime.go:72`, `Watch` in `Server`) is
  not in the wait group and may end after Close has returned; the runtime it watches is
  done by then.

## Fairness

* `Connection`: `WF(System)`: while some goroutine can take a step of its own, one
  does. This is weaker than Go's scheduler and suffices because the work the
  environment brings is bounded. Nothing is assumed of the peer, the network or
  the callers: a write may never complete, but a cancelled one returns, and a
  started close timer fires. An inline handler (no `HandlerShutdownTimeout`) is
  assumed to return; a bounded one is not.
* `Keepalive`: time passes and the loop runs. That the control queue takes a ping
  after finitely many refusals is the bound `MaxRefusals`; a queue that stays full
  for ever keeps pings from being sent, and only the idle or write timeouts help.
  Silence is noticed only with a keepalive interval: without one and without an idle
  timeout the loop has no timer.
* `Server`: workers, watchers and callers of Close go on; the handshake ends by
  its timeout, hooks return, a closing runtime comes to Done.
* `Establish`: HandshakeTimeout ends every establishment context, and a routine
  goes on by itself where it needs nobody, or once its context has ended (`Goes`; that
  such a transport call returns is `CallsReturn`). No peer has to answer.
* `Transport`: callers and watchers go on. No unit has to arrive or to be taken, no
  context has to end and nobody has to close.

## Proofs

A proof module extends the modules it proves about; two of them hold the proofs of two
parts that share no state. Most leaves that need no arithmetic name Zenon as their prover.

`SessionServerProofs` proves of sessions, for every window size, number width, limit and
grace budget (`SessionAssumption` only says that they are natural numbers, the last
sequence number and epoch positive):

* `TypeCorrect`: the type invariant, inductive by itself;
* `NonceSafety`: no key and sequence number is used for two frames;
* `RekeyOrder`: nothing of an epoch is numbered above its RekeyInit;
* `Agreement`: keys and epochs of the two ends correspond;
* `AtMostOnce`: no frame is accepted twice;
* `InOrder`: in-order delivery is never refused;
* `GraceEnds`: an expired key is not revived (an action property);
* `NeverOutOfSequences`: a frame limit below the last number leaves room for RekeyInit;
* `GraceCounts`: grace is used up by exactly `GraceFrames` frames.

The argument. `NonceNeverReused` is not inductive: that the next number is fresh
follows from where all earlier frames are. `SendInv` says that frames of the
current key are numbered below `nextSequence` (all of them are possible once it is
0), that none has a later key, that an epoch left behind ended with its RekeyInit,
and that a pending rekey holds the frame that was sent. `ReceiveInv` says that
each window contains exactly what was accepted under its key, as far as it still
matters, that nothing was accepted under later keys, and that the retained key is
the previous one. `HeadroomInv` ties `nextSequence` to `sentInEpoch`, and `GraceInv`
adds finiteness of the accepted set to `GraceBudget`, for the cardinality to be
counted. Each is shown for `Init` and for every action, one step per action.

`ReplayKeepaliveProofs` proves of the replay window, for every word width, number of words
and largest sequence (`WindowAssumption`: these are natural numbers, the first two positive):

* `CheckIsExact` (`CheckExact`): Check refuses exactly zero, what was committed and what
  is too old;
* `CommitsOnce` (`CommitOnce`): no sequence is committed twice, and a commit makes every
  other token stale;
* `WindowImplementsPromise` (`ImplementsPromise`): the bitmap implements `ReplaySpec`;
* `WindowInductive`: the invariant they follow from.

`WindowInv` says that the bitmap is the committed set as far as the window reaches
(`MarksExact`), and that the generation is the number of commits and no token is ahead of
it (`Counted`). The work is in `Advance`: its loop shifts the words in place, from the last
one down, so every word is read before it is overwritten. A shift by words and bits is
then a shift of every mark by their sum, by the arithmetic of division with remainder.

`WireProofs` proves of the formats, with the lemmas about single codecs in the module
`CodecProofs` it extends, for any inputs (`CallsAssumption`) and any limits
for which 65535 and 255 can stand (`SequenceSizeAssumption`, `WireAssumption`: the largest
frame is 3 modulo 4 bytes, and every RekeyInit, Ack and flight fits in it):

* `AllDelivered` (`Delivered`): what Send accepts is what Receive returns;
* `SizesAreExact` (`SizesExact`): the size checks before encoding agree with encoding;
* `DecodingIsExact` (`DecodeExact`): DecodeTLVs accepts exactly whole fields, and a frame is
  split exactly;
* `AllCanBeSent` (`ReceivedCanBeSent`): no decoder accepts what its encoder refuses;
* `WireInductive`: the invariant they follow from.

`WireInv` says that payload, frame, octets and result are what the codecs make of the call,
as far as the call has come. The properties are then about the codecs alone. Their loops
need induction, which the prover does not offer for predicates; it is done on sets. Every
non-empty set of naturals has a least element (`Least`), so a set with 0 and closed under
successor up to n contains 0..n (`UpTo`), and the recursive functions have the values their
definitions say (`Recursion`, `LoopType`). The lemma behind the rest is `Decoded` with its
converse `Decodable`: the first pass accepts a buffer just when the fields that the second
pass reads fill it to the last byte. From it every encoder is undone by its decoder
(`MessageBack`), likewise for frames (`FrameBack`) and sealing (`DecryptBack`).

`TransportProofs` proves, for any sets of calls, header and body sizes
(`TransportAssumption`: sizes are natural numbers, a header is not empty, no call is
both a read and a write):

* `NoPoisoning`: no call fails with a timeout that the cancellation of another one
  left on the socket;
* `FramesStayWhole` (`FramesWhole`): a successful write has put its frame on the stream in
  one piece; a successful read has one whole frame, unless an earlier read was torn.

`NeverPoisoned` speaks of results only. `LaneInv` adds that a lane has one owner;
`WatchInv` that a watcher lives only while its call holds the lane and that a passed
deadline is that of an owner whose context is done and who has not yet joined its
watcher. A call that meets a passed deadline is therefore the cancelled one
(`SoleOwner`), and `transportError` reports its own context. `StreamInv` is needed
for the types: a parsed header belongs to a frame that the peer has begun.
For `FramesWhole`, `WriterInv` says that the units of a writer are one block of the stream,
the last one as long as it writes, and `ReaderInv` that the inbound stream is inside a
frame only while a reader reads that frame, unless a read was torn before.

`EstablishProofs` proves of the handshakes, for any sets of objects, keys and pins
(`RolesAssumption`: no object has both roles):

* `HandshakesAgree`: a responder completes only with an initiator that completed with
  it, with session ID and identities shared and the keys of the directions exchanged,
  and no session ID belongs to two objects of a role;
* `PinHolds`: a final flight is released only for the expected peer;
* `EndsStay`: a completed or failed object does not change.

`Agreement` speaks of completed objects only. `Shape` adds what the transcript is at every
step of either role, and that a final flight in `flights` (`FinishShape`) is that of an
initiator that completed, with exactly that transcript, after its comparison. A responder
that opens it has the same transcript; since the transcript contains both ephemeral
keys, the exchange is the same one.

Of the routines around them it proves, for any casts, allow list and number of
strangers' frames (`CastsAssumption`: a client has a pin):

* `EstablishImplementsHandshake`: Establish implements `HandshakeSpec`, so the theorems
  above hold of it;
* `DialsHonest` (`DialOutcome`) and `SessionsHonest` (`SessionOutcome`).

What a routine hands to its object was on a wire or is junk (`Carried`); this makes
every step a step of the handshakes or a stutter. `DialShape` and `SessionShape` then
say, per control point, which step the object is at, who owns the socket, and which
flights were written.

`ReplayKeepaliveProofs` proves of timers and settings, for durations of any width, any
settings, any nonce bound and any lateness of the loop (`DurationAssumption`, `KeepaliveAssumption`: sizes are natural
numbers, settings are within their types):

* `ClientSound`, `ServerSound`: settings that a client or a server accepts have, once
  normalised, a positive handshake timeout, a positive timeout for every keepalive, a
  keepalive window that did not overflow, and a ReadTimeout of zero or at least the
  idle and keepalive windows;
* `SameVerdict`: both accept the same settings and run them with the same timers, though
  two functions check them, in different orders and with different guards;
* `TimeoutsJustified` (`TimeoutJustified`) and `AcknowledgementsMatch`
  (`AcknowledgementMatches`).

`TimeoutJustified` speaks of the end only. `Timing` says that the pong timer runs exactly
while an enqueued ping is outstanding, and that the ticks since the ping and those left
make up the timeout at least; that the timeout is positive comes from `ConfigsOk`, for
`NewConnection` replaces what a direct caller left out. `Acknowledging` says that the
acknowledgement under `pingMu` is that of the outstanding ping, and is there whenever the
reader has recorded one, so that the deadline's second look cannot miss it.

`SessionServerProofs` proves of the server, for any number of sockets and of calls of Close
and Abort, and pools of any size (`ServerAssumption`: both pools have a slot):

* `SlotsAlwaysConserved` (`SlotsConserved`), `NothingEverEscapesClose`
  (`NothingEscapesClose`) and `DisconnectsOnce` (`DisconnectOnce`);
* `Inductive`: the invariant they follow from.

Its parts: `SocketInv` says, for each point of `handleConn`, what is true of the socket, its
runtime and its hooks, and which of the two maps and of `Serve` has it. `Counts` says that
both pools and the wait group are the sizes of sets of sockets, which are finite.
`Snapshots` says that every stop that has begun still has in its snapshot each socket that
a worker keeps open, and that no handoff can come after `inShutdown`; with an empty
snapshot nothing is exposed, and a wait group of zero then means that no worker is left.
Every step of a socket is one `Moves`, whose effect on the counts is proved once
(`MoveCounts`, `MoveInv`); an action has to show its own `SocketInv` only.

`ConnectionProofs` and `DeliveryProofs` prove, for any number of senders and of calls of
Close, any capacities of the queues and any messages of the peer (`ConnectionAssumption`:
constants have their types, a queue has a place; `NamesAssumption`: goroutines and the
items of the queues have names of their own):

* `DoneOnce` (`DoneIsFinal`) and `CauseIsStable` (`CauseStable`);
* `HandlersAreContained` (`HandlersContained`);
* `AwaitedOnlyOnce` (`AwaitedOnce`), `WritesInOrder` (`WrittenInOrder`) and
  `ResultsAreHonest` (`ResultsHonest`);
* `ClosesHonestly` (`CloseHonest`);
* `ControlInductive`, `ConnectionInductive`: the invariants they follow from.

The invariant has layers, and each uses the ones before it. `ControlInv` ties control points
to flags: where each goroutine can be, that one goroutine closes Done and only when no
other runs (`StartInv`), and that the body of `shutdownOnce` runs once (`ShutdownInv`).
`DataInv` has the types. `LeaseInv` says who holds a read lease of `queueMu`, and that after
the terminal disposal nobody does, so nothing is queued any more. `HandlerInv` says where the
user's handler is for each point of the handler loop. `PlaceInv` says of each message where
it is (queued, with the writer, answered) and what its sender was told. `WrittenInOrder`
is not inductive: `OrderInv` adds that the accepted messages are those sent, the one the
writer holds and those queued, in this order, until the connection ends. `CloseInv` says
that one goroutine at most has asked for a SessionClose, and what it was told.

Only model-checked: all liveness, since the prover does not handle fairness.

## Not modelled

* Byte layout: the order of bytes in header and payload fields (`internal/wire`,
  encoding/binary calls), and the wording of errors. No property here tells them
  apart.
* The codec of `ResumptionTicket`: the message is not part of the protocol's first version,
  and a session refuses its type before the codec is reached (this refusal is in `Wire`).
* Noise, ChaCha20-Poly1305 and HKDF: libraries, symbolic in `Handshake`, `Session`, `Wire`.
* `static_key.go`: one file is read and checked. `keylog*.go`: a debugging aid behind a
  build tag that formats one line and writes it under a lock.
* `server_stats.go`: a snapshot of lengths and counters under the server's lock. The
  pools it reports are conserved, and a socket is in one of the two maps it counts
  throughout a handoff (`SlotsConserved`).
* The copies of caller's slices (`NewEncryptedData`, `AllowedClients`, the server pin):
  values are immutable in TLA+, so aliasing cannot be expressed without a model of
  memory.
* Examples and the interoperability program: users of the library.

## Open

1. An abstract transport that `Connection` relies on, implemented by `Transport`.
2. Composition: `Connection`'s writer over `Session`'s send half, with
   `MarkRekeySent` after a failed or cancelled write.
