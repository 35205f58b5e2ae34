# A TLA+ verification of roq-udp-subscriber

The program listens to the UDP channels of a publisher of market data, puts the
messages of each channel back together and in order, joins an *incremental* and
a *snapshot* channel, and passes decoded messages to a dispatcher that serves
clients. Datagrams are lost, repeated, reordered and come from more than one
publisher session. All handlers run on one event loop: nothing is concurrent
inside the process, the difficulty is in what order the outside world calls it.

Paths are relative to `src/roq/udp_subscriber/`.

## Inventory

| Part | State | Operations | Interacts with |
|---|---|---|---|
| `tools::Buffer` (one per channel) | `session_id_`, `next_seqno_`, ring `assembly_` of 16 items | `operator()(frame, payload, callback)`: `update`, then the loop that hands over complete items | called by the `Read` handlers; calls their `parse` |
| Recovery: `Shared::session_id`, `Shared::state`, the `parse` callbacks | session, per object `ready` and `last_seqno` | a message of the incremental channel, a message of the snapshot channel | both channels share it |
| Stream status in `Incremental`, `Snapshot`, and `Shared::supports` | `last_update_time_`, `connection_status_`, `supports_` of each stream | `update` with every decoded message, `Timer` | dispatcher, through `Controller` |
| Order books: `MarketByPriceUpdate` handlers, `Shared::mbp_sequencer` | a `market::mbp::Sequencer` for each symbol (external) | update, snapshot, `clear` after `BadState` | both channels; clients' books |
| Receivers: `create_receivers` of both channels | the list of sockets | pairing of addresses and ports at construction | settings, io context |
| `Controller` | none besides its parts | construction, `Timer`, `StreamStatus`, passing on; orders throw `NotSupported` | dispatcher |
| `Parser`, `FBSParser` | none | chooses a decoder, drops what is not market data | handlers of the streams |
| `Reader` | a datagram buffer | reads a datagram, checks its length | receivers, `Buffer` |
| `Config`, settings, flags | constant after start | parse callbacks | server library |
| `Application`, `main` | none | construct and run | server library |

Hard behaviours, with the properties that watch them, are the `hazards` of
`PROJECT.json`. In short: A/B feeds and late datagrams; seqnos that wrap; ring
slots that are reused; gaps, and what is kept when one is given up; a change of
session, which resets some state and leaves other state; snapshots that lag
behind or overtake the updates; a book that is lost to a gap; two streams that
share what they support; silence and reconnection.

What makes each part correct:

- Buffer: hands over what was published, once, in order, without losing what it
  could have kept; never fails its own assertions.
- Recovery: what a client holds of an object has no hole and does not go back;
  every object is covered in the end.
- Stream status: what clients were told agrees with what was received; silence
  is reported, and so is its end.
- Order books: an update is applied only to the book it was made from; a lost
  book comes back.
- Receivers: a process that starts listens to everything it was told to.

## Modules

| Module | Models |
|---|---|
| `Seqno` | the arithmetic of seqnos: `diff`, `is_replay`, `++next_seqno_`, slots |
| `MessageStream` | abstract: what a receiver promises of the headers it hands over |
| `Buffer` | `tools/buffer.cpp`, `tools/buffer.hpp` |
| `MCBuffer`, `MCBufferSessions` | instances of `Buffer` for TLC |
| `Channel`, `MCChannel` | `Buffer` at the end of a UDP channel: a publisher with a finite log, a network with delays, copies and losses (both external), and its instance |
| `Recovery` | the `Read` handlers of `gateway/incremental.cpp` and `gateway/snapshot.cpp`, `Shared::State` |
| `Subscriber` | the incremental channel from end to end: the buffer, as `MessageStream`, and the `parse` callback of `Recovery` it calls message by message |
| `MarketByPrice` | the `MarketByPriceUpdate` handlers of both channels, on top of `Recovery` |
| `StreamStatus` | `update`, `publish_stream_status`, `Timer` of both streams, `Shared::update` |
| `Gateway` | `gateway/parser.cpp`, the `Bridge` of `gateway/fbs_parser.cpp`, the handlers of both streams and what `Controller` passes on, composed of `Subscriber` and `StreamStatus` |
| `MCGateway` | an instance of `Gateway` for TLC |
| `Receivers` | `create_receivers` of both channels, called by the constructors |
| `BufferProofs` | lemmas about `Seqno`, theorems about `Buffer` |
| `ChannelProofs`, `RecoveryProofs`, `SubscriberProofs`, `MarketByPriceProofs`, `StreamStatusProofs`, `GatewayProofs`, `ReceiversProofs` | theorems about the module each is named after |

Definitions named "Mutant of ..." are bugs somebody could have written. They are
used by no specification; each shows that some property can fail.

### Buffer

One action, `Receive(f)`, is one call of `operator()`. Its disjuncts are the
paths of `update`: `Replay`, `Simple`, `Store`, `Complete`, `Overflow` (a frame
exactly one window ahead) and `Gap` (further ahead). `Drain` is the loop that
hands over complete items. `Expected(f)` is `next_seqno_` after the session
check; as in the code, a new session moves `next_seqno_` and leaves the ring.
`dispatched` holds the callbacks of the last call, `terminated` that `log::fatal`
was reached. Bytes are tokens that tell where they were published; `meta` stands
for the header fields an item copies. The network is completely free: any frame
a publisher may send arrives at any time, any number of times, or never.

`MessageStream` forgets fragments, slots and datagrams: a call hands over a run
of consecutive seqnos that continues where the last one stopped, or skips at
least a whole window, or starts a new session. `Buffer` implements it with
`handed` as the headers of `dispatched`.

### Channel

In `Buffer` any frame may arrive at any time, so that nothing can be said of how
long something takes. `Channel` adds who sends: `Publish` puts the frames of the
next message of a finite log on the network, where they arrive (`Arrive`, one
datagram read by `Reader::recv` and one call of `Buffer`), arrive and stay there
(`ArriveCopy`: the B feed, a retransmission), or are lost (`Lose`). A frame is
overtaken by at most `MaxDelay` messages, less than a window. `joined`, `newest`,
`handed` and `lost` are history. The code has no timeout for a hole: the
properties say what takes its place. The buffer is never a whole window behind
what it has heard (`LagBounded`); with reordering alone it gives up nothing
(`NothingGivenUp`) and hands over everything (`AllHandedOver`); a complete message
behind a hole waits for what is missing or for a frame `MAX_BUFFERS - 1` messages
after it, and for nothing else: `WaitBounded` is the safety of it, `WaitEnds` the
liveness.

### Recovery

`ReceiveIncremental` and `ReceiveSnapshot` are the two `parse` callbacks. The
buffers in front of them are replaced by what `MessageStream` promises: in a
session the incremental channel only moves forward but may skip; it may also
change session, and back. The snapshot channel can do the same, and a message of
another session leaves no trace there, so that snapshots of any age arrive in
any order. `joined`, `first`, `full` and `held` are history: they record what was
handed over and appear in no guard.

`ReceiveIncremental` is the callback, `ParsedIncremental`, with the order of
messages it takes for granted, `InOrder`, as a guard.

### Subscriber

Extends `Recovery` and drops that guard. `Datagram` is a call of the incremental buffer: any step of
`MessageStream` whose messages a publisher can have sent (`Sent`: up to the last
seqno of a session). `Parse` then runs the callback for one message after the
other, and nothing else happens before the last (`Idle`): `operator()` of the
buffer returns to the event loop only then. `ImplementsRecovery` says that each
step is one of `Recovery`, which is `InOrder` of each message parsed, and all
properties of `Recovery` are checked on the composition. Two conditions are
needed. Sessions do not come back: `LateSessions` lifts it, and the run ends in a
counterexample (finding 4). A session is too short for its seqnos to wrap: with
`MaxSeqno = SeqnoModulus - 1` they do, and an object that waits with a seqno before
the wrap is refused the newest snapshots, because `gateway/snapshot.cpp:115`
compares with `<=` (`NewestIncluded` fails). That takes 2^32 messages of one session.

### MarketByPrice

Extends `Recovery` with one symbol. `IncrementalUpdate` and `SnapshotUpdate` are
conjunctions of the action of `Recovery` and of what the handler does with the
sequencer. `market::mbp::Sequencer` is not in this repository. It is modelled by
what its callers rely on: a snapshot and the updates that follow it without a
hole make a book; when one is missing the sequencer waits, or throws
`BadState`, which the handlers answer with `clear`. Where a caller cannot tell
(a snapshot that is not needed, whether the update after a hole is kept) both
outcomes are allowed. The result does not depend on more than that.
`header.snapshot` and the update type are taken to agree, and all seqnos are of
the symbol, so that `header.last_seqno` of an update is the seqno before it.

### StreamStatus

One action per kind of call. `Published` keeps the `||` of
`publish_stream_status`: when the supports change, the connection status is not
even looked at. Time is the age of the last message in ticks, up to one more than
the timeout, because nothing distinguishes greater ages. A message is one that
reaches the handler: types the parser drops, and snapshots Recovery does not
include, do not count as life of the stream, in the code as in the model.

### Gateway

The whole path from datagrams to clients. Extends `Subscriber`, so that the messages
are those a buffer hands over, and instantiates `StreamStatus`. `Arrival` is a datagram
of the incremental channel; `IncrementalCallback` and `SnapshotCallback` are whole calls
of the `parse` callbacks: session check and filter, the choice of `Parser` and `Bridge`
(`Handled`), the handler of the stream, and what it passes on through `Controller` or
`Shared`. `passed` is history: the session in the header of the last message passed on.
`Timer`, `Tick` and errors of receivers come between turns of the event loop, never
inside a call of the buffer. What `Bridge` has an empty handler for, and an encoding
`Parser` does not know, are types that are not `Handled`: the buffers and `Recovery`
have seen such a message, the stream has not. For a `MarketByPriceUpdate` the
sequencer decides; both outcomes are allowed.

`SessionsInOrder` speaks of headers. That the content is what was published under the
header is `IntactDelivery`, which needs one session (finding 1).

### Receivers

`Construct` builds the receivers of the next channel or terminates. `Init` takes
every pair of lists up to the bound.

## Runs

| Run | Bounds | Shows |
|---|---|---|
| `buffer` | one session, ring of 4, seqnos modulo 24, up to 3 fragments | all properties of `Buffer`, with a network that is completely free |
| `channel` | one session, ring of 3, modulo 18, 5 messages of one and two fragments across the wrap, overtaken by up to 2 messages, 2 losses | `LagBounded`, `WaitBounded`, `NothingGivenUp`, `AllHandedOver`, `WaitEnds` |
| `buffer_sessions_overflow` | two sessions, ring of 2, modulo 12, up to 2 fragments | violation: `OverflowAssert` |
| `recovery_reported` | `Recovery` alone: two sessions in any order, the system object and another, 4 seqnos | violation: `ReportedNeverBack` |
| `subscriber` | two sessions, the system object and another, ring of 2, 4 seqnos of 24 | all properties of `Recovery`, `NewestIncluded`, `ImplementsRecovery` |
| `subscriber_late_sessions` | the same, sessions come back | violation: `ReplaysDropped` |
| `stream_status` | 3 types of which 2 are passed on, timeout of 2 ticks | all properties of `StreamStatus` |
| `gateway` | two sessions one after the other, the system object and another, ring of 1, 2 seqnos of 12, a message for each treatment, timeout below a tick | `SessionsInOrder`, `SnapshotNeedsSession`, `SilenceIsWhatIsNotParsed`: what clients get and are told when buffer, filter, parser and timer work together |
| `market_by_price` | one session, 6 seqnos | `BookIntact`, `NotReadyRecovers` |
| `market_by_price_resubscribed` | the same | violation: `Resubscribed` |
| `market_by_price_sessions` | two sessions, 3 seqnos | violation: `BookIntact` |
| `receivers` | lists of up to three of two addresses and two ports | `ListensToAll` |

Why the bounds are enough. In `Buffer` a behaviour depends on the distance of a
frame from `next_seqno_` only: in the window, one beyond, further, or a replay.
A modulus of 24 with a window of 4 leaves room for each of them, and for several
turns of the ring before seqnos wrap; the ring must be smaller than a quarter of
the modulus (`SeqnoAssumption`), as 16 is of 2^32. Messages of one and of three
fragments are mixed. The theorems remove these bounds for the safety properties.
With two sessions the smallest legal ring shows the violation; what holds with
sessions mixing, counting and `MessageStream`, is proved for any number of them. In `Recovery`
objects only meet through the session, so that one object besides the system's
is enough, and four seqnos give a join, a first update, a newer and an older
snapshot. `MarketByPrice` has six, for two holes in one session. `Channel` publishes two
messages more than the ring holds, so that a frame is lost in a window and the
next ones go just beyond it, with the wrap in the middle of the log; two losses
let a message and its successor go missing. `Subscriber` needs room for a run of
two, a skip and a second session; 4 seqnos are less than a quarter of 24, the
condition of the theorems. `Gateway` is a
product of two modules checked on their own with larger bounds; its run needs an
old and a new seqno, a run of two messages and a skip, two sessions, and a message for
each treatment: supports, fatal on one channel, passed on by both, dropped. A heartbeat
is treated as a `MarketByPriceUpdate` that the sequencer does not pass on.

`CHECK_DEADLOCK FALSE` is set where the system may stop: `log::fatal` in
`stream_status` and `gateway`, the end of construction in `receivers`, the end of the log in `channel`.

### Fairness

- `StreamStatus`: weak fairness of `Timer`, which the server calls periodically,
  and of `Tick`. Nothing says that messages arrive; `SilenceReported` and
  `SupportsConverge` name messages as premises.
- `Gateway`: the same, but strong, because a timer is due between datagrams only and
  calls of the buffer may come again and again: the event loop gets to its timers all
  the same. Weak fairness of `IncrementalTurn`: a call of the buffer runs to its end.
- `Subscriber`: weak fairness of `Parse`: the loop of the buffer runs to its end.
- `Recovery`, `Subscriber`, `MarketByPrice`: weak fairness, session by session, of receiving a
  snapshot that is as new as the channel. A publisher repeats the snapshots of
  all objects for as long as it lives; a snapshot of another session is dropped,
  so that fairness says nothing of publishers that are gone. It asks that not
  every snapshot is lost. The liveness properties are about sessions that go on.
- `Channel`: weak fairness of `Publish` (the publisher goes on to the end of its
  log) and of the arrival of the oldest datagram on its way: what is not lost
  arrives, copies of other frames do not keep it away. Both are about the outside;
  the code only has to answer each datagram, which a call of `Buffer` does.
- `Buffer` has no fairness: everything stated of it is safety.

## Findings

1. *Session change in Buffer* (`tools/buffer.cpp:33`). The ring is not reset.
   Left-over items can fill the window until a frame beyond it ends in
   `assert(!ok)` or `log::fatal` (`buffer_sessions_overflow`). For the same reason
   complete messages of the old session are handed over under the header of the
   new one: `IntactDelivery` fails on that instance, too, and holds with one session.
2. *OBJECT READY* (`gateway/snapshot.cpp:126`). The snapshot channel reports
   objects ready and never sets `state.ready`, so that later snapshots, also ones
   older than updates already handed over, still reach clients
   (`recovery_reported`). Newer snapshots repair it (`EventuallyCovered`).
3. *RESUBSCRIBE* (`gateway/incremental.cpp:259`). A symbol the incremental
   channel made ready does not get its book back after a gap
   (`market_by_price_resubscribed`). One that is not ready does
   (`NotReadyRecovers`).
4. *Session change and replays* (`tools/buffer.cpp:34`). The change also forgets
   `next_seqno_`. When sessions alternate on the channel, messages are handed over
   again or go back. The session checks see it only when something of the other
   session was handed over in between: after a fragment of it, which is only
   stored, `parse` goes on in the session it is in, with an older seqno
   (`subscriber_late_sessions`). `test/buffer.cpp:150` tests replays within one
   session.
5. *Session change and sequencers* (`gateway/incremental.cpp:106`). Sequencers
   are not cleared; an update of the new session can be applied to a book of the
   old one (`market_by_price_sessions`).

## Proofs

All theorems hold for every value of the constants that the named assumptions
allow: any modulus and ring as in `SeqnoAssumption`, any fragmentation, any set of
sessions unless `OneSession` is assumed, any objects and number of seqnos.

- `BufferProofs` begins with `Seqno`: distance and addition are inverse, also
  across the wrap, and two seqnos of one window never share a slot. Everything
  about buffers rests on these lemmas.
- `TypeCorrect`: `[](TypeOK /\ Counted)`. `TypeOK` is not inductive: that an item's
  `count` stays below `MaxFragment + 2` needs `Counted`, the count is the number of
  different fragments (`CountsHold`: also where fragments of different sessions meet
  in an item, which the one-session run does not have).
- `WindowInvariant`, `DeliveryIntact`, `AssertsNeverFail`, `NothingIsHeldBack`, all
  from the inductive `WindowInv`: offset by offset, the slot of `next_seqno + k`
  holds fragments of that message only, counts them, and is ready exactly when all
  are there; the head is not ready. One step per path of `update`; `Drain` and
  `Overflow` move the window, and the lemmas about slots show that what it moves
  past was reset. It needs that a frame is `Aligned`: once the session check
  has settled `next_seqno`, the ring holds messages of that window and session. With
  one session every frame is; finding 1 is the counterexample with two.
- `ImplementsStream`: `Buffer` implements `MessageStream`, with any sessions. It
  needs the type invariant and that a run is handed over with the seqnos of the
  window (`RunStep`).
- `SuffixIsKept`: `CompleteSuffixKept`, path by path from where the run of a step
  starts; only `Overflow` moves it within the window, and it stops behind the last
  item that is not ready.
- `ChannelProofs` puts what is known of the network beside that of the ring. The
  inductive `ChannelInv` is `WindowInv`, `NetworkInv` (what is on its way was
  published, and is overtaken by at most `MaxDelay` messages), `JoinInv` (the first
  frame settles the session; before it the ring is empty) and, as long as nothing
  is lost, `BehindInv` (the lag, and that the ring holds nothing of messages not
  heard of) and `KeptInv`: every fragment of a message not yet handed over is in
  its item or still on its way. From `KeptInv`, `NoneGivenUp`: for the buffer to
  give up a hole a frame must arrive a window ahead of it, and the missing
  fragment, which is still on its way, would have been overtaken by more than
  `MaxDelay` messages.
  A step is followed through the buffer with `CallStep`, which says of a call
  where its run starts, how long it is, and that what was heard behind it stays.
- `LagIsBounded` and `WaitIsBounded` need one more thing, `InReach`: that the publisher
  is at most three quarters of the range of seqnos ahead of the buffer. The bound is not an
  invariant without it. When more than that was lost at a stretch, `is_replay` takes
  the next frame for the past and drops it, and the buffer stays behind until the
  publisher comes round: TLC shows it with a ring of 2, seqnos modulo 12, 11
  messages and 20 losses. That takes a gap of 3 * 2^30 messages. A log of at most that length
  is always in reach (`BoundedInShortLog`, with no other hypothesis).
- `ChannelDelivers`: since one publisher sends on the channel, what needs one session
  holds with any `SessionIds`.
- `RecoveryProofs`: `ReadyHasSeqno`, `SnapshotsCover`, `OnlyForward`, from
  `RecoveryInv`, which relates `shared_.state` to what was handed over: until an
  object is ready, `last_seqno` is at least the update it waits with and the last
  snapshot; a ready object is not ahead of the channel. They follow from `Steps`,
  `Recovery`'s specification without fairness, so that they hold of whatever takes
  only its steps: the next modules use them that way. `ReadyNeverBack` rests on the
  order `Recovery` assumes (`InOrder`); it is a theorem only behind the buffer, which
  provides that order.
- `SubscriberProofs`: with `Short` (a session stays in the first quarter of the
  range) and `~LateSessions`, `BufferServesRecovery` (the composition implements
  `Recovery`), `SubscriberCovers` and `NewestIsIncluded`. The inductive `TurnInv` says where the callback
  is in the run: the run ends right before `next_seqno`, and what was parsed is
  before what is left of it. A skip cannot go back, because what is before
  `next_seqno` would be more than three quarters of the range ahead: that is
  `is_replay`. What `RecoveryProofs` shows of `Steps` then holds here:
  `SubscriberForward`, `SubscriberReady`, behind a real buffer. `Turns` is the
  specification without fairness, which `Gateway` takes the steps of.
- `MarketByPriceProofs!BookStaysIntact`: with one session, while the sequencer
  follows, the book is that of the session at `last_sequence`. With any sessions,
  `SequencerSnapshots`: finding 5 is a matter of
  the sequencer, not of which snapshots it is given.
- `StreamStatusProofs`: `StatusInvariant`, `ReadyIsWatched`, `ReconnectsAreReported`,
  `IncrementalInherits`. `StatusInv` adds that the snapshot stream holds the
  supports that are shared: only it changes them, with the same message. These
  follow from `Steps` of `StreamStatus`, too.
- `GatewayProofs`. `SessionsStayInOrder`, with `Short` and `~LateSessions`: `passed` is not
  ahead of `session_id`, which is not ahead of the session of the buffer (`TurnInv`),
  and only the session of the moment is passed on, by the snapshot channel because
  its callback compares. Under the same two conditions `GatewayCovers` and
  `GatewayNeverBack`: what is proved of `Recovery` holds from datagrams to clients,
  with the order of a buffer and not an assumed one. When sessions do come back
  it does not hold (`subscriber_late_sessions`, finding 4).
  `SnapshotWaitsForSession` needs neither condition: a message that passes the snapshot
  filter proves that the incremental channel has heard the session, since 0 is no
  publisher's session id (`RecoveryAssumption`) and the callback gets messages of
  publishers only (`RunInv`). `GatewayReadyIsWatched` and `GatewayReports` carry over
  what is proved of `StreamStatus`, with its exception: a message after a silence that
  brings new supports is not reported as READY, the supports alone are, and the
  stream stays DISCONNECTED for clients while it receives
  (`gateway/incremental.cpp:315`, `gateway/snapshot.cpp:290`).
- `ReceiversProofs!ListensToEverything`: for lists of any length. The inductive
  `ReceiversInv` says, channel by channel, that what was built is what
  `create_receivers` makes of its lists, which were accepted.

Assumptions on constants beyond types: the ring is smaller than a quarter of the
range (`SeqnoAssumption`; 16 of 2^32); a session id is not 0, which stands for "none
yet" in the code; a message of `Gateway` is about one of its objects.

Not covered by a property, as `hazards` says of each: seqnos that wrap within a session
at `gateway/snapshot.cpp:115`; supports and connection status that change together,
which the properties of `StreamStatus` except; termination, which they except, too.

Only model-checked: all liveness (`EventuallyCovered`, `NotReadyRecovers`,
`SilenceReported`, `SupportsConverge`, `SilenceIsWhatIsNotParsed`,
`AllHandedOver`, `WaitEnds`), which is out of the prover's reach, as are
`ENABLED` and induction over data. Every invariant and action property that
a passing run checks is proved. `BookIntact` is proved with one session, as it is
checked; with two it is violated (finding 5).

## Not modelled

- Decoding, copying of fields, logging, formatting; socket I/O; the server
  library with its dispatcher and clients.
- `Reader`'s length check: it keeps no state, and a datagram it refuses is as good
  as lost. Its one call of `Buffer` for one datagram is in `Channel` and `Subscriber`.
- `Config`: containers filled once from a file before the `Controller` exists, and
  copied to the server library. Nothing here reads them afterwards: `Controller`
  ignores its `Config`, `get_master_account` and `get_api_key` have no caller. A
  model would restate the assignments.
- Settings, `main`: generated parsers of flags, whose values are the constants of
  the modules; construction in a fixed order.
- `Controller`'s `Start`, `Stop`, `Connected`, `Disconnected`, `Subscribe`, metrics
  (empty), `Control` (one call of the dispatcher), orders (`throw NotSupported`):
  none changes state.
- That an object other than an order book lost an update: nothing in the code
  detects it (`gateway/incremental.cpp:114`), so that there is no behaviour to model
  beyond the skip of the channel.
- Several symbols and several objects besides the system's: they share nothing
  but the session.

## Plan

Done, in the order of importance: `Seqno`, `MessageStream`, `Buffer` with its
theorems, `Recovery`, `StreamStatus`, `MarketByPrice`, `Receivers`, `Gateway`,
`Channel`, `Subscriber`, and the theorems about each of them.

What could follow:

1. The buffer of the snapshot channel in `Subscriber`: snapshots of one session in
   the order its buffer gives them, instead of any order.
2. What of `Recovery` survives messages of the old session that carry the header of
   the new one (finding 1).
3. Theorems: of `Subscriber` with the sessions of one channel alternating, under
   the weakest condition on late datagrams that keeps `ReplaysDropped`.
