# reactor-webrtc in TLA+

TLA+ specifications of the concurrent core of reactor-webrtc, the TLC instances that check
them and the TLAPS proofs about them. Paths below are relative to the repository;
`pc` stands for `crates/reactor-webrtc/src/peer_connection.rs`, `dc` for `dc_chunking.rs` and `meta` for
`sender_meta.rs` beside it.

    tlc -config MCDcSend.cfg MCDcSend        # and so on, one run per .cfg
    tlapm DcSend_proofs.tla                  # and so on; --stretch 2 on a slow machine

## 1. The system

reactor-webrtc is a Rust API over libwebrtc. A factory owns libwebrtc's three threads; a
peer connection negotiates with a remote peer through descriptions that the application
carries; tracks carry media and data channels carry messages. The API blocks: a call posts
work to a libwebrtc thread and waits, with a time-out, for its callback. Callbacks run on
libwebrtc's signaling thread, encoder threads, and, when the factory asks for it, its network thread.

| component | source | state | operations | interacts with |
|---|---|---|---|---|
| send queue | `reactor-webrtc-dc-chunking/src/send.rs` | messages waiting, bytes queued | `push`, `next_frame`, `clear` | the pump, `send` |
| reassembler | `.../recv.rs` | partial message, message being skipped | `push`, `reset` | `dc_on_message` |
| `ChannelCore`, sending | `pc` 1380-1411, 1553-1641, 1797-2033 | the pump's lock and request flag, the trusted buffered amount, the caller's low threshold | `send`, `pump`, `drain`, `close`, native low-water and state callbacks | send queue, libwebrtc's buffer |
| `ChannelCore`, receiving | `pc` 1306-1326, 1414-1428, 1643-1795, 2035-2111 | handler slots, held messages, queue of notices | `dc_on_message`, `deliver`, `on_message`, `notify`, `deliver_notices` | reassembler, the caller's handlers |
| `ChannelCore`, opening | `pc` 1482-1551, 1941-1953 | the decision, the early threshold, `registered` | `chunked`, `ensure_registered`, threshold setter | `DcNegotiation`, libwebrtc's observer |
| `DcNegotiation` | `dc` | what the descriptions declared, whether a round has settled it | `offer`, `answer`, `apply_local`, `apply_remote`, `remote` | peer connection, `ChannelCore` |
| descriptions | `pc` 2401-2425, 2505-2602, 2723-2754 | one-shot channels of pending calls | `create_*`, `set_*_description` | `DcNegotiation`, libwebrtc's operations chain |
| encoder registry | `encoded.rs` 480-873 | reservations in order, encoders assigned to slots | `add_*_slot`, `retract`, `use_builtin_for`, `encode_for`, `rate_update` | tracks, libwebrtc's encoder threads |
| metadata transforms | `sender_meta.rs`, `pc` 2604-2700 | registries by native address, composed slots, receiver queues | `register`, `attach_*`, `release_install`, `prune_stale_slots`, `run` | tracks, descriptions, encoder threads |
| frames and their metadata | `media.rs`, `encoded.rs` 1127-1295, `meta` 75-107, 290-361 | the table by capture time or the FIFO, the receiver's queue, the sink | `push_*`, `insert_sender_meta`, `take`, `run`, `take_receiver_meta`, `attach_video_sink` | transforms, libwebrtc's encoder and decoder |
| audio, statistics, factory, Python binding, glue, build | the rest | see `PROJECT.json` | | |

What is hard here is concurrency, in three forms: application threads share a channel with
libwebrtc's callback thread (which may also be the thread every method waits for); callbacks
run the caller's handlers, which call back in; and the two ends of a connection decide
separately something on which they must agree. `PROJECT.json` lists the hazards line by line.

What makes each component correct:

- *sending*: messages leave whole, in order, once; the native buffer is never overfilled; no
  request to pump is lost; everything accepted leaves; a drain means what it says and ends.
- *receiving*: every whole message reaches a handler once, in order, also around the moment
  the handler is set; only limits drop messages; notices raised inside handlers come later, in turn.
- *negotiation*: the record is that of the descriptions actually applied; it is in place
  before data flows and fixed after; both ends of a channel decide alike; every apply returns.
- *encoder registry*: an encoder is served by its own track's slot, none by a dropped track's; a slot
  on its way between the tables is never overlooked; no lock cycle.
- *metadata transforms*: a side of a transceiver runs one transformer, that of its own slot, with the caller's
  callback and the step for the track it sends or receives; a failed attach can be retried.
- *frames*: a frame is sent and shown with its own metadata or none, and with it whenever the trailer got
  through; the native sink never outlives its box.

## 2. Modules

| module | what it is | of |
|---|---|---|
| `DcSend` | the sending half of a chunked channel, step by step | `send.rs`, `pc` |
| `DcStream` | the stream it promises; refined by `DcSend` | docs of `send`, `DataChannel` |
| `DcSend_proofs` | theorems about `DcSend` | |
| `DcSendStream_proofs` | its bytes, its drain, and that it implements `DcStream` | |
| `DcNegotiation` | two peers, their descriptions and the channels' decisions | `dc`, `pc` |
| `DcNegotiation_proofs` | theorems about `DcNegotiation` | |
| `DcReceive` | the receiving half, its handlers and notices | `recv.rs`, `pc` |
| `DcReceive_proofs` | theorems about `DcReceive` | |
| `EncoderRegistry` | tracks, their slots, and the encoders libwebrtc creates | `encoded.rs`, `lib.rs`, `media.rs`, native factory |
| `EncoderRegistry_proofs` | theorems about `EncoderRegistry` | |
| `SenderMeta` | transceivers, tracks, and the slots their transformers run | `meta`, `pc`, `media.rs` |
| `SenderMeta_proofs` | theorems about `SenderMeta` | |
| `SenderWiring_proofs` | what is wired once every call has returned, and from which source | |
| `FrameMeta` | one track's frames and metadata, from the push to the sink | `media.rs`, `encoded.rs`, `meta` |
| `FrameMeta_proofs` | theorems about `FrameMeta` | |
| `MCDcSend`, `MCDcNegotiation`, `MCDcReceive`, `MCEncoderRegistry`, `MCSenderMeta`, `MCFrameMeta` | the instances TLC checks | |

The halves meet in libwebrtc: `DcSend` produces frames on an ordered reliable wire (`wire`),
`DcReceive` consumes such frames from a peer of its own, and `DcNegotiation` decides
whether the two exist. `SenderMeta` decides which slot runs on a transceiver, `FrameMeta` is what that slot does
with frames, and `EncoderRegistry` which pre-encoded queue an encoder reads. Definitions whose name has a suffix after an underscore
(`NextFrame_NeverCut`) are deliberate mistakes, named by `PROJECT.json`, that show each
property can fail; no specification uses them.

### DcSend

A thread is between two steps wherever the code takes or releases a lock, touches an
atomic or calls libwebrtc. `pc[t]` names the place:

| place | code |
|---|---|
| `idle` / `push` / `arm` | `send`: the state check / `queue.push` under the queue's lock / storing `user_low_armed` |
| `request` / `try` / `pass` | `pump`: set `pump_again` / `try_lock` / `swap(false)` |
| `measure` / `take` / `native` | read or trust `native_est` / `next_frame` under the queue's lock / `send_measured` |
| `clear` / `abandon` | a refused send: clear the queue / drop the guard and return |
| `unlock` / `recheck` | `drop(_guard)` / the last look at `pump_again` |
| `fire` | `maybe_fire_user_low` after the callback's pump |
| `drain` / `drainQueue` / `close` / `done` | `drain`'s two readings and its refill / `raw.close()` |

A message is its number in the order it was accepted, a frame the byte range it carries.
`AfterPump` says where each thread returns to from the shared procedure `pump`. `send`, its
oversize and full-queue refusals and its check of the state are all there; `send` may find
the channel open and push after it has closed. libwebrtc is `Drain` (its buffer empties bit
by bit, raising the change event), `CloseDone` (a close completes) and `Break` (the peer or
the transport ends the channel). Change events are one flag: they may be merged, which the handler cannot
tell. `Fire` merges the readings of `maybe_fire_user_low`, whose outcome nothing else reads.
With network-thread callbacks a change event can also be raised inside a native send, on the
pump's own thread; there the handler's pump finds the lock taken and leaves a request, which is
one of the interleavings of the separate callback thread. The drain's time-out may pass at any time
in `DrainReadQueue`. `DcStream`'s `delivered` is `Wholes(wire)`, the messages whose last frame is on the wire; sums over
queue and wire are recursive functions, so that they can be proved about. Timing statistics are left out, and the channel starts decided.

### DcNegotiation

`state[p]` is the `NegotiationState` of peer `p`, with a parameter set reduced to *declared
or not*: which sizes are declared has no bearing on whether the ends agree. `Begin` takes
`applying` and records; `Hand` passes the description to libwebrtc or has it refused on the
spot (a NUL, an unknown type, text that does not parse); `Accept`/`Reject` are
libwebrtc's operations chain; `TimeOut` is `Unconfirmed`, which leaves the operation in the chain
with `late` set; `Undo` restores `before[p][t]`. `MakeAnswer` and `CreateAnswer` are the two halves of `create_answer`: libwebrtc's answer, and
the reading of `pending`, between which another thread may apply a description. A peer without settings (not in `mode.takesPart`) neither
locks nor records. `Decide` is `ChannelCore::chunked` of an open ordered reliable channel.

The environment is an application that creates offers and answers when it may, sends what it has
applied locally, delivers it any number of times in any order, rolls back, and calls from several
threads at once. A `Mode` says which peers take part, which kinds of description there are and, as a bound, how many each
thread applies; `Refusals` bounds what libwebrtc refuses. `Signaling` is a thread that calls from
an observer callback: while it is in a call, the chain does not move. `due` is the state that the descriptions not
refused in time would make on their own, and `misled` remembers what libwebrtc refused after its apply
had timed out.

Kinds in the runs are offer, answer and rollback. With provisional answers the association can
come up before either end records anything, and a channel that opens in between decides plain
at an end that has not settled yet; the code ignores `PrAnswer` on purpose and claims nothing
about it, so no run includes it. An attribute stripped in transit, which the comment at `dc` 291-293
names as the way to disagree, is excluded: the signalling carries descriptions as they are.

### DcReceive

One callback thread handles native events in order: a frame (`OnFrame`, `Reassembler::push` and
what follows), a frame outside the format (`OnBadFrame`), a state change or a drained send buffer (`OnNotice`). A
whole message goes through `Deliver` (the slot locked), `LockHandler` and `HandlerReturns`,
then `DeliverNotices`. `on_message` is `OnMessage` (publish the new handler locked, take what is
held) and `Flush`. What a handler may do before it returns is `Replace`, `CallMethod` (a close or send from a thread that
need not wait) and `PostMethod` (one that waits for the network thread). `mode` fixes, once, whether callbacks run on the network
thread, which threads' handlers call channel methods and which set another handler. In network-thread mode a method
called elsewhere waits until the network thread is idle, runs there and returns when the handlers of the notices it
raised have (`MethodRuns`, `CallReturns`); one called on it runs inline and raises its notices inside it; otherwise events are posted.

The *already delivering* branch of `run_message_handler` is not modelled: native messages do not nest in
another callback of the channel, so it is never taken. `buf` is the list of frames rather than bytes.
Only notices after opening are modelled. The two handlers of a state notice
(`on_state_change`, then `on_open`/`on_close`) are one handler.

### EncoderRegistry

A thread is between two steps where it takes or releases one of the registry's two mutexes;
`LockPending` and `LockAssigned` take them for whoever is at a place in `WantsPending` or `WantsAssigned`.

| place | code |
|---|---|
| `add` / `push` | the native track is made / `push_back` of its reservation |
| `retract` / `retain` | `retract` called / `pending.retain` |
| `othersLeft` `othersBound` / `lookPending` `lookAssigned` | waiting for / making the two looks that decide about a log line |
| `degradeLock` / `degrade` | waiting for / degrading what is assigned |
| `list` / `scanPending` / `listAssigned` / `scanAssigned` / `listed` | `has_custom` and its answer |
| `create` / `lookup` / `take` / `pop` | `use_builtin_for` up to its `pop_front`; `assigned` stays locked |
| `noneLeft` / `lastLook` | no reservation: the look that decides about a log line |
| `insert` | the reservation popped and not yet assigned |
| `encode` / `entry` / `route` | `encode_for` or `rate_update`: to the mutex, under it, after it |

A slot is its track and whether it is custom; a builtin slot's backend is read later and changes nothing.
Native ids of tracks are told apart for ever. `Create` always asks `use_builtin_for` first and builds a `ReactorVideoEncoder`
only for a custom slot, so the branches of `encode_for` and `rate_update` for an id not assigned yet
cannot be reached and are left out; `Lookup` likewise has only ids never seen.

Outside the code is the rule its comments state: libwebrtc creates the first encoders of the
streams one after the other in the order of the tracks' reservations (`InTurn`), and further encoders for a stream at any time.
`shifted` records what the positional scheme has no answer to: an encoder for a stream whose track is dropped, or
a second one. `OwnSlot` is about the rest, in which tracks still come and go at any moment.
`NeverAnothersSlot` is what a comment claims of the second.

### SenderMeta

libwebrtc's side is `tc` and `attached`: at each native address a transceiver or none, the how-manyeth there (`nth`, by
which the properties tell a callback of this transceiver from a leftover), the track its sender has, its remote track, and for each side the
slot whose transformer it runs. The crate's side is `registry` (`slots()`), `slots` (what each
`ComposedSlot` holds and its `installed` flag), `wrapped` (tracks whose Rust `Track` lives, from which `lookup` and
`allowed` follow) and the gate. A thread is between two steps where it releases a mutex of
these or calls libwebrtc; `op[t]` is its place, with the slot and the transceiver handles it holds:

| place | code |
|---|---|
| `arm` | `set_remote_description` between the native apply and the gate |
| `install` `prune` `next` | `install_frame_metadata_transforms`: gate and handles, `prune_stale_slots`, the loop |
| `allowed` `lookup` `lookupReceiver` | its questions to the registries for one transceiver |
| `reread` `update` `swap` `gate` | `set_track` after the native call |
| `slot` `fill` `claim` `attach` | `attach_caller` / `attach_embed` / `attach_strip`, then `attach_native_transform` |
| `release` `unclaim` | `release_install` after a failed attach |

`add_track`, `add_transceiver`, `set_track`, both `set_*_transform`, the drops of tracks and of the connection and both applies are the
calls. Video transceivers only: the others are skipped. A connection dropped is followed by one at its own address, the worst case for the
keys. A `Mode` says what each thread may call and how often, whether attaching may fail and when libwebrtc frees transceivers.

What the run leaves out, and why: (1) transceivers freed while the gate is shut (`frees = "any"`): install then returns before
it prunes, so a transceiver at the freed address inherits an installed slot and a `set_*_transform` on it returns `Ok` and
attaches nothing: `CallbackRuns` fails; (2) a transceiver made between another thread's enumeration and its prune (`overtakes`), whose new
slot that prune drops; (3) attaching that fails beside another thread: a callback registered in a slot
claimed by a thread whose attach then fails is never run, though its call returned `Ok`. Each follows from the lines as they stand. `raced` marks a
`set_track` beside another thread's wiring, after which `SourceCurrent` promises nothing.

### FrameMeta

One track, one transceiver, one remote track with its sink. A push is two or three steps, as the code has them:
the millisecond (`PushMarked`) or the FIFO (`PushEncoded`), the table (`InsertSenderMeta`) or the queue (`EnqueueFrame`), the native push. libwebrtc is
its encoder's input, which takes no frame that is not newer than the last and sets back one from the future (`Clamped`, as the
comment at `encoded.rs` 1158-1160 describes it), encodes in simulcast layers and drops; a network; and a decoder that shows
frames in order and skips. `Embed` and `Strip` are `ComposedSlot::run`; `Show` is `video_sink_tramp` with
`take_receiver_meta`. `AttachVideoSink` to `StoreTotals` replace the sink under its mutex. The metadata of frame `f` is `f`; bytes, frame ids and
pixels are left out, and so is the match of a frame without packet information on its timestamp alone. History
variables record what was pushed, sent, queued and shown; `evicted` and `crowded` what the two caps took.

Excluded from the run's modes, as the code does not keep the property there: a pre-encoded track whose peer declines before the transformer is
attached (the FIFO is not drained, and its oldest entries go out with the frames of a later generation, against the comment at
`encoded.rs` 1175-1178); a callback that drops frames of one (`CallerDrops` takes nothing for them); and pushes from two threads on one. Frames
pushed without metadata are in mode `Mixed`: they take the FIFO's first entry, and the properties say how far that goes
(`Shifted`: a later frame's metadata, never an earlier one's).

Not in the model at all: simulcast layers of a pre-encoded track. Nothing in the code asks libwebrtc for layers, and what sets a
sender's bit rates takes it for one stream (`reactor_webrtc.cpp` 2297-2299). An encoder for a second layer would be
handed the next frame pushed and not the same one again (`encode_for`, `encoded.rs` 822), and what libwebrtc does with it then is nothing the code says.
Layers of a raw track, for which its metadata table keeps entries that were found (`media.rs` 205-206), are in mode `Simulcast`.

## 3. Runs

| run (`.cfg`) | what it asks | result |
|---|---|---|
| `MCDcSend` | pump with two senders and callbacks: safety, refinement of `DcStream`, liveness | holds, 448k states |
| `MCDcSendClose` | a draining close against a sender: what the drain guarantees, and that it ends | holds, 143k states |
| `MCDcSendCutShort` | `close`'s documentation | violated |
| `MCDcNegotiation` | record, order, agreement and permanence over a round, rollbacks, a second thread and an observer callback; every apply returns | holds, 251k states |
| `MCDcNegotiationLate` | agreement after a late refusal, as `apply`'s comment claims | violated |
| `MCDcReceive` | receiving in three modes | holds, 852k states |
| `MCDcReceiveReplaced` | order when a flushed handler replaces itself, as `on_message`'s comment claims | violated |
| `MCDcReceiveFlushCalls` | handlers may call the channel, as `docs/configuration.md` claims | violated |
| `MCEncoderRegistry` | slots against streams, drops, looks and locks | holds, 918k states |
| `MCEncoderRegistryRecreate` | an encoder recreated for a dead stream, as `retract`'s comment has it | violated |
| `MCSenderMeta` | one transformer for each side, of its own slot, with what is due in it | holds, 1.56M states |
| `MCFrameMeta` | a frame's own metadata or none, on the wire and at the sink; the sink in place | holds, 1.00M states |

Bounds, and why they suffice. *Sending*: two senders and the callback thread are the least with which a thread
waits on the pump's holder while a third moves in; a frame carries one payload byte, so messages of 0 and
2 bytes have one frame and two; the high-water mark is two, so the pump stalls within one message; the queue's limit of 3 refuses the
second 2-byte message unless a byte has left. *Closing*: one of each kind of thread. *Negotiation*:
two peers, and four modes: a round with one more description on a second thread of the answerer; rollbacks of either peer, with a second thread; a round
with an offerer that takes no part and one apply in an observer callback. One refusal each; the late run gives the answerer a third
description for a retry. *Receiving*:
limits of 2 with sizes 1 to 3, frames of one payload byte: a message of one frame, one exactly at
the limit, one over it, and a second message that no longer fits what may be held; two handler calls nest a close in a
handler in a flush. `CHECK_DEADLOCK FALSE` in the receiving runs: the third mode really deadlocks,
which is what `MCDcReceiveFlushCalls` shows; `EventsHandled` covers the others. *Encoders*: two tracks, one with
an encoder of its own, are the least that can be confused; two application threads drop one while the other is
made, three encoders allow one more than there are streams, one listing meets every step of the others. *Slots*:
two addresses, one track that may carry metadata and one that may not; one thread with five calls (four where attaching
may fail) makes, frees and remakes a transceiver with a slot; two threads with two calls each wire the same one. *Frames*: seven modes of two to
four frames and caps of two, so that the third frame evicts; three milliseconds of clock; two threads that push, or set the sink three times;
`CHECK_DEADLOCK FALSE` because a mode's frames, clock and sinks run out.

Fairness. Sending: threads inside a call run, libwebrtc delivers events, drains its buffer and completes a close: weak
fairness of each thread, which is what an operating system gives. Nobody has to call `send` or `close`. `DrainEnds`
needs more (`UnhurriedSpec`): two threads can keep each other in the pump, each leaving a request
just before the other's last look; no lock excludes it, and strong fairness of leaving the pump says that a scheduler does not repeat the same
moments for ever, and that finitely many events wait. `EveryMessageLeaves` holds without it. Negotiation: libwebrtc works off its chain when its thread is free, a
thread in a call runs or its 10 s time-out passes, and the lock is handed to a waiter. Receiving: the
callback thread runs, handlers return and flushes go on.

### What the violated runs show

1. **A drained close can cut a message short** (`pc` 2009). `drain` adds libwebrtc's amount and the
   queue's, read one after the other, and a frame that another thread's pump has taken from the
   queue but not yet handed over is in neither. A `close` in that window closes the channel under the frame.
   `DrainedUpToHand` is the guarantee that does hold: at most the last frame of one message is out.
   A message without payload counts for nothing in the sum as well.
2. **A late refusal can leave the ends disagreeing** (`dc` 274). `on_local_description` takes `pending` when it
   records the answer; if the apply times out and libwebrtc then refuses the answer, the retried
   `create_answer` finds nothing pending and does not declare. The answerer has settled as chunked; the offerer
   settles as plain from the answer that arrives. `TwinsAgreeUnlessMisled` holds otherwise, and is proved.
3. **A handler replaced during the flush overtakes** (`pc` 2050). The replacement is published with its lock
   free while the first `on_message` still has messages to hand to the old handler. `OrderKept` is the order that holds.
4. **A flushed handler that calls the channel can deadlock** (`pc` 2060). The flush holds the
   handler's lock on an application thread; with network-thread callbacks the next message waits
   for that lock on the network thread, and the handler's `send` waits for the network thread.
5. **A recreated encoder can take another track's slot** (`encoded.rs` 746). An encoder is known by an id that is
   new each time; created again for the stream of a dropped track, it pops the reservation of a live track whose
   first encoder is still to come. `OwnSlot` holds while no stream is in that position.

## 4. Proofs

Each component has one inductive invariant, a conjunction of parts, each about one thing, and a lemma
for each part that one step keeps it. The initial states have it, every step keeps it, the
properties follow: a theorem's last step puts the three together. The theorems are for any number of threads, messages, tracks, peers and frames, under the
named assumptions of the modules and nothing else, unless a hypothesis is named here.

### DcSend

For every configuration `SendConfig::validate` admits (`ConfigValid`):

| theorem | property |
|---|---|
| `TypeCorrect` | `TypeOK` |
| `NoOverfill` | `NeverOverfills`: a frame about to be handed over always fits |
| `FramesInOrder` | `WireInOrder`: contiguous, complete, in the order accepted |
| `NothingStranded` | `NoStrandedQueue`: no lost wakeup |
| `BytesCounted` | `BytesAccounted`: `queued` is what is left of the queue; while the channel is open every byte accepted is on the wire, in hand or queued |
| `DrainSaysSo` | `DrainedUpToHand`: what a drain that reports success means |
| `ImplementsStream` | `StreamSpec`: every step is one of `DcStream` or leaves it alone |

None of the safety properties is inductive. `LockInv` ties the pump's lock to the places that hold it, so that at most one
thread measures, takes and sends. `EstInv` says why a stale reading is safe: `native_est` never falls below
the real amount, because only the pump's own sends make that grow, and at the send the
estimate is under the high-water mark; with `HandInv` (the frame in hand is at most a chunk)
and `HighWater <= NativeLimit - ChunkSize` nothing overfills. `NumberInv` and `JoinInv` say that
wire, hand and queue are one sequence while the channel is open: where the wire ends the hand
begins, and where that ends the queue's head goes on; `WireInOrder` follows by the last frame. `RefusedInv`
puts the clearing of the queue after the end of the channel. `RoleInv` keeps each kind of thread in its
own calls. `NoStrandedQueue` is proved with `IInv` at its side, action by
action (`StrandedStep`): whichever step removes a reason to look leaves another.

`DcSendStream_proofs` adds what needs sums over the whole queue and wire. `Total` and `Wholes` are recursive functions, whose
values at every length are proved by least counterexample (`LeastNat`; `SumsUpUnique` and `CollectsUnique`: what the first n
elements come to depends on them only), which gives the lemmas that a push, a frame taken and a frame sent need
(`TotalExtends`, `WholesExtends`). `SumInv` says that `queued` is the sum of what is left of the messages, so it never wraps below zero (`send.rs` subtracts
from an unsigned count), `PieceInv` that only an empty message is queued with nothing left, and `HandedInv` that the wire has the last
frame of every message it has passed. If both of `drain`'s readings were zero, the queue has no message with payload, so what was
accepted is on the wire or is the message in hand (`NothingLeft`); afterwards a frame leaves the hand only for the wire
(`HandKept`). `BytesInv` is the sum over wire, hand and queue; the chance to double or lose a byte is in `Take` and `NativeSend`.
For the refinement, `WholesInv` says that as many messages are whole on the wire as it has passed: a native send of a last frame is
`DcStream`'s departure, and of any other a stutter.

### EncoderRegistry

`EncoderRegistry_proofs`, from `TracksAssumption`, `ThreadsAssumption` and `BoundsAssumption`:

| theorem | property |
|---|---|
| `TypeCorrect` | `TypeOK`, with one reservation at most for each track |
| `DeadRoutesNothing` | `DeadNeverRoutes` |
| `NothingMissed` | `NoCustomMissed` |
| `OwnReservation` | `OwnSlot`: the order of reservations is enough, while nothing has `shifted` |
| `NoDeadlock` | `NoLockCycle`: `pending` is locked inside `assigned` and never the other way round |

`LockInv` ties both mutexes to places. `CallInv` says that calls in progress are about
different tracks, what stage each track is at, and that past `retain` its reservation is gone. `TableInv` is the
heart of `DeadNeverRoutes`: whatever holds a slot, a table or a thread at `insert`, is of a track
that is live or being dropped. It is kept at the end of a retract because the slot is not pending (`CallInv`), the binding
degrades in that step, and nobody is at `insert` while `assigned` is locked (`RetractedHasNoSlot`).
`ListInv` carries `has_custom` across its two looks: a live slot that was there at the call is still somewhere
(`SlotsStep`: only a drop takes one away) and, once `pending` had none, not in `pending`; with `assigned` locked it
is not in hand either, so it is found.

`OwnSlot` needs the positional scheme spelled out. `OrderInv`: `order` has every track once, and `pending` is in that order
whatever has been taken out of it. `TurnInv`, until something shifts: one stream at a time is creating its encoder, it is in its turn, and a
live track stays reserved until its own stream pops. So the head of `pending` when a stream pops is that stream's own reservation
(`HeadIsOwn`): one before it in `pending` would be of a track before it in `order`, which by then has its encoder, that is, has taken its
reservation, or is gone and has none. `IdInv` keeps
what was bound apart from ids still to be given.

### DcNegotiation

`DcNegotiation_proofs`, for any peers, modes and bounds:

| theorem | property | hypothesis |
|---|---|---|
| `TypeCorrect` | `TypeOK` | |
| `NoTraceOfRefused` | `RefusedLeavesNoTrace`: a refused apply is undone to what it found | |
| `RecordedFirst` | `RecordedBeforeFlowing` | `NoProvisional` |
| `DecidedForGood` | `FixedOnceDecided` (an action property) | `NoProvisional` |
| `TwinsDecideAlike` | `TwinsAgreeUnlessMisled` | `NoProvisional`, `TwoPeers` |

`LockInv` says that `applying` is held from the record to the end of the apply or its undo; `HandInv` and `ChainInv` match every operation in libwebrtc's chain
that has not outlived its apply with the thread that waits for it. `DueInv` is the argument: with the lock
free the state is `due`; with the lock held it is `due` with the description in progress recorded on top, and `before` is `due`. It is
kept when an apply times out because the operation then counts as applied from that moment. An `Undo` therefore restores `due`, whatever the other
threads tried meanwhile. `SettledInv` adds that an answer libwebrtc has applied, or may still apply late, has settled the round,
and that only channels of a connection that is up have decided; a settled record does not move (`RecordFacts`).

`NoProvisional` says that no mode has provisional answers. It is what the properties need: the code ignores a `PrAnswer`, which brings the
association up (see section 2).

`TwinsDecideAlike` relates the two ends. `SaidInv` traces every description in a call, in the chain or with the signalling back to the peer
that made it. If no answer made so far declares, `AnswerInv` gives that no end has settled as chunked, and every channel is plain. If one
does, `PlainInv` (who hears no declaring offer has none pending) gives that both ends take part, which is where `TwoPeers` is used, and
`RoundsAlike` that every answer declares. What is left is that an end which is up has settled as chunked (`ChunkedInv`), and there the
difficulty is the answer that has timed out: it is recorded at once and libwebrtc takes or refuses it later, behind others in the same
position. `Run` is a way libwebrtc may still take the operations that outlived their applies, in which it refuses offers only, as a
run that is not misled does. `Pend`: wherever a run ends, the record knows of the offer that libwebrtc then has. `Wrong`: an end that has
settled as plain is not up, and it did so by an answer still in the chain that no run reaches: applied out of
place, so that libwebrtc must refuse it, which would mislead. `LastInv` adds that only the last operation can be in time. A step
extends or shortens the runs at one end (`PendHanded`, `PendTimedOut`, `PendLateDone`, `PendDone`).
`DecidedInv` carries the record of an end that is up over to what its channels have decided.

### DcReceive

`DcReceive_proofs`, for any threads, frame sizes, limits and modes, the one that deadlocks included:

| theorem | property |
|---|---|
| `TypeCorrect` | `TypeOK`, with what is held within its limit |
| `NoneForgotten` | `NothingLeftHeld`: no message stays behind once a handler is set |
| `NoticesDelivered` | `NoticesInTurn` |
| `InPeersOrder` | `OrderKept` |
| `NoneLost` | `EveryMessageAccounted`: each message received is in one place, whole, and left out only over a limit |

`HeldInv` has the two halves of `on_message`: before a handler is set nobody flushes, and after it nothing is pending, so
that messages are held by the one thread that flushes, which has the handler's lock. `StreamInv` follows the frames: those on their way are
the peer's, in order and without a gap, and the first is the one the reassembler expects with what it has in `buf` or is skipping
(`Ahead`), so that a message it completes is whole and one it skips is over the limit. `CountInv` counts: as many messages are in the log, pending, held, in hand or dropped as were taken from
the wire, and each number up to that is somewhere, hence once. `OrderInv`: whatever holds several holds them in order, the one
in hand is the newest, and while handlers are set one at a time (`crossed` is false) what is flushed comes after what has been
called, under the handler the callback thread would use. `BoundInv` only shows that there are enough handlers.

### SenderMeta

`SenderMeta_proofs` and `SenderWiring_proofs`, for any threads, addresses, tracks and modes:

| theorem | property | hypothesis |
|---|---|---|
| `TypeCorrect` | `TypeOK` | |
| `TransformerAttachedOnce` | `AttachedOnce` | `Orderly` |
| `SlotIsRun` | `RunsItsSlot` | `Orderly` |
| `PromisedCallbackRuns` | `CallbackRuns` | `Reported` |
| `WiredAtRest` | `Wired`: no side that is due is left out | `Orderly` |
| `SourceIsCurrent` | `SourceCurrent`: a sender embeds for the track it sends | `Orderly` |

`ClaimInv` is the mutual exclusion by the `installed` flag: a thread between the claim and the end of its attach is the only
one there for its side, and nothing is attached yet. `RegistryInv` says that the slot a thread carries is still the one its key finds; `StaleInv` that an
address without a transceiver has nothing but a slot soon to be pruned; `PruneInv` that whoever prunes has seen
every transceiver there is. `RunsItsSlot` is itself a part. `PromiseInv` follows a callback from the slot it is filled into to
the return of the call that promised it.

`SenderWiring_proofs` follows the work that is still to come. `DueInv`: with the gate open, a side that is due and whose slot has no
metadata step is one that a call in progress will come to (`WillEmbed`, `WillStrip`: in the rest of an install's walk, or at this side between
the question and the fill, or a `set_track` not past its own). Each move of such a call keeps it so or fills the slot, since a live, allowed track is found by both
look-ups (`WalkWill`, `EmbedWill`, `StripWill`); a call that makes something due has an install before it. `FilledInv`: a
filled slot is installed, or its filler is about to claim it. At rest nobody is to come, so the slot is filled and installed, and `RunsItsSlot`
says that it runs. `SourceInv` holds until a `set_track` has raced: it is the only one wiring and works for the track it has set
(`SetsAlone`), an install has in hand the track its sender still has (`ReadCurrent`), and a step embeds its sender's track or that `set_track`
is about to swap it (`EmbedsOwn`). The swap passes over a slot that is not installed; by `FilledInv` such a slot has no step, unless
another thread is about to claim it, whom `SetsAlone` excludes. `StepEffect` and `CallAsks` say once
what the steps and the calls change, in these terms.

The hypotheses exclude what section 2 lists under SenderMeta, where the code does not keep the property, and no more. `Orderly` leaves out (2)
and, of transceivers freed, all but those that one thread frees where a pruning follows (1). `Reported` leaves out (3): attaching may fail only with
one thread in calls. Every mode of the run meets both.

### FrameMeta

`FrameMeta_proofs`, for any threads, caps, clock and modes:

| theorem | property | hypothesis |
|---|---|---|
| `TypeCorrect` | `TypeOK`, with table, queue and dedup window within their caps | |
| `OneSink` | `SinkInPlace` | |
| `NeverAnothers` | `OwnMetadata` | `Aligned` |
| `AlwaysEmbedded` | `Embedded` | `Aligned` |
| `Arrival` | `MetadataArrives` | `Aligned` |

`TableInv`: an entry of the table is of the one marked frame with that millisecond, and such a frame is in the table between its insert and its
eviction. `InputInv`: the encoder's input is in the order of its clock, so that a millisecond, and with it an RTP timestamp, is of one
frame. `FifoInv`: the FIFO of a pre-encoded track is never behind the queue of frames, and level with it until a frame comes without
metadata. From these, `SentInv` says what an embedded frame carries. On the receiver, `NetInv` traces everything back to a frame
sent; `SuffixInv` says that the queue holds the last entries stripped, and `SettledInv` that one which is gone was evicted, shown or
overtaken, from which a frame shown without metadata is accounted for (`ArrivesInv`). `SinkInv` ties the sink, the box and the totals
to the place of the one thread that holds the sink's mutex.

`Aligned` asks nothing of a raw track. A pre-encoded one has its transformer from the start, a callback that drops none, one layer, and one thread that
pushes; that is, it leaves out the three cases section 2 names as not kept by the code, and the layers it names as not in the model. Every mode of the
run meets it.

### Only model-checked

- Liveness (`EveryMessageLeaves`, `DrainEnds`, `EveryApplyReturns`, `EventsHandled`): needs fairness and `ENABLED`, which the prover does
  not handle.
- The properties of the runs that are violated, which are false.

## 5. Not modelled

Contents, text types and header bytes of messages; the text of descriptions; ICE, statistics, audio and pixel formats; codec preferences and
the other settings that pass one value to libwebrtc; the bytes of a trailer; release of a channel from its own callback; provisional
answers; unordered or unreliable channels, which are never chunked; configuration and the build. The Python binding adds to the Rust API
conversions, the GIL it releases around every call, one lock around `on_message` that repeats the flush of `DcReceive`, and the flag
`FACTORY_LIVE`. Reasons are with each component in `PROJECT.json`. The larger part of the lines not covered are declarations of
foreign functions, conversions between Python, Rust and C++ values, builders of settings, and the build.

## 6. Plan

Sending, negotiation, receiving and the encoder registry came first, as the parts on which every message and
every encoded frame depends; then the transforms and the way of a frame's metadata. Next:

1. `DcOpen`: the steps of `chunked()`, registration, the first `send` and the threshold setter while a
   channel opens: one decision per channel, no plain message on a framed channel, no pump without its events.
   Composed with `DcNegotiation`'s decision as its constant.
   To state: a plain message on a chunked channel comes only from a `send` that looked before the channel opened
   (`peer_connection.rs` 1967-1973); nothing stays queued on a quiet open channel unless its buffer drained between
   the decision and the registration (1520-1529); the caller's threshold reaches the channel whoever decides
   (1941-1952).
2. `DcSend` composed with `DcReceive` over one wire, if its size allows: the sender's `WireInOrder` is what the receiver's
   `StreamInv` assumes of its peer.
