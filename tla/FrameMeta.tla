------------------------------ MODULE FrameMeta ------------------------------
(***************************************************************************)
(* The way of one video frame's metadata from a local track to the sink of   *)
(* the remote one (media.rs, encoded.rs, sender_meta.rs).  A raw track keeps   *)
(* it in a table under the frame's capture millisecond, a pre-encoded one in   *)
(* a queue.  The sender's transformer finds it there and appends a trailer;    *)
(* the receiver's takes the trailer off and queues the metadata under SSRC     *)
(* and RTP timestamp for the sink, which looks for the frame it is shown.     *)
(*                                                                         *)
(* The metadata of frame f is f.  Between the two peers frames are dropped by  *)
(* the encoder, lost, assembled twice or out of order; the decoder shows them  *)
(* in order and may skip any.                                                *)
(***************************************************************************)
EXTENDS Integers, Sequences, SequencesExt, FiniteSets

CONSTANTS
    Pushers,        \* threads that push frames
    Setters,        \* threads that set the sink of the remote track
    SenderMetaCap, ReceiverMetaCap, SeenCap,
    MaxTime,        \* bound: the last millisecond of the clock
    NoMeta, NoBox,
    Modes           \* the modes to start in: see Mode

Faults == {"lose", "repeat", "reorder", "restart"}

\* The kind of track; what each thread may push, and as of which milliseconds
\* from now; the most frames, turns of the gate and sinks; whether the sender's
\* transformer is installed from the start or when the gate first opens; whether
\* the caller's callback may drop frames; the simulcast layers; the faults.
Mode == [kind : {"raw", "encoded"}, may : [Pushers -> SUBSET {"marked", "plain"}],
         stamps : SUBSET Int, frames : Nat, turns : Nat, sinks : Nat,
         early : BOOLEAN, drops : BOOLEAN, layers : Nat \ {0}, faults : SUBSET Faults]

ASSUME CapsAssumption == {SenderMetaCap, ReceiverMetaCap, SeenCap} \subseteq Nat \ {0}
ASSUME ModesAssumption == Modes \subseteq Mode /\ NoMeta \notin Nat /\ NoBox \notin Nat

VARIABLES
    mode, now,      \* now: the clock, in milliseconds
    gate, attached, \* the gate; whether the sender runs the crate's transformer
    lastSendMs, table, order,   \* last_send_ms, CaptureTimeMeta
    fifo, queue,    \* FifoMeta and the frames of a pre-encoded track
    push,           \* the frame each thread is pushing
    pushed,         \* history: the frames, in the order of the calls
    input, newest, layer,       \* libwebrtc's encoder: its input, its newest frame, the next layer
    ssrc, wire,     \* the stream, and frames on their way
    seen, metaQueue,            \* the receiver's dedup window and queue
    buffer, decoded,            \* frames for the decoder, and the last it decoded
    sink, box, totals,          \* the native sink; the track's video_sink and video_sink_timings
    setter,         \* the call each setter is in
    showing,        \* the sink whose callback runs
    evicted, crowded,           \* history: the frames whose entries the caps have evicted
    stripped,       \* history: the frames whose metadata was queued
    sent, shown     \* history: what was sent and shown with which metadata

sourceVars  == <<lastSendMs, table, order, fifo, queue>>
pushVars    == <<push, pushed>>
encoderVars == <<input, newest, layer, ssrc>>
receiveVars == <<seen, metaQueue, buffer, decoded>>
sinkVars    == <<sink, box, totals, setter, showing>>
historyVars == <<evicted, crowded, stripped, sent, shown>>
vars == <<mode, now, gate, attached, sourceVars, pushVars, encoderVars, wire, receiveVars,
          sinkVars, historyVars>>

Raw    == mode.kind = "raw"
Marked == {f \in DOMAIN pushed : pushed[f].marked}

NoPush  == [at |-> "idle", frame |-> 0]
NoCall  == [at |-> "idle", box |-> NoBox]

-----------------------------------------------------------------------------
(* Pushing.                                                                *)

Begin(t, at, kind, ms) ==
    /\ push[t] = NoPush /\ kind \in mode.may[t] /\ Len(pushed) < mode.frames
    /\ push' = [push EXCEPT ![t] = [at |-> at, frame |-> Len(pushed) + 1]]
    /\ pushed' = Append(pushed, [marked |-> kind = "marked", ms |-> ms])
    /\ UNCHANGED <<mode, now, gate, attached, encoderVars, wire, receiveVars, sinkVars,
                   historyVars>>

\* The push of t goes on to another step.
GoesOn(t, at) == push' = [push EXCEPT ![t].at = at]

PushedMs(t) == pushed[push[t].frame].ms

\* next_unique_capture_ms
NextUniqueCaptureMs(ms) == IF ms > lastSendMs THEN ms ELSE lastSendMs + 1

\* push_frame_with_metadata and push_frame_with_metadata_at of a raw track claim
\* a millisecond,
PushMarked(t) ==
    /\ Raw
    /\ \E d \in mode.stamps :
          /\ Begin(t, "insert", "marked", NextUniqueCaptureMs(now + d))
          /\ lastSendMs' = NextUniqueCaptureMs(now + d)
    /\ UNCHANGED <<table, order, fifo, queue>>

\* insert_sender_meta: and then keep the metadata under it.
InsertSenderMeta(t) ==
    /\ push[t].at = "insert"
    /\ LET full == Len(order) >= SenderMetaCap
           kept == IF full THEN DOMAIN table \ {Head(order)} ELSE DOMAIN table
           ms   == PushedMs(t)
       IN /\ table' = [k \in kept \cup {ms} |-> IF k \in kept THEN table[k] ELSE push[t].frame]
          /\ order' = Append(IF full THEN Tail(order) ELSE order, ms)
          /\ evicted' = IF full THEN evicted \cup {table[Head(order)]} ELSE evicted
    /\ GoesOn(t, "native")
    /\ UNCHANGED <<mode, now, gate, attached, lastSendMs, fifo, queue, pushed, encoderVars,
                   wire, receiveVars, sinkVars, crowded, stripped, sent, shown>>

\* push_unmarked: push_frame, push_frame_at, and every push of a track whose
\* metadata is off.
PushPlain(t) ==
    /\ Raw
    /\ \E d \in mode.stamps : Begin(t, "native", "plain", now + d)
    /\ UNCHANGED sourceVars

\* EncodedVideoTrack::push_frame_with_metadata: the FIFO first,
PushEncoded(t) ==
    /\ ~Raw
    /\ Begin(t, "queue", "marked", now)
    /\ fifo' = Append(fifo, Len(pushed) + 1)
    /\ UNCHANGED <<lastSendMs, table, order, queue>>

\* EncodedVideoTrack::push_frame has no part in the FIFO.
PushEncodedPlain(t) ==
    /\ ~Raw
    /\ Begin(t, "queue", "plain", now)
    /\ UNCHANGED sourceVars

\* then the frame, and a dummy that wakes the encoder, captured as it is pushed.
EnqueueFrame(t) ==
    /\ push[t].at = "queue"
    /\ queue' = Append(queue, push[t].frame)
    /\ GoesOn(t, "native")
    /\ UNCHANGED <<mode, now, gate, attached, lastSendMs, table, order, fifo, pushed,
                   encoderVars, wire, receiveVars, sinkVars, historyVars>>

\* VideoStreamEncoder sets a capture time that is still to come back to its clock.
Clamped(ms) == IF ms > now THEN now ELSE ms

\* The native push: the encoder takes no frame that is not newer than the last.
PushNative(t) ==
    /\ push[t].at = "native"
    /\ LET ms == Clamped(IF Raw THEN PushedMs(t) ELSE now)
       IN IF ms > newest
          THEN input' = Append(input, [frame |-> push[t].frame, ms |-> ms]) /\ newest' = ms
          ELSE UNCHANGED <<input, newest>>
    /\ push' = [push EXCEPT ![t] = NoPush]
    /\ UNCHANGED <<mode, now, gate, attached, sourceVars, pushed, layer, ssrc, wire,
                   receiveVars, sinkVars, historyVars>>

-----------------------------------------------------------------------------
(* The sender: libwebrtc's encoder and ComposedSlot::run with MetaStep::Embed. *)

\* set_remote_description sets the gate, and once it is open installs the
\* transformer.
SetGate ==
    /\ mode.turns > 0
    /\ gate' = ~gate
    /\ attached' = (attached \/ gate')
    /\ mode' = [mode EXCEPT !.turns = @ - 1]
    /\ UNCHANGED <<now, sourceVars, pushVars, encoderVars, wire, receiveVars, sinkVars,
                   historyVars>>

\* Mutant: the lookup erases.
TakeByCaptureTime_Erasing(ms) == IF ms \in DOMAIN table /\ layer = 1 THEN table[ms] ELSE NoMeta

\* SenderMetaSource::take, of the raw track's table and of the FIFO.
TakeByCaptureTime(ms) == IF ms \in DOMAIN table THEN table[ms] ELSE NoMeta

TakeFirst == IF fifo = <<>> THEN NoMeta ELSE Head(fifo)

\* What the transformer finds for the encoder's next frame: the source is asked
\* whether or not the gate is open.
Take == IF ~attached THEN NoMeta
        ELSE IF Raw THEN TakeByCaptureTime(Head(input).ms) ELSE TakeFirst

\* Mutant: the FIFO is not asked while the gate is shut.
TakeLeaves_GateShut == IF ~Raw /\ attached /\ gate /\ fifo # <<>> THEN Tail(fifo) ELSE fifo

TakeLeaves == IF ~Raw /\ attached /\ fifo # <<>> THEN Tail(fifo) ELSE fifo

\* The encoder gives out a frame, of a pre-encoded track the first of its queue
\* (encode_for), in one layer after another.
Encodes ==
    /\ input # <<>> /\ (Raw \/ queue # <<>>)
    /\ queue' = IF Raw THEN queue ELSE Tail(queue)
    /\ IF layer < mode.layers THEN layer' = layer + 1 /\ UNCHANGED input
                              ELSE layer' = 1 /\ input' = Tail(input)
    /\ UNCHANGED <<mode, now, gate, attached, lastSendMs, table, order, pushVars, newest, ssrc,
                   receiveVars, sinkVars, evicted, crowded, stripped, shown>>

Encoding == IF Raw THEN Head(input).frame ELSE Head(queue)

\* A layer goes through the transformer and, if it is the one the remote peer
\* receives, onto the wire.
Embed ==
    /\ Encodes
    /\ LET meta == IF gate THEN Take ELSE NoMeta
           ms   == Head(input).ms
       IN /\ wire' = IF layer > 1 THEN wire
                     ELSE Append(wire, [frame |-> Encoding, ssrc |-> ssrc, ts |-> ms - ssrc,
                                        meta |-> meta, again |-> "repeat" \in mode.faults])
          /\ sent' = sent \cup {[frame |-> Encoding, meta |-> meta, ms |-> ms,
                                 due |-> gate /\ attached /\ Encoding \notin evicted]}
    /\ fifo' = TakeLeaves

\* The caller's callback runs first, and nothing is taken for a frame it drops.
CallerDrops ==
    /\ mode.drops /\ attached
    /\ Encodes
    /\ UNCHANGED <<wire, fifo, sent>>

\* The encoder may drop a frame, and has nothing to give when a dummy comes to an
\* empty queue.
DropInput ==
    /\ input # <<>> /\ layer = 1
    /\ input' = Tail(input)
    /\ UNCHANGED <<mode, now, gate, attached, sourceVars, pushVars, newest, layer, ssrc, wire,
                   receiveVars, sinkVars, historyVars>>

\* The stream restarts on another SSRC, whose RTP timestamps have another offset.
Restart ==
    /\ "restart" \in mode.faults /\ ssrc = 1 /\ layer = 1
    /\ ssrc' = 2
    /\ UNCHANGED <<mode, now, gate, attached, sourceVars, pushVars, input, newest, layer, wire,
                   receiveVars, sinkVars, historyVars>>

-----------------------------------------------------------------------------
(* The network and the receiver: ComposedSlot::run with MetaStep::Strip.     *)

Key(p) == <<p.ssrc, p.ts>>

\* Mutant: the cap is one too high.
Pushed_OneTooMany(s, x, cap) == Append(IF Len(s) > cap THEN Tail(s) ELSE s, x)

\* A full queue makes room for one more at its end.
Pushed(s, x, cap) == Append(IF Len(s) >= cap THEN Tail(s) ELSE s, x)

\* The trailer comes off; the metadata of a frame in the dedup window is queued
\* already.
Strip(p) ==
    IF p.meta = NoMeta \/ Key(p) \in ToSet(seen)
    THEN UNCHANGED <<seen, metaQueue, crowded, stripped>>
    ELSE /\ seen' = Pushed(seen, Key(p), SeenCap)
         /\ metaQueue' = Pushed(metaQueue, [key |-> Key(p), meta |-> p.meta, frame |-> p.frame],
                                ReceiverMetaCap)
         /\ crowded' = IF Len(metaQueue) < ReceiverMetaCap THEN crowded
                       ELSE crowded \cup {Head(metaQueue).frame}
         /\ stripped' = Append(stripped, p.frame)

\* A frame is assembled, perhaps ahead of an earlier one whose packets are still
\* missing, and perhaps to be assembled once again from retransmitted
\* packets.
Assemble ==
    /\ \E i \in DOMAIN wire :
          /\ i = 1 \/ "reorder" \in mode.faults
          /\ Strip(wire[i])
          /\ buffer' = buffer \cup {[wire[i] EXCEPT !.again = FALSE]}
          /\ \/ wire' = RemoveAt(wire, i)
             \/ wire[i].again /\ wire' = [wire EXCEPT ![i].again = FALSE]
    /\ UNCHANGED <<mode, now, gate, attached, sourceVars, pushVars, encoderVars, decoded, sinkVars,
                   evicted, sent, shown>>

Lose ==
    /\ "lose" \in mode.faults
    /\ \E i \in DOMAIN wire : wire' = RemoveAt(wire, i)
    /\ UNCHANGED <<mode, now, gate, attached, sourceVars, pushVars, encoderVars, receiveVars,
                   sinkVars, historyVars>>

-----------------------------------------------------------------------------
(* The sink of the remote track.                                           *)

\* Mutant: only the oldest entry is looked at.
Match_OldestOnly(p) == IF metaQueue # << >> /\ Head(metaQueue).key = Key(p) THEN 1 ELSE 0

\* The entry take_receiver_meta finds for a frame: 0 if there is none.
Match(p) == SelectInSeq(metaQueue, LAMBDA e : e.key = Key(p))

\* The decoder shows a frame, after which it is past the earlier ones, and
\* video_sink_tramp takes the metadata before it calls the callback.
Show(p) ==
    /\ sink # NoBox /\ showing = NoBox
    /\ p \in buffer /\ p.frame > decoded
    /\ decoded' = p.frame
    /\ buffer' = {q \in buffer : q.frame > p.frame}
    /\ metaQueue' = SubSeq(metaQueue, Match(p) + 1, Len(metaQueue))
    /\ shown' = Append(shown, [frame |-> p.frame,
                               meta  |-> IF Match(p) = 0 THEN NoMeta
                                         ELSE metaQueue[Match(p)].meta])
    /\ showing' = sink
    /\ UNCHANGED <<mode, now, gate, attached, sourceVars, pushVars, encoderVars, wire, seen,
                   sink, box, totals, setter, evicted, crowded, stripped, sent>>

CallbackReturns ==
    /\ showing # NoBox
    /\ showing' = NoBox
    /\ UNCHANGED <<mode, now, gate, attached, sourceVars, pushVars, encoderVars, wire,
                   receiveVars, sink, box, totals, setter, historyVars>>

SetterGoesOn(s, from, to) ==
    /\ setter[s].at = from
    /\ setter' = [setter EXCEPT ![s].at = to]
    /\ UNCHANGED <<mode, now, gate, attached, sourceVars, pushVars, encoderVars, wire,
                   receiveVars, showing, historyVars>>

\* attach_video_sink makes the sink's box, and waits for the video_sink mutex.
AttachVideoSink(s) ==
    /\ mode.sinks > 0 /\ setter[s] = NoCall
    /\ setter' = [setter EXCEPT ![s] = [at |-> "lock", box |-> mode.sinks + 1]]
    /\ mode' = [mode EXCEPT !.sinks = @ - 1]
    /\ UNCHANGED <<now, gate, attached, sourceVars, pushVars, encoderVars, wire,
                   receiveVars, sink, box, totals, showing, historyVars>>

\* Mutant: the mutex is taken for the store alone.
Holds_StoreOnly(s) == setter[s].at \in {"store", "totals"}

\* Holding the video_sink mutex.
Holds(s) == setter[s].at \in {"remove", "add", "store", "totals"}

LockSink(s) ==
    /\ \A u \in Setters : ~Holds(u)
    /\ SetterGoesOn(s, "lock", "remove")
    /\ UNCHANGED <<sink, box, totals>>

\* The native RemoveSink waits out a delivery in progress,
RemoveSink(s) ==
    /\ showing = NoBox
    /\ SetterGoesOn(s, "remove", "add")
    /\ sink' = NoBox
    /\ UNCHANGED <<box, totals>>

\* then the new sink is added,
AddSink(s) ==
    /\ SetterGoesOn(s, "add", "store")
    /\ sink' = setter[s].box
    /\ UNCHANGED <<box, totals>>

\* the old box freed,
StoreSink(s) ==
    /\ SetterGoesOn(s, "store", "totals")
    /\ box' = setter[s].box
    /\ UNCHANGED <<sink, totals>>

\* and the totals of the new sink put in place.
StoreTotals(s) ==
    /\ setter[s].at = "totals"
    /\ setter' = [setter EXCEPT ![s] = NoCall]
    /\ totals' = setter[s].box
    /\ UNCHANGED <<mode, now, gate, attached, sourceVars, pushVars, encoderVars, wire,
                   receiveVars, sink, box, showing, historyVars>>

-----------------------------------------------------------------------------

Tick ==
    /\ now < MaxTime
    /\ now' = now + 1
    /\ UNCHANGED <<mode, gate, attached, sourceVars, pushVars, encoderVars, wire, receiveVars,
                   sinkVars, historyVars>>

Init ==
    /\ mode \in Modes
    /\ now = 2 /\ lastSendMs = 0 /\ newest = 0
    /\ attached = mode.early /\ gate = FALSE
    /\ table = << >> /\ order = << >> /\ fifo = << >> /\ queue = << >>
    /\ push = [t \in Pushers |-> NoPush] /\ pushed = << >>
    /\ input = << >> /\ layer = 1 /\ ssrc = 1 /\ wire = << >>
    /\ seen = << >> /\ metaQueue = << >> /\ buffer = {} /\ decoded = 0
    /\ sink = 1 /\ box = 1 /\ totals = 1
    /\ setter = [s \in Setters |-> NoCall] /\ showing = NoBox
    /\ evicted = {} /\ crowded = {} /\ stripped = << >> /\ sent = {} /\ shown = << >>

Next ==
    \/ \E t \in Pushers : \/ PushMarked(t) \/ InsertSenderMeta(t) \/ PushPlain(t)
                          \/ PushEncoded(t) \/ PushEncodedPlain(t) \/ EnqueueFrame(t)
                          \/ PushNative(t)
    \/ SetGate \/ Embed \/ CallerDrops \/ DropInput \/ Restart
    \/ Lose \/ Assemble
    \/ \E p \in buffer : Show(p)
    \/ CallbackReturns
    \/ \E s \in Setters : \/ AttachVideoSink(s) \/ LockSink(s) \/ RemoveSink(s) \/ AddSink(s)
                          \/ StoreSink(s) \/ StoreTotals(s)
    \/ Tick

Spec == Init /\ [][Next]_vars

-----------------------------------------------------------------------------

\* Types; and the table, its order of insertion, the dedup window and the queue of
\* the receiver stay within their caps whatever is pushed and however little of
\* it is read (insert_sender_meta, ComposedSlot::run).
TypeOK ==
    /\ mode \in Mode /\ now \in Nat /\ {gate, attached} \subseteq BOOLEAN
    /\ {lastSendMs, newest} \subseteq Nat /\ layer \in 1..mode.layers /\ ssrc \in {1, 2}
    /\ Len(order) <= SenderMetaCap /\ DOMAIN table = ToSet(order)
    /\ Len(metaQueue) <= ReceiverMetaCap /\ Len(seen) <= SeenCap
    /\ ToSet(fifo) \cup ToSet(queue) \subseteq DOMAIN pushed
    /\ \A e \in ToSet(metaQueue) : e.key \in ToSet(seen) \/ Len(seen) = SeenCap
    /\ {sink, showing} \subseteq Nat \cup {NoBox} /\ {box, totals} \subseteq Nat

\* A frame of a pre-encoded track that was pushed without metadata takes the first
\* of the FIFO, and so shifts it for the frames behind.
Shifted(f) == ~Raw /\ \E g \in 1..f : g \notin Marked

\* A frame goes out, and is shown, with the metadata it was pushed with or with
\* none: never with another's, whatever is dropped, lost, repeated or overtaken on
\* the way, while the gate turns and streams restart.  (Of a raw track a frame
\* pushed without metadata may have another's: that of the same millisecond.  So
\* may one that libwebrtc has set back to its clock.  Of a pre-encoded track a
\* frame pushed without metadata, and those after it, may have a later frame's,
\* but never an earlier one's.)
OwnMetadata ==
    /\ \A s \in sent : s.meta \notin {NoMeta, s.frame} =>
          \/ Raw /\ (s.frame \notin Marked \/ s.ms < pushed[s.frame].ms)
          \/ Shifted(s.frame) /\ s.meta > s.frame
    /\ \A i \in DOMAIN shown : shown[i].meta # NoMeta =>
          \E s \in sent : s.frame = shown[i].frame /\ s.meta = shown[i].meta

\* While the gate is open every layer of a frame pushed with metadata goes out with
\* it, unless the cap has evicted it, libwebrtc has set the frame back or the FIFO
\* is shifted.
Embedded ==
    \A s \in sent :
        s.due /\ s.frame \in Marked /\ (Raw => s.ms = pushed[s.frame].ms)
              /\ ~Shifted(s.frame) => s.meta = s.frame

\* The metadata of g was queued, perhaps again, after that of f.
QueuedBehind(g, f) ==
    \E a, b \in DOMAIN stripped : a < b /\ stripped[a] = f /\ stripped[b] = g

\* A frame whose trailer came off is shown with its metadata, however many of the
\* frames around it were never shown, unless the cap has evicted it or a frame
\* assembled later was shown earlier (take_receiver_meta).
MetadataArrives ==
    \A i \in DOMAIN shown :
        LET f == shown[i].frame
        IN shown[i].meta = NoMeta /\ f \in ToSet(stripped) =>
             \/ f \in crowded
             \/ \E j \in 1..(i - 1) : QueuedBehind(shown[j].frame, f)

\* The native sink always has a box that is not freed, also while two threads set
\* it and a callback runs; and once they are done sink, box and totals are those of
\* one call.
SinkInPlace ==
    LET live == {box} \cup {setter[s].box : s \in Setters}
    IN /\ {sink, showing} \subseteq live \cup {NoBox}
       /\ (\A s \in Setters : ~Holds(s)) => sink = box /\ totals = box

=============================================================================
