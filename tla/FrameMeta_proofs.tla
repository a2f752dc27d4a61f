-------------------------- MODULE FrameMeta_proofs --------------------------
(***************************************************************************)
(* Theorems about FrameMeta, for any threads, caps, clock and bounds.        *)
(***************************************************************************)
EXTENDS FrameMeta, SequenceTheorems, WellFoundedInduction, TLAPS

-----------------------------------------------------------------------------
(* The inductive invariant.                                                *)

Key2   == {1, 2} \X Int
Packet == [frame : Nat, ssrc : {1, 2}, ts : Int, meta : Nat \cup {NoMeta}, again : BOOLEAN]
Sent   == [frame : Nat, meta : Nat \cup {NoMeta}, ms : Int, due : BOOLEAN]
Entry  == [key : Key2, meta : Nat, frame : Nat]
Shown  == [frame : Nat, meta : Nat \cup {NoMeta}]

\* Nothing but the bounds of the mode ever changes.
ModeInv ==
    /\ mode \in Mode
    /\ \E m \in Modes : /\ mode.kind = m.kind /\ mode.may = m.may /\ mode.early = m.early
                        /\ mode.drops = m.drops /\ mode.layers = m.layers

PushTypes ==
    /\ now \in Nat /\ gate \in BOOLEAN /\ attached \in BOOLEAN
    /\ lastSendMs \in Nat /\ newest \in Nat
    /\ push \in [Pushers -> [at : {"idle", "insert", "queue", "native"}, frame : Nat]]
    /\ pushed \in Seq([marked : BOOLEAN, ms : Int])
    /\ order \in Seq(Int) /\ table \in [ToSet(order) -> Nat]
    /\ fifo \in Seq(Nat) /\ queue \in Seq(Nat)
    /\ input \in Seq([frame : Nat, ms : Int])
    /\ layer \in 1 .. mode.layers /\ ssrc \in {1, 2}
    /\ sent \subseteq Sent

NetTypes ==
    /\ wire \in Seq(Packet) /\ buffer \subseteq Packet
    /\ seen \in Seq(Key2) /\ metaQueue \in Seq(Entry)
    /\ decoded \in Nat /\ stripped \in Seq(Nat) /\ shown \in Seq(Shown)

\* A frame is pushed by one thread, and libwebrtc has it when that is over.
PushInv ==
    /\ \A t \in Pushers :
          /\ push[t].at = "idle" => push[t] = NoPush
          /\ push[t].at # "idle" => push[t].frame \in DOMAIN pushed
          /\ push[t].at = "insert" => Raw /\ pushed[push[t].frame].marked
          /\ push[t].at = "queue" => ~Raw
          /\ \A u \in Pushers : push[t].at # "idle" /\ push[t].frame = push[u].frame => t = u
    /\ \A i \in DOMAIN input :
          /\ input[i].frame \in DOMAIN pushed
          /\ \A t \in Pushers : push[t].at # "idle" => push[t].frame # input[i].frame
          /\ \A j \in DOMAIN input : input[i].frame = input[j].frame => i = j

\* What a raw track's table holds is the frame whose millisecond it is under, and a
\* frame pushed with metadata is in there from its insert to its eviction.
TableInv ==
    /\ Len(order) <= SenderMetaCap
    /\ \A i, j \in DOMAIN order : order[i] = order[j] => i = j
    /\ \A k \in DOMAIN table : /\ table[k] \in DOMAIN pushed
                               /\ pushed[table[k]].marked /\ pushed[table[k]].ms = k
    /\ \A t \in Pushers : push[t].at = "insert" => PushedMs(t) \notin DOMAIN table
    /\ Raw => \A f \in DOMAIN pushed : pushed[f].marked =>
          /\ pushed[f].ms \in 0 .. lastSendMs
          /\ \A g \in DOMAIN pushed : pushed[g].marked /\ pushed[g].ms = pushed[f].ms => g = f
          /\ \/ \E t \in Pushers : push[t].at = "insert" /\ push[t].frame = f
             \/ pushed[f].ms \in DOMAIN table /\ table[pushed[f].ms] = f
             \/ f \in evicted

\* Of a pre-encoded track every frame goes through the queue once.
QueueInv ==
    /\ \A i \in DOMAIN fifo : fifo[i] \in DOMAIN pushed
    /\ \A s \in sent : s.frame \in DOMAIN pushed
    /\ \A i \in DOMAIN queue :
          /\ queue[i] \in DOMAIN pushed
          /\ \A j \in DOMAIN queue : queue[i] = queue[j] => i = j
          /\ \A t \in Pushers : push[t].at = "queue" => push[t].frame # queue[i]
          /\ \A s \in sent : ~Raw => s.frame # queue[i]
    /\ ~Raw => \A s \in sent : \A t \in Pushers : push[t].at = "queue" => push[t].frame # s.frame

\* The encoder's input is in the order of the clock, every frame of it yet to go out
\* but the first between two layers, and a millisecond belongs to one frame.
InputInv ==
    /\ \A i \in DOMAIN input :
          /\ input[i].ms <= newest
          /\ Raw => input[i].ms <= pushed[input[i].frame].ms
          /\ \A j \in DOMAIN input : i < j => input[i].ms < input[j].ms
    /\ layer = 1 \/ input # << >>
    /\ \A s \in sent :
          /\ s.ms <= newest
          /\ \A i \in DOMAIN input : s.ms = input[i].ms =>
                Raw /\ i = 1 /\ layer > 1 /\ s.frame = input[i].frame
          /\ Raw => /\ \A i \in DOMAIN input : s.frame = input[i].frame => i = 1 /\ layer > 1
                    /\ \A t \in Pushers : push[t].at # "idle" => push[t].frame # s.frame
          /\ \A r \in sent : r.ms = s.ms => r.frame = s.frame

\* The FIFO of a pre-encoded track that one thread pushes to, and the transformer
\* asks for every frame, is never behind the queue.
AllMarked(p, f) == \A g \in 1 .. f : p[g].marked

FifoInv ==
    ~Raw =>
        /\ attached
        /\ \A t, u \in Pushers : push[t].at # "idle" /\ push[u].at # "idle" => t = u
        /\ \A t \in Pushers : /\ push[t].at # "idle" => mode.may[t] # {}
                              /\ push[t].at = "queue" => push[t].frame = Len(pushed)
        /\ \A i \in DOMAIN queue :
              /\ i \in DOMAIN fifo => fifo[i] >= queue[i]
              /\ AllMarked(pushed, queue[i]) => i \in DOMAIN fifo /\ fifo[i] = queue[i]
        /\ \/ Len(fifo) <= Len(queue)
           \/ \E t \in Pushers : /\ push[t].at = "queue" /\ pushed[push[t].frame].marked
                                 /\ Len(fifo) = Len(queue) + 1 /\ fifo[Len(fifo)] = push[t].frame
        /\ AllMarked(pushed, Len(pushed)) =>
              Len(fifo) = Len(queue)
                            + (IF \E t \in Pushers : push[t].at = "queue" THEN 1 ELSE 0)

\* What goes out: OwnMetadata and Embedded, of the frames sent.
SentInv ==
    \A s \in sent :
        /\ s.meta \notin {NoMeta, s.frame} =>
              \/ Raw /\ (~pushed[s.frame].marked \/ s.ms < pushed[s.frame].ms)
              \/ ~Raw /\ ~AllMarked(pushed, s.frame) /\ s.meta > s.frame
        /\ s.due /\ pushed[s.frame].marked /\ (Raw => s.ms = pushed[s.frame].ms)
              /\ (Raw \/ AllMarked(pushed, s.frame)) => s.meta = s.frame

\* The frame, and the metadata, that a packet or an entry of the queue is from.
From(s, key, frame, meta) == s.frame = frame /\ s.meta = meta /\ s.ms = key[1] + key[2]

\* Something of that key, frame and metadata was sent.
Sourced(key, frame, meta) == \E s \in sent : From(s, key, frame, meta)

\* What is on its way is from a frame that was sent, one packet of it only;
WireInv ==
    \A i \in DOMAIN wire :
        /\ Sourced(Key(wire[i]), wire[i].frame, wire[i].meta)
        /\ \A j \in DOMAIN wire : wire[i].frame = wire[j].frame => i = j
        /\ \A p \in buffer : p.frame = wire[i].frame => p.meta = wire[i].meta

\* a packet that has metadata has it queued when it is assembled;
BufferInv ==
    \A p \in buffer :
        /\ Sourced(Key(p), p.frame, p.meta)
        /\ p.meta # NoMeta => \E a \in DOMAIN stripped : stripped[a] = p.frame

\* and so are the entries of the queue and of the dedup window from frames sent.
EntryInv ==
    \A i \in DOMAIN metaQueue :
        Sourced(metaQueue[i].key, metaQueue[i].frame, metaQueue[i].meta)

SeenInv ==
    \A i \in DOMAIN seen : \E a \in DOMAIN stripped : \E s \in sent :
        s.frame = stripped[a] /\ s.ms = seen[i][1] + seen[i][2]

NetInv == WireInv /\ BufferInv /\ EntryInv /\ SeenInv

\* The queue and the dedup window keep to their caps.
CapInv ==
    /\ Len(metaQueue) <= ReceiverMetaCap /\ Len(seen) <= SeenCap
    /\ \A i \in DOMAIN metaQueue :
          Len(seen) = SeenCap \/ \E j \in DOMAIN seen : seen[j] = metaQueue[i].key

\* A frame has one RTP timestamp, on one stream.
KeyInv ==
    /\ \A i \in DOMAIN wire : \A p \in buffer : p.frame = wire[i].frame => Key(p) = Key(wire[i])
    /\ \A k \in DOMAIN metaQueue :
          /\ \A p \in buffer : p.frame = metaQueue[k].frame => metaQueue[k].key = Key(p)
          /\ \A i \in DOMAIN wire :
                wire[i].frame = metaQueue[k].frame => metaQueue[k].key = Key(wire[i])

\* How many entries have left the queue, whose content is the last ones stripped.
Gone == Len(stripped) - Len(metaQueue)

SuffixInv ==
    /\ Gone >= 0
    /\ \A k \in DOMAIN metaQueue : metaQueue[k].frame = stripped[Gone + k]

\* A frame whose entry has left was evicted, shown with its metadata, or overtaken:
\* of the frames crowded, shown and stripped.
Settled(f, c, sh, st) ==
    \/ f \in c
    \/ \E j \in DOMAIN sh : sh[j].frame = f /\ sh[j].meta # NoMeta
    \/ \E j \in DOMAIN sh : \E a, b \in DOMAIN st : a < b /\ st[a] = f /\ st[b] = sh[j].frame

SettledInv == \A a \in 1 .. Gone : Settled(stripped[a], crowded, shown, stripped)

\* Frames are shown in order, and one shown without metadata has none to come.
ShownInv ==
    \A i \in DOMAIN shown :
        /\ shown[i].frame <= decoded
        /\ \E s \in sent : s.frame = shown[i].frame
                           /\ (shown[i].meta # NoMeta => s.meta = shown[i].meta)
        /\ shown[i].meta = NoMeta =>
              \/ \A j \in DOMAIN wire : wire[j].frame = shown[i].frame => wire[j].meta = NoMeta
              \/ \E a \in DOMAIN stripped : stripped[a] = shown[i].frame

\* MetadataArrives, of the frames crowded, shown and stripped.
Missed(i, c, sh, st) ==
    \/ sh[i].frame \in c
    \/ \E j \in 1 .. (i - 1) : \E a, b \in DOMAIN st :
          a < b /\ st[a] = sh[i].frame /\ st[b] = sh[j].frame

ArrivesInv ==
    \A i \in DOMAIN shown :
        shown[i].meta = NoMeta /\ (\E a \in DOMAIN stripped : stripped[a] = shown[i].frame) =>
            Missed(i, crowded, shown, stripped)

\* The lock of the sink, and where its holder stands.
SinkInv ==
    /\ setter \in [Setters -> [at : {"idle", "lock", "remove", "add", "store", "totals"},
                               box : Nat \cup {NoBox}]]
    /\ box \in Nat /\ totals \in Nat
    /\ \A s \in Setters :
          /\ setter[s].at = "idle" <=> setter[s].box = NoBox
          /\ \A u \in Setters : Holds(s) /\ Holds(u) => s = u
          /\ setter[s].at = "remove" => sink = box /\ totals = box
          /\ setter[s].at = "add" => sink = NoBox /\ showing = NoBox
          /\ setter[s].at = "store" => sink = setter[s].box
          /\ setter[s].at = "totals" => sink = setter[s].box /\ box = setter[s].box
    /\ (\A s \in Setters : ~Holds(s)) => sink = box /\ totals = box
    /\ showing = NoBox \/ showing = sink

-----------------------------------------------------------------------------
(* Sequences.                                                              *)

LEMMA InSeq ==
    ASSUME NEW S, NEW s \in Seq(S)
    PROVE  /\ Len(s) \in Nat /\ DOMAIN s = 1 .. Len(s)
           /\ \A i \in DOMAIN s : s[i] \in S /\ i \in Nat
           /\ \A x : x \in ToSet(s) <=> \E i \in DOMAIN s : x = s[i]
           /\ s = << >> <=> Len(s) = 0
BY DEF ToSet

LEMMA TailFacts ==
    ASSUME NEW S, NEW s \in Seq(S), s # << >>
    PROVE  /\ Tail(s) \in Seq(S) /\ Len(Tail(s)) = Len(s) - 1 /\ Len(s) >= 1
           /\ 1 \in DOMAIN s /\ Head(s) = s[1] /\ Head(s) \in S
           /\ \A i \in DOMAIN Tail(s) : i + 1 \in DOMAIN s /\ Tail(s)[i] = s[i + 1]
OBVIOUS

LEMMA AppendFacts ==
    ASSUME NEW S, NEW s \in Seq(S), NEW x \in S
    PROVE  /\ Append(s, x) \in Seq(S) /\ Len(Append(s, x)) = Len(s) + 1
           /\ Len(s) + 1 \in DOMAIN Append(s, x) /\ Append(s, x)[Len(s) + 1] = x
           /\ \A i \in DOMAIN s : i \in DOMAIN Append(s, x) /\ Append(s, x)[i] = s[i]
           /\ \A i \in DOMAIN Append(s, x) :
                 \/ i \in DOMAIN s /\ Append(s, x)[i] = s[i]
                 \/ i = Len(s) + 1 /\ Append(s, x)[i] = x
           /\ Len(s) + 1 \notin DOMAIN s
OBVIOUS

LEMMA RemoveAtFacts ==
    ASSUME NEW S, NEW s \in Seq(S), NEW i \in DOMAIN s
    PROVE  /\ RemoveAt(s, i) \in Seq(S) /\ Len(RemoveAt(s, i)) = Len(s) - 1
           /\ \A j \in DOMAIN RemoveAt(s, i) :
                 \/ j < i /\ j \in DOMAIN s /\ RemoveAt(s, i)[j] = s[j]
                 \/ j >= i /\ j + 1 \in DOMAIN s /\ RemoveAt(s, i)[j] = s[j + 1]
<1> DEFINE a == SubSeq(s, 1, i - 1)
           b == SubSeq(s, i + 1, Len(s))
<1>1. Len(s) \in Nat /\ DOMAIN s = 1 .. Len(s) /\ i \in 1 .. Len(s)
  OBVIOUS
<1>2. \A j \in 1 .. Len(s) : s[j] \in S
  BY <1>1
<1>3. /\ a \in Seq(S) /\ Len(a) = i - 1
      /\ \A j \in 1 .. (i - 1) : a[j] = s[j]
  <2>1. i - 1 \in Int /\ \A j \in 1 .. (i - 1) : s[j] \in S
    BY <1>1, <1>2
  <2> QED
    BY <1>1, <2>1, SubSeqProperties
<1>4. /\ b \in Seq(S) /\ Len(b) = Len(s) - i
      /\ \A j \in 1 .. (Len(s) - i) : b[j] = s[j + i]
  <2>1. i + 1 \in Int /\ Len(s) \in Int /\ \A j \in i + 1 .. Len(s) : s[j] \in S
    BY <1>1, <1>2
  <2> QED
    BY <1>1, <2>1, SubSeqProperties
<1> HIDE DEF a, b
<1>5. /\ a \o b \in Seq(S) /\ Len(a \o b) = Len(s) - 1
      /\ \A j \in 1 .. (Len(s) - 1) : (a \o b)[j] = IF j <= i - 1 THEN a[j] ELSE b[j - (i - 1)]
  <2>1. /\ a \o b \in Seq(S) /\ Len(a \o b) = Len(a) + Len(b)
        /\ \A j \in 1 .. (Len(a) + Len(b)) :
              (a \o b)[j] = IF j <= Len(a) THEN a[j] ELSE b[j - Len(a)]
    BY <1>3, <1>4, ConcatProperties
  <2>2. Len(a) + Len(b) = Len(s) - 1
    BY <1>1, <1>3, <1>4
  <2> QED
    BY <1>3, <2>1, <2>2
<1>6. RemoveAt(s, i) = a \o b
  BY DEF RemoveAt, a, b
<1>7. DOMAIN RemoveAt(s, i) = 1 .. (Len(s) - 1)
  <2> DEFINE r == RemoveAt(s, i)
  <2>1. r \in Seq(S) /\ Len(r) = Len(s) - 1
    BY <1>5, <1>6
  <2> HIDE DEF r
  <2>2. DOMAIN r = 1 .. Len(r)
    BY <2>1
  <2>3. DOMAIN r = 1 .. (Len(s) - 1)
    BY <2>1, <2>2
  <2> QED
    BY <2>3 DEF r
<1>8. ASSUME NEW j \in 1 .. (Len(s) - 1)
      PROVE  \/ j < i /\ j \in DOMAIN s /\ (a \o b)[j] = s[j]
             \/ j >= i /\ j + 1 \in DOMAIN s /\ (a \o b)[j] = s[j + 1]
  <2>1. CASE j <= i - 1
    BY <1>1, <1>3, <1>5, <2>1
  <2>2. CASE ~ j <= i - 1
    <3>1. j - (i - 1) \in 1 .. (Len(s) - i) /\ (j - (i - 1)) + i = j + 1
      BY <1>1, <2>2
    <3>2. b[j - (i - 1)] = s[j + 1]
      BY <1>4, <3>1
    <3> QED
      BY <1>1, <1>5, <2>2, <3>2
  <2> QED
    BY <2>1, <2>2
<1> QED
  BY <1>5, <1>6, <1>7, <1>8

\* A full queue that takes one more.
LEMMA PushedFacts ==
    ASSUME NEW S, NEW s \in Seq(S), NEW x \in S, NEW cap \in Nat \ {0}
    PROVE  /\ Pushed(s, x, cap) \in Seq(S)
           /\ Len(s) < cap => Pushed(s, x, cap) = Append(s, x)
           /\ Len(s) >= cap => s # << >> /\ Pushed(s, x, cap) = Append(Tail(s), x)
           /\ Len(s) <= cap => Len(Pushed(s, x, cap)) <= cap
           /\ Len(s) = cap => Len(Pushed(s, x, cap)) = cap
           /\ Len(s) < cap => \A j \in DOMAIN s : j \in DOMAIN Pushed(s, x, cap)
                                                 /\ Pushed(s, x, cap)[j] = s[j]
           /\ \A i \in DOMAIN Pushed(s, x, cap) :
                 Pushed(s, x, cap)[i] = x \/ \E j \in DOMAIN s : Pushed(s, x, cap)[i] = s[j]
<1>1. CASE Len(s) < cap
  <2> DEFINE r == Append(s, x)
  <2>1. Pushed(s, x, cap) = r
    BY <1>1 DEF Pushed
  <2>2. /\ r \in Seq(S) /\ Len(r) = Len(s) + 1
        /\ Len(s) + 1 \in DOMAIN r /\ r[Len(s) + 1] = x
        /\ \A i \in DOMAIN s : i \in DOMAIN r /\ r[i] = s[i]
        /\ \A i \in DOMAIN r : r[i] = x \/ (i \in DOMAIN s /\ r[i] = s[i])
    BY AppendFacts
  <2>3. Len(r) <= cap /\ ~ (Len(s) >= cap) /\ ~ (Len(s) = cap)
    BY <1>1, <2>2
  <2>4. r = Append(s, x)
    OBVIOUS
  <2> HIDE DEF r
  <2> QED
    BY <2>1, <2>2, <2>3, <2>4, Zenon
<1>2. CASE Len(s) >= cap
  <2>1. s # << >>
    BY <1>2
  <2>2. /\ Tail(s) \in Seq(S) /\ Len(Tail(s)) = Len(s) - 1
        /\ \A i \in DOMAIN Tail(s) : i + 1 \in DOMAIN s /\ Tail(s)[i] = s[i + 1]
    BY <2>1, TailFacts
  <2>3. Pushed(s, x, cap) = Append(Tail(s), x)
    BY <1>2 DEF Pushed
  <2> DEFINE r == Append(Tail(s), x)
  <2>4. /\ r \in Seq(S) /\ Len(r) = Len(Tail(s)) + 1
        /\ Len(Tail(s)) + 1 \in DOMAIN r /\ r[Len(Tail(s)) + 1] = x
        /\ \A i \in DOMAIN r : r[i] = x \/ (i \in DOMAIN Tail(s) /\ r[i] = Tail(s)[i])
    BY <2>2, AppendFacts
  <2>5. \A i \in DOMAIN r : r[i] = x \/ \E j \in DOMAIN s : r[i] = s[j]
    BY <2>2, <2>4
  <2> HIDE DEF r
  <2>6. Len(r) = Len(s) /\ Len(s) \in Nat
    BY <2>2, <2>4
  <2>7. Pushed(s, x, cap) = r
    BY <2>3 DEF r
  <2>8. (Len(s) <= cap => Len(r) <= cap) /\ (Len(s) = cap => Len(r) = cap)
    BY <2>6
  <2>10. ~ (Len(s) < cap)
    BY <1>2, <2>6
  <2> QED
    BY <2>1, <2>3, <2>4, <2>5, <2>7, <2>8, <2>10, Zenon
<1> QED
  BY <1>1, <1>2

\* The first entry that passes.
LEMMA MatchFacts ==
    ASSUME NEW p, metaQueue \in Seq(Entry)
    PROVE  \/ Match(p) = 0 /\ \A j \in DOMAIN metaQueue : metaQueue[j].key # Key(p)
           \/ /\ Match(p) \in DOMAIN metaQueue /\ metaQueue[Match(p)].key = Key(p)
              /\ \A j \in 1 .. (Match(p) - 1) : metaQueue[j].key # Key(p)
<1> DEFINE I == {i \in 1 .. Len(metaQueue) : metaQueue[i].key = Key(p)}
<1>1. DOMAIN metaQueue = 1 .. Len(metaQueue) /\ Len(metaQueue) \in Nat
  OBVIOUS
<1>2. CASE I = {}
  <2>1. Match(p) = 0
    BY <1>2 DEF Match, SelectInSeq
  <2> QED
    BY <1>1, <1>2, <2>1
<1>3. CASE I # {}
  <2>1. I \subseteq Nat
    BY <1>1
  <2>2. PICK x \in I : \A y \in I : ~ (<<y, x>> \in OpToRel(<, Nat))
    BY <1>3, <2>1, NatLessThanWellFounded, WFMin
  <2>3. \A y \in I : x <= y
    <3>1. x \in Nat /\ \A y \in I : y \in Nat /\ y \in I
      BY <2>1
    <3>2. \A y \in I : ~ (y < x)
      BY <2>2, <3>1, Zenon DEF OpToRel
    <3> QED
      BY <3>1, <3>2
  <2>4. Match(p) = CHOOSE m \in I : \A y \in I : m <= y
    BY <1>3 DEF Match, SelectInSeq, Min
  <2>5. Match(p) \in I /\ \A y \in I : Match(p) <= y
    BY <2>3, <2>4
  <2> QED
    BY <1>1, <2>5
<1> QED
  BY <1>2, <1>3

-----------------------------------------------------------------------------
(* The bounds of the mode go down and nothing else of it changes.          *)

SameMode(m, n) ==
    /\ m.kind = n.kind /\ m.may = n.may /\ m.stamps = n.stamps /\ m.frames = n.frames
    /\ m.early = n.early /\ m.drops = n.drops /\ m.layers = n.layers /\ m.faults = n.faults

LEMMA ModeStep ==
    ASSUME ModeInv, [Next]_vars
    PROVE  ModeInv' /\ SameMode(mode', mode) /\ Raw' = Raw
<1> USE DEF sourceVars, pushVars, encoderVars, receiveVars, sinkVars, historyVars
<1>1. CASE SetGate
  <2>1. mode \in Mode /\ mode.turns \in Nat /\ mode.turns > 0
    BY <1>1 DEF ModeInv, Mode, SetGate
  <2>2. mode' = [mode EXCEPT !.turns = mode.turns - 1] /\ mode.turns - 1 \in Nat
    BY <1>1, <2>1 DEF SetGate
  <2>3. mode' \in Mode /\ SameMode(mode', mode)
    BY <2>1, <2>2 DEF Mode, SameMode
  <2> QED
    BY <2>3 DEF ModeInv, SameMode, Raw
<1>2. ASSUME NEW s \in Setters, AttachVideoSink(s)
      PROVE  ModeInv' /\ SameMode(mode', mode) /\ Raw' = Raw
  <2>1. mode \in Mode /\ mode.sinks \in Nat /\ mode.sinks > 0
    BY <1>2 DEF ModeInv, Mode, AttachVideoSink
  <2>2. mode' = [mode EXCEPT !.sinks = mode.sinks - 1] /\ mode.sinks - 1 \in Nat
    BY <1>2, <2>1 DEF AttachVideoSink
  <2>3. mode' \in Mode /\ SameMode(mode', mode)
    BY <2>1, <2>2 DEF Mode, SameMode
  <2> QED
    BY <2>3 DEF ModeInv, SameMode, Raw
<1>3. CASE UNCHANGED mode
  BY <1>3 DEF ModeInv, SameMode, Raw
<1>4. \/ SetGate \/ UNCHANGED mode
      \/ \E s \in Setters : AttachVideoSink(s)
  BY DEF Next, vars, Begin, PushMarked, InsertSenderMeta, PushPlain, PushEncoded,
     PushEncodedPlain, EnqueueFrame, PushNative, Embed, Encodes, CallerDrops, DropInput, Restart,
     Lose, Assemble, Show, CallbackReturns, SetterGoesOn, LockSink, RemoveSink, AddSink,
     StoreSink, StoreTotals, Tick
<1> QED
  BY <1>1, <1>2, <1>3, <1>4

-----------------------------------------------------------------------------
(* The sink.                                                               *)

LEMMA SinkStep == ASSUME ModeInv, SinkInv, [Next]_vars PROVE SinkInv'
<1> USE ModesAssumption DEF sourceVars, pushVars, encoderVars, receiveVars, sinkVars, historyVars
<1>1. ASSUME NEW p \in buffer, Show(p) PROVE SinkInv'
  BY <1>1 DEF SinkInv, Show, Holds
<1>2. CASE CallbackReturns
  BY <1>2 DEF SinkInv, CallbackReturns, Holds
<1>3. ASSUME NEW s \in Setters, AttachVideoSink(s) PROVE SinkInv'
  <2>1. mode.sinks + 1 \in Nat
    BY DEF ModeInv, Mode
  <2>2. setter' = [setter EXCEPT ![s] = [at |-> "lock", box |-> mode.sinks + 1]]
        /\ UNCHANGED <<sink, box, totals, showing>>
    BY <1>3 DEF AttachVideoSink
  <2>3. setter[s].at = "idle" /\ setter'[s].at = "lock"
    BY <1>3, <2>2 DEF AttachVideoSink, NoCall, SinkInv
  <2>4. \A u \in Setters : Holds(u)' <=> Holds(u)
    BY <2>2, <2>3 DEF Holds, SinkInv
  <2> QED
    BY <2>1, <2>2, <2>3, <2>4 DEF SinkInv
<1>4. ASSUME NEW s \in Setters, LockSink(s) PROVE SinkInv'
  BY <1>4 DEF SinkInv, LockSink, SetterGoesOn, Holds
<1>5. ASSUME NEW s \in Setters, RemoveSink(s) PROVE SinkInv'
  BY <1>5 DEF SinkInv, RemoveSink, SetterGoesOn, Holds
<1>6. ASSUME NEW s \in Setters, AddSink(s) PROVE SinkInv'
  BY <1>6 DEF SinkInv, AddSink, SetterGoesOn, Holds
<1>7. ASSUME NEW s \in Setters, StoreSink(s) PROVE SinkInv'
  BY <1>7 DEF SinkInv, StoreSink, SetterGoesOn, Holds
<1>8. ASSUME NEW s \in Setters, StoreTotals(s) PROVE SinkInv'
  BY <1>8 DEF SinkInv, StoreTotals, NoCall, Holds
<1>9. CASE UNCHANGED sinkVars
  BY <1>9 DEF SinkInv, Holds
<1>10. \/ UNCHANGED sinkVars \/ CallbackReturns \/ \E p \in buffer : Show(p)
       \/ \E s \in Setters : \/ AttachVideoSink(s) \/ LockSink(s) \/ RemoveSink(s)
                             \/ AddSink(s) \/ StoreSink(s) \/ StoreTotals(s)
  <2>1. ASSUME NEW t \in Pushers,
               \/ PushMarked(t) \/ InsertSenderMeta(t) \/ PushPlain(t) \/ PushEncoded(t)
               \/ PushEncodedPlain(t) \/ EnqueueFrame(t) \/ PushNative(t)
        PROVE  UNCHANGED sinkVars
    BY <2>1 DEF Begin, PushMarked, InsertSenderMeta, PushPlain, PushEncoded, PushEncodedPlain,
                EnqueueFrame, PushNative
  <2>2. SetGate \/ DropInput \/ Restart \/ Tick => UNCHANGED sinkVars
    BY DEF SetGate, DropInput, Restart, Tick
  <2>3. Embed \/ CallerDrops \/ Lose \/ Assemble => UNCHANGED sinkVars
    BY DEF Embed, Encodes, CallerDrops, Lose, Assemble
  <2>4. UNCHANGED vars => UNCHANGED sinkVars
    BY DEF vars
  <2> QED
    BY <2>1, <2>2, <2>3, <2>4 DEF Next
<1> QED
  BY <1>1, <1>2, <1>3, <1>4, <1>5, <1>6, <1>7, <1>8, <1>9, <1>10

LEMMA SinkInit == Init => SinkInv
BY ModesAssumption DEF Init, SinkInv, NoCall, Holds

LEMMA ModeInit == Init => ModeInv
BY ModesAssumption DEF Init, ModeInv

\* The native sink always has a box that is not freed, also while several threads
\* set it and a callback runs, and once they are done sink, box and totals are
\* those of one call (attach_video_sink): the video_sink mutex is held from the
\* native removal to the storing of the totals, and the removal waits out the
\* callback.
THEOREM OneSink == Spec => []SinkInPlace
<1>1. Init => ModeInv /\ SinkInv
  BY SinkInit, ModeInit
<1>2. ModeInv /\ SinkInv /\ [Next]_vars => (ModeInv /\ SinkInv)'
  BY ModeStep, SinkStep
<1>3. SinkInv => SinkInPlace
  <2> SUFFICES ASSUME SinkInv PROVE SinkInPlace
    OBVIOUS
  <2> DEFINE live == {box} \cup {setter[s].box : s \in Setters}
  <2>1. sink \in live \cup {NoBox}
    <3>1. CASE \E s \in Setters : Holds(s)
      BY <3>1 DEF SinkInv, Holds
    <3>2. CASE \A s \in Setters : ~ Holds(s)
      BY <3>2 DEF SinkInv
    <3> QED
      BY <3>1, <3>2
  <2>2. showing \in live \cup {NoBox}
    BY <2>1 DEF SinkInv
  <2> QED
    BY <2>1, <2>2 DEF SinkInv, SinkInPlace
<1> QED
  BY <1>1, <1>2, <1>3, PTL DEF Spec

-----------------------------------------------------------------------------
(* Types of the sending side.                                              *)

\* Nothing of the sending side changes.
sendVars == <<now, gate, attached, sourceVars, pushVars, encoderVars, sent, evicted>>

\* The steps that leave it alone.
LEMMA SendSteps ==
    ASSUME [Next]_vars
    PROVE  \/ \E t \in Pushers : \/ PushMarked(t) \/ InsertSenderMeta(t) \/ PushPlain(t)
                                 \/ PushEncoded(t) \/ PushEncodedPlain(t) \/ EnqueueFrame(t)
                                 \/ PushNative(t)
           \/ SetGate \/ Embed \/ CallerDrops \/ DropInput \/ Restart \/ Tick
           \/ UNCHANGED sendVars
<1>1. Lose \/ Assemble \/ CallbackReturns \/ (\E p \in buffer : Show(p)) => UNCHANGED sendVars
  BY DEF Lose, Assemble, CallbackReturns, Show, sendVars, historyVars
<1>2. ASSUME NEW s \in Setters,
             \/ AttachVideoSink(s) \/ LockSink(s) \/ RemoveSink(s) \/ AddSink(s)
             \/ StoreSink(s) \/ StoreTotals(s)
      PROVE  UNCHANGED sendVars
  BY <1>2 DEF AttachVideoSink, SetterGoesOn, LockSink, RemoveSink, AddSink, StoreSink,
              StoreTotals, sendVars, historyVars
<1>3. UNCHANGED vars => UNCHANGED sendVars
  BY DEF vars, sendVars, historyVars
<1> QED
  BY <1>1, <1>2, <1>3 DEF Next

\* What the types say of the elements of the sequences.
LEMMA Elements ==
    ASSUME PushTypes
    PROVE  /\ \A f \in DOMAIN pushed : f \in Nat /\ pushed[f].ms \in Int
                                       /\ pushed[f].marked \in BOOLEAN
           /\ DOMAIN pushed = 1 .. Len(pushed) /\ Len(pushed) \in Nat
           /\ \A i \in DOMAIN input : input[i].frame \in Nat /\ input[i].ms \in Int
           /\ input # << >> => Head(input) = input[1] /\ 1 \in DOMAIN input
           /\ \A t \in Pushers : push[t].frame \in Nat
           /\ \A i \in DOMAIN queue : queue[i] \in Nat
           /\ queue # << >> => Head(queue) = queue[1] /\ 1 \in DOMAIN queue
           /\ \A i \in DOMAIN fifo : fifo[i] \in Nat
           /\ fifo # << >> => Head(fifo) = fifo[1] /\ 1 \in DOMAIN fifo
           /\ DOMAIN table = ToSet(order) /\ \A k \in DOMAIN table : table[k] \in Nat
<1>1. pushed \in Seq([marked : BOOLEAN, ms : Int]) /\ input \in Seq([frame : Nat, ms : Int])
  BY DEF PushTypes
<1>2. queue \in Seq(Nat) /\ fifo \in Seq(Nat) /\ table \in [ToSet(order) -> Nat]
      /\ push \in [Pushers -> [at : {"idle", "insert", "queue", "native"}, frame : Nat]]
  BY DEF PushTypes
<1>3. ASSUME NEW f \in DOMAIN pushed
      PROVE  f \in Nat /\ pushed[f].ms \in Int /\ pushed[f].marked \in BOOLEAN
  <2>1. pushed[f] \in [marked : BOOLEAN, ms : Int] /\ f \in Nat
    BY <1>1, <1>3, InSeq
  <2> QED
    BY <2>1
<1>4. ASSUME NEW i \in DOMAIN input PROVE input[i].frame \in Nat /\ input[i].ms \in Int
  <2>1. input[i] \in [frame : Nat, ms : Int]
    BY <1>1, <1>4, InSeq
  <2> QED
    BY <2>1
<1>5. input # << >> => Head(input) = input[1] /\ 1 \in DOMAIN input
  BY <1>1, TailFacts
<1>6. DOMAIN pushed = 1 .. Len(pushed) /\ Len(pushed) \in Nat
  BY <1>1, InSeq
<1>7. \A t \in Pushers : push[t].frame \in Nat
  BY <1>2
<1>8. /\ \A i \in DOMAIN queue : queue[i] \in Nat
      /\ queue # << >> => Head(queue) = queue[1] /\ 1 \in DOMAIN queue
      /\ \A i \in DOMAIN fifo : fifo[i] \in Nat
      /\ fifo # << >> => Head(fifo) = fifo[1] /\ 1 \in DOMAIN fifo
  BY <1>2, InSeq, TailFacts
<1>9. DOMAIN table = ToSet(order) /\ \A k \in DOMAIN table : table[k] \in Nat
  BY <1>2
<1> QED
  BY <1>3, <1>4, <1>5, <1>6, <1>7, <1>8, <1>9

LEMMA BeginFacts ==
    ASSUME PushTypes, NEW t \in Pushers, NEW at, NEW kind, NEW ms, Begin(t, at, kind, ms)
    PROVE  /\ push[t] = NoPush /\ Len(pushed) + 1 \in Nat
           /\ DOMAIN pushed = 1 .. Len(pushed) /\ DOMAIN pushed' = 1 .. (Len(pushed) + 1)
           /\ \A f \in DOMAIN pushed : f \in DOMAIN pushed' /\ pushed'[f] = pushed[f]
           /\ (pushed'[Len(pushed) + 1].marked <=> kind = "marked")
           /\ pushed'[Len(pushed) + 1].ms = ms
           /\ Len(pushed) + 1 \notin DOMAIN pushed /\ Len(pushed) + 1 \in DOMAIN pushed'
           /\ \A f \in DOMAIN pushed' : f \in DOMAIN pushed \/ f = Len(pushed) + 1
           /\ push' = [push EXCEPT ![t] = [at |-> at, frame |-> Len(pushed) + 1]]
           /\ push'[t].at = at /\ push'[t].frame = Len(pushed) + 1
           /\ \A u \in Pushers : u # t => push'[u] = push[u]
           /\ ms \in Int => pushed' \in Seq([marked : BOOLEAN, ms : Int])
<1> DEFINE x == [marked |-> kind = "marked", ms |-> ms]
<1>1. pushed \in Seq([marked : BOOLEAN, ms : Int])
  BY DEF PushTypes
<1>2. /\ pushed' = Append(pushed, x) /\ push[t] = NoPush
      /\ push' = [push EXCEPT ![t] = [at |-> at, frame |-> Len(pushed) + 1]]
  BY DEF Begin
<1>3. ms \in Int => x \in [marked : BOOLEAN, ms : Int]
  OBVIOUS
<1> HIDE DEF x
<1>4. /\ DOMAIN pushed = 1 .. Len(pushed) /\ DOMAIN pushed' = 1 .. (Len(pushed) + 1)
      /\ \A f \in DOMAIN pushed : pushed'[f] = pushed[f]
      /\ pushed'[Len(pushed) + 1] = x
      /\ Len(pushed) \in Nat /\ Len(pushed) + 1 \notin DOMAIN pushed
  BY <1>1, <1>2
<1>7. /\ Len(pushed) + 1 \in DOMAIN pushed' /\ Len(pushed) + 1 \in Nat
      /\ \A f \in DOMAIN pushed' : f \in DOMAIN pushed \/ f = Len(pushed) + 1
      /\ \A f \in DOMAIN pushed : f \in DOMAIN pushed'
  BY <1>4
<1>8. (x.marked <=> kind = "marked") /\ x.ms = ms
  BY DEF x
<1>5. /\ push'[t].at = at /\ push'[t].frame = Len(pushed) + 1
      /\ \A u \in Pushers : u # t => push'[u] = push[u]
  BY <1>2 DEF PushTypes
<1>6. ms \in Int => pushed' \in Seq([marked : BOOLEAN, ms : Int])
  BY <1>1, <1>2, <1>3
<1> QED
  BY <1>2, <1>4, <1>5, <1>6, <1>7, <1>8

LEMMA StampFacts ==
    ASSUME ModeInv, PushTypes
    PROVE  /\ \A d \in mode.stamps : now + d \in Int
           /\ \A ms \in Int : /\ NextUniqueCaptureMs(ms) \in Nat
                              /\ NextUniqueCaptureMs(ms) > lastSendMs
<1>1. mode.stamps \subseteq Int /\ now \in Nat /\ lastSendMs \in Nat
  BY DEF ModeInv, Mode, PushTypes
<1> QED
  BY <1>1 DEF NextUniqueCaptureMs

\* What an insert does to the table: it takes in a millisecond, and gives up the
\* oldest when it is full.
LEMMA InsertFacts ==
    ASSUME PushTypes, PushInv, TableInv, NEW t \in Pushers, InsertSenderMeta(t)
    PROVE  LET ms == PushedMs(t)
               f  == push[t].frame
           IN  /\ order' \in Seq(Int) /\ Len(order') <= SenderMetaCap
               /\ \A i, j \in DOMAIN order' : order'[i] = order'[j] => i = j
               /\ table' \in [ToSet(order') -> Nat] /\ ms \notin DOMAIN table
               /\ ms \in DOMAIN table' /\ table'[ms] = f
               /\ \A k \in DOMAIN table' : k = ms \/ (k \in DOMAIN table /\ table'[k] = table[k])
               /\ \A k \in DOMAIN table : k \in DOMAIN table' \/ table[k] \in evicted'
               /\ evicted \subseteq evicted'
               /\ f \in DOMAIN pushed /\ f \in Nat /\ pushed[f].marked /\ ms = pushed[f].ms
               /\ ms \in Int
<1> DEFINE ms == PushedMs(t)
           f  == push[t].frame
           cut == IF Len(order) >= SenderMetaCap THEN Tail(order) ELSE order
<1> USE CapsAssumption
<1>1. /\ order \in Seq(Int) /\ table \in [ToSet(order) -> Nat]
      /\ \A i, j \in DOMAIN order : order[i] = order[j] => i = j
      /\ SenderMetaCap \in Nat \ {0}
  BY DEF PushTypes, TableInv
<1>2. push[t].at = "insert"
  BY DEF InsertSenderMeta
<1>3. f \in DOMAIN pushed /\ f \in Nat /\ pushed[f].marked /\ ms = pushed[f].ms /\ ms \in Int
  <2>1. f \in DOMAIN pushed /\ pushed[f].marked
    BY <1>2 DEF PushInv
  <2>2. f \in Nat /\ pushed[f].ms \in Int
    BY <2>1, Elements
  <2> QED
    BY <2>1, <2>2 DEF PushedMs
<1>4. ms \notin DOMAIN table
  BY <1>2 DEF TableInv
<1>5. ms \notin ToSet(order)
  BY <1>1, <1>4
<1>6. /\ cut \in Seq(Int) /\ Len(cut) + 1 <= SenderMetaCap
      /\ \A i, j \in DOMAIN cut : cut[i] = cut[j] => i = j
      /\ ToSet(cut) = IF Len(order) >= SenderMetaCap THEN ToSet(order) \ {Head(order)}
                                                     ELSE ToSet(order)
  <2>1. CASE Len(order) >= SenderMetaCap
    <3>1. order # << >>
      BY <1>1, <2>1
    <3>2. /\ Tail(order) \in Seq(Int) /\ Len(Tail(order)) = Len(order) - 1
          /\ Head(order) = order[1] /\ 1 \in DOMAIN order
          /\ \A i \in DOMAIN Tail(order) : i + 1 \in DOMAIN order /\ Tail(order)[i] = order[i + 1]
      BY <1>1, <3>1, TailFacts
    <3>3. /\ DOMAIN order = 1 .. Len(order) /\ DOMAIN Tail(order) = 1 .. (Len(order) - 1)
          /\ Len(order) \in Nat
      BY <1>1, <3>2
    <3>4. cut = Tail(order)
      BY <2>1
    <3>5. \A i, j \in DOMAIN cut : cut[i] = cut[j] => i = j
      <4> SUFFICES ASSUME NEW i \in DOMAIN Tail(order), NEW j \in DOMAIN Tail(order),
                          Tail(order)[i] = Tail(order)[j]
                   PROVE  i = j
        BY <3>4
      <4>1. i + 1 = j + 1
        BY <1>1, <3>2
      <4> QED
        BY <3>3, <4>1
    <3>6. ToSet(Tail(order)) = ToSet(order) \ {Head(order)}
      <4>1. ASSUME NEW x \in ToSet(Tail(order)) PROVE x \in ToSet(order) \ {Head(order)}
        <5>1. PICK i \in DOMAIN Tail(order) : x = Tail(order)[i]
          BY DEF ToSet
        <5>2. i + 1 # 1 /\ i + 1 \in DOMAIN order /\ x = order[i + 1]
          BY <3>2, <3>3, <5>1
        <5> QED
          BY <1>1, <3>2, <5>2 DEF ToSet
      <4>2. ASSUME NEW x \in ToSet(order) \ {Head(order)} PROVE x \in ToSet(Tail(order))
        <5>1. PICK i \in DOMAIN order : x = order[i]
          BY DEF ToSet
        <5>2. i # 1
          BY <3>2, <5>1
        <5>3. i - 1 \in DOMAIN Tail(order) /\ (i - 1) + 1 = i
          BY <3>3, <5>2
        <5>4. Tail(order)[i - 1] = x
          BY <3>2, <5>1, <5>3
        <5> QED
          BY <5>3, <5>4 DEF ToSet
      <4> QED
        BY <4>1, <4>2
    <3>7. Len(Tail(order)) + 1 <= SenderMetaCap
      BY <3>2, <3>3 DEF TableInv
    <3> QED
      BY <2>1, <3>2, <3>4, <3>5, <3>6, <3>7
  <2>2. CASE ~ (Len(order) >= SenderMetaCap)
    BY <1>1, <2>2
  <2> QED
    BY <2>1, <2>2
<1>7. /\ order' = Append(cut, ms)
      /\ table' = [k \in ToSet(cut) \cup {ms} |-> IF k \in ToSet(cut) THEN table[k] ELSE f]
      /\ evicted' = IF Len(order) >= SenderMetaCap THEN evicted \cup {table[Head(order)]}
                                                   ELSE evicted
  <2>1. DOMAIN table = ToSet(order)
    BY <1>1
  <2> QED
    BY <1>6, <2>1 DEF InsertSenderMeta
<1>8. /\ \A x \in ToSet(cut) : x \in ToSet(order)
      /\ \A x \in ToSet(order) : x \in ToSet(cut) \/ table[x] \in evicted'
  BY <1>6, <1>7
<1> HIDE DEF cut, ms, f
<1>9. /\ order' \in Seq(Int) /\ Len(order') = Len(cut) + 1
      /\ \A i \in DOMAIN order' : \/ i \in DOMAIN cut /\ order'[i] = cut[i]
                                  \/ i = Len(cut) + 1 /\ order'[i] = ms
      /\ \A i \in DOMAIN cut : i \in DOMAIN order' /\ order'[i] = cut[i]
      /\ Len(cut) + 1 \in DOMAIN order' /\ order'[Len(cut) + 1] = ms
  BY <1>3, <1>6, <1>7, AppendFacts
<1>10. \A i \in DOMAIN cut : cut[i] \in ToSet(cut) /\ cut[i] # ms
  BY <1>5, <1>8 DEF ToSet
<1>11. \A i, j \in DOMAIN order' : order'[i] = order'[j] => i = j
  BY <1>6, <1>9, <1>10
<1>12. ToSet(order') = ToSet(cut) \cup {ms}
  BY <1>9 DEF ToSet
<1>13. DOMAIN table' = ToSet(order') /\ \A k \in DOMAIN table' : table'[k] \in Nat
  <2>1. DOMAIN table' = ToSet(cut) \cup {ms}
    BY <1>7
  <2>2. \A k \in ToSet(cut) : table'[k] = table[k] /\ table[k] \in Nat
    BY <1>1, <1>7, <1>8
  <2>3. table'[ms] = f /\ f \in Nat
    BY <1>3, <1>5, <1>7, <1>8 DEF f
  <2> QED
    BY <1>12, <2>1, <2>2, <2>3
<1>14. table' \in [ToSet(order') -> Nat]
  BY <1>7, <1>12, <1>13
<1>15. /\ ms \in DOMAIN table' /\ table'[ms] = f
       /\ \A k \in DOMAIN table' : k = ms \/ (k \in DOMAIN table /\ table'[k] = table[k])
       /\ \A k \in DOMAIN table : k \in DOMAIN table' \/ table[k] \in evicted'
  <2>1. DOMAIN table = ToSet(order) /\ DOMAIN table' = ToSet(cut) \cup {ms}
    BY <1>1, <1>7
  <2>2. ms \notin ToSet(cut)
    BY <1>5, <1>8
  <2>3. table'[ms] = f /\ ms \in DOMAIN table'
    BY <1>7, <2>1, <2>2
  <2>4. ASSUME NEW k \in ToSet(cut) PROVE k \in DOMAIN table /\ table'[k] = table[k]
    BY <1>7, <1>8, <2>1
  <2>5. \A k \in DOMAIN table : k \in DOMAIN table' \/ table[k] \in evicted'
    BY <1>8, <2>1
  <2> QED
    BY <2>1, <2>3, <2>4, <2>5
<1>16. evicted \subseteq evicted' /\ Len(order') <= SenderMetaCap
  BY <1>6, <1>7, <1>9
<1> QED
  BY <1>3, <1>4, <1>9, <1>11, <1>14, <1>15, <1>16 DEF ms, f

LEMMA PushTypesStep ==
    ASSUME ModeInv, PushTypes, PushInv, TableInv, QueueInv, [Next]_vars
    PROVE  PushTypes'
<1> USE DEF sourceVars, pushVars, encoderVars, historyVars
<1>0. mode'.layers = mode.layers /\ mode.layers \in Nat \ {0} /\ mode'.may = mode.may
  BY ModeStep DEF SameMode, ModeInv, Mode
<1>1. ASSUME NEW t \in Pushers, PushMarked(t) PROVE PushTypes'
  <2>1. PICK d \in mode.stamps :
           /\ Begin(t, "insert", "marked", NextUniqueCaptureMs(now + d))
           /\ lastSendMs' = NextUniqueCaptureMs(now + d)
    BY <1>1 DEF PushMarked
  <2>2. lastSendMs' \in Nat /\ NextUniqueCaptureMs(now + d) \in Int
    BY <2>1, StampFacts
  <2>3. /\ pushed' \in Seq([marked : BOOLEAN, ms : Int]) /\ Len(pushed) + 1 \in Nat
        /\ push' = [push EXCEPT ![t] = [at |-> "insert", frame |-> Len(pushed) + 1]]
    BY <2>1, <2>2, BeginFacts
  <2> QED
    BY <1>0, <1>1, <2>1, <2>2, <2>3 DEF PushTypes, PushMarked, Begin
<1>2. ASSUME NEW t \in Pushers, InsertSenderMeta(t) PROVE PushTypes'
  <2>1. order' \in Seq(Int) /\ table' \in [ToSet(order') -> Nat]
    BY <1>2, InsertFacts
  <2>2. (ToSet(order))' = ToSet(order')
    BY DEF ToSet
  <2> QED
    BY <1>0, <1>2, <2>1, <2>2 DEF PushTypes, InsertSenderMeta, GoesOn
<1>3. ASSUME NEW t \in Pushers, PushPlain(t) PROVE PushTypes'
  <2>1. PICK d \in mode.stamps : Begin(t, "native", "plain", now + d)
    BY <1>3 DEF PushPlain
  <2>2. now + d \in Int
    BY StampFacts
  <2>3. /\ pushed' \in Seq([marked : BOOLEAN, ms : Int]) /\ Len(pushed) + 1 \in Nat
        /\ push' = [push EXCEPT ![t] = [at |-> "native", frame |-> Len(pushed) + 1]]
    BY <2>1, <2>2, BeginFacts
  <2> QED
    BY <1>0, <1>3, <2>1, <2>3 DEF PushTypes, PushPlain, Begin
<1>4. ASSUME NEW t \in Pushers, PushEncoded(t) PROVE PushTypes'
  <2>1. Begin(t, "queue", "marked", now) /\ fifo' = Append(fifo, Len(pushed) + 1)
    BY <1>4 DEF PushEncoded
  <2>2. now \in Int
    BY DEF PushTypes
  <2>3. /\ pushed' \in Seq([marked : BOOLEAN, ms : Int]) /\ Len(pushed) + 1 \in Nat
        /\ push' = [push EXCEPT ![t] = [at |-> "queue", frame |-> Len(pushed) + 1]]
    BY <2>1, <2>2, BeginFacts
  <2>4. fifo' \in Seq(Nat)
    BY <2>1, <2>3 DEF PushTypes
  <2> QED
    BY <1>0, <1>4, <2>1, <2>3, <2>4 DEF PushTypes, PushEncoded, Begin
<1>5. ASSUME NEW t \in Pushers, PushEncodedPlain(t) PROVE PushTypes'
  <2>1. Begin(t, "queue", "plain", now)
    BY <1>5 DEF PushEncodedPlain
  <2>2. now \in Int
    BY DEF PushTypes
  <2>3. /\ pushed' \in Seq([marked : BOOLEAN, ms : Int]) /\ Len(pushed) + 1 \in Nat
        /\ push' = [push EXCEPT ![t] = [at |-> "queue", frame |-> Len(pushed) + 1]]
    BY <2>1, <2>2, BeginFacts
  <2> QED
    BY <1>0, <1>5, <2>1, <2>3 DEF PushTypes, PushEncodedPlain, Begin
<1>6. ASSUME NEW t \in Pushers, EnqueueFrame(t) PROVE PushTypes'
  <2>1. queue' \in Seq(Nat)
    BY <1>6 DEF PushTypes, EnqueueFrame
  <2> QED
    BY <1>0, <1>6, <2>1 DEF PushTypes, EnqueueFrame, GoesOn
<1>7. ASSUME NEW t \in Pushers, PushNative(t) PROVE PushTypes'
  <2> DEFINE ms == Clamped(IF Raw THEN PushedMs(t) ELSE now)
             x  == [frame |-> push[t].frame, ms |-> ms]
  <2>1. push[t].frame \in DOMAIN pushed /\ push[t].frame \in Nat
    BY <1>7, Elements DEF PushNative, PushInv
  <2>2. PushedMs(t) \in Int /\ now \in Int
    BY <2>1, Elements DEF PushedMs, PushTypes
  <2>3. ms \in Int
    BY <2>2 DEF Clamped
  <2>4. x \in [frame : Nat, ms : Int]
    BY <2>1, <2>3
  <2>5. \/ UNCHANGED <<input, newest>>
        \/ ms > newest /\ input' = Append(input, x) /\ newest' = ms
    BY <1>7 DEF PushNative
  <2> HIDE DEF ms, x
  <2>6. input \in Seq([frame : Nat, ms : Int]) /\ newest \in Nat
    BY DEF PushTypes
  <2>7. Append(input, x) \in Seq([frame : Nat, ms : Int])
    BY <2>4, <2>6, AppendFacts
  <2>8. ms > newest => ms \in Nat
    BY <2>3, <2>6
  <2>9. input' \in Seq([frame : Nat, ms : Int]) /\ newest' \in Nat
    BY <2>5, <2>6, <2>7, <2>8
  <2> QED
    BY <1>0, <1>7, <2>9 DEF PushTypes, PushNative, NoPush
<1>8. CASE SetGate
  <2>1. gate' \in BOOLEAN /\ attached' \in BOOLEAN
    BY <1>8 DEF SetGate, PushTypes
  <2> QED
    BY <1>0, <1>8, <2>1 DEF PushTypes, SetGate
<1>9. CASE Encodes /\ fifo' \in {fifo, TakeLeaves} /\ sent' \subseteq Sent
  <2>1. queue' \in Seq(Nat)
    BY <1>9 DEF PushTypes, Encodes
  <2>2. fifo' \in Seq(Nat)
    <3>1. fifo \in Seq(Nat)
      BY DEF PushTypes
    <3>2. fifo # << >> => Tail(fifo) \in Seq(Nat)
      BY <3>1
    <3>3. fifo' = fifo \/ fifo' = TakeLeaves
      BY <1>9
    <3>4. TakeLeaves = fifo \/ (fifo # << >> /\ TakeLeaves = Tail(fifo))
      BY DEF TakeLeaves
    <3> QED
      BY <3>1, <3>2, <3>3, <3>4
  <2>3. input' \in Seq([frame : Nat, ms : Int]) /\ layer' \in 1 .. mode.layers
    <3>1. /\ input \in Seq([frame : Nat, ms : Int]) /\ input # << >>
          /\ layer \in 1 .. mode.layers
      BY <1>9 DEF PushTypes, Encodes
    <3>2. Tail(input) \in Seq([frame : Nat, ms : Int])
      BY <3>1, TailFacts
    <3>3. \/ layer < mode.layers /\ layer' = layer + 1 /\ input' = input
          \/ layer' = 1 /\ input' = Tail(input)
      BY <1>9 DEF Encodes
    <3>4. layer' \in 1 .. mode.layers
      BY <1>0, <3>1, <3>3
    <3>5. input' \in Seq([frame : Nat, ms : Int])
      BY <3>1, <3>2, <3>3
    <3> QED
      BY <3>4, <3>5
  <2> QED
    BY <1>0, <1>9, <2>1, <2>2, <2>3 DEF PushTypes, Encodes
<1>10. CASE Embed
  <2> DEFINE meta == IF gate THEN Take ELSE NoMeta
             d    == gate /\ attached /\ Encoding \notin evicted
             s    == [frame |-> Encoding, meta |-> meta, ms |-> Head(input).ms, due |-> d]
  <2>1. Encodes /\ sent' = sent \cup {s} /\ fifo' = TakeLeaves
    BY <1>10 DEF Embed
  <2>2. Head(input).frame \in Nat /\ Head(input).ms \in Int
    BY <2>1, Elements DEF Encodes
  <2>3. Encoding \in Nat
    <3>1. ~ Raw => Head(queue) \in Nat
      BY <2>1, Elements DEF Encodes
    <3> QED
      BY <2>2, <3>1 DEF Encoding
  <2>4. meta \in Nat \cup {NoMeta}
    <3>1. \A ms \in DOMAIN table : table[ms] \in Nat
      BY Elements
    <3>2. fifo # << >> => Head(fifo) \in Nat
      BY Elements
    <3> QED
      BY <3>1, <3>2 DEF Take, TakeByCaptureTime, TakeFirst
  <2>5. d \in BOOLEAN
    BY DEF PushTypes
  <2> HIDE DEF meta, d
  <2>6. s \in Sent
    BY <2>2, <2>3, <2>4, <2>5 DEF Sent
  <2> QED
    BY <1>9, <2>1, <2>6 DEF PushTypes
<1>11. CASE CallerDrops
  BY <1>9, <1>11 DEF CallerDrops, PushTypes
<1>12. CASE DropInput
  <2>1. input' \in Seq([frame : Nat, ms : Int])
    BY <1>12 DEF PushTypes, DropInput
  <2> QED
    BY <1>0, <1>12, <2>1 DEF PushTypes, DropInput
<1>13. CASE Restart
  BY <1>0, <1>13 DEF PushTypes, Restart
<1>14. CASE Tick
  BY <1>0, <1>14 DEF PushTypes, Tick
<1>15. CASE UNCHANGED sendVars
  BY <1>0, <1>15 DEF PushTypes, sendVars
<1> QED
  BY <1>1, <1>2, <1>3, <1>4, <1>5, <1>6, <1>7, <1>8, <1>10, <1>11, <1>12, <1>13, <1>14, <1>15,
     SendSteps

-----------------------------------------------------------------------------
(* What a step of a push does to the thread's record.                      *)

LEMMA GoesOnFacts ==
    ASSUME PushTypes, NEW t \in Pushers, NEW at, GoesOn(t, at)
    PROVE  /\ push'[t].at = at /\ push'[t].frame = push[t].frame
           /\ \A u \in Pushers : u # t => push'[u] = push[u]
           /\ \A u \in Pushers : push'[u].frame = push[u].frame
BY DEF GoesOn, PushTypes

LEMMA EndsFacts ==
    ASSUME PushTypes, NEW t \in Pushers, PushNative(t)
    PROVE  /\ push[t].at = "native" /\ push'[t] = NoPush /\ push'[t].at = "idle"
           /\ \A u \in Pushers : u # t => push'[u] = push[u]
BY DEF PushNative, PushTypes, NoPush

\* The frame that begins is no one else's.
LEMMA FreshFrame ==
    ASSUME PushTypes, PushInv, QueueInv
    PROVE  /\ \A u \in Pushers : push[u].at # "idle" => push[u].frame # Len(pushed) + 1
           /\ \A i \in DOMAIN input : input[i].frame # Len(pushed) + 1
           /\ \A i \in DOMAIN queue : queue[i] # Len(pushed) + 1
<1>1. DOMAIN pushed = 1 .. Len(pushed) /\ Len(pushed) \in Nat
  BY Elements
<1>2. Len(pushed) + 1 \notin DOMAIN pushed
  BY <1>1
<1> QED
  BY <1>2 DEF PushInv, QueueInv

\* libwebrtc's input when a frame is pushed to it and when one leaves it.
LEMMA InputAfterPush ==
    ASSUME PushTypes, PushInv, NEW t \in Pushers, PushNative(t)
    PROVE  LET ms == Clamped(IF Raw THEN PushedMs(t) ELSE now)
           IN  /\ \A i \in DOMAIN input' :
                     \/ i \in DOMAIN input /\ input'[i] = input[i]
                     \/ /\ i = Len(input) + 1 /\ input'[i].frame = push[t].frame
                        /\ input'[i].ms = ms /\ ms > newest /\ newest' = ms
               /\ \A i \in DOMAIN input : i \in DOMAIN input' /\ input'[i] = input[i]
               /\ Len(input) + 1 \notin DOMAIN input
               /\ newest' = newest \/ (ms > newest /\ newest' = ms)
               /\ ms \in Int /\ ms <= now /\ (Raw => ms <= pushed[push[t].frame].ms)
<1> DEFINE ms == Clamped(IF Raw THEN PushedMs(t) ELSE now)
           x  == [frame |-> push[t].frame, ms |-> ms]
<1>1. push[t].frame \in DOMAIN pushed /\ push[t].frame \in Nat
  BY Elements DEF PushNative, PushInv
<1>2. PushedMs(t) \in Int /\ now \in Int /\ PushedMs(t) = pushed[push[t].frame].ms
  BY <1>1, Elements DEF PushedMs, PushTypes
<1>3. ms \in Int /\ ms <= now /\ (Raw => ms <= pushed[push[t].frame].ms)
  BY <1>2 DEF Clamped
<1>4. x \in [frame : Nat, ms : Int] /\ x.frame = push[t].frame /\ x.ms = ms
  BY <1>1, <1>3
<1>5. \/ UNCHANGED <<input, newest>>
      \/ ms > newest /\ input' = Append(input, x) /\ newest' = ms
  BY DEF PushNative
<1>6. input \in Seq([frame : Nat, ms : Int])
  BY DEF PushTypes
<1> HIDE DEF ms, x
<1>7. CASE UNCHANGED <<input, newest>>
  BY <1>3, <1>6, <1>7 DEF ms
<1>8. CASE ms > newest /\ input' = Append(input, x) /\ newest' = ms
  <2>1. /\ \A i \in DOMAIN input : i \in DOMAIN input' /\ input'[i] = input[i]
        /\ \A i \in DOMAIN input' : \/ i \in DOMAIN input /\ input'[i] = input[i]
                                    \/ i = Len(input) + 1 /\ input'[i] = x
        /\ Len(input) + 1 \notin DOMAIN input
    BY <1>4, <1>6, <1>8, AppendFacts
  <2> QED
    BY <1>3, <1>4, <1>8, <2>1 DEF ms
<1> QED
  BY <1>5, <1>7, <1>8

LEMMA InputTail ==
    ASSUME PushTypes, input # << >>, input' = Tail(input)
    PROVE  /\ \A i \in DOMAIN input' : i + 1 \in DOMAIN input /\ input'[i] = input[i + 1]
           /\ DOMAIN input' = 1 .. Len(input') /\ Len(input') \in Nat /\ 1 \in DOMAIN input
           /\ \A i, j \in DOMAIN input' : (i = j <=> i + 1 = j + 1) /\ (i < j <=> i + 1 < j + 1)
           /\ \A i \in DOMAIN input' : i + 1 # 1 /\ 1 < i + 1
<1>1. input \in Seq([frame : Nat, ms : Int])
  BY DEF PushTypes
<1>2. /\ Tail(input) \in Seq([frame : Nat, ms : Int]) /\ Len(Tail(input)) = Len(input) - 1
      /\ 1 \in DOMAIN input
      /\ \A i \in DOMAIN Tail(input) : i + 1 \in DOMAIN input /\ Tail(input)[i] = input[i + 1]
  BY <1>1, TailFacts
<1>3. DOMAIN input' = 1 .. Len(input') /\ Len(input') \in Nat
  BY <1>2, InSeq
<1>4. /\ \A i, j \in DOMAIN input' : (i = j <=> i + 1 = j + 1) /\ (i < j <=> i + 1 < j + 1)
      /\ \A i \in DOMAIN input' : i + 1 # 1 /\ 1 < i + 1
  BY <1>3
<1> QED
  BY <1>2, <1>3, <1>4

LEMMA QueueTail ==
    ASSUME PushTypes, queue # << >>
    PROVE  /\ \A i \in DOMAIN Tail(queue) :
                 i + 1 \in DOMAIN queue /\ Tail(queue)[i] = queue[i + 1] /\ i + 1 # 1
           /\ \A i, j \in DOMAIN Tail(queue) : i = j <=> i + 1 = j + 1
           /\ 1 \in DOMAIN queue /\ Head(queue) = queue[1] /\ Len(Tail(queue)) = Len(queue) - 1
<1>1. queue \in Seq(Nat)
  BY DEF PushTypes
<1>2. /\ Tail(queue) \in Seq(Nat) /\ Len(Tail(queue)) = Len(queue) - 1
      /\ 1 \in DOMAIN queue /\ Head(queue) = queue[1]
      /\ \A i \in DOMAIN Tail(queue) : i + 1 \in DOMAIN queue /\ Tail(queue)[i] = queue[i + 1]
  BY <1>1, TailFacts
<1>3. DOMAIN Tail(queue) = 1 .. Len(Tail(queue)) /\ Len(Tail(queue)) \in Nat
  BY <1>2, InSeq
<1> QED
  BY <1>2, <1>3

LEMMA PushInvStep ==
    ASSUME ModeInv, PushTypes, PushInv, TableInv, QueueInv, [Next]_vars
    PROVE  PushInv'
<1> USE DEF sourceVars, pushVars, encoderVars, historyVars
<1>0. Raw' = Raw
  BY ModeStep
<1>1. ASSUME NEW t \in Pushers, NEW at \in {"insert", "native", "queue"}, NEW kind, NEW ms,
             Begin(t, at, kind, ms), at = "insert" => Raw /\ kind = "marked",
             at = "queue" => ~ Raw, UNCHANGED input
      PROVE  PushInv'
  <2>1. /\ \A f \in DOMAIN pushed : f \in DOMAIN pushed' /\ pushed'[f] = pushed[f]
        /\ pushed'[Len(pushed) + 1].marked <=> kind = "marked"
        /\ Len(pushed) + 1 \in DOMAIN pushed'
        /\ push'[t].at = at /\ push'[t].frame = Len(pushed) + 1
        /\ \A u \in Pushers : u # t => push'[u] = push[u]
    BY <1>1, BeginFacts
  <2>2. /\ \A u \in Pushers : push[u].at # "idle" => push[u].frame # Len(pushed) + 1
        /\ \A i \in DOMAIN input : input[i].frame # Len(pushed) + 1
    BY FreshFrame
  <2>3. push[t].at = "idle" /\ \A u \in Pushers : push[u].at = "idle" => push[u].frame = 0
    BY <1>1 DEF Begin, NoPush, PushInv
  <2>4. Len(pushed) + 1 # 0
    BY Elements
  <2>5. ASSUME NEW u \in Pushers, NEW v \in Pushers, push'[u].at # "idle",
               push'[u].frame = push'[v].frame
        PROVE  u = v
    BY <2>1, <2>2, <2>3, <2>4, <2>5, Elements DEF PushInv
  <2>6. \A u \in Pushers :
          /\ push'[u].at = "idle" => push'[u] = NoPush
          /\ push'[u].at # "idle" => push'[u].frame \in DOMAIN pushed'
          /\ push'[u].at = "insert" => Raw' /\ pushed'[push'[u].frame].marked
          /\ push'[u].at = "queue" => ~Raw'
    BY <1>0, <1>1, <2>1 DEF PushInv
  <2>7. \A i \in DOMAIN input' :
          /\ input'[i].frame \in DOMAIN pushed'
          /\ \A u \in Pushers : push'[u].at # "idle" => push'[u].frame # input'[i].frame
          /\ \A j \in DOMAIN input' : input'[i].frame = input'[j].frame => i = j
    BY <1>1, <2>1, <2>2 DEF PushInv
  <2> QED
    BY <2>5, <2>6, <2>7 DEF PushInv
<1>2. ASSUME NEW t \in Pushers, GoesOn(t, "native"), UNCHANGED <<pushed, input>>,
             push[t].at # "idle"
      PROVE  PushInv'
  <2>1. /\ push'[t].at = "native" /\ push'[t].frame = push[t].frame
        /\ \A u \in Pushers : u # t => push'[u] = push[u]
        /\ \A u \in Pushers : push'[u].frame = push[u].frame
    BY <1>2, GoesOnFacts
  <2> QED
    BY <1>0, <1>2, <2>1 DEF PushInv
<1>3. ASSUME NEW t \in Pushers, PushNative(t) PROVE PushInv'
  <2>1. /\ push[t].at = "native" /\ push'[t] = NoPush /\ push'[t].at = "idle"
        /\ \A u \in Pushers : u # t => push'[u] = push[u]
        /\ UNCHANGED pushed
    BY <1>3, EndsFacts DEF PushNative
  <2>2. /\ \A i \in DOMAIN input' : \/ i \in DOMAIN input /\ input'[i] = input[i]
                                    \/ i = Len(input) + 1 /\ input'[i].frame = push[t].frame
        /\ \A i \in DOMAIN input : i \in DOMAIN input' /\ input'[i] = input[i]
    BY <1>3, InputAfterPush
  <2>3. \A u \in Pushers : push[u].at = "idle" => push[u].frame = 0
    BY DEF PushInv, NoPush
  <2>4. push[t].frame # 0
    BY <2>1, Elements DEF PushInv
  <2>5. \A u \in Pushers :
          /\ push'[u].at = "idle" => push'[u] = NoPush
          /\ push'[u].at # "idle" => push'[u].frame \in DOMAIN pushed'
          /\ push'[u].at = "insert" => Raw' /\ pushed'[push'[u].frame].marked
          /\ push'[u].at = "queue" => ~Raw'
    BY <1>0, <2>1 DEF PushInv
  <2>6. ASSUME NEW u \in Pushers, NEW v \in Pushers, push'[u].at # "idle",
               push'[u].frame = push'[v].frame
        PROVE  u = v
    <3>1. u # t /\ push'[u] = push[u] /\ push[u].frame # 0
      BY <2>1, <2>6, Elements DEF PushInv
    <3>2. v # t
      BY <2>1, <2>6, <3>1 DEF NoPush
    <3> QED
      BY <2>1, <2>6, <3>1, <3>2 DEF PushInv
  <2>7. \A i \in DOMAIN input' :
          /\ input'[i].frame \in DOMAIN pushed'
          /\ \A u \in Pushers : push'[u].at # "idle" => push'[u].frame # input'[i].frame
          /\ \A j \in DOMAIN input' : input'[i].frame = input'[j].frame => i = j
    BY <2>1, <2>2 DEF PushInv
  <2> QED
    BY <2>5, <2>6, <2>7 DEF PushInv
<1>4. CASE input # << >> /\ input' = Tail(input) /\ UNCHANGED <<push, pushed>>
  <2>1. /\ \A i \in DOMAIN input' : i + 1 \in DOMAIN input /\ input'[i] = input[i + 1]
        /\ \A i, j \in DOMAIN input' : i = j <=> i + 1 = j + 1
    BY <1>4, InputTail
  <2> QED
    BY <1>0, <1>4, <2>1 DEF PushInv
<1>5. CASE UNCHANGED <<push, pushed, input>>
  BY <1>0, <1>5 DEF PushInv
<1>6. ASSUME NEW t \in Pushers, PushMarked(t) PROVE PushInv'
  <2>1. \E ms : Begin(t, "insert", "marked", ms)
    BY <1>6 DEF PushMarked
  <2>2. Raw /\ UNCHANGED input
    BY <1>6 DEF PushMarked, Begin
  <2> QED
    BY <1>1, <2>1, <2>2
<1>7. ASSUME NEW t \in Pushers, InsertSenderMeta(t) PROVE PushInv'
  BY <1>2, <1>7 DEF InsertSenderMeta
<1>8. ASSUME NEW t \in Pushers, PushPlain(t) PROVE PushInv'
  <2>1. \E ms : Begin(t, "native", "plain", ms)
    BY <1>8 DEF PushPlain
  <2>2. UNCHANGED input
    BY <1>8 DEF PushPlain, Begin
  <2> QED
    BY <1>1, <2>1, <2>2
<1>9. ASSUME NEW t \in Pushers, PushEncoded(t) PROVE PushInv'
  <2>1. Begin(t, "queue", "marked", now) /\ ~ Raw /\ UNCHANGED input
    BY <1>9 DEF PushEncoded, Begin
  <2> QED
    BY <1>1, <2>1
<1>10. ASSUME NEW t \in Pushers, PushEncodedPlain(t) PROVE PushInv'
  <2>1. Begin(t, "queue", "plain", now) /\ ~ Raw /\ UNCHANGED input
    BY <1>10 DEF PushEncodedPlain, Begin
  <2> QED
    BY <1>1, <2>1
<1>11. ASSUME NEW t \in Pushers, EnqueueFrame(t) PROVE PushInv'
  BY <1>2, <1>11 DEF EnqueueFrame
<1>12. CASE Encodes
  BY <1>4, <1>5, <1>12 DEF Encodes
<1>13. CASE DropInput
  BY <1>4, <1>13 DEF DropInput
<1>14. CASE SetGate \/ Restart \/ Tick \/ UNCHANGED sendVars
  BY <1>5, <1>14 DEF SetGate, Restart, Tick, sendVars
<1> QED
  BY <1>3, <1>6, <1>7, <1>8, <1>9, <1>10, <1>11, <1>12, <1>13, <1>14, SendSteps
     DEF Embed, CallerDrops

LEMMA TableInvStep ==
    ASSUME ModeInv, PushTypes, PushInv, TableInv, QueueInv, [Next]_vars
    PROVE  TableInv'
<1> USE DEF sourceVars, pushVars, encoderVars, historyVars
<1>0. Raw' = Raw
  BY ModeStep
<1>1. ASSUME NEW t \in Pushers, PushMarked(t) PROVE TableInv'
  <2> DEFINE f0 == Len(pushed) + 1
  <2>1. PICK d \in mode.stamps :
           /\ Begin(t, "insert", "marked", NextUniqueCaptureMs(now + d))
           /\ lastSendMs' = NextUniqueCaptureMs(now + d)
    BY <1>1 DEF PushMarked
  <2> DEFINE ms == NextUniqueCaptureMs(now + d)
  <2>2. ms \in Nat /\ ms > lastSendMs /\ lastSendMs \in Nat
    BY StampFacts DEF PushTypes
  <2>3. Raw /\ lastSendMs' = ms /\ UNCHANGED <<order, table, evicted>>
    BY <1>1, <2>1 DEF PushMarked, Begin
  <2>4. /\ push[t] = NoPush
        /\ \A f \in DOMAIN pushed : f \in DOMAIN pushed' /\ pushed'[f] = pushed[f]
        /\ pushed'[f0].marked /\ pushed'[f0].ms = ms
        /\ f0 \notin DOMAIN pushed /\ f0 \in DOMAIN pushed'
        /\ \A f \in DOMAIN pushed' : f \in DOMAIN pushed \/ f = f0
        /\ push'[t].at = "insert" /\ push'[t].frame = f0
        /\ \A u \in Pushers : u # t => push'[u] = push[u]
    BY <2>1, BeginFacts
  <2> HIDE DEF ms, f0
  <2>5. \A f \in DOMAIN pushed : pushed[f].marked => pushed[f].ms \in 0 .. lastSendMs
    BY <2>3 DEF TableInv
  <2>6. \A k \in DOMAIN table : /\ table[k] \in DOMAIN pushed /\ pushed[table[k]].marked
                                /\ pushed[table[k]].ms = k /\ k \in 0 .. lastSendMs
    BY <2>5 DEF TableInv
  <2>7. ms \notin DOMAIN table /\ \A f \in DOMAIN pushed : pushed[f].marked => pushed[f].ms # ms
    BY <2>2, <2>5, <2>6
  <2>8. \A u \in Pushers : push'[u].at = "insert" => pushed'[push'[u].frame].ms \notin DOMAIN table'
    <3> SUFFICES ASSUME NEW u \in Pushers, push'[u].at = "insert"
                 PROVE  pushed'[push'[u].frame].ms \notin DOMAIN table
      BY <2>3
    <3>1. CASE u = t
      BY <2>4, <2>7, <3>1
    <3>2. CASE u # t
      <4>1. push[u].at = "insert" /\ push[u].frame \in DOMAIN pushed
        BY <2>4, <3>2 DEF PushInv
      <4> QED
        BY <2>4, <3>2, <4>1 DEF TableInv, PushedMs
    <3> QED
      BY <3>1, <3>2
  <2>9. ASSUME NEW f \in DOMAIN pushed', pushed'[f].marked
        PROVE  /\ pushed'[f].ms \in 0 .. lastSendMs'
               /\ \A g \in DOMAIN pushed' :
                     pushed'[g].marked /\ pushed'[g].ms = pushed'[f].ms => g = f
    <3>1. pushed'[f].ms \in 0 .. lastSendMs'
      BY <2>2, <2>3, <2>4, <2>5, <2>9
    <3>2. \A g \in DOMAIN pushed' : pushed'[g].marked /\ pushed'[g].ms = pushed'[f].ms => g = f
      BY <2>3, <2>4, <2>7, <2>9 DEF TableInv
    <3> QED
      BY <3>1, <3>2
  <2>10. ASSUME NEW f \in DOMAIN pushed', pushed'[f].marked
         PROVE  \/ \E u \in Pushers : push'[u].at = "insert" /\ push'[u].frame = f
                \/ pushed'[f].ms \in DOMAIN table' /\ table'[pushed'[f].ms] = f
                \/ f \in evicted'
    <3>1. CASE f = f0
      BY <2>4, <3>1
    <3>2. CASE f \in DOMAIN pushed
      <4>1. pushed[f].marked /\ pushed'[f].ms = pushed[f].ms
        BY <2>4, <2>10, <3>2
      <4>2. \A u \in Pushers : push[u].at = "insert" => push'[u] = push[u]
        BY <2>4 DEF NoPush
      <4> QED
        BY <2>3, <3>2, <4>1, <4>2 DEF TableInv
    <3> QED
      BY <2>4, <3>1, <3>2
  <2>11. /\ Len(order') <= SenderMetaCap
         /\ \A i, j \in DOMAIN order' : order'[i] = order'[j] => i = j
         /\ \A k \in DOMAIN table' : /\ table'[k] \in DOMAIN pushed'
                                     /\ pushed'[table'[k]].marked /\ pushed'[table'[k]].ms = k
    BY <2>3, <2>4, <2>6 DEF TableInv
  <2> QED
    BY <2>8, <2>9, <2>10, <2>11 DEF TableInv, PushedMs
<1>2. ASSUME NEW t \in Pushers, InsertSenderMeta(t) PROVE TableInv'
  <2> DEFINE f0 == push[t].frame
             ms == PushedMs(t)
  <2>1. /\ Len(order') <= SenderMetaCap
        /\ \A i, j \in DOMAIN order' : order'[i] = order'[j] => i = j
        /\ ms \in DOMAIN table' /\ table'[ms] = f0
        /\ \A k \in DOMAIN table' : k = ms \/ (k \in DOMAIN table /\ table'[k] = table[k])
        /\ \A k \in DOMAIN table : k \in DOMAIN table' \/ table[k] \in evicted'
        /\ evicted \subseteq evicted'
        /\ f0 \in DOMAIN pushed /\ pushed[f0].marked /\ ms = pushed[f0].ms
    BY <1>2, InsertFacts
  <2>2. /\ push[t].at = "insert" /\ push'[t].at = "native"
        /\ \A u \in Pushers : u # t => push'[u] = push[u]
        /\ UNCHANGED <<pushed, lastSendMs>> /\ Raw
    BY <1>2, GoesOnFacts DEF InsertSenderMeta, PushInv
  <2> HIDE DEF f0, ms
  <2>3. \A k \in DOMAIN table' : /\ table'[k] \in DOMAIN pushed'
                                 /\ pushed'[table'[k]].marked /\ pushed'[table'[k]].ms = k
    BY <2>1, <2>2 DEF TableInv
  <2>4. ASSUME NEW u \in Pushers, push'[u].at = "insert"
        PROVE  pushed'[push'[u].frame].ms \notin DOMAIN table'
    <3>1. u # t /\ push'[u] = push[u] /\ push[u].frame \in DOMAIN pushed
          /\ pushed[push[u].frame].marked
      BY <2>2, <2>4 DEF PushInv
    <3>2. push[u].frame # f0
      BY <2>4, <3>1 DEF PushInv, f0
    <3>3. pushed[push[u].frame].ms # ms
      BY <2>1, <2>2, <3>1, <3>2 DEF TableInv
    <3>4. pushed[push[u].frame].ms \notin DOMAIN table
      BY <2>4, <3>1 DEF TableInv, PushedMs
    <3> QED
      BY <2>1, <2>2, <3>1, <3>3, <3>4
  <2>5. ASSUME NEW f \in DOMAIN pushed', pushed'[f].marked
        PROVE  \/ \E u \in Pushers : push'[u].at = "insert" /\ push'[u].frame = f
               \/ pushed'[f].ms \in DOMAIN table' /\ table'[pushed'[f].ms] = f
               \/ f \in evicted'
    <3>1. CASE f = f0
      BY <2>1, <2>2, <3>1
    <3>2. CASE \E u \in Pushers : u # t /\ push[u].at = "insert" /\ push[u].frame = f
      BY <2>2, <3>2
    <3>3. CASE pushed[f].ms \in DOMAIN table /\ table[pushed[f].ms] = f /\ f # f0
      <4>1. pushed[f].ms # ms
        BY <2>1, <2>2, <2>5, <3>3 DEF TableInv
      <4> QED
        BY <2>1, <2>2, <3>3, <4>1
    <3>4. CASE f \in evicted
      BY <2>1, <3>4
    <3> QED
      BY <2>2, <2>5, <3>1, <3>2, <3>3, <3>4 DEF TableInv, f0
  <2>6. Raw' => \A f \in DOMAIN pushed' : pushed'[f].marked =>
          /\ pushed'[f].ms \in 0 .. lastSendMs'
          /\ \A g \in DOMAIN pushed' : pushed'[g].marked /\ pushed'[g].ms = pushed'[f].ms => g = f
    BY <2>2 DEF TableInv
  <2> QED
    BY <2>1, <2>3, <2>4, <2>5, <2>6 DEF TableInv, PushedMs
<1>3. ASSUME NEW t \in Pushers, NEW at \in {"native", "queue"}, NEW kind, NEW ms,
             Begin(t, at, kind, ms), ~ Raw \/ kind # "marked", kind = "marked" => ms = now,
             UNCHANGED <<lastSendMs, table, order>>
      PROVE  TableInv'
  <2> DEFINE f0 == Len(pushed) + 1
  <2>1. /\ push[t] = NoPush
        /\ \A f \in DOMAIN pushed : f \in DOMAIN pushed' /\ pushed'[f] = pushed[f]
        /\ (pushed'[f0].marked <=> kind = "marked")
        /\ f0 \notin DOMAIN pushed /\ f0 \in DOMAIN pushed'
        /\ \A f \in DOMAIN pushed' : f \in DOMAIN pushed \/ f = f0
        /\ push'[t].at = at /\ push'[t].frame = f0
        /\ \A u \in Pushers : u # t => push'[u] = push[u]
        /\ UNCHANGED evicted
    BY <1>3, BeginFacts DEF Begin
  <2> HIDE DEF f0
  <2>2. ASSUME NEW u \in Pushers, push'[u].at = "insert"
        PROVE  pushed'[push'[u].frame].ms \notin DOMAIN table'
    <3>1. u # t /\ push'[u] = push[u] /\ push[u].frame \in DOMAIN pushed
      BY <2>1, <2>2 DEF PushInv
    <3> QED
      BY <1>3, <2>1, <2>2, <3>1 DEF TableInv, PushedMs
  <2>3. ASSUME Raw, NEW f \in DOMAIN pushed', pushed'[f].marked
        PROVE  /\ pushed'[f].ms \in 0 .. lastSendMs'
               /\ \A g \in DOMAIN pushed' :
                     pushed'[g].marked /\ pushed'[g].ms = pushed'[f].ms => g = f
               /\ \/ \E u \in Pushers : push'[u].at = "insert" /\ push'[u].frame = f
                  \/ pushed'[f].ms \in DOMAIN table' /\ table'[pushed'[f].ms] = f
                  \/ f \in evicted'
    <3>1. ~ pushed'[f0].marked /\ f \in DOMAIN pushed /\ pushed[f].marked
      BY <1>3, <2>1, <2>3
    <3>2. \A u \in Pushers : push[u].at = "insert" => push'[u] = push[u]
      BY <2>1 DEF NoPush
    <3>3. \A g \in DOMAIN pushed' : pushed'[g].marked => g \in DOMAIN pushed
      BY <2>1, <3>1
    <3> QED
      BY <1>3, <2>1, <2>3, <3>1, <3>2, <3>3 DEF TableInv
  <2>4. /\ Len(order') <= SenderMetaCap
        /\ \A i, j \in DOMAIN order' : order'[i] = order'[j] => i = j
        /\ \A k \in DOMAIN table' : /\ table'[k] \in DOMAIN pushed'
                                    /\ pushed'[table'[k]].marked /\ pushed'[table'[k]].ms = k
    BY <1>3, <2>1 DEF TableInv
  <2> QED
    BY <1>0, <2>2, <2>3, <2>4 DEF TableInv, PushedMs
<1>4. ASSUME UNCHANGED <<lastSendMs, table, order, pushed, evicted>>,
             \A u \in Pushers : (push'[u].at = "insert" <=> push[u].at = "insert")
                                /\ (push[u].at = "insert" => push'[u] = push[u])
      PROVE  TableInv'
  BY <1>0, <1>4 DEF TableInv, PushedMs
<1>5. ASSUME NEW t \in Pushers, PushPlain(t) PROVE TableInv'
  <2>1. \E ms : Begin(t, "native", "plain", ms)
    BY <1>5 DEF PushPlain
  <2> QED
    BY <1>3, <1>5, <2>1 DEF PushPlain
<1>6. ASSUME NEW t \in Pushers, PushEncoded(t) PROVE TableInv'
  BY <1>3, <1>6 DEF PushEncoded
<1>7. ASSUME NEW t \in Pushers, PushEncodedPlain(t) PROVE TableInv'
  BY <1>3, <1>7 DEF PushEncodedPlain
<1>8. ASSUME NEW t \in Pushers, EnqueueFrame(t) PROVE TableInv'
  <2>1. /\ push[t].at = "queue" /\ push'[t].at = "native"
        /\ \A u \in Pushers : u # t => push'[u] = push[u]
    BY <1>8, GoesOnFacts DEF EnqueueFrame
  <2> QED
    BY <1>4, <1>8, <2>1 DEF EnqueueFrame
<1>9. ASSUME NEW t \in Pushers, PushNative(t) PROVE TableInv'
  <2>1. /\ push[t].at = "native" /\ push'[t].at = "idle"
        /\ \A u \in Pushers : u # t => push'[u] = push[u]
    BY <1>9, EndsFacts
  <2> QED
    BY <1>4, <1>9, <2>1 DEF PushNative
<1>10. CASE Encodes \/ DropInput \/ SetGate \/ Restart \/ Tick \/ UNCHANGED sendVars
  BY <1>4, <1>10 DEF Encodes, DropInput, SetGate, Restart, Tick, sendVars
<1> QED
  BY <1>1, <1>2, <1>5, <1>6, <1>7, <1>8, <1>9, <1>10, SendSteps DEF Embed, CallerDrops

LEMMA QueueInvStep ==
    ASSUME ModeInv, PushTypes, PushInv, TableInv, QueueInv, [Next]_vars
    PROVE  QueueInv'
<1> USE DEF sourceVars, pushVars, encoderVars, historyVars
<1>0. Raw' = Raw
  BY ModeStep
<1>1. ASSUME NEW t \in Pushers, NEW at, NEW kind, NEW ms, Begin(t, at, kind, ms),
             UNCHANGED <<queue, sent>>,
             \A i \in DOMAIN fifo' :
                fifo'[i] = Len(pushed) + 1 \/ (i \in DOMAIN fifo /\ fifo'[i] = fifo[i])
      PROVE  QueueInv'
  <2>1. /\ \A f \in DOMAIN pushed : f \in DOMAIN pushed'
        /\ Len(pushed) + 1 \notin DOMAIN pushed /\ Len(pushed) + 1 \in DOMAIN pushed'
        /\ push'[t].frame = Len(pushed) + 1
        /\ \A u \in Pushers : u # t => push'[u] = push[u]
    BY <1>1, BeginFacts
  <2>2. \A i \in DOMAIN fifo' : fifo'[i] \in DOMAIN pushed'
    BY <1>1, <2>1 DEF QueueInv
  <2>3. \A u \in Pushers : push'[u].at = "queue" =>
           /\ \A i \in DOMAIN queue' : push'[u].frame # queue'[i]
           /\ ~ Raw => \A s \in sent' : push'[u].frame # s.frame
    BY <1>1, <2>1 DEF QueueInv
  <2>4. \A s \in sent' : s.frame \in DOMAIN pushed'
    BY <1>1, <2>1 DEF QueueInv
  <2>5. \A i \in DOMAIN queue' :
          /\ queue'[i] \in DOMAIN pushed'
          /\ \A j \in DOMAIN queue' : queue'[i] = queue'[j] => i = j
          /\ \A s \in sent' : ~Raw => s.frame # queue'[i]
    BY <1>1, <2>1 DEF QueueInv
  <2> QED
    BY <1>0, <2>2, <2>3, <2>4, <2>5 DEF QueueInv
<1>2. ASSUME NEW t \in Pushers, EnqueueFrame(t) PROVE QueueInv'
  <2> DEFINE f0 == push[t].frame
  <2>1. /\ push[t].at = "queue" /\ push'[t].at = "native"
        /\ \A u \in Pushers : u # t => push'[u] = push[u]
        /\ UNCHANGED <<fifo, sent, pushed>> /\ queue' = Append(queue, f0)
    BY <1>2, GoesOnFacts DEF EnqueueFrame
  <2>2. f0 \in DOMAIN pushed /\ f0 \in Nat /\ queue \in Seq(Nat)
    BY <2>1, Elements DEF PushInv, PushTypes
  <2>3. \A i \in DOMAIN queue' : \/ i \in DOMAIN queue /\ queue'[i] = queue[i]
                                 \/ i = Len(queue) + 1 /\ queue'[i] = f0
    BY <2>1, <2>2, AppendFacts
  <2>4. /\ \A i \in DOMAIN queue : queue[i] # f0
        /\ ~ Raw => \A s \in sent : s.frame # f0
        /\ \A u \in Pushers : push'[u].at = "queue" => push[u].at = "queue" /\ push'[u] = push[u]
        /\ \A u \in Pushers : push'[u].at = "queue" => push'[u].frame # f0
    BY <2>1 DEF QueueInv, PushInv
  <2> HIDE DEF f0
  <2>5. \A i \in DOMAIN queue' :
          /\ queue'[i] \in DOMAIN pushed'
          /\ \A j \in DOMAIN queue' : queue'[i] = queue'[j] => i = j
          /\ \A u \in Pushers : push'[u].at = "queue" => push'[u].frame # queue'[i]
          /\ \A s \in sent' : ~Raw => s.frame # queue'[i]
    BY <2>1, <2>2, <2>3, <2>4 DEF QueueInv
  <2> QED
    BY <1>0, <2>1, <2>4, <2>5 DEF QueueInv
<1>3. ASSUME Encodes, fifo' \in {fifo, TakeLeaves},
             \A s \in sent' : s \in sent \/ s.frame = Encoding
      PROVE  QueueInv'
  <2>1. UNCHANGED <<push, pushed>> /\ queue' = IF Raw THEN queue ELSE Tail(queue)
    BY <1>3 DEF Encodes
  <2>2. input # << >> /\ (Raw \/ queue # << >>)
    BY <1>3 DEF Encodes
  <2>3. \A i \in DOMAIN fifo' : fifo'[i] \in DOMAIN pushed
    <3>1. fifo \in Seq(Nat)
      BY DEF PushTypes
    <3>2. fifo # << >> => \A i \in DOMAIN Tail(fifo) : i + 1 \in DOMAIN fifo
                                                       /\ Tail(fifo)[i] = fifo[i + 1]
      BY <3>1, TailFacts
    <3>3. fifo' = fifo \/ fifo' = TakeLeaves
      BY <1>3
    <3>4. TakeLeaves = fifo \/ (fifo # << >> /\ TakeLeaves = Tail(fifo))
      BY DEF TakeLeaves
    <3> QED
      BY <3>2, <3>3, <3>4 DEF QueueInv
  <2>4. Encoding \in DOMAIN pushed
    BY <2>2, Elements DEF Encoding, PushInv, QueueInv
  <2>5. \A s \in sent' : s.frame \in DOMAIN pushed
    BY <1>3, <2>4 DEF QueueInv
  <2>6. CASE Raw
    BY <1>0, <2>1, <2>3, <2>5, <2>6 DEF QueueInv
  <2>7. CASE ~ Raw
    <3>1. /\ \A i \in DOMAIN Tail(queue) :
                i + 1 \in DOMAIN queue /\ Tail(queue)[i] = queue[i + 1] /\ i + 1 # 1
          /\ \A i, j \in DOMAIN Tail(queue) : i = j <=> i + 1 = j + 1
          /\ 1 \in DOMAIN queue /\ Head(queue) = queue[1]
      BY <2>2, <2>7, QueueTail
    <3>2. queue' = Tail(queue) /\ Encoding = queue[1]
      BY <2>1, <2>7, <3>1 DEF Encoding
    <3>3. ASSUME NEW s \in sent'
          PROVE  /\ \A i \in DOMAIN queue' : s.frame # queue'[i]
                 /\ \A u \in Pushers : push[u].at = "queue" => push[u].frame # s.frame
      BY <1>3, <2>7, <3>1, <3>2 DEF QueueInv
    <3>4. \A i \in DOMAIN queue' :
            /\ queue'[i] \in DOMAIN pushed
            /\ \A j \in DOMAIN queue' : queue'[i] = queue'[j] => i = j
            /\ \A u \in Pushers : push[u].at = "queue" => push[u].frame # queue'[i]
      BY <3>1, <3>2 DEF QueueInv
    <3> QED
      BY <1>0, <2>1, <2>3, <2>5, <3>3, <3>4 DEF QueueInv
  <2> QED
    BY <2>6, <2>7
<1>4. ASSUME UNCHANGED <<fifo, queue, sent, pushed>>,
             \A u \in Pushers : push'[u].at = "queue" => push'[u] = push[u]
      PROVE  QueueInv'
  BY <1>0, <1>4 DEF QueueInv
<1>5. ASSUME NEW t \in Pushers, PushMarked(t) PROVE QueueInv'
  <2>1. \E ms : Begin(t, "insert", "marked", ms)
    BY <1>5 DEF PushMarked
  <2> QED
    BY <1>1, <1>5, <2>1 DEF PushMarked, Begin
<1>6. ASSUME NEW t \in Pushers, PushPlain(t) PROVE QueueInv'
  <2>1. \E ms : Begin(t, "native", "plain", ms)
    BY <1>6 DEF PushPlain
  <2> QED
    BY <1>1, <1>6, <2>1 DEF PushPlain, Begin
<1>7. ASSUME NEW t \in Pushers, PushEncoded(t) PROVE QueueInv'
  <2>1. Begin(t, "queue", "marked", now) /\ fifo' = Append(fifo, Len(pushed) + 1)
    BY <1>7 DEF PushEncoded
  <2>2. fifo \in Seq(Nat) /\ Len(pushed) + 1 \in Nat
    BY Elements DEF PushTypes
  <2>3. \A i \in DOMAIN fifo' :
           fifo'[i] = Len(pushed) + 1 \/ (i \in DOMAIN fifo /\ fifo'[i] = fifo[i])
    BY <2>1, <2>2, AppendFacts
  <2>4. UNCHANGED <<queue, sent>>
    BY <1>7, <2>1 DEF PushEncoded, Begin
  <2> QED
    BY <1>1, <2>1, <2>3, <2>4
<1>8. ASSUME NEW t \in Pushers, PushEncodedPlain(t) PROVE QueueInv'
  BY <1>1, <1>8 DEF PushEncodedPlain, Begin
<1>9. ASSUME NEW t \in Pushers, InsertSenderMeta(t) PROVE QueueInv'
  <2>1. push'[t].at = "native" /\ \A u \in Pushers : u # t => push'[u] = push[u]
    BY <1>9, GoesOnFacts DEF InsertSenderMeta
  <2> QED
    BY <1>4, <1>9, <2>1 DEF InsertSenderMeta
<1>10. ASSUME NEW t \in Pushers, PushNative(t) PROVE QueueInv'
  <2>1. push'[t].at = "idle" /\ \A u \in Pushers : u # t => push'[u] = push[u]
    BY <1>10, EndsFacts
  <2> QED
    BY <1>4, <1>10, <2>1 DEF PushNative
<1>11. CASE Embed
  BY <1>3, <1>11 DEF Embed
<1>12. CASE CallerDrops
  BY <1>3, <1>12 DEF CallerDrops
<1>13. CASE DropInput \/ SetGate \/ Restart \/ Tick \/ UNCHANGED sendVars
  BY <1>4, <1>13 DEF DropInput, SetGate, Restart, Tick, sendVars
<1> QED
  BY <1>2, <1>5, <1>6, <1>7, <1>8, <1>9, <1>10, <1>11, <1>12, <1>13, SendSteps

-----------------------------------------------------------------------------
(* Types and caps of the receiving side.                                   *)

netVars == <<wire, buffer, seen, metaQueue, decoded, stripped, shown, crowded>>

LEMMA NetSteps ==
    ASSUME [Next]_vars
    PROVE  \/ Embed \/ Assemble \/ Lose \/ \E p \in buffer : Show(p)
           \/ UNCHANGED netVars
<1>1. ASSUME NEW t \in Pushers,
             \/ PushMarked(t) \/ InsertSenderMeta(t) \/ PushPlain(t) \/ PushEncoded(t)
             \/ PushEncodedPlain(t) \/ EnqueueFrame(t) \/ PushNative(t)
      PROVE  UNCHANGED netVars
  BY <1>1 DEF netVars, receiveVars, historyVars, Begin, PushMarked, InsertSenderMeta, PushPlain,
              PushEncoded, PushEncodedPlain, EnqueueFrame, PushNative
<1>2. SetGate \/ DropInput \/ Restart \/ Tick => UNCHANGED netVars
  BY DEF netVars, receiveVars, historyVars, SetGate, DropInput, Restart, Tick
<1>3. CallerDrops \/ CallbackReturns => UNCHANGED netVars
  BY DEF netVars, receiveVars, historyVars, CallerDrops, Encodes, CallbackReturns
<1>4. ASSUME NEW s \in Setters,
             \/ AttachVideoSink(s) \/ LockSink(s) \/ RemoveSink(s) \/ AddSink(s)
             \/ StoreSink(s) \/ StoreTotals(s)
      PROVE  UNCHANGED netVars
  BY <1>4 DEF AttachVideoSink, SetterGoesOn, LockSink, RemoveSink, AddSink, StoreSink,
              StoreTotals, netVars, receiveVars, historyVars
<1>5. UNCHANGED vars => UNCHANGED netVars
  BY DEF vars, netVars, receiveVars, historyVars
<1> QED
  BY <1>1, <1>2, <1>3, <1>4, <1>5 DEF Next

LEMMA PacketFacts ==
    ASSUME NEW p \in Packet
    PROVE  /\ p.frame \in Nat /\ p.ssrc \in {1, 2} /\ p.ts \in Int /\ p.meta \in Nat \cup {NoMeta}
           /\ Key(p) \in Key2 /\ Key(p)[1] = p.ssrc /\ Key(p)[2] = p.ts
           /\ [p EXCEPT !.again = FALSE] \in Packet
           /\ [p EXCEPT !.again = FALSE].frame = p.frame
           /\ [p EXCEPT !.again = FALSE].meta = p.meta
           /\ Key([p EXCEPT !.again = FALSE]) = Key(p)
BY DEF Packet, Key, Key2

\* The entry the receiver's transformer makes.
NewEntry(p) == [key |-> Key(p), meta |-> p.meta, frame |-> p.frame]

LEMMA StripFacts ==
    ASSUME NetTypes, NEW p \in Packet, Strip(p)
    PROVE  \/ /\ UNCHANGED <<seen, metaQueue, crowded, stripped>>
              /\ p.meta = NoMeta \/ \E j \in DOMAIN seen : seen[j] = Key(p)
           \/ /\ p.meta \in Nat /\ \A j \in DOMAIN seen : seen[j] # Key(p)
              /\ NewEntry(p) \in Entry
              /\ seen' = Pushed(seen, Key(p), SeenCap)
              /\ metaQueue' = Pushed(metaQueue, NewEntry(p), ReceiverMetaCap)
              /\ crowded' = IF Len(metaQueue) < ReceiverMetaCap THEN crowded
                            ELSE crowded \cup {Head(metaQueue).frame}
              /\ stripped' = Append(stripped, p.frame)
<1>1. seen \in Seq(Key2)
  BY DEF NetTypes
<1>2. Key(p) \in ToSet(seen) <=> \E j \in DOMAIN seen : seen[j] = Key(p)
  BY <1>1 DEF ToSet
<1>3. p.meta \in Nat \cup {NoMeta} /\ p.frame \in Nat /\ Key(p) \in Key2
  BY PacketFacts
<1>4. CASE p.meta = NoMeta \/ Key(p) \in ToSet(seen)
  BY <1>2, <1>4 DEF Strip
<1>5. CASE ~ (p.meta = NoMeta \/ Key(p) \in ToSet(seen))
  <2>1. p.meta \in Nat /\ \A j \in DOMAIN seen : seen[j] # Key(p)
    BY <1>2, <1>3, <1>5
  <2>2. NewEntry(p) \in Entry
    BY <1>3, <2>1 DEF NewEntry, Entry
  <2> QED
    BY <1>5, <2>1, <2>2 DEF Strip, NewEntry
<1> QED
  BY <1>4, <1>5

\* What goes onto the wire.
Outgoing(meta) == [frame |-> Encoding, ssrc |-> ssrc, ts |-> Head(input).ms - ssrc, meta |-> meta,
                   again |-> "repeat" \in mode.faults]

Leaving(meta) == [frame |-> Encoding, meta |-> meta, ms |-> Head(input).ms,
                  due |-> gate /\ attached /\ Encoding \notin evicted]

LEMMA EmbedFacts ==
    ASSUME PushTypes, Embed
    PROVE  LET meta == IF gate THEN Take ELSE NoMeta
           IN  /\ wire' = IF layer > 1 THEN wire ELSE Append(wire, Outgoing(meta))
               /\ sent' = sent \cup {Leaving(meta)}
               /\ Outgoing(meta) \in Packet /\ meta \in Nat \cup {NoMeta}
               /\ Key(Outgoing(meta))[1] + Key(Outgoing(meta))[2] = Head(input).ms
               /\ Encoding \in Nat /\ Head(input).ms \in Int
<1> DEFINE meta == IF gate THEN Take ELSE NoMeta
<1>1. Encodes /\ Head(input).frame \in Nat /\ Head(input).ms \in Int
  BY Elements DEF Encodes, Embed
<1>2. Encoding \in Nat
  <2>1. ~ Raw => Head(queue) \in Nat
    BY <1>1, Elements DEF Encodes
  <2> QED
    BY <1>1, <2>1 DEF Encoding
<1>3. meta \in Nat \cup {NoMeta}
  <2>1. \A ms \in DOMAIN table : table[ms] \in Nat
    BY Elements
  <2>2. fifo # << >> => Head(fifo) \in Nat
    BY Elements
  <2> QED
    BY <2>1, <2>2 DEF Take, TakeByCaptureTime, TakeFirst
<1>4. /\ wire' = IF layer > 1 THEN wire ELSE Append(wire, Outgoing(meta))
      /\ sent' = sent \cup {Leaving(meta)}
  BY DEF Embed, Outgoing, Leaving
<1> HIDE DEF meta
<1>5. ssrc \in {1, 2} /\ ssrc \in Int
  BY DEF PushTypes
<1>6. Head(input).ms - ssrc \in Int
  BY <1>1, <1>5
<1>7. ("repeat" \in mode.faults) \in BOOLEAN
  OBVIOUS
<1>8. Outgoing(meta) \in Packet
  BY <1>2, <1>3, <1>5, <1>6, <1>7 DEF Outgoing, Packet
<1>9. Key(Outgoing(meta))[1] + Key(Outgoing(meta))[2] = Head(input).ms
  BY <1>1, <1>5 DEF Outgoing, Key
<1> QED
  BY <1>1, <1>2, <1>3, <1>4, <1>8, <1>9 DEF meta

\* A frame is assembled from the place i of the wire.
LEMMA AssembleFacts ==
    ASSUME NetTypes, Assemble
    PROVE  \E i \in DOMAIN wire :
              /\ wire[i] \in Packet /\ Strip(wire[i])
              /\ buffer' = buffer \cup {[wire[i] EXCEPT !.again = FALSE]}
              /\ wire' \in Seq(Packet)
              /\ \/ /\ \A j \in DOMAIN wire' : \/ j < i /\ j \in DOMAIN wire /\ wire'[j] = wire[j]
                                               \/ /\ j >= i /\ j + 1 \in DOMAIN wire
                                                  /\ wire'[j] = wire[j + 1]
                 \/ /\ DOMAIN wire' = DOMAIN wire
                    /\ \A j \in DOMAIN wire : /\ Key(wire'[j]) = Key(wire[j])
                                              /\ wire'[j].frame = wire[j].frame
                                              /\ wire'[j].meta = wire[j].meta
<1>1. PICK i \in DOMAIN wire :
         /\ Strip(wire[i])
         /\ buffer' = buffer \cup {[wire[i] EXCEPT !.again = FALSE]}
         /\ \/ wire' = RemoveAt(wire, i)
            \/ wire[i].again /\ wire' = [wire EXCEPT ![i].again = FALSE]
  BY DEF Assemble
<1>2. wire \in Seq(Packet)
  BY DEF NetTypes
<1>3. wire[i] \in Packet
  BY <1>2, InSeq
<1>4. CASE wire' = RemoveAt(wire, i)
  <2>1. /\ wire' \in Seq(Packet)
        /\ \A j \in DOMAIN wire' : \/ j < i /\ j \in DOMAIN wire /\ wire'[j] = wire[j]
                                   \/ /\ j >= i /\ j + 1 \in DOMAIN wire
                                      /\ wire'[j] = wire[j + 1]
    BY <1>2, <1>4, RemoveAtFacts
  <2> QED
    BY <1>1, <1>3, <2>1
<1>5. CASE wire' = [wire EXCEPT ![i].again = FALSE]
  <2> DEFINE q == [wire[i] EXCEPT !.again = FALSE]
  <2>1. q \in Packet /\ q.frame = wire[i].frame /\ q.meta = wire[i].meta /\ Key(q) = Key(wire[i])
    BY <1>3, PacketFacts
  <2>2. wire' = [wire EXCEPT ![i] = q]
    BY <1>5
  <2> HIDE DEF q
  <2>3. wire' \in Seq(Packet) /\ DOMAIN wire' = DOMAIN wire
        /\ \A j \in DOMAIN wire : wire'[j] = IF j = i THEN q ELSE wire[j]
    BY <1>2, <2>1, <2>2
  <2>4. \A j \in DOMAIN wire : /\ Key(wire'[j]) = Key(wire[j]) /\ wire'[j].frame = wire[j].frame
                               /\ wire'[j].meta = wire[j].meta
    BY <2>1, <2>3
  <2> QED
    BY <1>1, <1>3, <2>3, <2>4
<1> QED
  BY <1>1, <1>4, <1>5

LEMMA LoseFacts ==
    ASSUME NetTypes, Lose
    PROVE  \E i \in DOMAIN wire :
              /\ wire' \in Seq(Packet)
              /\ \A j \in DOMAIN wire' : \/ j < i /\ j \in DOMAIN wire /\ wire'[j] = wire[j]
                                         \/ /\ j >= i /\ j + 1 \in DOMAIN wire
                                            /\ wire'[j] = wire[j + 1]
<1>1. PICK i \in DOMAIN wire : wire' = RemoveAt(wire, i)
  BY DEF Lose
<1>2. wire \in Seq(Packet)
  BY DEF NetTypes
<1> QED
  BY <1>1, <1>2, RemoveAtFacts

\* What a frame that is shown leaves of the queue.
LEMMA ShowFacts ==
    ASSUME NetTypes, NEW p \in buffer, Show(p)
    PROVE  LET m == Match(p)
               x == [frame |-> p.frame, meta |-> IF m = 0 THEN NoMeta ELSE metaQueue[m].meta]
           IN  /\ m \in Nat /\ m <= Len(metaQueue)
               /\ m = 0 => metaQueue' = metaQueue /\ \A j \in DOMAIN metaQueue :
                                                         metaQueue[j].key # Key(p)
               /\ m # 0 => m \in DOMAIN metaQueue /\ metaQueue[m].key = Key(p)
                           /\ metaQueue[m] \in Entry
               /\ metaQueue' \in Seq(Entry) /\ Len(metaQueue') = Len(metaQueue) - m
               /\ \A k \in DOMAIN metaQueue' :
                     k + m \in DOMAIN metaQueue /\ metaQueue'[k] = metaQueue[k + m]
               /\ x \in Shown /\ shown' = Append(shown, x)
               /\ p \in Packet /\ decoded' = p.frame /\ p.frame > decoded
               /\ buffer' = {q \in buffer : q.frame > p.frame}
<1> DEFINE m == Match(p)
<1>1. metaQueue \in Seq(Entry) /\ p \in Packet /\ p.frame \in Nat
  BY PacketFacts DEF NetTypes
<1>2. DOMAIN metaQueue = 1 .. Len(metaQueue) /\ Len(metaQueue) \in Nat
      /\ \A i \in DOMAIN metaQueue : metaQueue[i] \in Entry
  BY <1>1, InSeq
<1>3. \/ m = 0 /\ \A j \in DOMAIN metaQueue : metaQueue[j].key # Key(p)
      \/ m \in DOMAIN metaQueue /\ metaQueue[m].key = Key(p)
  BY <1>1, MatchFacts
<1>4. m \in Nat /\ m <= Len(metaQueue)
  BY <1>2, <1>3
<1>5. metaQueue' = SubSeq(metaQueue, m + 1, Len(metaQueue))
  BY DEF Show
<1> HIDE DEF m
<1>6. \A i \in (m + 1) .. Len(metaQueue) : metaQueue[i] \in Entry
  BY <1>2, <1>4
<1>7. /\ metaQueue' \in Seq(Entry)
      /\ Len(metaQueue') = IF m + 1 <= Len(metaQueue) THEN Len(metaQueue) - (m + 1) + 1 ELSE 0
      /\ \A k \in 1 .. (Len(metaQueue) - (m + 1) + 1) : metaQueue'[k] = metaQueue[(m + 1) + k - 1]
  <2>1. m + 1 \in 1 .. Len(metaQueue) + 1 /\ Len(metaQueue) \in (m + 1) - 1 .. Len(metaQueue)
    BY <1>2, <1>4
  <2>2. m + 1 \in Int /\ Len(metaQueue) \in Int
    BY <1>2, <1>4
  <2> QED
    BY <1>5, <1>6, <2>1, <2>2, <1>1, SubSeqProperties
<1>8. Len(metaQueue') = Len(metaQueue) - m
  <2>1. Len(metaQueue) \in Nat /\ m \in Nat /\ m <= Len(metaQueue)
    BY <1>2, <1>4
  <2>2. (IF m + 1 <= Len(metaQueue) THEN Len(metaQueue) - (m + 1) + 1 ELSE 0)
           = Len(metaQueue) - m
    BY <2>1
  <2> QED
    BY <1>7, <2>2
<1>9. \A k \in DOMAIN metaQueue' :
         k + m \in DOMAIN metaQueue /\ metaQueue'[k] = metaQueue[k + m]
  <2>1. DOMAIN metaQueue' = 1 .. (Len(metaQueue) - m)
    BY <1>7, <1>8, InSeq
  <2>2. \A k \in 1 .. (Len(metaQueue) - m) :
           /\ k \in 1 .. (Len(metaQueue) - (m + 1) + 1) /\ (m + 1) + k - 1 = k + m
           /\ k + m \in 1 .. Len(metaQueue)
    BY <1>2, <1>4
  <2> QED
    BY <1>2, <1>7, <2>1, <2>2
<1>10. m = 0 => metaQueue' = metaQueue
  BY <1>1, <1>5, SubSeqFull
<1>11. m # 0 => metaQueue[m] \in Entry /\ metaQueue[m].meta \in Nat
  BY <1>2, <1>3 DEF Entry
<1>12. [frame |-> p.frame, meta |-> IF m = 0 THEN NoMeta ELSE metaQueue[m].meta] \in Shown
  BY <1>1, <1>11 DEF Shown
<1>13. /\ shown' = Append(shown, [frame |-> p.frame, meta |-> IF m = 0 THEN NoMeta
                                                              ELSE metaQueue[m].meta])
       /\ decoded' = p.frame /\ p.frame > decoded /\ buffer' = {q \in buffer : q.frame > p.frame}
  BY DEF Show, m
<1> QED
  BY <1>1, <1>3, <1>4, <1>7, <1>8, <1>9, <1>10, <1>11, <1>12, <1>13 DEF m

LEMMA NetTypesStep ==
    ASSUME PushTypes, NetTypes, [Next]_vars
    PROVE  NetTypes'
<1> USE CapsAssumption
<1>0. /\ wire \in Seq(Packet) /\ buffer \subseteq Packet
      /\ seen \in Seq(Key2) /\ metaQueue \in Seq(Entry)
      /\ decoded \in Nat /\ stripped \in Seq(Nat) /\ shown \in Seq(Shown)
  BY DEF NetTypes
<1>1. CASE Embed
  <2> DEFINE o == Outgoing(IF gate THEN Take ELSE NoMeta)
  <2>1. wire' = (IF layer > 1 THEN wire ELSE Append(wire, o)) /\ o \in Packet
    BY <1>1, EmbedFacts
  <2> HIDE DEF o
  <2>2. wire' \in Seq(Packet)
    BY <1>0, <2>1, AppendFacts
  <2> QED
    BY <1>0, <1>1, <2>2 DEF NetTypes, Embed, Encodes, receiveVars
<1>2. CASE Assemble
  <2>1. PICK i \in DOMAIN wire :
           /\ wire[i] \in Packet /\ Strip(wire[i]) /\ wire' \in Seq(Packet)
           /\ buffer' = buffer \cup {[wire[i] EXCEPT !.again = FALSE]}
    BY <1>2, AssembleFacts
  <2> DEFINE p == wire[i]
  <2>2. /\ Key(p) \in Key2 /\ p.frame \in Nat /\ [p EXCEPT !.again = FALSE] \in Packet
    BY <2>1, PacketFacts
  <2>3. seen' \in Seq(Key2) /\ metaQueue' \in Seq(Entry) /\ stripped' \in Seq(Nat)
    <3>1. CASE UNCHANGED <<seen, metaQueue, crowded, stripped>>
      BY <1>0, <3>1
    <3>2. CASE /\ NewEntry(p) \in Entry
               /\ seen' = Pushed(seen, Key(p), SeenCap)
               /\ metaQueue' = Pushed(metaQueue, NewEntry(p), ReceiverMetaCap)
               /\ stripped' = Append(stripped, p.frame)
      <4>1. Pushed(seen, Key(p), SeenCap) \in Seq(Key2)
        BY <1>0, <2>2, PushedFacts
      <4>2. Pushed(metaQueue, NewEntry(p), ReceiverMetaCap) \in Seq(Entry)
        BY <1>0, <3>2, PushedFacts
      <4> QED
        BY <1>0, <2>2, <3>2, <4>1, <4>2, AppendFacts
    <3> QED
      BY <2>1, <3>1, <3>2, StripFacts
  <2>4. UNCHANGED <<decoded, shown>>
    BY <1>2 DEF Assemble
  <2> QED
    BY <1>0, <2>1, <2>2, <2>3, <2>4 DEF NetTypes
<1>3. CASE Lose
  <2>1. wire' \in Seq(Packet)
    BY <1>3, LoseFacts
  <2> QED
    BY <1>0, <1>3, <2>1 DEF NetTypes, Lose, receiveVars, historyVars
<1>4. ASSUME NEW p \in buffer, Show(p) PROVE NetTypes'
  <2> DEFINE x == [frame |-> p.frame, meta |-> IF Match(p) = 0 THEN NoMeta
                                               ELSE metaQueue[Match(p)].meta]
  <2>1. /\ metaQueue' \in Seq(Entry) /\ x \in Shown /\ shown' = Append(shown, x)
        /\ p \in Packet /\ decoded' = p.frame /\ buffer' = {q \in buffer : q.frame > p.frame}
    BY <1>4, ShowFacts
  <2>2. p.frame \in Nat
    BY <2>1, PacketFacts
  <2> HIDE DEF x
  <2>3. UNCHANGED <<wire, seen, stripped>>
    BY <1>4 DEF Show
  <2> QED
    BY <1>0, <2>1, <2>2, <2>3 DEF NetTypes
<1>5. CASE UNCHANGED netVars
  BY <1>0, <1>5 DEF NetTypes, netVars
<1> QED
  BY <1>1, <1>2, <1>3, <1>4, <1>5, NetSteps

LEMMA CapInvStep ==
    ASSUME PushTypes, NetTypes, CapInv, [Next]_vars
    PROVE  CapInv'
<1> USE CapsAssumption
<1>0. /\ seen \in Seq(Key2) /\ metaQueue \in Seq(Entry)
      /\ SeenCap \in Nat \ {0} /\ ReceiverMetaCap \in Nat \ {0}
      /\ Len(seen) \in Nat /\ Len(metaQueue) \in Nat
  BY DEF NetTypes
<1>1. CASE Assemble
  <2>1. PICK i \in DOMAIN wire : wire[i] \in Packet /\ Strip(wire[i])
    BY <1>1, AssembleFacts
  <2> DEFINE p == wire[i]
  <2>2. Key(p) \in Key2
    BY <2>1, PacketFacts
  <2>3. CASE UNCHANGED <<seen, metaQueue, crowded, stripped>>
    BY <2>3 DEF CapInv
  <2>4. CASE /\ NewEntry(p) \in Entry
             /\ seen' = Pushed(seen, Key(p), SeenCap)
             /\ metaQueue' = Pushed(metaQueue, NewEntry(p), ReceiverMetaCap)
    <3>1. Len(metaQueue') <= ReceiverMetaCap /\ Len(seen') <= SeenCap
          /\ (Len(seen) = SeenCap => Len(seen') = SeenCap)
      BY <1>0, <2>2, <2>4, PushedFacts DEF CapInv
    <3>2. /\ \A k \in DOMAIN metaQueue' :
                metaQueue'[k] = NewEntry(p)
                \/ \E j \in DOMAIN metaQueue : metaQueue'[k] = metaQueue[j]
          /\ \E j \in DOMAIN seen' : seen'[j] = Key(p)
          /\ Len(seen) < SeenCap => \A j \in DOMAIN seen : \E k \in DOMAIN seen' :
                                       seen'[k] = seen[j]
      <4> DEFINE mq == Pushed(metaQueue, NewEntry(p), ReceiverMetaCap)
                 sn == Pushed(seen, Key(p), SeenCap)
      <4>1. \A k \in DOMAIN mq : mq[k] = NewEntry(p)
                                 \/ \E j \in DOMAIN metaQueue : mq[k] = metaQueue[j]
        <5> DEFINE e == NewEntry(p)
        <5>1. e \in Entry
          BY <2>4
        <5> HIDE DEF e
        <5>2. \A k \in DOMAIN Pushed(metaQueue, e, ReceiverMetaCap) :
                 \/ Pushed(metaQueue, e, ReceiverMetaCap)[k] = e
                 \/ \E j \in DOMAIN metaQueue :
                       Pushed(metaQueue, e, ReceiverMetaCap)[k] = metaQueue[j]
          BY <1>0, <5>1, PushedFacts
        <5> QED
          BY <5>2 DEF e
      <4>2. /\ \E j \in DOMAIN sn : sn[j] = Key(p)
            /\ Len(seen) < SeenCap => \A j \in DOMAIN seen : \E k \in DOMAIN sn :
                                         sn[k] = seen[j]
        <5> DEFINE e == Key(p)
        <5>1. e \in Key2
          BY <2>2
        <5> HIDE DEF e
        <5>2. \E j \in DOMAIN Pushed(seen, e, SeenCap) : Pushed(seen, e, SeenCap)[j] = e
          <6> DEFINE cut == IF Len(seen) >= SeenCap THEN Tail(seen) ELSE seen
          <6>1. cut \in Seq(Key2)
            BY <1>0
          <6>2. Pushed(seen, e, SeenCap) = Append(cut, e)
            BY DEF Pushed
          <6> HIDE DEF cut
          <6>3. Len(cut) + 1 \in DOMAIN Append(cut, e) /\ Append(cut, e)[Len(cut) + 1] = e
            BY <5>1, <6>1, AppendFacts
          <6> QED
            BY <6>2, <6>3
        <5>3. Len(seen) < SeenCap =>
                 \A j \in DOMAIN seen : /\ j \in DOMAIN Pushed(seen, e, SeenCap)
                                        /\ Pushed(seen, e, SeenCap)[j] = seen[j]
          BY <1>0, <5>1, PushedFacts
        <5> QED
          BY <5>2, <5>3 DEF e
      <4>3. metaQueue' = mq /\ seen' = sn
        BY <2>4
      <4> HIDE DEF mq, sn
      <4> QED
        BY <4>1, <4>2, <4>3
    <3>3. NewEntry(p).key = Key(p)
      BY DEF NewEntry
    <3>4. ASSUME NEW k \in DOMAIN metaQueue', Len(seen') # SeenCap
          PROVE  \E j \in DOMAIN seen' : seen'[j] = metaQueue'[k].key
      <4>1. Len(seen) < SeenCap /\ Len(seen) # SeenCap
        BY <1>0, <3>1, <3>4 DEF CapInv
      <4>2. CASE metaQueue'[k] = NewEntry(p)
        BY <3>2, <3>3, <4>2
      <4>3. CASE \E j \in DOMAIN metaQueue : metaQueue'[k] = metaQueue[j]
        BY <3>2, <4>1, <4>3 DEF CapInv
      <4> QED
        BY <3>2, <4>2, <4>3
    <3> QED
      BY <3>1, <3>4 DEF CapInv
  <2> QED
    BY <2>1, <2>3, <2>4, StripFacts
<1>2. ASSUME NEW p \in buffer, Show(p) PROVE CapInv'
  <2>1. /\ Match(p) \in Nat /\ Len(metaQueue') = Len(metaQueue) - Match(p)
        /\ \A k \in DOMAIN metaQueue' :
              k + Match(p) \in DOMAIN metaQueue /\ metaQueue'[k] = metaQueue[k + Match(p)]
    BY <1>2, ShowFacts
  <2>2. UNCHANGED seen
    BY <1>2 DEF Show
  <2>3. Len(metaQueue') <= ReceiverMetaCap
    BY <1>0, <2>1 DEF CapInv
  <2> QED
    BY <2>1, <2>2, <2>3 DEF CapInv
<1>3. CASE UNCHANGED <<seen, metaQueue>>
  BY <1>3 DEF CapInv
<1> QED
  BY <1>1, <1>2, <1>3, NetSteps DEF Embed, Encodes, Lose, receiveVars, netVars

-----------------------------------------------------------------------------
(* The types, and the caps.                                                *)

BaseInv ==
    /\ ModeInv /\ PushTypes /\ NetTypes
    /\ PushInv /\ TableInv /\ QueueInv /\ CapInv /\ SinkInv

LEMMA BaseInit == Init => BaseInv
<1> SUFFICES ASSUME Init PROVE BaseInv
  OBVIOUS
<1> USE CapsAssumption, ModesAssumption
<1>1. ModeInv /\ SinkInv
  BY ModeInit, SinkInit
<1>2. mode.layers \in Nat \ {0} /\ mode.early \in BOOLEAN
  BY <1>1 DEF ModeInv, Mode
<1>3. ToSet(order) = {} /\ table \in [{} -> Nat]
  BY DEF Init, ToSet
<1>4. push \in [Pushers -> [at : {"idle", "insert", "queue", "native"}, frame : Nat]]
  BY DEF Init, NoPush
<1>12. /\ pushed \in Seq([marked : BOOLEAN, ms : Int]) /\ order \in Seq(Int)
       /\ table \in [ToSet(order) -> Nat] /\ fifo \in Seq(Nat) /\ queue \in Seq(Nat)
       /\ input \in Seq([frame : Nat, ms : Int]) /\ sent \subseteq Sent
  BY <1>3 DEF Init
<1>13. /\ now \in Nat /\ gate \in BOOLEAN /\ attached \in BOOLEAN
       /\ lastSendMs \in Nat /\ newest \in Nat
       /\ layer \in 1 .. mode.layers /\ ssrc \in {1, 2}
  <2>1. 1 \in 1 .. mode.layers
    BY <1>2
  <2>2. /\ now = 2 /\ gate = FALSE /\ attached = mode.early /\ lastSendMs = 0 /\ newest = 0
        /\ layer = 1 /\ ssrc = 1
    BY DEF Init
  <2> QED
    BY <1>2, <2>1, <2>2
<1>5. PushTypes
  BY <1>4, <1>12, <1>13 DEF PushTypes
<1>6. NetTypes
  BY DEF Init, NetTypes
<1>7. \A t \in Pushers : push[t] = NoPush /\ push[t].at = "idle"
  BY DEF Init, NoPush
<1>8. PushInv
  BY <1>7 DEF Init, PushInv
<1>9. TableInv
  BY <1>7 DEF Init, TableInv
<1>10. QueueInv
  BY <1>7 DEF Init, QueueInv
<1>11. CapInv
  BY DEF Init, CapInv
<1> QED
  BY <1>1, <1>5, <1>6, <1>8, <1>9, <1>10, <1>11 DEF BaseInv

LEMMA BaseStep == ASSUME BaseInv, [Next]_vars PROVE BaseInv'
BY ModeStep, SinkStep, PushTypesStep, PushInvStep, TableInvStep, QueueInvStep, NetTypesStep,
   CapInvStep DEF BaseInv

\* The types; and the sender's table, its order of insertion, the dedup window and
\* the receiver's queue stay within their caps whatever is pushed and however
\* little of it is read (insert_sender_meta, ComposedSlot::run).  The table and its
\* order have the same milliseconds only because no two frames pushed with metadata
\* have one in common (next_unique_capture_ms), else an eviction would take the
\* newer entry with it.
THEOREM TypeCorrect == Spec => []TypeOK
<1>1. BaseInv => TypeOK
  <2> SUFFICES ASSUME BaseInv PROVE TypeOK
    OBVIOUS
  <2>1. /\ ModeInv /\ PushTypes /\ NetTypes /\ TableInv /\ QueueInv /\ CapInv /\ SinkInv
    BY DEF BaseInv
  <2>2. /\ mode \in Mode /\ now \in Nat /\ {gate, attached} \subseteq BOOLEAN
        /\ {lastSendMs, newest} \subseteq Nat /\ layer \in 1..mode.layers /\ ssrc \in {1, 2}
    BY <2>1 DEF ModeInv, PushTypes
  <2>3. /\ Len(order) <= SenderMetaCap /\ DOMAIN table = ToSet(order)
        /\ Len(metaQueue) <= ReceiverMetaCap /\ Len(seen) <= SeenCap
    BY <2>1, Elements DEF TableInv, CapInv
  <2>4. ToSet(fifo) \cup ToSet(queue) \subseteq DOMAIN pushed
    BY <2>1 DEF QueueInv, ToSet
  <2>5. ASSUME NEW e \in ToSet(metaQueue) PROVE e.key \in ToSet(seen) \/ Len(seen) = SeenCap
    <3>1. PICK i \in DOMAIN metaQueue : e = metaQueue[i]
      BY DEF ToSet
    <3>2. Len(seen) = SeenCap \/ \E j \in DOMAIN seen : seen[j] = e.key
      BY <2>1, <3>1 DEF CapInv
    <3> QED
      BY <3>2 DEF ToSet
  <2>6. \A s \in Setters : setter[s].box \in Nat \cup {NoBox}
    BY <2>1 DEF SinkInv
  <2>7. sink \in Nat \cup {NoBox}
    <3>1. CASE \E s \in Setters : Holds(s)
      BY <2>1, <2>6, <3>1 DEF SinkInv, Holds
    <3>2. CASE \A s \in Setters : ~ Holds(s)
      BY <2>1, <3>2 DEF SinkInv
    <3> QED
      BY <3>1, <3>2
  <2>8. {sink, showing} \subseteq Nat \cup {NoBox} /\ {box, totals} \subseteq Nat
    BY <2>1, <2>7 DEF SinkInv
  <2> QED
    BY <2>2, <2>3, <2>4, <2>5, <2>8 DEF TypeOK
<1> QED
  BY <1>1, BaseInit, BaseStep, PTL DEF Spec

-----------------------------------------------------------------------------
(* What is under a frame's millisecond and at the head of the FIFO.        *)

\* A pre-encoded track is aligned when one thread pushes to it and its transformer
\* is asked for every frame: the sender runs it from the start and the caller's
\* callback drops none.  It is one stream, since encode_for hands a pushed frame to
\* one encoder only.  Nothing is asked of a raw track.
Aligned ==
    \A m \in Modes : m.kind # "raw" =>
        /\ m.early /\ ~m.drops /\ m.layers = 1
        /\ \A t, u \in Pushers : m.may[t] # {} /\ m.may[u] # {} => t = u

LEMMA AlignedMode ==
    ASSUME Aligned, ModeInv, ~ Raw
    PROVE  /\ mode.early /\ ~mode.drops /\ mode.layers = 1
           /\ \A t, u \in Pushers : mode.may[t] # {} /\ mode.may[u] # {} => t = u
<1>1. PICK m \in Modes : /\ mode.kind = m.kind /\ mode.may = m.may /\ mode.early = m.early
                         /\ mode.drops = m.drops /\ mode.layers = m.layers
  BY DEF ModeInv
<1> QED
  BY <1>1 DEF Aligned, Raw

LEMMA SentFacts ==
    ASSUME PushTypes, NEW s \in sent
    PROVE  /\ s.frame \in Nat /\ s.meta \in Nat \cup {NoMeta} /\ s.ms \in Int
           /\ s.due \in BOOLEAN
BY DEF PushTypes, Sent

LEMMA InputInvStep ==
    ASSUME Aligned, BaseInv, InputInv, [Next]_vars
    PROVE  InputInv'
<1> USE DEF sourceVars, pushVars, encoderVars, historyVars
<1>0. Raw' = Raw /\ ModeInv /\ PushTypes /\ PushInv /\ QueueInv /\ newest \in Int
  BY ModeStep DEF BaseInv, PushTypes
<1>1. ASSUME NEW t \in Pushers, NEW at, NEW kind, NEW ms, Begin(t, at, kind, ms)
      PROVE  InputInv'
  <2>1. /\ \A f \in DOMAIN pushed : pushed'[f] = pushed[f]
        /\ Len(pushed) + 1 \notin DOMAIN pushed /\ push'[t].frame = Len(pushed) + 1
        /\ \A u \in Pushers : u # t => push'[u] = push[u]
    BY <1>0, <1>1, BeginFacts
  <2>2. UNCHANGED <<input, newest, layer, sent>>
    BY <1>1 DEF Begin
  <2>3. /\ \A i \in DOMAIN input : input[i].frame \in DOMAIN pushed
        /\ \A s \in sent : s.frame \in DOMAIN pushed
    BY <1>0 DEF PushInv, QueueInv
  <2>4. \A i \in DOMAIN input' : /\ input'[i].ms <= newest'
                                 /\ Raw' => input'[i].ms <= pushed'[input'[i].frame].ms
                                 /\ \A j \in DOMAIN input' : i < j => input'[i].ms < input'[j].ms
    BY <1>0, <2>1, <2>2, <2>3 DEF InputInv
  <2>5. ASSUME NEW s \in sent
        PROVE  Raw => \A u \in Pushers : push'[u].at # "idle" => push'[u].frame # s.frame
    BY <1>0, <2>1, <2>2, <2>3 DEF InputInv
  <2> QED
    BY <1>0, <2>2, <2>4, <2>5 DEF InputInv
<1>2. ASSUME NEW t \in Pushers, GoesOn(t, "native"), push[t].at # "idle",
             UNCHANGED <<pushed, input, newest, layer, sent>>
      PROVE  InputInv'
  <2>1. /\ push'[t].frame = push[t].frame
        /\ \A u \in Pushers : u # t => push'[u] = push[u]
    BY <1>0, <1>2, GoesOnFacts
  <2> QED
    BY <1>0, <1>2, <2>1 DEF InputInv
<1>3. ASSUME NEW t \in Pushers, PushNative(t) PROVE InputInv'
  <2> DEFINE ms == Clamped(IF Raw THEN PushedMs(t) ELSE now)
  <2>1. /\ push[t].at = "native" /\ push'[t].at = "idle"
        /\ \A u \in Pushers : u # t => push'[u] = push[u]
        /\ UNCHANGED <<pushed, layer, sent>>
    BY <1>0, <1>3, EndsFacts DEF PushNative
  <2>2. /\ \A i \in DOMAIN input' :
              \/ i \in DOMAIN input /\ input'[i] = input[i]
              \/ /\ i = Len(input) + 1 /\ input'[i].frame = push[t].frame
                 /\ input'[i].ms = ms /\ ms > newest /\ newest' = ms
        /\ \A i \in DOMAIN input : i \in DOMAIN input' /\ input'[i] = input[i]
        /\ newest' = newest \/ (ms > newest /\ newest' = ms)
        /\ ms \in Int /\ (Raw => ms <= pushed[push[t].frame].ms)
    BY <1>0, <1>3, InputAfterPush
  <2> HIDE DEF ms
  <2>3. input \in Seq([frame : Nat, ms : Int]) /\ DOMAIN input = 1 .. Len(input)
        /\ Len(input) \in Nat
    BY <1>0, InSeq DEF PushTypes
  <2>4. \A i \in DOMAIN input : input[i].ms \in Int /\ input[i].ms <= newest
    BY <1>0, Elements DEF InputInv
  <2>5. /\ newest' >= newest
        /\ \A i \in DOMAIN input' : input'[i].ms <= newest'
    BY <1>0, <2>2, <2>4
  <2>6. ASSUME NEW i \in DOMAIN input', NEW j \in DOMAIN input', i < j
        PROVE  input'[i].ms < input'[j].ms
    <3>1. CASE j \in DOMAIN input
      <4>1. i \in DOMAIN input
        BY <2>2, <2>3, <2>6, <3>1
      <4> QED
        BY <2>2, <2>6, <3>1, <4>1 DEF InputInv
    <3>2. CASE j = Len(input) + 1
      <4>1. j \notin DOMAIN input /\ i # j
        BY <2>3, <2>6, <3>2
      <4>2. i \in DOMAIN input /\ input'[i] = input[i] /\ input'[j].ms = ms /\ ms > newest
        BY <2>2, <3>2, <4>1
      <4> QED
        BY <1>0, <2>2, <2>4, <4>2
    <3> QED
      BY <2>2, <3>1, <3>2
  <2>7. ASSUME Raw, NEW i \in DOMAIN input' PROVE input'[i].ms <= pushed'[input'[i].frame].ms
    BY <2>1, <2>2, <2>7 DEF InputInv
  <2>8. layer' = 1 \/ input' # << >>
    BY <2>1, <2>2, <2>3 DEF InputInv
  <2>9. ASSUME NEW s \in sent
        PROVE  /\ s.ms <= newest'
               /\ \A i \in DOMAIN input' : s.ms = input'[i].ms =>
                     Raw /\ i = 1 /\ layer > 1 /\ s.frame = input'[i].frame
               /\ Raw => /\ \A i \in DOMAIN input' : s.frame = input'[i].frame =>
                               i = 1 /\ layer > 1
                         /\ \A u \in Pushers : push'[u].at # "idle" => push'[u].frame # s.frame
    <3>1. s.ms \in Int /\ s.ms <= newest
      BY <1>0, SentFacts DEF InputInv
    <3>2. s.ms <= newest'
      BY <1>0, <2>2, <3>1
    <3>3. ASSUME NEW i \in DOMAIN input', s.ms = input'[i].ms
          PROVE  Raw /\ i = 1 /\ layer > 1 /\ s.frame = input'[i].frame
      <4>1. i \in DOMAIN input /\ input'[i] = input[i]
        BY <1>0, <2>2, <3>1, <3>3
      <4> QED
        BY <3>3, <4>1 DEF InputInv
    <3>4. ASSUME Raw, NEW i \in DOMAIN input', s.frame = input'[i].frame
          PROVE  i = 1 /\ layer > 1
      <4>1. s.frame # push[t].frame
        BY <2>1, <3>4 DEF InputInv
      <4>2. i \in DOMAIN input /\ input'[i] = input[i]
        BY <2>2, <3>4, <4>1
      <4> QED
        BY <3>4, <4>2 DEF InputInv
    <3>5. ASSUME Raw, NEW u \in Pushers, push'[u].at # "idle" PROVE push'[u].frame # s.frame
      BY <2>1, <3>5 DEF InputInv
    <3> QED
      BY <3>2, <3>3, <3>4, <3>5
  <2> QED
    BY <1>0, <2>1, <2>5, <2>6, <2>7, <2>8, <2>9 DEF InputInv
<1>4. ASSUME input # << >>, input' = Tail(input), layer' = 1, UNCHANGED <<push, pushed, newest>>,
             \A s \in sent' : s \in sent \/ (s.frame = Encoding /\ s.ms = Head(input).ms),
             sent' # sent => \A s \in sent : s.ms = Head(input).ms => s.frame = Encoding
      PROVE  InputInv'
  <2>1. /\ \A i \in DOMAIN input' : i + 1 \in DOMAIN input /\ input'[i] = input[i + 1]
        /\ \A i, j \in DOMAIN input' : (i = j <=> i + 1 = j + 1) /\ (i < j <=> i + 1 < j + 1)
        /\ \A i \in DOMAIN input' : i + 1 # 1 /\ 1 < i + 1
        /\ 1 \in DOMAIN input
    BY <1>0, <1>4, InputTail
  <2>2. Head(input) = input[1] /\ \A i \in DOMAIN input : input[i].ms \in Int
    BY <1>0, <1>4, Elements
  <2>3. \A i \in DOMAIN input' : /\ input'[i].ms <= newest'
                                 /\ Raw => input'[i].ms <= pushed'[input'[i].frame].ms
                                 /\ \A j \in DOMAIN input' : i < j => input'[i].ms < input'[j].ms
    BY <1>4, <2>1 DEF InputInv
  <2>4. ASSUME NEW s \in sent
        PROVE  /\ s.ms <= newest'
               /\ \A i \in DOMAIN input' : s.ms # input'[i].ms
               /\ Raw => /\ \A i \in DOMAIN input' : s.frame # input'[i].frame
                         /\ \A u \in Pushers : push'[u].at # "idle" => push'[u].frame # s.frame
    BY <1>4, <2>1 DEF InputInv
  <2>5. ASSUME NEW s, s.frame = Encoding, s.ms = Head(input).ms
        PROVE  /\ s.ms <= newest'
               /\ \A i \in DOMAIN input' : s.ms # input'[i].ms
               /\ Raw => /\ \A i \in DOMAIN input' : s.frame # input'[i].frame
                         /\ \A u \in Pushers : push'[u].at # "idle" => push'[u].frame # s.frame
    <3>1. s.ms <= newest' /\ s.ms = input[1].ms
      BY <1>4, <2>1, <2>2, <2>5 DEF InputInv
    <3>2. \A i \in DOMAIN input' : s.ms < input'[i].ms /\ input'[i].ms \in Int /\ s.ms \in Int
      BY <2>1, <2>2, <3>1 DEF InputInv
    <3>3. ASSUME Raw PROVE s.frame = input[1].frame
      BY <2>2, <2>5, <3>3 DEF Encoding
    <3>4. ASSUME Raw
          PROVE  /\ \A i \in DOMAIN input' : s.frame # input'[i].frame
                 /\ \A u \in Pushers : push'[u].at # "idle" => push'[u].frame # s.frame
      BY <1>0, <1>4, <2>1, <3>3, <3>4 DEF PushInv
    <3> QED
      BY <3>1, <3>2, <3>4
  <2>6. \A r, s \in sent' : r.ms = s.ms => r.frame = s.frame
    BY <1>4 DEF InputInv
  <2> QED
    BY <1>0, <1>4, <2>3, <2>4, <2>5, <2>6 DEF InputInv
<1>5. ASSUME input # << >>, layer < mode.layers, layer' = layer + 1,
             UNCHANGED <<push, pushed, newest, input>>,
             \A s \in sent' : s \in sent \/ (s.frame = Encoding /\ s.ms = Head(input).ms)
      PROVE  InputInv'
  <2>1. layer \in Nat /\ layer >= 1 /\ layer' > 1 /\ Raw
    <3>1. layer \in 1 .. mode.layers /\ mode.layers \in Nat
      BY <1>0 DEF PushTypes, ModeInv, Mode
    <3>2. Raw
      BY <1>0, <1>5, <3>1, AlignedMode
    <3> QED
      BY <1>5, <3>1, <3>2
  <2>2. /\ Head(input) = input[1] /\ 1 \in DOMAIN input /\ DOMAIN input = 1 .. Len(input)
        /\ Len(input) \in Nat /\ \A i \in DOMAIN input : input[i].ms \in Int
    BY <1>0, <1>5, Elements, InSeq DEF PushTypes
  <2>3. Encoding = input[1].frame
    BY <2>1, <2>2 DEF Encoding
  <2>4. \A i \in DOMAIN input : i = 1 \/ input[1].ms < input[i].ms
    BY <2>2 DEF InputInv
  <2>5. ASSUME NEW s \in sent'
        PROVE  /\ s.ms <= newest'
               /\ \A i \in DOMAIN input' : s.ms = input'[i].ms =>
                     Raw /\ i = 1 /\ layer' > 1 /\ s.frame = input'[i].frame
               /\ Raw => /\ \A i \in DOMAIN input' : s.frame = input'[i].frame =>
                               i = 1 /\ layer' > 1
                         /\ \A u \in Pushers : push'[u].at # "idle" => push'[u].frame # s.frame
    <3>1. CASE s \in sent
      BY <1>5, <2>1, <3>1 DEF InputInv
    <3>2. CASE s.frame = Encoding /\ s.ms = Head(input).ms
      <4>1. s.frame = input[1].frame /\ s.ms = input[1].ms
        BY <2>2, <2>3, <3>2
      <4>2. s.ms <= newest'
        BY <1>5, <2>2, <4>1 DEF InputInv
      <4>3. \A i \in DOMAIN input : s.ms = input[i].ms => i = 1
        BY <2>2, <2>4, <4>1
      <4>4. /\ \A i \in DOMAIN input : s.frame = input[i].frame => i = 1
            /\ \A u \in Pushers : push[u].at # "idle" => push[u].frame # s.frame
        BY <1>0, <2>2, <4>1 DEF PushInv
      <4> QED
        BY <1>5, <2>1, <4>1, <4>2, <4>3, <4>4
    <3> QED
      BY <1>5, <3>1, <3>2
  <2>6. ASSUME NEW r \in sent', NEW s \in sent', r.ms = s.ms PROVE r.frame = s.frame
    <3>1. \A q \in sent : q.ms = Head(input).ms => q.frame = Encoding
      BY <2>2, <2>3 DEF InputInv
    <3> QED
      BY <1>5, <2>6, <3>1 DEF InputInv
  <2> QED
    BY <1>0, <1>5, <2>1, <2>5, <2>6 DEF InputInv
<1>6. ASSUME Encodes,
             \A s \in sent' : s \in sent \/ (s.frame = Encoding /\ s.ms = Head(input).ms)
      PROVE  InputInv'
  <2>1. input # << >> /\ UNCHANGED <<push, pushed, newest>>
    BY <1>6 DEF Encodes
  <2>2. \A s \in sent : s.ms = Head(input).ms => s.frame = Encoding
    <3>1. Head(input) = input[1] /\ 1 \in DOMAIN input
      BY <1>0, <2>1, Elements
    <3> QED
      BY <3>1 DEF InputInv, Encoding
  <2>3. CASE layer < mode.layers /\ layer' = layer + 1 /\ input' = input
    BY <1>5, <1>6, <2>1, <2>3
  <2>4. CASE layer' = 1 /\ input' = Tail(input)
    BY <1>4, <1>6, <2>1, <2>2, <2>4
  <2> QED
    BY <1>6, <2>3, <2>4 DEF Encodes
<1>7. CASE Embed
  <2>1. sent' = sent \cup {Leaving(IF gate THEN Take ELSE NoMeta)}
    BY <1>0, <1>7, EmbedFacts
  <2>2. \A meta : Leaving(meta).frame = Encoding /\ Leaving(meta).ms = Head(input).ms
    BY DEF Leaving
  <2>3. \A s \in sent' : s \in sent \/ (s.frame = Encoding /\ s.ms = Head(input).ms)
    BY <2>1, <2>2
  <2> QED
    BY <1>6, <1>7, <2>3 DEF Embed
<1>8. CASE CallerDrops
  BY <1>6, <1>8 DEF CallerDrops
<1>9. CASE DropInput
  BY <1>4, <1>9 DEF DropInput
<1>10. CASE SetGate \/ Restart \/ Tick \/ UNCHANGED sendVars
  BY <1>0, <1>10 DEF InputInv, SetGate, Restart, Tick, sendVars
<1>11. ASSUME NEW t \in Pushers,
              PushMarked(t) \/ PushPlain(t) \/ PushEncoded(t) \/ PushEncodedPlain(t)
       PROVE  InputInv'
  BY <1>1, <1>11 DEF PushMarked, PushPlain, PushEncoded, PushEncodedPlain
<1>12. ASSUME NEW t \in Pushers, InsertSenderMeta(t) \/ EnqueueFrame(t) PROVE InputInv'
  BY <1>2, <1>12 DEF InsertSenderMeta, EnqueueFrame
<1> QED
  BY <1>3, <1>7, <1>8, <1>9, <1>10, <1>11, <1>12, SendSteps

\* One thread at most pushes to an aligned pre-encoded track.
LEMMA OnePusher ==
    ASSUME Aligned, ModeInv, FifoInv, ~ Raw, NEW t \in Pushers, mode.may[t] # {}
    PROVE  \A u \in Pushers : u # t => push[u].at = "idle"
BY AlignedMode DEF FifoInv

LEMMA FifoInvStep ==
    ASSUME Aligned, BaseInv, FifoInv, [Next]_vars
    PROVE  FifoInv'
<1> USE DEF sourceVars, pushVars, encoderVars, historyVars
<1>0. /\ Raw' = Raw /\ ModeInv /\ PushTypes /\ PushInv /\ QueueInv
      /\ mode'.may = mode.may
  BY ModeStep DEF BaseInv, SameMode
<1> SUFFICES ASSUME ~ Raw PROVE FifoInv'
  BY <1>0 DEF FifoInv
<1>l. Len(fifo) \in Nat /\ Len(queue) \in Nat /\ Len(pushed) \in Nat
  BY <1>0, Elements DEF PushTypes
<1>d. DOMAIN fifo = 1 .. Len(fifo) /\ DOMAIN queue = 1 .. Len(queue) /\ DOMAIN pushed = 1 .. Len(pushed)
  BY <1>0, Elements DEF PushTypes
<1>s. fifo \in Seq(Nat) /\ queue \in Seq(Nat)
  BY <1>0 DEF PushTypes
<1>q. \A i \in DOMAIN queue : queue[i] \in 1 .. Len(pushed)
  BY <1>0, <1>d DEF QueueInv
<1>1. ASSUME NEW t \in Pushers, NEW kind \in {"marked", "plain"}, NEW ms,
             Begin(t, "queue", kind, ms), UNCHANGED queue,
             fifo' = IF kind = "marked" THEN Append(fifo, Len(pushed) + 1) ELSE fifo
      PROVE  FifoInv'
  <2> DEFINE f0 == Len(pushed) + 1
  <2>1. /\ push[t] = NoPush /\ DOMAIN pushed' = 1 .. f0
        /\ \A f \in DOMAIN pushed : pushed'[f] = pushed[f]
        /\ (pushed'[f0].marked <=> kind = "marked")
        /\ push'[t].at = "queue" /\ push'[t].frame = f0
        /\ \A u \in Pushers : u # t => push'[u] = push[u]
    BY <1>0, <1>1, BeginFacts
  <2>2. /\ mode.may[t] # {} /\ UNCHANGED attached /\ Len(pushed') = f0
    BY <1>0, <1>1, <1>l, <1>d, <1>s, <1>q DEF Begin, PushTypes
  <2>3. \A u \in Pushers : push[u].at = "idle" /\ (u # t => push'[u].at = "idle")
    BY <1>0, <2>1, <2>2, OnePusher DEF NoPush
  <2>4. /\ Len(fifo) <= Len(queue)
        /\ \A i \in DOMAIN queue : i \in DOMAIN fifo => fifo[i] >= queue[i]
        /\ \A i \in DOMAIN queue : AllMarked(pushed, queue[i]) => i \in DOMAIN fifo /\ fifo[i] = queue[i]
        /\ AllMarked(pushed, Len(pushed)) => Len(fifo) = Len(queue)
    <3>1. ~ \E u \in Pushers : push[u].at = "queue"
      BY <2>3
    <3>2. Len(fifo) <= Len(queue)
      BY <3>1 DEF FifoInv
    <3>3. \A i \in DOMAIN queue : i \in DOMAIN fifo => fifo[i] >= queue[i]
      BY DEF FifoInv
    <3>4. \A i \in DOMAIN queue : AllMarked(pushed, queue[i]) => i \in DOMAIN fifo /\ fifo[i] = queue[i]
      BY DEF FifoInv
    <3>5. AllMarked(pushed, Len(pushed)) => Len(fifo) = Len(queue) + 0
      BY <3>1 DEF FifoInv
    <3> QED
      BY <1>l, <3>2, <3>3, <3>4, <3>5
  <2>5. \A n \in 0 .. Len(pushed) : AllMarked(pushed', n) <=> AllMarked(pushed, n)
    <3>1. \A g \in 1 .. Len(pushed) : pushed'[g] = pushed[g]
      BY <1>d, <2>1
    <3> QED
      BY <1>l, <3>1 DEF AllMarked
  <2>6. AllMarked(pushed', f0) => kind = "marked" /\ AllMarked(pushed, Len(pushed))
    <3>1. Len(pushed) \in 0 .. Len(pushed) /\ f0 \in 1 .. f0
          /\ \A g \in 1 .. Len(pushed) : g \in 1 .. f0
      BY <1>l
    <3>2. AllMarked(pushed', f0) => AllMarked(pushed', Len(pushed)) /\ pushed'[f0].marked
      BY <3>1 DEF AllMarked
    <3> HIDE DEF f0
    <3> QED
      BY <3>1, <3>2, <2>1, <2>5
  <2>7. /\ kind = "marked" => /\ Len(fifo') = Len(fifo) + 1 /\ fifo'[Len(fifo) + 1] = f0
                              /\ DOMAIN fifo' = 1 .. (Len(fifo) + 1)
                              /\ \A i \in DOMAIN fifo : fifo'[i] = fifo[i]
        /\ kind = "plain" => fifo' = fifo
    <3>1. CASE kind = "marked"
      <4>1. fifo' = Append(fifo, f0) /\ f0 \in Nat
        BY <1>1, <1>l, <3>1
      <4> HIDE DEF f0
      <4>2. DOMAIN fifo' = 1 .. Len(fifo')
        BY <1>s, <4>1
      <4> QED
        BY <1>s, <3>1, <4>1, <4>2, AppendFacts
    <3>2. CASE kind = "plain"
      BY <1>1, <3>2
    <3> QED
      BY <1>1, <3>1, <3>2
  <2> HIDE DEF f0
  <2>8. ASSUME NEW i \in DOMAIN queue'
        PROVE  /\ i \in DOMAIN fifo' => fifo'[i] >= queue'[i]
               /\ AllMarked(pushed', queue'[i]) => i \in DOMAIN fifo' /\ fifo'[i] = queue'[i]
    <3>1. i \in DOMAIN queue /\ queue'[i] = queue[i] /\ queue[i] \in 0 .. Len(pushed)
      BY <1>1, <1>l, <1>d, <1>s, <1>q, <2>8
    <3>2. AllMarked(pushed', queue'[i]) <=> AllMarked(pushed, queue[i])
      BY <2>5, <3>1
    <3>3. CASE kind = "marked"
      <4>1. i \in DOMAIN fifo' => i \in DOMAIN fifo \/ i = Len(fifo) + 1
        BY <1>l, <1>d, <1>s, <1>q, <2>7, <3>3
      <4>2. f0 >= queue[i]
        BY <1>l, <1>d, <1>s, <1>q, <3>1 DEF f0
      <4>3. \A k \in DOMAIN fifo : k \in DOMAIN fifo'
        BY <1>l, <1>d, <1>s, <1>q, <2>7, <3>3
      <4> QED
        BY <2>4, <2>7, <3>1, <3>2, <3>3, <4>1, <4>2, <4>3
    <3>4. CASE kind = "plain"
      BY <2>4, <2>7, <3>1, <3>2, <3>4
    <3> QED
      BY <1>1, <3>3, <3>4
  <2>9. \/ Len(fifo') <= Len(queue')
        \/ \E u \in Pushers : /\ push'[u].at = "queue" /\ pushed'[push'[u].frame].marked
                              /\ Len(fifo') = Len(queue') + 1
                              /\ fifo'[Len(fifo')] = push'[u].frame
    <3>0. queue' = queue /\ Len(fifo) <= Len(queue)
      BY <1>1, <2>4
    <3>1. CASE kind = "plain"
      BY <2>7, <3>0, <3>1
    <3>2. CASE kind = "marked" /\ Len(fifo) = Len(queue)
      <4>1. /\ Len(fifo') = Len(queue') + 1 /\ fifo'[Len(fifo')] = f0
        BY <2>7, <3>0, <3>2
      <4> QED
        BY <2>1, <3>2, <4>1
    <3>3. CASE kind = "marked" /\ Len(fifo) # Len(queue)
      BY <1>l, <2>7, <3>0, <3>3
    <3> QED
      BY <1>1, <3>1, <3>2, <3>3
  <2>10. AllMarked(pushed', Len(pushed')) => Len(fifo') = Len(queue') + 1
    BY <1>1, <2>2, <2>4, <2>6, <2>7
  <2>11. \A u \in Pushers : /\ push'[u].at # "idle" => u = t /\ mode'.may[u] # {}
                            /\ push'[u].at = "queue" => push'[u].frame = Len(pushed')
    BY <1>0, <2>1, <2>2, <2>3
  <2> QED
    BY <1>0, <2>1, <2>2, <2>8, <2>9, <2>10, <2>11 DEF FifoInv
<1>2. ASSUME NEW t \in Pushers, EnqueueFrame(t) PROVE FifoInv'
  <2> DEFINE f0 == push[t].frame
  <2>1. /\ push[t].at = "queue" /\ push'[t].at = "native" /\ push'[t].frame = f0
        /\ \A u \in Pushers : u # t => push'[u] = push[u]
        /\ UNCHANGED <<fifo, pushed, attached>> /\ queue' = Append(queue, f0)
    BY <1>0, <1>2, GoesOnFacts DEF EnqueueFrame
  <2>2. /\ f0 \in Nat /\ mode.may[t] # {} /\ f0 = Len(pushed)
    BY <1>0, <2>1, Elements DEF FifoInv
  <2>3. \A u \in Pushers : u # t => push[u].at = "idle" /\ push'[u].at = "idle"
    BY <1>0, <2>1, <2>2, OnePusher
  <2> HIDE DEF f0
  <2>4. /\ Len(queue') = Len(queue) + 1 /\ DOMAIN queue' = 1 .. (Len(queue) + 1)
        /\ queue'[Len(queue) + 1] = f0 /\ \A i \in DOMAIN queue : queue'[i] = queue[i]
    <3>1. DOMAIN queue' = 1 .. Len(queue')
      BY <1>s, <2>1, <2>2
    <3> QED
      BY <1>s, <2>1, <2>2, <3>1, AppendFacts
  <2>5. Len(fifo) <= Len(queue) + 1 /\ (Len(fifo) = Len(queue) + 1 => fifo[Len(fifo)] = f0)
    <3>1. \/ Len(fifo) <= Len(queue)
          \/ \E u \in Pushers : /\ push[u].at = "queue" /\ Len(fifo) = Len(queue) + 1
                                /\ fifo[Len(fifo)] = push[u].frame
      BY DEF FifoInv
    <3>2. \A u \in Pushers : push[u].at = "queue" => push[u].frame = f0
      BY <2>3 DEF f0
    <3>3. CASE Len(fifo) <= Len(queue)
      BY <1>l, <3>3
    <3>4. CASE Len(fifo) = Len(queue) + 1 /\ fifo[Len(fifo)] = f0
      BY <1>l, <3>4
    <3> QED
      BY <3>1, <3>2, <3>3, <3>4
  <2>6. AllMarked(pushed, Len(pushed)) => Len(fifo) = Len(queue) + 1
    BY <2>1 DEF FifoInv
  <2>7. \A n : AllMarked(pushed', n) <=> AllMarked(pushed, n)
    BY <2>1 DEF AllMarked
  <2>8. ASSUME NEW i \in DOMAIN queue'
        PROVE  /\ i \in DOMAIN fifo' => fifo'[i] >= queue'[i]
               /\ AllMarked(pushed, queue'[i]) => i \in DOMAIN fifo' /\ fifo'[i] = queue'[i]
    <3>1. CASE i \in DOMAIN queue
      BY <2>1, <2>4, <3>1 DEF FifoInv
    <3>2. CASE i = Len(queue) + 1
      <4>1. i \in DOMAIN fifo => i = Len(fifo)
        <5>1. \A n, m \in Nat : \A k \in 1 .. n : n <= m + 1 /\ k = m + 1 => k = n
          OBVIOUS
        <5>2. Len(fifo) <= Len(queue) + 1
          BY <2>5
        <5> HIDE <3>2
        <5>3. i \in 1 .. Len(fifo) => i = Len(fifo)
          BY Zenon, <1>l, <3>2, <5>1, <5>2
        <5> QED
          BY <1>d, <5>3
      <4>2. AllMarked(pushed, f0) => Len(fifo) = i /\ i \in DOMAIN fifo
        <5>1. CASE AllMarked(pushed, f0)
          <6>1. Len(fifo) = Len(queue) + 1
            BY <2>2, <2>6, <5>1
          <6> QED
            BY <1>l, <1>d, <3>2, <6>1
        <5> QED
          BY <5>1
      <4> QED
        BY <2>1, <2>2, <2>4, <2>5, <3>2, <4>1, <4>2
    <3> QED
      BY <1>l, <1>d, <1>s, <1>q, <2>4, <3>1, <3>2
  <2>9. AllMarked(pushed, Len(pushed)) => Len(fifo') = Len(queue')
    BY <2>1, <2>4, <2>6
  <2>10. \A u \in Pushers : /\ push'[u].at # "idle" => u = t /\ mode'.may[u] # {}
                            /\ push'[u].at # "queue"
    BY <1>0, <2>1, <2>2, <2>3
  <2>11. Len(fifo') <= Len(queue')
    BY <2>1, <2>4, <2>5
  <2>12. \A i \in DOMAIN queue' : AllMarked(pushed', queue'[i]) <=> AllMarked(pushed, queue'[i])
    BY <2>1 DEF AllMarked
  <2>13. AllMarked(pushed', Len(pushed')) <=> AllMarked(pushed, Len(pushed))
    BY <2>1 DEF AllMarked
  <2>14. Len(queue') \in Nat
    BY <1>l, <1>d, <1>s, <1>q, <2>4
  <2> QED
    BY <1>0, <2>1, <2>8, <2>9, <2>10, <2>11, <2>12, <2>13, <2>14 DEF FifoInv
<1>3. CASE Embed
  <2>1. /\ fifo' = TakeLeaves /\ queue # << >> /\ queue' = Tail(queue)
        /\ UNCHANGED <<push, pushed, attached>> /\ attached
    BY <1>3 DEF Embed, Encodes, FifoInv
  <2>2. /\ Len(queue') = Len(queue) - 1 /\ Len(queue) >= 1
        /\ DOMAIN queue' = 1 .. (Len(queue) - 1)
        /\ \A i \in DOMAIN queue' : i + 1 \in DOMAIN queue /\ queue'[i] = queue[i + 1]
    BY <1>l, <1>d, <1>s, <1>q, <2>1
  <2>3. \/ fifo = << >> /\ fifo' = << >>
        \/ /\ Len(fifo') = Len(fifo) - 1 /\ Len(fifo) >= 1
           /\ DOMAIN fifo' = 1 .. (Len(fifo) - 1)
           /\ \A i \in DOMAIN fifo' : i + 1 \in DOMAIN fifo /\ fifo'[i] = fifo[i + 1]
    <3>1. CASE fifo = << >>
      BY <2>1, <3>1 DEF TakeLeaves
    <3>2. CASE fifo # << >>
      <4>1. fifo' = Tail(fifo)
        BY <2>1, <3>2 DEF TakeLeaves
      <4>2. fifo' \in Seq(Nat) /\ Len(fifo') = Len(fifo) - 1 /\ Len(fifo) >= 1
            /\ \A i \in DOMAIN fifo' : i + 1 \in DOMAIN fifo /\ fifo'[i] = fifo[i + 1]
        BY <1>s, <3>2, <4>1, TailFacts
      <4>3. DOMAIN fifo' = 1 .. Len(fifo')
        BY <4>2
      <4> QED
        BY <4>2, <4>3
    <3> QED
      BY <3>1, <3>2
  <2>4. \A n : AllMarked(pushed', n) <=> AllMarked(pushed, n)
    BY <2>1 DEF AllMarked
  <2>5. ASSUME NEW i \in DOMAIN queue'
        PROVE  /\ i \in DOMAIN fifo' => fifo'[i] >= queue'[i]
               /\ AllMarked(pushed, queue'[i]) => i \in DOMAIN fifo' /\ fifo'[i] = queue'[i]
    <3>1. /\ i + 1 \in DOMAIN queue /\ queue'[i] = queue[i + 1] /\ i \in Nat /\ i >= 1
      BY <1>l, <1>d, <1>s, <1>q, <2>2
    <3>2. /\ i + 1 \in DOMAIN fifo => fifo[i + 1] >= queue[i + 1]
          /\ AllMarked(pushed, queue[i + 1]) => i + 1 \in DOMAIN fifo /\ fifo[i + 1] = queue[i + 1]
      BY <3>1 DEF FifoInv
    <3>3. CASE fifo = << >> /\ fifo' = << >>
      BY <3>1, <3>2, <3>3
    <3>4. CASE /\ Len(fifo') = Len(fifo) - 1 /\ Len(fifo) >= 1
               /\ DOMAIN fifo' = 1 .. (Len(fifo) - 1)
               /\ \A k \in DOMAIN fifo' : k + 1 \in DOMAIN fifo /\ fifo'[k] = fifo[k + 1]
      <4>1. i \in DOMAIN fifo' <=> i + 1 \in DOMAIN fifo
        BY <1>l, <1>d, <1>s, <1>q, <3>1, <3>4
      <4> QED
        BY <3>1, <3>2, <3>4, <4>1
    <3> QED
      BY <2>3, <3>3, <3>4
  <2>6. \/ Len(fifo') <= Len(queue')
        \/ \E t \in Pushers : /\ push'[t].at = "queue" /\ pushed'[push'[t].frame].marked
                              /\ Len(fifo') = Len(queue') + 1
                              /\ fifo'[Len(fifo')] = push'[t].frame
    <3>1. CASE fifo = << >> /\ fifo' = << >>
      BY <1>l, <1>d, <1>s, <1>q, <2>2, <3>1
    <3>2. CASE /\ Len(fifo') = Len(fifo) - 1 /\ Len(fifo) >= 1
               /\ DOMAIN fifo' = 1 .. (Len(fifo) - 1)
               /\ \A k \in DOMAIN fifo' : k + 1 \in DOMAIN fifo /\ fifo'[k] = fifo[k + 1]
      <4>1. CASE Len(fifo) <= Len(queue)
        <5>1. Len(fifo') = Len(fifo) - 1 /\ Len(queue') = Len(queue) - 1
          BY <2>2, <3>2
        <5> QED
          BY <1>l, <4>1, <5>1
      <4>2. CASE ~ (Len(fifo) <= Len(queue))
        <5>1. PICK t \in Pushers : /\ push[t].at = "queue" /\ pushed[push[t].frame].marked
                                   /\ Len(fifo) = Len(queue) + 1
                                   /\ fifo[Len(fifo)] = push[t].frame
          BY <4>2 DEF FifoInv
        <5>2. Len(fifo') \in DOMAIN fifo' /\ Len(fifo') + 1 = Len(fifo)
          BY <1>l, <1>d, <1>s, <1>q, <2>2, <3>2, <5>1
        <5>3. fifo'[Len(fifo')] = push[t].frame
          BY <3>2, <5>1, <5>2
        <5>4. Len(fifo') = Len(queue') + 1
          BY <1>l, <1>d, <1>s, <1>q, <2>2, <3>2, <5>1
        <5> QED
          BY <2>1, <5>1, <5>3, <5>4
      <4> QED
        BY <4>1, <4>2
    <3> QED
      BY <2>3, <3>1, <3>2
  <2>7. AllMarked(pushed, Len(pushed)) =>
           Len(fifo') = Len(queue') + (IF \E t \in Pushers : push'[t].at = "queue" THEN 1 ELSE 0)
    <3> DEFINE k == IF \E t \in Pushers : push[t].at = "queue" THEN 1 ELSE 0
    <3>1. AllMarked(pushed, Len(pushed)) => Len(fifo) = Len(queue) + k
      BY DEF FifoInv
    <3>2. k \in Nat
      OBVIOUS
    <3> HIDE DEF k
    <3>3. AllMarked(pushed, Len(pushed)) => Len(fifo') = Len(queue') + k
      <4>1. /\ Len(queue') = Len(queue) - 1 /\ Len(queue) >= 1
            /\ (Len(fifo) = 0 \/ Len(fifo') = Len(fifo) - 1)
        <5>1. Len(<< >>) = 0
          OBVIOUS
        <5> QED
          BY <2>2, <2>3, <5>1
      <4> QED
        BY <1>l, <3>1, <3>2, <4>1
    <3> QED
      BY <2>1, <3>3 DEF k
  <2>8. \A t, u \in Pushers : push'[t].at # "idle" /\ push'[u].at # "idle" => t = u
    BY <2>1 DEF FifoInv
  <2>9. \A t \in Pushers : /\ push'[t].at # "idle" => mode'.may[t] # {}
                           /\ push'[t].at = "queue" => push'[t].frame = Len(pushed')
    BY <1>0, <2>1 DEF FifoInv
  <2>10. \A i \in DOMAIN queue' : AllMarked(pushed', queue'[i]) <=> AllMarked(pushed, queue'[i])
    BY <2>1 DEF AllMarked
  <2>11. AllMarked(pushed', Len(pushed')) <=> AllMarked(pushed, Len(pushed))
    BY <2>1 DEF AllMarked
  <2> QED
    BY <2>1, <2>5, <2>6, <2>7, <2>8, <2>9, <2>10, <2>11 DEF FifoInv
<1>4. ASSUME UNCHANGED <<fifo, queue, pushed>>, attached',
             \A u \in Pushers : push'[u] = push[u] \/ (push'[u].at = "idle" /\ push[u].at # "queue")
      PROVE  FifoInv'
  <2>1. /\ (\E t \in Pushers : push'[t].at = "queue") <=> (\E t \in Pushers : push[t].at = "queue")
        /\ \A t \in Pushers : push'[t].at # "idle" => push'[t] = push[t]
        /\ \A t \in Pushers : push[t].at = "queue" => push'[t] = push[t]
    BY <1>4
  <2>2. \A i \in DOMAIN queue : AllMarked(pushed', queue[i]) <=> AllMarked(pushed, queue[i])
    BY <1>4 DEF AllMarked
  <2>3. AllMarked(pushed', Len(pushed')) <=> AllMarked(pushed, Len(pushed))
    BY <1>4 DEF AllMarked
  <2>4. \A t, u \in Pushers : push'[t].at # "idle" /\ push'[u].at # "idle" => t = u
    BY <2>1 DEF FifoInv
  <2>5. \A t \in Pushers : /\ push'[t].at # "idle" => mode'.may[t] # {}
                           /\ push'[t].at = "queue" => push'[t].frame = Len(pushed')
    BY <1>0, <1>4, <2>1 DEF FifoInv
  <2>6. \A i \in DOMAIN queue' :
              /\ i \in DOMAIN fifo' => fifo'[i] >= queue'[i]
              /\ AllMarked(pushed', queue'[i]) => i \in DOMAIN fifo' /\ fifo'[i] = queue'[i]
    BY <1>4, <2>2 DEF FifoInv, AllMarked
  <2>7. \/ Len(fifo') <= Len(queue')
        \/ \E t \in Pushers : /\ push'[t].at = "queue" /\ pushed'[push'[t].frame].marked
                              /\ Len(fifo') = Len(queue') + 1
                              /\ fifo'[Len(fifo')] = push'[t].frame
    BY <1>4, <2>1 DEF FifoInv
  <2>8. AllMarked(pushed, Len(pushed)) =>
           Len(fifo') = Len(queue') + (IF \E t \in Pushers : push'[t].at = "queue" THEN 1 ELSE 0)
    BY <1>4, <2>1 DEF FifoInv
  <2> QED
    BY <1>4, <2>3, <2>4, <2>5, <2>6, <2>7, <2>8 DEF FifoInv
<1>5. attached
  BY DEF FifoInv
<1>6. ASSUME NEW t \in Pushers, PushNative(t) PROVE FifoInv'
  <2>1. /\ push[t].at = "native" /\ push'[t].at = "idle"
        /\ \A u \in Pushers : u # t => push'[u] = push[u]
    BY <1>0, <1>6, EndsFacts
  <2> QED
    BY <1>4, <1>5, <1>6, <2>1 DEF PushNative
<1>7. CASE SetGate \/ DropInput \/ Restart \/ Tick \/ UNCHANGED sendVars
  BY <1>4, <1>5, <1>7 DEF SetGate, DropInput, Restart, Tick, sendVars
<1>8. ~ CallerDrops
  BY <1>0, AlignedMode DEF CallerDrops
<1>9. \A t \in Pushers : ~ PushMarked(t) /\ ~ PushPlain(t) /\ ~ InsertSenderMeta(t)
  BY <1>0 DEF PushMarked, PushPlain, InsertSenderMeta, PushInv
<1>10. ASSUME NEW t \in Pushers, PushEncoded(t) PROVE FifoInv'
  <2>1. /\ Begin(t, "queue", "marked", now) /\ fifo' = Append(fifo, Len(pushed) + 1)
        /\ UNCHANGED queue
    BY <1>10 DEF PushEncoded
  <2> QED
    BY <1>1, <2>1
<1>11. ASSUME NEW t \in Pushers, PushEncodedPlain(t) PROVE FifoInv'
  <2>1. Begin(t, "queue", "plain", now) /\ fifo' = fifo /\ UNCHANGED queue
    BY <1>11 DEF PushEncodedPlain
  <2> QED
    BY <1>1, <2>1
<1> QED
  BY <1>2, <1>3, <1>6, <1>7, <1>8, <1>9, <1>10, <1>11, SendSteps

-----------------------------------------------------------------------------
(* What goes out.                                                          *)

\* What the transformer finds for the first of a raw track's input.
LEMMA RawLeaving ==
    ASSUME BaseInv, InputInv, Raw, Encodes, NEW f, f = input[1].frame,
           NEW ms, ms = input[1].ms, pushed[f].marked, pushed[f].ms <= ms
    PROVE  /\ pushed[f].ms = ms
           /\ Take \in {NoMeta, f}
           /\ attached /\ f \notin evicted => Take = f
<1>0. PushTypes /\ PushInv /\ TableInv
  BY DEF BaseInv
<1>1. input # << >> /\ 1 \in DOMAIN input /\ Head(input) = input[1]
  BY <1>0, Elements DEF Encodes
<1>2. f \in DOMAIN pushed /\ \A t \in Pushers : push[t].at # "idle" => push[t].frame # f
  BY <1>0, <1>1 DEF PushInv
<1>3. pushed[f].ms = ms
  <2>1. ms <= pushed[f].ms
    BY <1>1 DEF InputInv
  <2>2. ms \in Int /\ pushed[f].ms \in Int
    BY <1>0, <1>1, <1>2, Elements
  <2> QED
    BY <2>1, <2>2
<1>4. ms \in DOMAIN table => table[ms] = f
  BY <1>0, <1>2, <1>3 DEF TableInv
<1>5. f \notin evicted => ms \in DOMAIN table
  BY <1>0, <1>2, <1>3 DEF TableInv
<1>6. Take = IF ~ attached THEN NoMeta ELSE IF ms \in DOMAIN table THEN table[ms] ELSE NoMeta
  BY <1>1 DEF Take, TakeByCaptureTime
<1> QED
  BY <1>3, <1>4, <1>5, <1>6

\* What it finds at the head of an aligned pre-encoded track's FIFO.
LEMMA EncodedLeaving ==
    ASSUME BaseInv, FifoInv, ~ Raw, Encodes
    PROVE  /\ Encoding = queue[1] /\ Encoding \in Nat
           /\ Take # NoMeta => Take \in Nat /\ Take >= Encoding
           /\ AllMarked(pushed, Encoding) => Take = Encoding
<1>0. PushTypes
  BY DEF BaseInv
<1>1. queue # << >> /\ 1 \in DOMAIN queue /\ Head(queue) = queue[1]
  BY <1>0, Elements DEF Encodes
<1>2. Encoding = queue[1] /\ Encoding \in Nat
  BY <1>0, <1>1, Elements DEF Encoding
<1>3. Take = IF fifo = << >> THEN NoMeta ELSE Head(fifo)
  BY DEF Take, TakeFirst, FifoInv
<1>4. /\ fifo # << >> => 1 \in DOMAIN fifo /\ Head(fifo) = fifo[1] /\ Head(fifo) \in Nat
      /\ 1 \in DOMAIN fifo => fifo # << >>
  BY <1>0, TailFacts DEF PushTypes
<1>5. /\ 1 \in DOMAIN fifo => fifo[1] >= Encoding
      /\ AllMarked(pushed, Encoding) => 1 \in DOMAIN fifo /\ fifo[1] = Encoding
  BY <1>1, <1>2 DEF FifoInv
<1> QED
  BY <1>2, <1>3, <1>4, <1>5

LEMMA SentInvStep ==
    ASSUME BaseInv, InputInv, FifoInv, SentInv, [Next]_vars
    PROVE  SentInv'
<1> USE DEF sourceVars, pushVars, encoderVars, historyVars
<1>0. Raw' = Raw /\ ModeInv /\ PushTypes /\ PushInv /\ QueueInv
  BY ModeStep DEF BaseInv
<1>d. DOMAIN pushed = 1 .. Len(pushed) /\ Len(pushed) \in Nat
  BY <1>0, Elements
<1>1. ASSUME NEW s \in sent, \A f \in DOMAIN pushed : pushed'[f] = pushed[f]
      PROVE  /\ pushed'[s.frame] = pushed[s.frame]
             /\ AllMarked(pushed', s.frame) <=> AllMarked(pushed, s.frame)
  <2>1. s.frame \in 1 .. Len(pushed)
    BY <1>0, <1>d DEF QueueInv
  <2>2. \A g \in 1 .. s.frame : g \in DOMAIN pushed
    BY <1>d, <2>1
  <2> QED
    BY <1>1, <1>d, <2>1, <2>2 DEF AllMarked
<1>2. ASSUME UNCHANGED sent, \A f \in DOMAIN pushed : pushed'[f] = pushed[f]
      PROVE  SentInv'
  BY <1>0, <1>1, <1>2 DEF SentInv
<1>3. CASE Embed
  <2> DEFINE meta == IF gate THEN Take ELSE NoMeta
             z == Leaving(meta)
  <2>1. sent' = sent \cup {z} /\ UNCHANGED pushed /\ Encodes
    BY <1>0, <1>3, EmbedFacts DEF Embed, Encodes
  <2>2. /\ z.frame = Encoding /\ z.meta = meta /\ z.ms = Head(input).ms
        /\ z.due <=> gate /\ attached /\ Encoding \notin evicted
    BY DEF Leaving
  <2> HIDE DEF z
  <2>3. CASE Raw
    <3>1. input # << >> /\ 1 \in DOMAIN input /\ Head(input) = input[1]
      BY <1>0, <2>1, Elements DEF Encodes
    <3>2. z.frame = input[1].frame /\ z.ms = input[1].ms
      BY <2>2, <2>3, <3>1 DEF Encoding
    <3>3. z.ms \in Int /\ pushed[z.frame].ms \in Int
      BY <1>0, <3>1, <3>2, Elements DEF PushInv
    <3>4. pushed[z.frame].marked /\ ~ (z.ms < pushed[z.frame].ms) =>
             /\ Take \in {NoMeta, z.frame}
             /\ attached /\ z.frame \notin evicted => Take = z.frame
      BY <2>1, <2>3, <3>2, <3>3, RawLeaving
    <3>5. z.meta \notin {NoMeta, z.frame} => ~ pushed[z.frame].marked \/ z.ms < pushed[z.frame].ms
      BY <2>2, <3>4
    <3>6. z.due /\ pushed[z.frame].marked /\ z.ms = pushed[z.frame].ms => z.meta = z.frame
      BY <2>2, <3>3, <3>4
    <3> QED
      BY <1>0, <2>1, <2>3, <3>5, <3>6 DEF SentInv
  <2>4. CASE ~ Raw
    <3>1. /\ z.frame \in Nat
          /\ Take # NoMeta => Take \in Nat /\ Take >= z.frame
          /\ AllMarked(pushed, z.frame) => Take = z.frame
      BY <2>1, <2>2, <2>4, EncodedLeaving
    <3>2. z.meta \notin {NoMeta, z.frame} => ~ AllMarked(pushed, z.frame) /\ z.meta > z.frame
      <4>1. CASE gate
        BY <2>2, <3>1, <4>1
      <4>2. CASE ~ gate
        BY <2>2, <4>2
      <4> QED
        BY <4>1, <4>2
    <3>3. z.due /\ AllMarked(pushed, z.frame) => z.meta = z.frame
      BY <2>2, <3>1
    <3> QED
      BY <1>0, <2>1, <2>4, <3>2, <3>3 DEF SentInv
  <2> QED
    BY <2>3, <2>4
<1>4. ASSUME NEW t \in Pushers,
             PushMarked(t) \/ PushPlain(t) \/ PushEncoded(t) \/ PushEncodedPlain(t)
      PROVE  SentInv'
  <2>1. \E at, kind, ms : Begin(t, at, kind, ms)
    BY <1>4 DEF PushMarked, PushPlain, PushEncoded, PushEncodedPlain
  <2>2. UNCHANGED sent /\ \A f \in DOMAIN pushed : pushed'[f] = pushed[f]
    BY <1>0, <2>1, BeginFacts DEF Begin
  <2> QED
    BY <1>2, <2>2
<1>5. ASSUME NEW t \in Pushers, InsertSenderMeta(t) \/ EnqueueFrame(t) \/ PushNative(t)
      PROVE  SentInv'
  BY <1>2, <1>5 DEF InsertSenderMeta, EnqueueFrame, PushNative
<1>6. CASE SetGate \/ CallerDrops \/ DropInput \/ Restart \/ Tick \/ UNCHANGED sendVars
  BY <1>2, <1>6 DEF SetGate, CallerDrops, Encodes, DropInput, Restart, Tick, sendVars
<1> QED
  BY <1>3, <1>4, <1>5, <1>6, SendSteps

-----------------------------------------------------------------------------
(* What is on its way, and what was taken off it.                          *)

LEMMA SentGrows == ASSUME PushTypes, [Next]_vars PROVE sent \subseteq sent'
<1>1. Embed => sent \subseteq sent'
  BY EmbedFacts
<1> QED
  BY <1>1, SendSteps DEF PushMarked, InsertSenderMeta, PushPlain, PushEncoded, PushEncodedPlain,
     EnqueueFrame, PushNative, Begin, SetGate, CallerDrops, DropInput, Restart, Tick, sendVars,
     historyVars

\* The first layer of a frame is of a frame not sent so far.
LEMMA FirstLayer ==
    ASSUME BaseInv, InputInv, Encodes, layer = 1
    PROVE  \A s \in sent : s.frame # Encoding
<1>1. PushTypes /\ QueueInv
  BY DEF BaseInv
<1>2. CASE Raw
  <2>1. 1 \in DOMAIN input /\ Encoding = input[1].frame
    BY <1>1, <1>2, Elements DEF Encodes, Encoding
  <2> QED
    BY <1>2, <2>1 DEF InputInv
<1>3. CASE ~ Raw
  <2>1. 1 \in DOMAIN queue /\ Encoding = queue[1]
    BY <1>1, <1>3, Elements DEF Encodes, Encoding
  <2> QED
    BY <1>1, <1>3, <2>1 DEF QueueInv
<1> QED
  BY <1>2, <1>3

\* What the transformer does, element by element.
LEMMA Stripping ==
    ASSUME NetTypes, NEW p \in Packet, Strip(p)
    PROVE  \/ /\ UNCHANGED <<seen, metaQueue, stripped>>
              /\ p.meta = NoMeta \/ \E j \in DOMAIN seen : seen[j] = Key(p)
           \/ /\ \A k \in DOMAIN metaQueue' : \/ metaQueue'[k] = NewEntry(p)
                                              \/ \E j \in DOMAIN metaQueue :
                                                    metaQueue'[k] = metaQueue[j]
              /\ \A k \in DOMAIN seen' : \/ seen'[k] = Key(p)
                                         \/ \E j \in DOMAIN seen : seen'[k] = seen[j]
              /\ \A a \in DOMAIN stripped : a \in DOMAIN stripped' /\ stripped'[a] = stripped[a]
              /\ Len(stripped) + 1 \in DOMAIN stripped'
              /\ stripped'[Len(stripped) + 1] = p.frame
<1>0. /\ seen \in Seq(Key2) /\ metaQueue \in Seq(Entry) /\ stripped \in Seq(Nat)
      /\ SeenCap \in Nat \ {0} /\ ReceiverMetaCap \in Nat \ {0}
  BY CapsAssumption DEF NetTypes
<1>1. Key(p) \in Key2 /\ p.frame \in Nat
  BY PacketFacts
<1> SUFFICES ASSUME NewEntry(p) \in Entry,
                    seen' = Pushed(seen, Key(p), SeenCap),
                    metaQueue' = Pushed(metaQueue, NewEntry(p), ReceiverMetaCap),
                    stripped' = Append(stripped, p.frame)
             PROVE  /\ \A k \in DOMAIN metaQueue' : \/ metaQueue'[k] = NewEntry(p)
                                                    \/ \E j \in DOMAIN metaQueue :
                                                          metaQueue'[k] = metaQueue[j]
                    /\ \A k \in DOMAIN seen' : \/ seen'[k] = Key(p)
                                               \/ \E j \in DOMAIN seen : seen'[k] = seen[j]
                    /\ \A a \in DOMAIN stripped : a \in DOMAIN stripped'
                                                  /\ stripped'[a] = stripped[a]
                    /\ Len(stripped) + 1 \in DOMAIN stripped'
                    /\ stripped'[Len(stripped) + 1] = p.frame
  BY StripFacts
<1> DEFINE e == NewEntry(p)
           k0 == Key(p)
           f0 == p.frame
<1>2. e \in Entry /\ k0 \in Key2 /\ f0 \in Nat
  BY <1>1
<1>3. /\ metaQueue' = Pushed(metaQueue, e, ReceiverMetaCap) /\ seen' = Pushed(seen, k0, SeenCap)
      /\ stripped' = Append(stripped, f0)
  OBVIOUS
<1> HIDE DEF e, k0, f0
<1>4. \A k \in DOMAIN metaQueue' : metaQueue'[k] = e \/ \E j \in DOMAIN metaQueue :
                                                           metaQueue'[k] = metaQueue[j]
  BY <1>0, <1>2, <1>3, PushedFacts
<1>5. \A k \in DOMAIN seen' : seen'[k] = k0 \/ \E j \in DOMAIN seen : seen'[k] = seen[j]
  BY <1>0, <1>2, <1>3, PushedFacts
<1>6. /\ \A a \in DOMAIN stripped : a \in DOMAIN stripped' /\ stripped'[a] = stripped[a]
      /\ Len(stripped) + 1 \in DOMAIN stripped' /\ stripped'[Len(stripped) + 1] = f0
  BY <1>0, <1>2, <1>3, AppendFacts
<1> QED
  BY <1>4, <1>5, <1>6 DEF e, k0, f0

LEMMA NetInvStep ==
    ASSUME BaseInv, InputInv, NetInv, [Next]_vars
    PROVE  NetInv'
<1>0. /\ PushTypes /\ NetTypes /\ sent \subseteq sent'
  BY SentGrows DEF BaseInv
<1>1. \A key, frame, meta : Sourced(key, frame, meta) => \E s \in sent' : From(s, key, frame, meta)
  BY <1>0 DEF Sourced
<1>w. ASSUME \A j \in DOMAIN wire' : \E k \in DOMAIN wire :
                /\ Key(wire'[j]) = Key(wire[k]) /\ wire'[j].frame = wire[k].frame
                /\ wire'[j].meta = wire[k].meta
                /\ \A i \in DOMAIN wire' : wire'[i].frame = wire[k].frame => i = j,
             \A p \in buffer' : p \in buffer \/ \E k \in DOMAIN wire : p.frame = wire[k].frame
                                                                     /\ p.meta = wire[k].meta
      PROVE  WireInv'
  <2> SUFFICES ASSUME NEW i \in DOMAIN wire'
               PROVE  /\ \E s \in sent' : From(s, Key(wire'[i]), wire'[i].frame, wire'[i].meta)
                      /\ \A j \in DOMAIN wire' : wire'[i].frame = wire'[j].frame => i = j
                      /\ \A p \in buffer' : p.frame = wire'[i].frame => p.meta = wire'[i].meta
    BY DEF WireInv, Sourced, From, Key
  <2>1. PICK k \in DOMAIN wire :
                /\ Key(wire'[i]) = Key(wire[k]) /\ wire'[i].frame = wire[k].frame
                /\ wire'[i].meta = wire[k].meta
                /\ \A j \in DOMAIN wire' : wire'[j].frame = wire[k].frame => j = i
    BY <1>w
  <2>2. Sourced(Key(wire[k]), wire[k].frame, wire[k].meta)
    BY DEF NetInv, WireInv
  <2>3. \E s \in sent' : From(s, Key(wire'[i]), wire'[i].frame, wire'[i].meta)
    BY <1>1, <2>1, <2>2
  <2>4. \A p \in buffer' : p.frame = wire[k].frame => p.meta = wire[k].meta
    BY <1>w DEF NetInv, WireInv
  <2> QED
    BY <2>1, <2>3, <2>4
<1>b. ASSUME \A p \in buffer' : p \in buffer, \A a \in DOMAIN stripped :
                a \in DOMAIN stripped' /\ stripped'[a] = stripped[a]
      PROVE  BufferInv'
  <2>1. \A p \in buffer' : \E s \in sent' : From(s, Key(p), p.frame, p.meta)
    BY <1>1, <1>b DEF NetInv, BufferInv
  <2>2. \A p \in buffer' : p.meta # NoMeta => \E a \in DOMAIN stripped' : stripped'[a] = p.frame
    BY <1>b DEF NetInv, BufferInv
  <2> QED
    BY <2>1, <2>2 DEF BufferInv, Sourced
<1>e. ASSUME \A i \in DOMAIN metaQueue' : \E j \in DOMAIN metaQueue : metaQueue'[i] = metaQueue[j]
      PROVE  EntryInv'
  <2>1. \A i \in DOMAIN metaQueue' :
           \E s \in sent' : From(s, metaQueue'[i].key, metaQueue'[i].frame, metaQueue'[i].meta)
    BY <1>1, <1>e DEF NetInv, EntryInv
  <2> QED
    BY <2>1 DEF EntryInv, Sourced
<1>s. ASSUME UNCHANGED seen, \A a \in DOMAIN stripped :
                a \in DOMAIN stripped' /\ stripped'[a] = stripped[a]
      PROVE  SeenInv'
  BY <1>0, <1>s DEF NetInv, SeenInv
<1>u. ASSUME NEW i \in DOMAIN wire, NEW j \in DOMAIN wire, wire[i].frame = wire[j].frame PROVE i = j
  BY <1>u DEF NetInv, WireInv
<1>2. CASE UNCHANGED netVars
  <2>1. UNCHANGED <<wire, buffer, seen, metaQueue, stripped>>
    BY <1>2 DEF netVars
  <2>2. WireInv' /\ BufferInv' /\ EntryInv' /\ SeenInv'
    BY <1>w, <1>b, <1>e, <1>s, <1>u, <2>1
  <2> QED
    BY <2>2 DEF NetInv
<1>r. ASSUME NEW i \in DOMAIN wire, wire' \in Seq(Packet),
             \A j \in DOMAIN wire' : \/ j < i /\ j \in DOMAIN wire /\ wire'[j] = wire[j]
                                     \/ j >= i /\ j + 1 \in DOMAIN wire /\ wire'[j] = wire[j + 1]
      PROVE  \A j \in DOMAIN wire' : \E k \in DOMAIN wire :
                /\ Key(wire'[j]) = Key(wire[k]) /\ wire'[j].frame = wire[k].frame
                /\ wire'[j].meta = wire[k].meta
                /\ \A m \in DOMAIN wire' : wire'[m].frame = wire[k].frame => m = j
  <2>1. i \in Nat /\ \A j \in DOMAIN wire' : j \in Nat
    BY <1>0, <1>r, InSeq DEF NetTypes
  <2>2. ASSUME NEW j \in DOMAIN wire', NEW m \in DOMAIN wire', wire'[m].frame = wire'[j].frame
        PROVE  m = j
    <3>1. PICK k \in DOMAIN wire : /\ wire'[j] = wire[k]
                                   /\ (j < i /\ k = j) \/ (j >= i /\ k = j + 1)
      BY <1>r
    <3>2. PICK l \in DOMAIN wire : /\ wire'[m] = wire[l]
                                   /\ (m < i /\ l = m) \/ (m >= i /\ l = m + 1)
      BY <1>r
    <3>3. k = l
      BY <1>u, <2>2, <3>1, <3>2
    <3> QED
      BY <2>1, <3>1, <3>2, <3>3
  <2>3. \A j \in DOMAIN wire' : \E k \in DOMAIN wire : wire'[j] = wire[k]
    BY <1>r
  <2> QED
    BY <2>2, <2>3
<1>3. CASE Lose
  <2>1. UNCHANGED <<buffer, seen, metaQueue, stripped>>
    BY <1>3 DEF Lose, receiveVars, historyVars
  <2>2. PICK i \in DOMAIN wire :
              /\ wire' \in Seq(Packet)
              /\ \A j \in DOMAIN wire' : \/ j < i /\ j \in DOMAIN wire /\ wire'[j] = wire[j]
                                         \/ /\ j >= i /\ j + 1 \in DOMAIN wire
                                            /\ wire'[j] = wire[j + 1]
    BY <1>0, <1>3, LoseFacts
  <2>3. \A j \in DOMAIN wire' : \E k \in DOMAIN wire :
                /\ Key(wire'[j]) = Key(wire[k]) /\ wire'[j].frame = wire[k].frame
                /\ wire'[j].meta = wire[k].meta
                /\ \A m \in DOMAIN wire' : wire'[m].frame = wire[k].frame => m = j
    BY <1>r, <2>2
  <2>4. WireInv'
    BY <1>w, <2>1, <2>3
  <2>5. BufferInv' /\ EntryInv' /\ SeenInv'
    BY <1>b, <1>e, <1>s, <2>1
  <2> QED
    BY <2>4, <2>5 DEF NetInv
<1>4. ASSUME NEW p \in buffer, Show(p) PROVE NetInv'
  <2>1. /\ UNCHANGED <<wire, seen, stripped>> /\ \A q \in buffer' : q \in buffer
        /\ \A k \in DOMAIN metaQueue' :
                     k + Match(p) \in DOMAIN metaQueue /\ metaQueue'[k] = metaQueue[k + Match(p)]
    BY <1>0, <1>4, ShowFacts DEF Show
  <2>2. WireInv' /\ BufferInv' /\ EntryInv' /\ SeenInv'
    BY <1>w, <1>b, <1>e, <1>s, <1>u, <2>1
  <2> QED
    BY <2>2 DEF NetInv
<1>5. CASE Embed
  <2> DEFINE meta == IF gate THEN Take ELSE NoMeta
             o == Outgoing(meta)
             z == Leaving(meta)
  <2>1. /\ wire' = IF layer > 1 THEN wire ELSE Append(wire, o)
        /\ sent' = sent \cup {z} /\ o \in Packet
        /\ Key(o)[1] + Key(o)[2] = Head(input).ms
    BY <1>0, <1>5, EmbedFacts
  <2>2. /\ o.frame = Encoding /\ o.meta = meta
        /\ z.frame = Encoding /\ z.meta = meta /\ z.ms = Head(input).ms
    BY DEF Outgoing, Leaving
  <2> HIDE DEF o, z, meta
  <2>3. UNCHANGED <<buffer, seen, metaQueue, stripped>>
    BY <1>5 DEF Embed, Encodes, receiveVars
  <2>4. BufferInv' /\ EntryInv' /\ SeenInv'
    BY <1>b, <1>e, <1>s, <2>3
  <2>5. CASE layer > 1
    <3>1. WireInv'
      BY <1>w, <1>u, <2>1, <2>3, <2>5
    <3> QED
      BY <2>4, <3>1 DEF NetInv
  <2>6. CASE ~ (layer > 1)
    <3>1. layer = 1
      BY <1>0, <2>6 DEF PushTypes, BaseInv, ModeInv, Mode
    <3>2. \A s \in sent : s.frame # Encoding
      BY <1>5, <3>1, FirstLayer DEF Embed
    <3>3. /\ \A j \in DOMAIN wire : wire[j].frame # Encoding
          /\ \A p \in buffer : p.frame # Encoding
      BY <3>2 DEF NetInv, WireInv, BufferInv, Sourced, From
    <3>4. \A j \in DOMAIN wire' : \/ j \in DOMAIN wire /\ wire'[j] = wire[j]
                                  \/ j = Len(wire) + 1 /\ wire'[j] = o
      <4>1. wire' = Append(wire, o) /\ wire \in Seq(Packet)
        BY <1>0, <2>1, <2>6 DEF NetTypes
      <4> QED
        BY <2>1, <4>1, AppendFacts
    <3>5. From(z, Key(o), o.frame, o.meta)
      BY <2>1, <2>2 DEF From
    <3>6. ASSUME NEW i \in DOMAIN wire'
          PROVE  /\ \E s \in sent' : From(s, Key(wire'[i]), wire'[i].frame, wire'[i].meta)
                 /\ \A j \in DOMAIN wire' : wire'[i].frame = wire'[j].frame => i = j
                 /\ \A p \in buffer' : p.frame = wire'[i].frame => p.meta = wire'[i].meta
      <4>1. CASE i \in DOMAIN wire /\ wire'[i] = wire[i]
        <5>1. Sourced(Key(wire[i]), wire[i].frame, wire[i].meta)
          BY <4>1 DEF NetInv, WireInv
        <5>2. \A j \in DOMAIN wire' : wire'[i].frame = wire'[j].frame => i = j
          BY <1>u, <2>2, <3>3, <3>4, <4>1
        <5>3. \A p \in buffer' : p.frame = wire'[i].frame => p.meta = wire'[i].meta
          BY <2>3, <4>1 DEF NetInv, WireInv
        <5> QED
          BY <1>1, <4>1, <5>1, <5>2, <5>3
      <4>2. CASE i = Len(wire) + 1 /\ wire'[i] = o
        BY <2>1, <2>2, <2>3, <3>3, <3>4, <3>5, <4>2
      <4> QED
        BY <3>4, <4>1, <4>2
    <3>7. WireInv'
      BY <3>6 DEF WireInv, Sourced
    <3> QED
      BY <2>4, <3>7 DEF NetInv
  <2> QED
    BY <2>5, <2>6
<1>6. CASE Assemble
  <2>1. PICK i \in DOMAIN wire :
              /\ wire[i] \in Packet /\ Strip(wire[i])
              /\ buffer' = buffer \cup {[wire[i] EXCEPT !.again = FALSE]}
              /\ wire' \in Seq(Packet)
              /\ \/ \A j \in DOMAIN wire' : \/ j < i /\ j \in DOMAIN wire /\ wire'[j] = wire[j]
                                            \/ /\ j >= i /\ j + 1 \in DOMAIN wire
                                               /\ wire'[j] = wire[j + 1]
                 \/ /\ DOMAIN wire' = DOMAIN wire
                    /\ \A j \in DOMAIN wire : /\ Key(wire'[j]) = Key(wire[j])
                                              /\ wire'[j].frame = wire[j].frame
                                              /\ wire'[j].meta = wire[j].meta
    BY <1>0, <1>6, AssembleFacts
  <2> DEFINE q == [wire[i] EXCEPT !.again = FALSE]
             w == wire[i]
  <2>2. /\ q.frame = w.frame /\ q.meta = w.meta /\ Key(q) = Key(w) /\ buffer' = buffer \cup {q}
        /\ Key(w) \in Key2 /\ w.frame \in Nat /\ w \in Packet /\ Strip(w)
    BY <2>1, PacketFacts
  <2> HIDE DEF q
  <2>3. WireInv'
    <3>1. \A j \in DOMAIN wire' : \E k \in DOMAIN wire :
                /\ Key(wire'[j]) = Key(wire[k]) /\ wire'[j].frame = wire[k].frame
                /\ wire'[j].meta = wire[k].meta
                /\ \A m \in DOMAIN wire' : wire'[m].frame = wire[k].frame => m = j
      <4>1. CASE \A j \in DOMAIN wire' : \/ j < i /\ j \in DOMAIN wire /\ wire'[j] = wire[j]
                                         \/ /\ j >= i /\ j + 1 \in DOMAIN wire
                                            /\ wire'[j] = wire[j + 1]
        BY <1>r, <2>1, <4>1
      <4>2. CASE /\ DOMAIN wire' = DOMAIN wire
                 /\ \A j \in DOMAIN wire : /\ Key(wire'[j]) = Key(wire[j])
                                           /\ wire'[j].frame = wire[j].frame
                                           /\ wire'[j].meta = wire[j].meta
        BY <1>u, <4>2
      <4> QED
        BY <2>1, <4>1, <4>2
    <3>2. \A p \in buffer' : p \in buffer \/ \E k \in DOMAIN wire : p.frame = wire[k].frame
                                                                   /\ p.meta = wire[k].meta
      BY <2>2
    <3> QED
      BY <1>w, <3>1, <3>2
  <2>4. Sourced(Key(w), w.frame, w.meta)
    BY DEF NetInv, WireInv
  <2>5. \A p \in buffer' : \E s \in sent' : From(s, Key(p), p.frame, p.meta)
    <3>1. \E s \in sent' : From(s, Key(w), w.frame, w.meta)
      BY <1>1, <2>4
    <3>2. \A p \in buffer : \E s \in sent' : From(s, Key(p), p.frame, p.meta)
      BY <1>1 DEF NetInv, BufferInv
    <3> QED
      BY <2>2, <3>1, <3>2
  <2> HIDE DEF w
  <2>6. CASE /\ UNCHANGED <<seen, metaQueue, stripped>>
             /\ w.meta = NoMeta \/ \E j \in DOMAIN seen : seen[j] = Key(w)
    <3>1. w.meta # NoMeta => \E a \in DOMAIN stripped : stripped[a] = w.frame
      <4> SUFFICES ASSUME w.meta # NoMeta PROVE \E a \in DOMAIN stripped : stripped[a] = w.frame
        OBVIOUS
      <4>1. PICK j \in DOMAIN seen : seen[j] = Key(w)
        BY <2>6
      <4>2. PICK a \in DOMAIN stripped : \E s \in sent :
               s.frame = stripped[a] /\ s.ms = seen[j][1] + seen[j][2]
        BY DEF NetInv, SeenInv
      <4>3. PICK s \in sent : s.frame = stripped[a] /\ s.ms = Key(w)[1] + Key(w)[2]
        BY <4>1, <4>2
      <4>4. PICK r \in sent : From(r, Key(w), w.frame, w.meta)
        BY <2>4 DEF Sourced
      <4>5. r.frame = s.frame
        BY <4>3, <4>4 DEF From, InputInv
      <4> QED
        BY <4>3, <4>4, <4>5 DEF From
    <3>2. \A p \in buffer' : p.meta # NoMeta => \E a \in DOMAIN stripped' : stripped'[a] = p.frame
      BY <2>2, <2>6, <3>1 DEF NetInv, BufferInv
    <3>3. BufferInv'
      BY <2>5, <3>2 DEF BufferInv, Sourced
    <3>4. EntryInv' /\ SeenInv'
      BY <1>e, <1>s, <2>6
    <3> QED
      BY <2>3, <3>3, <3>4 DEF NetInv
  <2>7. CASE /\ \A k \in DOMAIN metaQueue' : \/ metaQueue'[k] = NewEntry(w)
                                             \/ \E j \in DOMAIN metaQueue :
                                                   metaQueue'[k] = metaQueue[j]
             /\ \A k \in DOMAIN seen' : \/ seen'[k] = Key(w)
                                        \/ \E j \in DOMAIN seen : seen'[k] = seen[j]
             /\ \A a \in DOMAIN stripped : a \in DOMAIN stripped' /\ stripped'[a] = stripped[a]
             /\ Len(stripped) + 1 \in DOMAIN stripped'
             /\ stripped'[Len(stripped) + 1] = w.frame
    <3>1. \E a \in DOMAIN stripped' : stripped'[a] = w.frame
      BY <2>7
    <3>2. \A p \in buffer' : p.meta # NoMeta => \E a \in DOMAIN stripped' : stripped'[a] = p.frame
      BY <2>2, <2>7, <3>1 DEF NetInv, BufferInv
    <3>3. BufferInv'
      BY <2>5, <3>2 DEF BufferInv, Sourced
    <3>4. \E s \in sent' : From(s, Key(w), w.frame, w.meta)
      BY <1>1, <2>4
    <3>5. EntryInv'
      <4>1. /\ NewEntry(w).key = Key(w) /\ NewEntry(w).frame = w.frame /\ NewEntry(w).meta = w.meta
        BY DEF NewEntry
      <4>2. \A j \in DOMAIN metaQueue : \E s \in sent' :
               From(s, metaQueue[j].key, metaQueue[j].frame, metaQueue[j].meta)
        BY <1>1 DEF NetInv, EntryInv
      <4>3. \A k \in DOMAIN metaQueue' : \E s \in sent' :
               From(s, metaQueue'[k].key, metaQueue'[k].frame, metaQueue'[k].meta)
        BY <2>7, <3>4, <4>1, <4>2
      <4> QED
        BY <4>3 DEF EntryInv, Sourced
    <3>6. SeenInv'
      <4>1. \A j \in DOMAIN seen : \E a \in DOMAIN stripped' : \E s \in sent' :
               s.frame = stripped'[a] /\ s.ms = seen[j][1] + seen[j][2]
        BY <1>0, <2>7 DEF NetInv, SeenInv
      <4>2. \E a \in DOMAIN stripped' : \E s \in sent' :
               s.frame = stripped'[a] /\ s.ms = Key(w)[1] + Key(w)[2]
        BY <3>1, <3>4 DEF From
      <4>3. \A k \in DOMAIN seen' : \E a \in DOMAIN stripped' : \E s \in sent' :
               s.frame = stripped'[a] /\ s.ms = seen'[k][1] + seen'[k][2]
        BY <2>7, <4>1, <4>2
      <4> QED
        BY <4>3 DEF SeenInv
    <3> QED
      BY <2>3, <3>3, <3>5, <3>6 DEF NetInv
  <2> QED
    BY <1>0, <2>2, <2>6, <2>7, Stripping
<1> QED
  BY <1>2, <1>3, <1>4, <1>5, <1>6, NetSteps

-----------------------------------------------------------------------------
(* What the sink is given.                                                 *)

\* A frame is on the wire because it was, or because it has never been sent so far.
LEMMA WireStep ==
    ASSUME BaseInv, InputInv, [Next]_vars
    PROVE  \A j \in DOMAIN wire' :
              \/ \E k \in DOMAIN wire : /\ Key(wire'[j]) = Key(wire[k])
                                        /\ wire'[j].frame = wire[k].frame
                                        /\ wire'[j].meta = wire[k].meta
              \/ \A s \in sent : s.frame # wire'[j].frame
<1>0. PushTypes /\ NetTypes
  BY DEF BaseInv
<1>1. CASE Embed
  <2> DEFINE o == Outgoing(IF gate THEN Take ELSE NoMeta)
  <2>1. wire' = (IF layer > 1 THEN wire ELSE Append(wire, o)) /\ o \in Packet
    BY <1>0, <1>1, EmbedFacts
  <2>2. o.frame = Encoding
    BY DEF Outgoing
  <2> HIDE DEF o
  <2>3. CASE layer > 1
    BY <2>1, <2>3
  <2>4. CASE ~ (layer > 1)
    <3>1. layer = 1
      BY <1>0, <2>4 DEF PushTypes, BaseInv, ModeInv, Mode
    <3>2. \A s \in sent : s.frame # Encoding
      BY <1>1, <3>1, FirstLayer DEF Embed
    <3>3. wire' = Append(wire, o) /\ wire \in Seq(Packet)
      BY <1>0, <2>1, <2>4 DEF NetTypes
    <3>4. \A j \in DOMAIN wire' : \/ j \in DOMAIN wire /\ wire'[j] = wire[j]
                                  \/ wire'[j] = o
      BY <2>1, <3>3, AppendFacts
    <3> QED
      BY <2>2, <3>2, <3>4
  <2> QED
    BY <2>3, <2>4
<1>2. CASE Assemble
  BY <1>0, <1>2, AssembleFacts
<1>3. CASE Lose
  BY <1>0, <1>3, LoseFacts
<1>4. CASE UNCHANGED wire
  BY <1>4
<1> QED
  BY <1>1, <1>2, <1>3, <1>4, NetSteps DEF Show, netVars

\* A frame is in the buffer because it was, or because it is taken off the wire.
LEMMA BufferStep ==
    ASSUME BaseInv, [Next]_vars
    PROVE  \A p \in buffer' : \/ p \in buffer
                              \/ \E i \in DOMAIN wire : /\ Assemble /\ Strip(wire[i])
                                                        /\ Key(p) = Key(wire[i])
                                                        /\ p.frame = wire[i].frame
                                                        /\ p.meta = wire[i].meta
<1>0. NetTypes
  BY DEF BaseInv
<1>1. CASE Assemble
  <2>1. PICK i \in DOMAIN wire : /\ wire[i] \in Packet /\ Strip(wire[i])
                                 /\ buffer' = buffer \cup {[wire[i] EXCEPT !.again = FALSE]}
    BY <1>0, <1>1, AssembleFacts
  <2> DEFINE q == [wire[i] EXCEPT !.again = FALSE]
  <2>2. Key(q) = Key(wire[i]) /\ q.frame = wire[i].frame /\ q.meta = wire[i].meta
    BY <2>1, PacketFacts
  <2>3. \A p \in buffer' : p \in buffer \/ p = q
    BY <2>1
  <2> HIDE DEF q
  <2> QED
    BY <1>1, <2>1, <2>2, <2>3
<1>2. CASE \A p \in buffer' : p \in buffer
  BY <1>2
<1> QED
  BY <1>1, <1>2, NetSteps DEF Embed, Encodes, receiveVars, Lose, Show, netVars

\* What is left of the queue is what its first c entries were before: none, the
\* evicted one, or those up to the frame shown.
LEMMA Entering ==
    ASSUME NetTypes, NEW p \in Packet, Strip(p), ~ UNCHANGED <<seen, metaQueue, crowded, stripped>>
    PROVE  /\ p.meta \in Nat
           /\ stripped' \in Seq(Nat) /\ Len(stripped') = Len(stripped) + 1
           /\ stripped' = Append(stripped, p.frame)
           /\ crowded \subseteq crowded'
           /\ \E c \in {0, 1} :
                 /\ Len(metaQueue') = Len(metaQueue) + 1 - c
                 /\ c = 1 => 1 \in DOMAIN metaQueue /\ metaQueue[1].frame \in crowded'
                 /\ \A k \in DOMAIN metaQueue' :
                       \/ k + c \in DOMAIN metaQueue /\ metaQueue'[k] = metaQueue[k + c]
                       \/ k + c = Len(metaQueue) + 1 /\ metaQueue'[k] = NewEntry(p)
<1>0. /\ metaQueue \in Seq(Entry) /\ stripped \in Seq(Nat) /\ ReceiverMetaCap \in Nat \ {0}
      /\ Len(metaQueue) \in Nat
  BY CapsAssumption DEF NetTypes
<1>1. p.frame \in Nat
  BY PacketFacts
<1>2. /\ p.meta \in Nat /\ NewEntry(p) \in Entry
      /\ metaQueue' = Pushed(metaQueue, NewEntry(p), ReceiverMetaCap)
      /\ crowded' = IF Len(metaQueue) < ReceiverMetaCap THEN crowded
                    ELSE crowded \cup {Head(metaQueue).frame}
      /\ stripped' = Append(stripped, p.frame)
  BY StripFacts
<1>3. stripped' \in Seq(Nat) /\ Len(stripped') = Len(stripped) + 1
  BY <1>0, <1>1, <1>2, AppendFacts
<1> DEFINE e == NewEntry(p)
<1>4. e \in Entry /\ metaQueue' = Pushed(metaQueue, e, ReceiverMetaCap)
  BY <1>2
<1> HIDE DEF e
<1>5. CASE Len(metaQueue) < ReceiverMetaCap
  <2>1. metaQueue' = Append(metaQueue, e)
    BY <1>0, <1>4, <1>5 DEF Pushed
  <2>2. /\ Len(metaQueue') = Len(metaQueue) + 1
        /\ \A k \in DOMAIN metaQueue' : \/ k \in DOMAIN metaQueue /\ metaQueue'[k] = metaQueue[k]
                                        \/ k = Len(metaQueue) + 1 /\ metaQueue'[k] = e
    BY <1>0, <1>4, <2>1, AppendFacts
  <2>3. metaQueue' \in Seq(Entry)
    BY <1>0, <1>4, <2>1, AppendFacts
  <2>4. \A k \in DOMAIN metaQueue' : k \in Nat /\ k + 0 = k
    BY <2>3, InSeq
  <2>5. Len(metaQueue') = Len(metaQueue) + 1 - 0
    BY <1>0, <2>2
  <2>6. \A k \in DOMAIN metaQueue' :
                       \/ k + 0 \in DOMAIN metaQueue /\ metaQueue'[k] = metaQueue[k + 0]
                       \/ k + 0 = Len(metaQueue) + 1 /\ metaQueue'[k] = NewEntry(p)
    BY <2>2, <2>4 DEF e
  <2>7. crowded \subseteq crowded'
    BY <1>2, <1>5
  <2> QED
    BY <1>2, <1>3, <2>5, <2>6, <2>7
<1>6. CASE ~ (Len(metaQueue) < ReceiverMetaCap)
  <2>1. metaQueue # << >> /\ metaQueue' = Append(Tail(metaQueue), e)
    <3>1. metaQueue # << >>
      <4>1. metaQueue = << >> <=> Len(metaQueue) = 0
        BY <1>0, InSeq
      <4> QED
        BY <1>0, <1>6, <4>1
    <3>2. metaQueue' = Append(Tail(metaQueue), e)
      BY <1>0, <1>4, <1>6 DEF Pushed
    <3> QED
      BY <3>1, <3>2
  <2>2. /\ Tail(metaQueue) \in Seq(Entry) /\ Len(Tail(metaQueue)) = Len(metaQueue) - 1
        /\ 1 \in DOMAIN metaQueue /\ Head(metaQueue) = metaQueue[1]
        /\ \A i \in DOMAIN Tail(metaQueue) :
              i + 1 \in DOMAIN metaQueue /\ Tail(metaQueue)[i] = metaQueue[i + 1]
    BY <1>0, <2>1, TailFacts
  <2> DEFINE r == Tail(metaQueue)
  <2>3. /\ r \in Seq(Entry) /\ metaQueue' = Append(r, e) /\ Len(r) = Len(metaQueue) - 1
        /\ \A i \in DOMAIN r : i + 1 \in DOMAIN metaQueue /\ r[i] = metaQueue[i + 1]
    BY <2>1, <2>2
  <2> HIDE DEF r
  <2>4. /\ Len(metaQueue') = Len(r) + 1
        /\ \A k \in DOMAIN metaQueue' : \/ k \in DOMAIN r /\ metaQueue'[k] = r[k]
                                        \/ k = Len(r) + 1 /\ metaQueue'[k] = e
    BY <1>4, <2>3, AppendFacts
  <2>5. \A k \in DOMAIN metaQueue' :
                       \/ k + 1 \in DOMAIN metaQueue /\ metaQueue'[k] = metaQueue[k + 1]
                       \/ k + 1 = Len(metaQueue) + 1 /\ metaQueue'[k] = NewEntry(p)
    <3>1. Len(r) + 1 + 1 = Len(metaQueue) + 1
      BY <1>0, <2>3
    <3> QED
      BY <2>3, <2>4, <3>1 DEF e
  <2>6. Len(metaQueue') = Len(metaQueue) + 1 - 1
    BY <1>0, <2>3, <2>4
  <2>7. crowded \subseteq crowded' /\ metaQueue[1].frame \in crowded'
    BY <1>2, <1>6, <2>2
  <2> QED
    BY <1>2, <1>3, <2>2, <2>5, <2>6, <2>7
<1> QED
  BY <1>5, <1>6

LEMMA KeyInvStep ==
    ASSUME BaseInv, InputInv, NetInv, KeyInv, [Next]_vars
    PROVE  KeyInv'
<1>0. NetTypes
  BY DEF BaseInv
<1>1. \A j \in DOMAIN wire' :
         \/ \E k \in DOMAIN wire : /\ Key(wire'[j]) = Key(wire[k])
                                   /\ wire'[j].frame = wire[k].frame
         \/ /\ \A k \in DOMAIN wire : wire[k].frame # wire'[j].frame
            /\ \A p \in buffer : p.frame # wire'[j].frame
            /\ \A i \in DOMAIN metaQueue : metaQueue[i].frame # wire'[j].frame
  <2>1. \A j \in DOMAIN wire' :
         \/ \E k \in DOMAIN wire : /\ Key(wire'[j]) = Key(wire[k])
                                   /\ wire'[j].frame = wire[k].frame
         \/ \A s \in sent : s.frame # wire'[j].frame
    BY WireStep
  <2>2. /\ \A k \in DOMAIN wire : \E s \in sent : s.frame = wire[k].frame
        /\ \A p \in buffer : \E s \in sent : s.frame = p.frame
        /\ \A i \in DOMAIN metaQueue : \E s \in sent : s.frame = metaQueue[i].frame
    BY DEF NetInv, WireInv, BufferInv, EntryInv, Sourced, From
  <2> QED
    BY <2>1, <2>2
<1>2. \A p \in buffer' : \/ p \in buffer
                         \/ \E i \in DOMAIN wire : Key(p) = Key(wire[i]) /\ p.frame = wire[i].frame
  BY BufferStep
<1>3. \A k \in DOMAIN metaQueue' :
         \/ \E j \in DOMAIN metaQueue : metaQueue'[k] = metaQueue[j]
         \/ \E i \in DOMAIN wire : /\ metaQueue'[k].key = Key(wire[i])
                                   /\ metaQueue'[k].frame = wire[i].frame
  <2>1. CASE Assemble
    <3>1. PICK i \in DOMAIN wire : wire[i] \in Packet /\ Strip(wire[i])
      BY <1>0, <2>1, AssembleFacts
    <3>2. NewEntry(wire[i]).key = Key(wire[i]) /\ NewEntry(wire[i]).frame = wire[i].frame
      BY DEF NewEntry
    <3> QED
      BY <1>0, <3>1, <3>2, Stripping
  <2>2. ASSUME NEW p \in buffer, Show(p)
        PROVE  \A k \in DOMAIN metaQueue' :
                  \E j \in DOMAIN metaQueue : metaQueue'[k] = metaQueue[j]
    BY <1>0, <2>2, ShowFacts
  <2>3. CASE UNCHANGED metaQueue
    BY <2>3
  <2> QED
    BY <2>1, <2>2, <2>3, NetSteps DEF Embed, Encodes, receiveVars, Lose, netVars
<1>4. \A i, j \in DOMAIN wire : wire[i].frame = wire[j].frame => Key(wire[i]) = Key(wire[j])
  BY DEF NetInv, WireInv
<1>5. CASE Embed \/ Assemble \/ Lose \/ (\E p \in buffer : Show(p)) \/ UNCHANGED netVars
  <2>1. \A i \in DOMAIN wire' : \A p \in buffer' :
           p.frame = wire'[i].frame => Key(p) = Key(wire'[i])
    <3> SUFFICES ASSUME NEW i \in DOMAIN wire', NEW p \in buffer', p.frame = wire'[i].frame
                 PROVE  Key(p) = Key(wire'[i])
      OBVIOUS
    <3>1. CASE \E k \in DOMAIN wire : Key(wire'[i]) = Key(wire[k]) /\ wire'[i].frame = wire[k].frame
      BY <1>2, <1>4, <3>1 DEF KeyInv
    <3>2. CASE /\ \A k \in DOMAIN wire : wire[k].frame # wire'[i].frame
               /\ \A q \in buffer : q.frame # wire'[i].frame
      BY <1>2, <3>2
    <3> QED
      BY <1>1, <3>1, <3>2
  <2>2. \A k \in DOMAIN metaQueue' : \A p \in buffer' :
           p.frame = metaQueue'[k].frame => metaQueue'[k].key = Key(p)
    <3> SUFFICES ASSUME NEW k \in DOMAIN metaQueue', NEW p \in buffer',
                        p.frame = metaQueue'[k].frame
                 PROVE  metaQueue'[k].key = Key(p)
      OBVIOUS
    <3>1. CASE \E j \in DOMAIN metaQueue : metaQueue'[k] = metaQueue[j]
      BY <1>2, <3>1 DEF KeyInv
    <3>2. CASE \E i \in DOMAIN wire : /\ metaQueue'[k].key = Key(wire[i])
                                      /\ metaQueue'[k].frame = wire[i].frame
      BY <1>2, <1>4, <3>2 DEF KeyInv
    <3> QED
      BY <1>3, <3>1, <3>2
  <2>3. \A k \in DOMAIN metaQueue' : \A i \in DOMAIN wire' :
           wire'[i].frame = metaQueue'[k].frame => metaQueue'[k].key = Key(wire'[i])
    <3> SUFFICES ASSUME NEW k \in DOMAIN metaQueue', NEW i \in DOMAIN wire',
                        wire'[i].frame = metaQueue'[k].frame
                 PROVE  metaQueue'[k].key = Key(wire'[i])
      OBVIOUS
    <3>1. CASE \E j \in DOMAIN metaQueue : metaQueue'[k] = metaQueue[j]
      BY <1>1, <3>1 DEF KeyInv
    <3>2. CASE \E j \in DOMAIN wire : /\ metaQueue'[k].key = Key(wire[j])
                                      /\ metaQueue'[k].frame = wire[j].frame
      BY <1>1, <1>4, <3>2
    <3> QED
      BY <1>3, <3>1, <3>2
  <2> QED
    BY <2>1, <2>2, <2>3 DEF KeyInv, Key
<1> QED
  BY <1>5, NetSteps

\* The histories grow.
LEMMA Growing ==
    ASSUME NetTypes, [Next]_vars
    PROVE  /\ \A a \in DOMAIN stripped : a \in DOMAIN stripped' /\ stripped'[a] = stripped[a]
           /\ \A i \in DOMAIN shown : i \in DOMAIN shown' /\ shown'[i] = shown[i]
           /\ crowded \subseteq crowded'
<1>1. CASE Assemble
  <2>1. PICK i \in DOMAIN wire : wire[i] \in Packet /\ Strip(wire[i])
    BY <1>1, AssembleFacts
  <2>2. CASE UNCHANGED <<seen, metaQueue, crowded, stripped>>
    BY <1>1, <2>2 DEF Assemble
  <2>3. CASE ~ UNCHANGED <<seen, metaQueue, crowded, stripped>>
    <3>1. /\ \A a \in DOMAIN stripped : a \in DOMAIN stripped' /\ stripped'[a] = stripped[a]
          /\ crowded \subseteq crowded'
      <4>1. UNCHANGED <<seen, metaQueue, stripped>> \/
               \A a \in DOMAIN stripped : a \in DOMAIN stripped' /\ stripped'[a] = stripped[a]
        BY <2>1, Stripping
      <4> QED
        BY <2>1, <2>3, <4>1, Entering
    <3> QED
      BY <1>1, <3>1 DEF Assemble
  <2> QED
    BY <2>2, <2>3
<1>2. ASSUME NEW p \in buffer, Show(p)
      PROVE  /\ UNCHANGED <<stripped, crowded>>
             /\ \A i \in DOMAIN shown : i \in DOMAIN shown' /\ shown'[i] = shown[i]
  <2> DEFINE x == [frame |-> p.frame, meta |-> IF Match(p) = 0 THEN NoMeta
                                               ELSE metaQueue[Match(p)].meta]
  <2>1. x \in Shown /\ shown' = Append(shown, x) /\ shown \in Seq(Shown)
    BY <1>2, ShowFacts DEF NetTypes
  <2> HIDE DEF x
  <2> QED
    BY <1>2, <2>1, AppendFacts DEF Show
<1>3. CASE UNCHANGED <<stripped, shown, crowded>>
  BY <1>3
<1> QED
  BY <1>1, <1>2, <1>3, NetSteps DEF Embed, Encodes, Lose, receiveVars, historyVars, netVars

LEMMA SettledGrows ==
    ASSUME NEW f, NEW c, NEW d, NEW sh, NEW sh2, NEW st, NEW st2, c \subseteq d,
           \A j \in DOMAIN sh : j \in DOMAIN sh2 /\ sh2[j] = sh[j],
           \A a \in DOMAIN st : a \in DOMAIN st2 /\ st2[a] = st[a],
           Settled(f, c, sh, st)
    PROVE  Settled(f, d, sh2, st2)
<1>1. CASE f \in c
  BY <1>1 DEF Settled
<1>2. CASE \E j \in DOMAIN sh : sh[j].frame = f /\ sh[j].meta # NoMeta
  BY <1>2 DEF Settled
<1>3. CASE \E j \in DOMAIN sh : \E a, b \in DOMAIN st : a < b /\ st[a] = f /\ st[b] = sh[j].frame
  BY <1>3 DEF Settled
<1> QED
  BY <1>1, <1>2, <1>3 DEF Settled

LEMMA MissedGrows ==
    ASSUME NEW c, NEW d, NEW S, NEW sh \in Seq(S), NEW sh2, NEW st, NEW st2, c \subseteq d,
           \A j \in DOMAIN sh : j \in DOMAIN sh2 /\ sh2[j] = sh[j],
           \A a \in DOMAIN st : a \in DOMAIN st2 /\ st2[a] = st[a],
           NEW i \in DOMAIN sh, Missed(i, c, sh, st)
    PROVE  Missed(i, d, sh2, st2)
<1>1. CASE sh[i].frame \in c
  BY <1>1 DEF Missed
<1>2. ASSUME NEW j \in 1 .. (i - 1), NEW a \in DOMAIN st, NEW b \in DOMAIN st,
             a < b, st[a] = sh[i].frame, st[b] = sh[j].frame
      PROVE  Missed(i, d, sh2, st2)
  <2>1. DOMAIN sh = 1 .. Len(sh) /\ Len(sh) \in Nat
    BY InSeq
  <2>2. j \in DOMAIN sh
    BY <2>1
  <2> QED
    BY <1>2, <2>2 DEF Missed
<1> QED
  BY <1>1, <1>2 DEF Missed

\* The entries that leave the queue: none, the one that is evicted, or those up to
\* that of the frame shown.
LEMMA QueueStep ==
    ASSUME BaseInv, SuffixInv, [Next]_vars
    PROVE  \E c \in Nat :
              /\ Gone' = Gone + c /\ c <= Len(metaQueue)
              /\ \A k \in DOMAIN metaQueue' :
                    \/ k + c \in DOMAIN metaQueue /\ metaQueue'[k] = metaQueue[k + c]
                    \/ metaQueue'[k].frame = stripped'[Gone' + k]
              /\ \/ \A k \in 1 .. c : metaQueue[k].frame \in crowded'
                 \/ \E p \in buffer : Show(p) /\ c = Match(p)
<1>0. /\ NetTypes /\ metaQueue \in Seq(Entry) /\ stripped \in Seq(Nat)
      /\ Len(metaQueue) \in Nat /\ Len(stripped) \in Nat
  BY DEF BaseInv, NetTypes
<1>1. CASE UNCHANGED <<metaQueue, stripped>>
  <2>1. Gone' = Gone + 0 /\ 0 <= Len(metaQueue)
    BY <1>0, <1>1 DEF Gone
  <2>2. \A k \in DOMAIN metaQueue' :
           k + 0 \in DOMAIN metaQueue /\ metaQueue'[k] = metaQueue[k + 0]
    BY <1>0, <1>1, InSeq
  <2>3. \A k \in 1 .. 0 : metaQueue[k].frame \in crowded'
    OBVIOUS
  <2> QED
    BY <2>1, <2>2, <2>3
<1>2. ASSUME NEW p \in buffer, Show(p)
      PROVE  /\ Match(p) \in Nat /\ Gone' = Gone + Match(p) /\ Match(p) <= Len(metaQueue)
             /\ \A k \in DOMAIN metaQueue' : /\ k + Match(p) \in DOMAIN metaQueue
                                             /\ metaQueue'[k] = metaQueue[k + Match(p)]
  <2>1. /\ Match(p) \in Nat /\ Match(p) <= Len(metaQueue)
        /\ Len(metaQueue') = Len(metaQueue) - Match(p)
        /\ \A k \in DOMAIN metaQueue' : /\ k + Match(p) \in DOMAIN metaQueue
                                        /\ metaQueue'[k] = metaQueue[k + Match(p)]
    BY <1>0, <1>2, ShowFacts
  <2>2. UNCHANGED stripped
    BY <1>2 DEF Show
  <2>3. Gone' = Gone + Match(p)
    BY <1>0, <2>1, <2>2 DEF Gone
  <2> QED
    BY <2>1, <2>3
<1>3. ASSUME Assemble, ~ UNCHANGED <<metaQueue, stripped>>
      PROVE  \E c \in {0, 1} :
              /\ Gone' = Gone + c /\ c <= Len(metaQueue)
              /\ \A k \in DOMAIN metaQueue' :
                    \/ k + c \in DOMAIN metaQueue /\ metaQueue'[k] = metaQueue[k + c]
                    \/ metaQueue'[k].frame = stripped'[Gone' + k]
              /\ \A k \in 1 .. c : metaQueue[k].frame \in crowded'
  <2>1. PICK i \in DOMAIN wire : wire[i] \in Packet /\ Strip(wire[i])
    BY <1>0, <1>3, AssembleFacts
  <2> DEFINE p == wire[i]
  <2>2. /\ stripped' = Append(stripped, p.frame) /\ Len(stripped') = Len(stripped) + 1
        /\ stripped' \in Seq(Nat) /\ p.frame \in Nat /\ NewEntry(p).frame = p.frame
    BY <1>0, <1>3, <2>1, Entering, PacketFacts DEF NewEntry
  <2>3. PICK c \in {0, 1} :
                 /\ Len(metaQueue') = Len(metaQueue) + 1 - c
                 /\ c = 1 => 1 \in DOMAIN metaQueue /\ metaQueue[1].frame \in crowded'
                 /\ \A k \in DOMAIN metaQueue' :
                       \/ k + c \in DOMAIN metaQueue /\ metaQueue'[k] = metaQueue[k + c]
                       \/ k + c = Len(metaQueue) + 1 /\ metaQueue'[k] = NewEntry(p)
    BY <1>0, <1>3, <2>1, Entering
  <2>4. stripped'[Len(stripped) + 1] = p.frame
    BY <1>0, <2>2, AppendFacts
  <2> HIDE DEF p
  <2>5. Gone' = Gone + c
    BY <1>0, <2>2, <2>3 DEF Gone
  <2>6. c <= Len(metaQueue)
    <3>1. c = 1 => Len(metaQueue) >= 1
      BY <1>0, <2>3, InSeq
    <3> QED
      BY <1>0, <3>1
  <2>7. \A k \in DOMAIN metaQueue' :
                    \/ k + c \in DOMAIN metaQueue /\ metaQueue'[k] = metaQueue[k + c]
                    \/ metaQueue'[k].frame = stripped'[Gone' + k]
    <3> SUFFICES ASSUME NEW k \in DOMAIN metaQueue', k + c = Len(metaQueue) + 1,
                        metaQueue'[k] = NewEntry(p)
                 PROVE  metaQueue'[k].frame = stripped'[Gone' + k]
      BY <2>3
    <3>1. k \in Nat
      BY <1>0, NetTypesStep, InSeq DEF BaseInv, NetTypes
    <3>2. Gone' + k = Len(stripped) + 1
      BY <1>0, <2>5, <3>1 DEF Gone
    <3> QED
      BY <2>2, <2>4, <3>2
  <2>8. \A k \in 1 .. c : metaQueue[k].frame \in crowded'
    <3>1. \A k \in 1 .. c : c = 1 /\ k = 1
      OBVIOUS
    <3> QED
      BY <2>3, <3>1
  <2> QED
    BY <2>5, <2>6, <2>7, <2>8
<1>4. CASE Assemble /\ ~ UNCHANGED <<metaQueue, stripped>>
  BY <1>3, <1>4
<1>5. CASE \E p \in buffer : Show(p)
  BY <1>2, <1>5
<1> QED
  BY <1>1, <1>4, <1>5, NetSteps DEF Embed, Encodes, Lose, receiveVars, historyVars, netVars

LEMMA SuffixInvStep ==
    ASSUME BaseInv, SuffixInv, [Next]_vars
    PROVE  SuffixInv'
<1>0. /\ NetTypes /\ Len(metaQueue) \in Nat /\ Len(stripped) \in Nat /\ Gone \in Int
      /\ DOMAIN stripped = 1 .. Len(stripped) /\ DOMAIN metaQueue = 1 .. Len(metaQueue)
  BY InSeq DEF BaseInv, NetTypes, Gone
<1>1. PICK c \in Nat :
              /\ Gone' = Gone + c
              /\ \A k \in DOMAIN metaQueue' :
                    \/ k + c \in DOMAIN metaQueue /\ metaQueue'[k] = metaQueue[k + c]
                    \/ metaQueue'[k].frame = stripped'[Gone' + k]
  BY QueueStep
<1>2. Gone' >= 0
  BY <1>0, <1>1 DEF SuffixInv
<1>3. ASSUME NEW k \in DOMAIN metaQueue'
      PROVE  metaQueue'[k].frame = stripped'[Gone' + k]
  <2> SUFFICES ASSUME k + c \in DOMAIN metaQueue, metaQueue'[k] = metaQueue[k + c]
               PROVE  metaQueue'[k].frame = stripped'[Gone' + k]
    BY <1>1
  <2>1. metaQueue'[k].frame = stripped[Gone + (k + c)]
    BY DEF SuffixInv
  <2>2. k \in Nat
    BY <1>0, NetTypesStep, InSeq DEF BaseInv, NetTypes
  <2>3. Gone + (k + c) = Gone' + k
    BY <1>0, <1>1, <2>2
  <2>4. Gone + (k + c) \in DOMAIN stripped
    BY <1>0 DEF Gone, SuffixInv
  <2>5. stripped'[Gone + (k + c)] = stripped[Gone + (k + c)]
    BY <1>0, <2>4, Growing
  <2> QED
    BY <2>1, <2>3, <2>5
<1> QED
  BY <1>2, <1>3 DEF SuffixInv

\* An entry under a frame's key is the frame's.
LEMMA KeyOfFrame ==
    ASSUME InputInv, NetInv, NEW p \in buffer, NEW k \in DOMAIN metaQueue,
           metaQueue[k].key = Key(p)
    PROVE  metaQueue[k].frame = p.frame
<1>1. PICK s \in sent : From(s, Key(p), metaQueue[k].frame, metaQueue[k].meta)
  BY DEF NetInv, EntryInv, Sourced
<1>2. PICK r \in sent : From(r, Key(p), p.frame, p.meta)
  BY DEF NetInv, BufferInv, Sourced
<1> QED
  BY <1>1, <1>2 DEF From, InputInv

LEMMA SettledInvStep ==
    ASSUME BaseInv, InputInv, NetInv, SuffixInv, SettledInv, [Next]_vars
    PROVE  SettledInv'
<1>0. /\ NetTypes /\ Len(metaQueue) \in Nat /\ Len(stripped) \in Nat /\ Gone \in Int
      /\ DOMAIN stripped = 1 .. Len(stripped) /\ DOMAIN metaQueue = 1 .. Len(metaQueue)
      /\ shown \in Seq(Shown) /\ Gone = Len(stripped) - Len(metaQueue) /\ Gone >= 0
  BY InSeq DEF BaseInv, NetTypes, Gone, SuffixInv
<1>1. PICK c \in Nat :
              /\ Gone' = Gone + c /\ c <= Len(metaQueue)
              /\ \/ \A k \in 1 .. c : metaQueue[k].frame \in crowded'
                 \/ \E p \in buffer : Show(p) /\ c = Match(p)
  BY QueueStep
<1> SUFFICES ASSUME NEW a \in 1 .. (Gone + c)
             PROVE  Settled(stripped'[a], crowded', shown', stripped')
  BY <1>1 DEF SettledInv
<1>2. a \in DOMAIN stripped /\ stripped'[a] = stripped[a]
  <2>1. a \in 1 .. Len(stripped)
    BY <1>0, <1>1
  <2> QED
    BY <1>0, <2>1, Growing
<1>3. CASE a <= Gone
  <2>1. Settled(stripped[a], crowded, shown, stripped)
    BY <1>0, <1>3 DEF SettledInv
  <2> QED
    BY <1>0, <1>2, <2>1, Growing, SettledGrows
<1>4. CASE ~ (a <= Gone)
  <2> DEFINE k == a - Gone
  <2>1. k \in 1 .. c /\ Gone + k = a
    BY <1>0, <1>4
  <2>2. k \in DOMAIN metaQueue
    BY <1>0, <1>1, <2>1
  <2> HIDE DEF k
  <2>3. metaQueue[k].frame = stripped[a]
    BY <2>1, <2>2 DEF SuffixInv
  <2>4. CASE \A l \in 1 .. c : metaQueue[l].frame \in crowded'
    BY <1>2, <2>1, <2>3, <2>4 DEF Settled
  <2>5. ASSUME NEW p \in buffer, Show(p), c = Match(p)
        PROVE  Settled(stripped'[a], crowded', shown', stripped')
    <3> DEFINE x == [frame |-> p.frame, meta |-> IF Match(p) = 0 THEN NoMeta
                                                 ELSE metaQueue[Match(p)].meta]
    <3>1. /\ shown' = Append(shown, x) /\ x \in Shown
          /\ Match(p) # 0 => metaQueue[Match(p)] \in Entry /\ metaQueue[Match(p)].key = Key(p)
      BY <1>0, <2>5, ShowFacts
    <3>2. c # 0 /\ c \in DOMAIN metaQueue
      BY <1>0, <1>1, <2>1
    <3>3. x.frame = p.frame /\ x.meta = metaQueue[c].meta /\ metaQueue[c].meta # NoMeta
      BY <2>5, <3>1, <3>2, ModesAssumption DEF Entry
    <3> HIDE DEF x
    <3>4. Len(shown) + 1 \in DOMAIN shown' /\ shown'[Len(shown) + 1] = x
      BY <1>0, <3>1, AppendFacts
    <3>5. metaQueue[c].frame = p.frame
      BY <2>5, <3>1, <3>2, KeyOfFrame
    <3>6. CASE k = c
      BY <1>2, <2>3, <3>3, <3>4, <3>5, <3>6 DEF Settled
    <3>7. CASE k # c
      <4>1. Gone + c \in DOMAIN stripped /\ stripped[Gone + c] = p.frame /\ a < Gone + c
        <5>1. stripped[Gone + c] = p.frame
          BY <3>2, <3>5 DEF SuffixInv
        <5> QED
          BY <1>0, <1>1, <2>1, <3>7, <5>1
      <4>2. Gone + c \in DOMAIN stripped' /\ stripped'[Gone + c] = p.frame /\ a \in DOMAIN stripped'
        BY <1>0, <1>2, <4>1, Growing
      <4> QED
        BY <3>3, <3>4, <4>1, <4>2 DEF Settled
    <3> QED
      BY <3>6, <3>7
  <2> QED
    BY <1>1, <2>4, <2>5
<1> QED
  BY <1>0, <1>3, <1>4

LEMMA ShownInvStep ==
    ASSUME BaseInv, InputInv, NetInv, ShownInv, [Next]_vars
    PROVE  ShownInv'
<1>0. /\ NetTypes /\ PushTypes /\ sent \subseteq sent' /\ shown \in Seq(Shown) /\ decoded \in Nat
      /\ decoded' \in Nat
  BY SentGrows, NetTypesStep DEF BaseInv, NetTypes
<1>1. decoded <= decoded'
  <2>1. ASSUME NEW p \in buffer, Show(p) PROVE decoded <= decoded'
    <3>1. decoded' = p.frame /\ p.frame > decoded
      BY <2>1 DEF Show
    <3> QED
      BY <1>0, <3>1
  <2> QED
    BY <1>0, <2>1, NetSteps DEF Embed, Encodes, Assemble, Lose, receiveVars, netVars
<1>2. ASSUME NEW i \in DOMAIN shown
      PROVE  /\ shown[i].frame <= decoded'
             /\ \E s \in sent' : s.frame = shown[i].frame
                                 /\ (shown[i].meta # NoMeta => s.meta = shown[i].meta)
             /\ shown[i].meta = NoMeta =>
                   \/ \A j \in DOMAIN wire' : wire'[j].frame = shown[i].frame =>
                                              wire'[j].meta = NoMeta
                   \/ \E a \in DOMAIN stripped' : stripped'[a] = shown[i].frame
  <2>1. shown[i].frame <= decoded'
    <3>1. shown[i].frame \in Nat /\ shown[i].frame <= decoded
      <4>1. shown[i] \in Shown
        BY <1>0, InSeq
      <4> QED
        BY <4>1 DEF ShownInv, Shown
    <3> QED
      BY <1>0, <1>1, <3>1
  <2>2. PICK s \in sent : s.frame = shown[i].frame
                          /\ (shown[i].meta # NoMeta => s.meta = shown[i].meta)
    BY DEF ShownInv
  <2>3. \A j \in DOMAIN wire' : wire'[j].frame = shown[i].frame =>
           \E k \in DOMAIN wire : wire[k].frame = shown[i].frame /\ wire'[j].meta = wire[k].meta
    BY <2>2, WireStep
  <2>4. shown[i].meta = NoMeta =>
                   \/ \A j \in DOMAIN wire' : wire'[j].frame = shown[i].frame =>
                                              wire'[j].meta = NoMeta
                   \/ \E a \in DOMAIN stripped' : stripped'[a] = shown[i].frame
    BY <1>0, <2>3, Growing DEF ShownInv
  <2> QED
    BY <1>0, <2>1, <2>2, <2>4
<1>3. CASE shown' = shown
  BY <1>2, <1>3 DEF ShownInv
<1>4. ASSUME NEW p \in buffer, Show(p) PROVE ShownInv'
  <2> DEFINE x == [frame |-> p.frame, meta |-> IF Match(p) = 0 THEN NoMeta
                                               ELSE metaQueue[Match(p)].meta]
  <2>1. /\ shown' = Append(shown, x) /\ x \in Shown /\ decoded' = p.frame /\ p \in Packet
        /\ Match(p) # 0 => /\ Match(p) \in DOMAIN metaQueue
                           /\ metaQueue[Match(p)].key = Key(p)
    BY <1>0, <1>4, ShowFacts
  <2>2. UNCHANGED <<wire, stripped, sent>>
    BY <1>4 DEF Show
  <2>3. x.frame = p.frame /\ x.meta = IF Match(p) = 0 THEN NoMeta ELSE metaQueue[Match(p)].meta
    OBVIOUS
  <2> HIDE DEF x
  <2>4. \A i \in DOMAIN shown' : (i \in DOMAIN shown /\ shown'[i] = shown[i]) \/ shown'[i] = x
    BY <1>0, <2>1, AppendFacts
  <2>5. x.frame <= decoded'
    BY <1>0, <2>1, <2>3
  <2>6. \E s \in sent' : s.frame = x.frame /\ (x.meta # NoMeta => s.meta = x.meta)
    <3>1. CASE Match(p) = 0
      <4>1. \E s \in sent : s.frame = p.frame
        BY DEF NetInv, BufferInv, Sourced, From
      <4> QED
        BY <2>2, <2>3, <3>1, <4>1
    <3>2. CASE Match(p) # 0
      <4> DEFINE e == metaQueue[Match(p)]
      <4>1. \E s \in sent : s.frame = e.frame /\ s.meta = e.meta
        BY <2>1, <3>2 DEF NetInv, EntryInv, Sourced, From
      <4>2. e.frame = p.frame
        BY <2>1, <3>2, KeyOfFrame
      <4> QED
        BY <2>2, <2>3, <3>2, <4>1, <4>2
    <3> QED
      BY <3>1, <3>2
  <2>7. \/ \A j \in DOMAIN wire' : wire'[j].frame = x.frame => wire'[j].meta = NoMeta
        \/ \E a \in DOMAIN stripped' : stripped'[a] = x.frame
    <3>1. CASE p.meta = NoMeta
      BY <2>2, <2>3, <3>1 DEF NetInv, WireInv
    <3>2. CASE p.meta # NoMeta
      BY <2>2, <2>3, <3>2 DEF NetInv, BufferInv
    <3> QED
      BY <3>1, <3>2
  <2> QED
    BY <1>2, <2>4, <2>5, <2>6, <2>7 DEF ShownInv
<1> QED
  BY <1>3, <1>4, NetSteps DEF Embed, Encodes, Assemble, Lose, receiveVars, historyVars, netVars

LEMMA ArrivesInvStep ==
    ASSUME BaseInv, InputInv, NetInv, KeyInv, SuffixInv, SettledInv, ShownInv, ArrivesInv,
           [Next]_vars
    PROVE  ArrivesInv'
<1>0. /\ NetTypes /\ Len(metaQueue) \in Nat /\ Len(stripped) \in Nat /\ Gone \in Int
      /\ DOMAIN stripped = 1 .. Len(stripped) /\ DOMAIN metaQueue = 1 .. Len(metaQueue)
      /\ shown \in Seq(Shown) /\ Gone = Len(stripped) - Len(metaQueue) /\ Gone >= 0
      /\ DOMAIN shown = 1 .. Len(shown) /\ Len(shown) \in Nat /\ decoded \in Nat
  BY InSeq DEF BaseInv, NetTypes, Gone, SuffixInv
<1>1. ASSUME NEW i \in DOMAIN shown, shown[i].meta = NoMeta,
             \E a \in DOMAIN stripped : stripped[a] = shown[i].frame
      PROVE  Missed(i, crowded', shown', stripped')
  <2>1. Missed(i, crowded, shown, stripped)
    BY <1>1 DEF ArrivesInv
  <2> QED
    BY <1>0, <2>1, Growing, MissedGrows
<1>2. ASSUME shown' = shown, stripped' = stripped PROVE ArrivesInv'
  BY <1>1, <1>2 DEF ArrivesInv
<1>3. CASE Assemble
  <2>1. PICK j \in DOMAIN wire : wire[j] \in Packet /\ Strip(wire[j])
    BY <1>0, <1>3, AssembleFacts
  <2>2. shown' = shown
    BY <1>3 DEF Assemble
  <2>3. CASE UNCHANGED <<seen, metaQueue, crowded, stripped>>
    BY <1>2, <2>2, <2>3
  <2>4. CASE ~ UNCHANGED <<seen, metaQueue, crowded, stripped>>
    <3>1. /\ wire[j].meta \in Nat /\ stripped' = Append(stripped, wire[j].frame)
          /\ wire[j].frame \in Nat /\ stripped \in Seq(Nat)
      BY <1>0, <2>1, <2>4, Entering, PacketFacts DEF NetTypes
    <3>2. \A a \in DOMAIN stripped' : \/ a \in DOMAIN stripped /\ stripped'[a] = stripped[a]
                                      \/ stripped'[a] = wire[j].frame
      BY <3>1, AppendFacts
    <3>3. ASSUME NEW i \in DOMAIN shown, shown[i].meta = NoMeta,
                 \E a \in DOMAIN stripped' : stripped'[a] = shown[i].frame
          PROVE  Missed(i, crowded', shown', stripped')
      <4>1. CASE \E a \in DOMAIN stripped : stripped[a] = shown[i].frame
        BY <1>1, <3>3, <4>1
      <4>2. CASE wire[j].frame = shown[i].frame
        <5>1. wire[j].meta # NoMeta
          BY <3>1, ModesAssumption
        <5>2. \E a \in DOMAIN stripped : stripped[a] = shown[i].frame
          BY <3>3, <4>2, <5>1 DEF ShownInv
        <5> QED
          BY <1>1, <3>3, <5>2
      <4> QED
        BY <3>2, <3>3, <4>1, <4>2
    <3> QED
      BY <2>2, <3>3 DEF ArrivesInv
  <2> QED
    BY <2>3, <2>4
<1>4. ASSUME NEW p \in buffer, Show(p) PROVE ArrivesInv'
  <2> DEFINE x == [frame |-> p.frame, meta |-> IF Match(p) = 0 THEN NoMeta
                                               ELSE metaQueue[Match(p)].meta]
             n == Len(shown) + 1
  <2>1. /\ shown' = Append(shown, x) /\ x \in Shown /\ p.frame > decoded /\ p \in Packet
        /\ Match(p) = 0 => \A k \in DOMAIN metaQueue : metaQueue[k].key # Key(p)
        /\ Match(p) # 0 => metaQueue[Match(p)] \in Entry
    BY <1>0, <1>4, ShowFacts
  <2>2. UNCHANGED <<stripped, crowded>>
    BY <1>4 DEF Show
  <2>3. x.frame = p.frame /\ x.meta = IF Match(p) = 0 THEN NoMeta ELSE metaQueue[Match(p)].meta
    OBVIOUS
  <2>4. x.meta = NoMeta => Match(p) = 0
    BY <2>1, <2>3, ModesAssumption DEF Entry
  <2> HIDE DEF x
  <2>5. /\ \A i \in DOMAIN shown' : \/ i \in DOMAIN shown /\ shown'[i] = shown[i]
                                    \/ i = n /\ shown'[i] = x
        /\ n \in DOMAIN shown' /\ shown'[n] = x
        /\ \A i \in DOMAIN shown : i \in DOMAIN shown' /\ shown'[i] = shown[i]
    BY <1>0, <2>1, AppendFacts
  <2>6. ASSUME x.meta = NoMeta, NEW a \in DOMAIN stripped, stripped[a] = p.frame
        PROVE  Missed(n, crowded', shown', stripped')
    <3>1. a <= Gone
      <4> SUFFICES ASSUME ~ (a <= Gone) PROVE FALSE
        OBVIOUS
      <4> DEFINE k == a - Gone
      <4>1. k \in DOMAIN metaQueue /\ Gone + k = a
        BY <1>0
      <4> HIDE DEF k
      <4>2. metaQueue[k].frame = p.frame
        BY <2>6, <4>1 DEF SuffixInv
      <4>3. metaQueue[k].key = Key(p)
        BY <4>1, <4>2 DEF KeyInv
      <4> QED
        BY <2>1, <2>4, <2>6, <4>1, <4>3
    <3>2. Settled(p.frame, crowded, shown, stripped)
      <4>1. a \in 1 .. Gone
        BY <1>0, <3>1
      <4> QED
        BY <2>6, <4>1 DEF SettledInv
    <3>3. \A j \in DOMAIN shown : shown[j].frame # p.frame
      <4>1. \A j \in DOMAIN shown : shown[j].frame \in Nat /\ shown[j].frame <= decoded
        <5>1. \A j \in DOMAIN shown : shown[j] \in Shown
          BY <1>0
        <5> QED
          BY <5>1 DEF ShownInv, Shown
      <4>2. p.frame \in Nat
        BY <2>1, PacketFacts
      <4> QED
        BY <1>0, <2>1, <4>1, <4>2
    <3>4. CASE p.frame \in crowded
      BY <2>2, <2>3, <2>5, <3>4 DEF Missed
    <3>5. ASSUME NEW j \in DOMAIN shown, NEW c \in DOMAIN stripped, NEW b \in DOMAIN stripped,
                 c < b, stripped[c] = p.frame, stripped[b] = shown[j].frame
          PROVE  Missed(n, crowded', shown', stripped')
      <4>1. j \in 1 .. (n - 1)
        BY <1>0
      <4>2. shown'[n].frame = p.frame /\ shown'[j].frame = shown[j].frame
        BY <2>3, <2>5
      <4> HIDE DEF n
      <4> QED
        BY <2>2, <3>5, <4>1, <4>2 DEF Missed
    <3> QED
      BY <3>2, <3>3, <3>4, <3>5 DEF Settled
  <2> HIDE DEF n
  <2>7. ASSUME NEW i \in DOMAIN shown', shown'[i].meta = NoMeta,
               \E a \in DOMAIN stripped' : stripped'[a] = shown'[i].frame
        PROVE  Missed(i, crowded', shown', stripped')
    <3>1. CASE i \in DOMAIN shown /\ shown'[i] = shown[i]
      BY <1>1, <2>2, <2>7, <3>1
    <3>2. CASE i = n /\ shown'[i] = x
      BY <2>2, <2>3, <2>6, <2>7, <3>2
    <3> QED
      BY <2>5, <3>1, <3>2
  <2> QED
    BY <2>7 DEF ArrivesInv
<1>5. CASE UNCHANGED <<shown, stripped>>
  BY <1>2, <1>5
<1> QED
  BY <1>3, <1>4, <1>5, NetSteps DEF Embed, Encodes, Lose, receiveVars, historyVars, netVars

-----------------------------------------------------------------------------
(* The theorems.                                                           *)

IInv ==
    /\ BaseInv /\ InputInv /\ FifoInv /\ SentInv
    /\ NetInv /\ KeyInv /\ SuffixInv /\ SettledInv /\ ShownInv /\ ArrivesInv

LEMMA InvInit == ASSUME Aligned, Init PROVE IInv
<1>1. BaseInv /\ ModeInv
  BY BaseInit DEF BaseInv
<1>2. /\ input = << >> /\ fifo = << >> /\ queue = << >> /\ pushed = << >> /\ layer = 1
      /\ wire = << >> /\ buffer = {} /\ seen = << >> /\ metaQueue = << >> /\ stripped = << >>
      /\ shown = << >> /\ sent = {} /\ crowded = {} /\ attached = mode.early
      /\ \A t \in Pushers : push[t].at = "idle"
  BY DEF Init, NoPush
<1>3. InputInv /\ SentInv
  BY <1>2 DEF InputInv, SentInv
<1>4. FifoInv
  <2>1. ~ Raw => attached
    BY <1>1, <1>2, AlignedMode
  <2>2. ~ \E t \in Pushers : push[t].at = "queue"
    BY <1>2
  <2>3. Len(fifo) = 0 /\ Len(queue) = 0 /\ DOMAIN queue = {}
    BY <1>2
  <2> QED
    BY <1>2, <2>1, <2>2, <2>3 DEF FifoInv
<1>5. NetInv /\ KeyInv
  BY <1>2 DEF NetInv, WireInv, BufferInv, EntryInv, SeenInv, KeyInv
<1>6. SuffixInv /\ SettledInv /\ ShownInv /\ ArrivesInv
  <2>1. Gone = 0
    BY <1>2 DEF Gone
  <2> QED
    BY <1>2, <2>1 DEF SuffixInv, SettledInv, ShownInv, ArrivesInv
<1> QED
  BY <1>1, <1>3, <1>4, <1>5, <1>6 DEF IInv

LEMMA InvStep == ASSUME Aligned, IInv, [Next]_vars PROVE IInv'
BY BaseStep, InputInvStep, FifoInvStep, SentInvStep, NetInvStep, KeyInvStep, SuffixInvStep,
   SettledInvStep, ShownInvStep, ArrivesInvStep DEF IInv

\* A frame goes out, and is shown, with the metadata it was pushed with or with none,
\* never with another's but where the code's own keys are shared: see OwnMetadata
\* (ComposedSlot::run, SenderMetaSource::take, take_receiver_meta).  Of every raw
\* track, however many threads, layers and dropped frames it has; and of every
\* pre-encoded track that is aligned.
THEOREM NeverAnothers == Aligned => (Spec => []OwnMetadata)
<1> SUFFICES ASSUME Aligned PROVE Spec => []OwnMetadata
  OBVIOUS
<1>1. IInv => OwnMetadata
  <2> SUFFICES ASSUME IInv PROVE OwnMetadata
    OBVIOUS
  <2>1. ASSUME NEW s \in sent, s.meta \notin {NoMeta, s.frame}
        PROVE  \/ Raw /\ (s.frame \notin Marked \/ s.ms < pushed[s.frame].ms)
               \/ Shifted(s.frame) /\ s.meta > s.frame
    <3>1. \/ Raw /\ (~ pushed[s.frame].marked \/ s.ms < pushed[s.frame].ms)
          \/ ~ Raw /\ ~ AllMarked(pushed, s.frame) /\ s.meta > s.frame
      BY <2>1 DEF IInv, SentInv
    <3> QED
      BY <3>1 DEF Marked, Shifted, AllMarked
  <2>2. ASSUME NEW i \in DOMAIN shown, shown[i].meta # NoMeta
        PROVE  \E s \in sent : s.frame = shown[i].frame /\ s.meta = shown[i].meta
    BY <2>2 DEF IInv, ShownInv
  <2> QED
    BY <2>1, <2>2 DEF OwnMetadata
<1> QED
  BY <1>1, InvInit, InvStep, PTL DEF Spec

\* While the gate is open every layer of a frame pushed with metadata goes out with
\* it, unless the table's cap has evicted it, libwebrtc has set the frame's capture
\* time back, or a frame pushed without metadata has shifted the FIFO (take reads
\* the table and does not erase; the FIFO is asked whether or not the gate is open).
THEOREM AlwaysEmbedded == Aligned => (Spec => []Embedded)
<1> SUFFICES ASSUME Aligned PROVE Spec => []Embedded
  OBVIOUS
<1>1. IInv => Embedded
  <2> SUFFICES ASSUME IInv, NEW s \in sent, s.due, s.frame \in Marked,
                      Raw => s.ms = pushed[s.frame].ms, ~ Shifted(s.frame)
               PROVE  s.meta = s.frame
    BY DEF Embedded
  <2>1. PushTypes /\ QueueInv
    BY DEF IInv, BaseInv
  <2>2. s.frame \in 1 .. Len(pushed) /\ Len(pushed) \in Nat /\ DOMAIN pushed = 1 .. Len(pushed)
    BY <2>1, Elements DEF QueueInv
  <2>3. Raw \/ AllMarked(pushed, s.frame)
    BY <2>2 DEF Shifted, Marked, AllMarked
  <2> QED
    BY <2>3 DEF IInv, SentInv, Marked
<1> QED
  BY <1>1, InvInit, InvStep, PTL DEF Spec

\* A frame whose trailer came off is shown with its metadata, in whatever order
\* frames are lost, repeated, assembled and skipped by the decoder, unless the cap
\* of the queue has evicted it or a frame assembled later was shown earlier
\* (take_receiver_meta, which drops the entries before the one it finds).
THEOREM Arrival == Aligned => (Spec => []MetadataArrives)
<1> SUFFICES ASSUME Aligned PROVE Spec => []MetadataArrives
  OBVIOUS
<1>1. IInv => MetadataArrives
  <2> SUFFICES ASSUME IInv, NEW i \in DOMAIN shown, shown[i].meta = NoMeta,
                      shown[i].frame \in ToSet(stripped)
               PROVE  \/ shown[i].frame \in crowded
                      \/ \E j \in 1 .. (i - 1) : QueuedBehind(shown[j].frame, shown[i].frame)
    BY DEF MetadataArrives
  <2>1. \E a \in DOMAIN stripped : stripped[a] = shown[i].frame
    BY DEF ToSet
  <2> QED
    BY <2>1 DEF IInv, ArrivesInv, Missed, QueuedBehind
<1> QED
  BY <1>1, InvInit, InvStep, PTL DEF Spec

=============================================================================
