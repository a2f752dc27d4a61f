----------------------- MODULE EncoderRegistry_proofs -----------------------
(***************************************************************************)
(* Theorems about EncoderRegistry, for any tracks, application threads and   *)
(* bounds.                                                                 *)
(***************************************************************************)
EXTENDS EncoderRegistry, SequenceTheorems, TLAPS

-----------------------------------------------------------------------------
(* The inductive invariant.                                                *)

\* A mutex is held exactly where the code has it.
HoldsPending  == {"push", "retain", "lookPending", "scanPending", "pop", "lastLook"}
HoldsAssigned == {"lookAssigned", "degrade", "scanAssigned", "lookup", "take", "pop", "noneLeft",
                  "lastLook", "insert", "entry"}

LockInv ==
    \A t \in Threads :
        /\ pendingLock = t <=> pc[t] \in HoldsPending
        /\ assignedLock = t <=> pc[t] \in HoldsAssigned

\* Each thread keeps to its own calls.
Adding     == {"add", "push"}
Retracted  == {"othersLeft", "lookPending", "othersBound", "lookAssigned", "degradeLock", "degrade"}
Retracting == {"retract", "retain"} \cup Retracted
Listing    == {"list", "scanPending", "listAssigned", "scanAssigned", "listed"}
Encoding   == {"create", "lookup", "take", "pop", "noneLeft", "lastLook", "insert", "encode",
               "entry", "route"}

RoleInv ==
    /\ \A t \in AppThreads : pc[t] \in Adding \cup Retracting \cup {"idle"}
    /\ pc[Signaling] \in Listing \cup {"idle"}
    /\ \A k \in Tracks : pc[k] \in Encoding \cup {"idle"}
    /\ \A k \in Tracks : encoder[k] \in Encoders \cup {0}
    /\ \A k \in Tracks : pc[k] \in Encoding \/ isCustom[k] => encoder[k] \in Encoders
    /\ \A k \in Tracks : pc[k] = "insert" => about[k] \in Tracks
    /\ \A k \in Tracks : pc[k] \in {"take", "pop", "insert"} => assigned[encoder[k]] = NoSlot

\* Where a track stands while a call is about it, and what the tables hold of it.
CallInv ==
    /\ \A t \in AppThreads :
          /\ pc[t] \in Adding => about[t] \in Tracks /\ track[about[t]] = "made"
          /\ pc[t] \in Retracting => about[t] \in Tracks /\ track[about[t]] = "dropping"
          /\ pc[t] \in Retracted => about[t] \notin Range(pending)
    /\ \A t, u \in AppThreads :
          t # u /\ pc[t] # "idle" /\ pc[u] # "idle" => about[t] # about[u]

TableInv ==
    /\ \A k \in Range(pending) : track[k] \in {"live", "dropping"}
    /\ \A k \in CustomSlots : track[k] \in {"live", "dropping"}

\* What has_custom was asked about stays in the tables until it is dropped, and
\* once `pending` has been looked through it is not there.
ListInv ==
    /\ pc[Signaling] \in Listing =>
          \A k \in existed : /\ track[k] \in {"live", "dropping", "gone"}
                             /\ track[k] = "live" => k \in CustomSlots
    /\ pc[Signaling] \in {"listAssigned", "scanAssigned"} =>
          \A k \in existed : track[k] = "live" => k \notin Range(pending) \cap Custom

IInv == TypeOK /\ LockInv /\ RoleInv /\ CallInv /\ TableInv /\ ListInv /\ NoCustomMissed

-----------------------------------------------------------------------------
(* Facts about the operators.                                              *)

\* Without leaves out one place of the sequence, if k is there.
LEMMA WithoutIs ==
    ASSUME NEW s \in Seq(Tracks), NEW k, \E i \in DOMAIN s : s[i] = k
    PROVE  \E n \in 1 .. Len(s) :
              /\ s[n] = k
              /\ Without(s, k) = [i \in 1 .. Len(s) - 1 |-> IF i < n THEN s[i] ELSE s[i + 1]]
<1> DEFINE n == CHOOSE i \in DOMAIN s : s[i] = k
           w == [i \in 1 .. Len(s) - 1 |-> IF i < n THEN s[i] ELSE s[i + 1]]
<1>1. n \in 1 .. Len(s) /\ s[n] = k
  OBVIOUS
<1>2. Without(s, k) = w
  <2> HIDE DEF n
  <2>1. Without(s, k) = SubSeq(s, 1, n - 1) \o SubSeq(s, n + 1, Len(s))
    BY DEF Without, n
  <2> DEFINE A == SubSeq(s, 1, n - 1)
             B == SubSeq(s, n + 1, Len(s))
  <2>2. A \in Seq(Tracks) /\ Len(A) = n - 1 /\ \A i \in 1 .. n - 1 : A[i] = s[i]
    BY <1>1
  <2>3. /\ B \in Seq(Tracks) /\ Len(B) = Len(s) - n
        /\ \A i \in 1 .. Len(s) - n : B[i] = s[i + n]
    BY <1>1
  <2> HIDE DEF A, B
  <2>4. /\ A \o B \in Seq(Tracks) /\ Len(A \o B) = Len(s) - 1
        /\ \A i \in 1 .. Len(s) - 1 :
              (A \o B)[i] = IF i <= n - 1 THEN A[i] ELSE B[i - (n - 1)]
    <3>1. /\ A \o B \in Seq(Tracks) /\ Len(A \o B) = Len(A) + Len(B)
          /\ \A i \in 1 .. Len(A) + Len(B) :
                (A \o B)[i] = IF i <= Len(A) THEN A[i] ELSE B[i - Len(A)]
      BY <2>2, <2>3, ConcatProperties
    <3>2. Len(A) + Len(B) = Len(s) - 1
      BY <1>1, <2>2, <2>3
    <3> QED
      BY <3>1, <3>2, <2>2
  <2>5. ASSUME NEW i \in 1 .. Len(s) - 1 PROVE (A \o B)[i] = w[i]
    <3>1. CASE i < n
      BY <1>1, <2>2, <2>4, <3>1
    <3>2. CASE ~ i < n
      <4>1. i - (n - 1) \in 1 .. Len(s) - n /\ i - (n - 1) + n = i + 1
        BY <1>1, <3>2
      <4>2. (A \o B)[i] = B[i - (n - 1)]
        BY <1>1, <2>4, <3>2
      <4>3. B[i - (n - 1)] = s[i + 1]
        BY <2>3, <4>1
      <4> QED
        BY <1>1, <3>2, <4>2, <4>3
    <3> QED
      BY <3>1, <3>2
  <2>6. w \in Seq(Tracks) /\ Len(w) = Len(s) - 1
    BY <1>1
  <2>7. A \o B = w
    BY <2>4, <2>5, <2>6, SeqEqual
  <2> QED
    BY <2>1, <2>7 DEF A, B
<1> QED
  BY <1>1, <1>2

\* What Without leaves: a sequence without repetitions stays one, and only k goes.
LEMMA WithoutFacts ==
    ASSUME NEW s \in Seq(Tracks), NEW k,
           \A i, j \in DOMAIN s : s[i] = s[j] => i = j
    PROVE  /\ Without(s, k) \in Seq(Tracks)
           /\ \A i, j \in DOMAIN Without(s, k) : Without(s, k)[i] = Without(s, k)[j] => i = j
           /\ Range(Without(s, k)) = Range(s) \ {k}
<1>1. CASE ~ \E i \in DOMAIN s : s[i] = k
  BY <1>1 DEF Without, Range
<1>2. CASE \E i \in DOMAIN s : s[i] = k
  <2>0. PICK n \in 1 .. Len(s) :
           /\ s[n] = k
           /\ Without(s, k) = [i \in 1 .. Len(s) - 1 |-> IF i < n THEN s[i] ELSE s[i + 1]]
    BY <1>2, WithoutIs
  <2> DEFINE w == [i \in 1 .. Len(s) - 1 |-> IF i < n THEN s[i] ELSE s[i + 1]]
  <2>1. n \in 1 .. Len(s) /\ s[n] = k
    BY <2>0
  <2>2. Without(s, k) = w
    BY <2>0
  <2>3. w \in Seq(Tracks) /\ DOMAIN w = 1 .. Len(s) - 1
    BY <2>1
  <2>4. \A i, j \in DOMAIN w : w[i] = w[j] => i = j
    BY <2>1, <2>3
  <2>5. \A x : x \in Range(w) => x \in Range(s) \ {k}
    BY <2>1, <2>3 DEF Range
  <2>6. ASSUME NEW i \in 1 .. Len(s), s[i] # k PROVE s[i] \in Range(w)
    <3>1. CASE i < n
      BY <2>1, <2>3, <3>1 DEF Range
    <3>2. CASE i > n
      <4>1. i - 1 \in DOMAIN w /\ w[i - 1] = s[i]
        BY <2>1, <2>3, <3>2
      <4> QED
        BY <4>1 DEF Range
    <3> QED
      BY <2>1, <2>6, <3>1, <3>2
  <2>7. \A x : x \in Range(s) \ {k} => x \in Range(w)
    BY <2>6 DEF Range
  <2> QED
    BY <2>2, <2>3, <2>4, <2>5, <2>7
<1> QED
  BY <1>1, <1>2

\* and what is left stays in order.
LEMMA WithoutOrder ==
    ASSUME NEW s \in Seq(Tracks), NEW k,
           NEW i \in DOMAIN Without(s, k), NEW j \in DOMAIN Without(s, k), i < j
    PROVE  \E a, b \in DOMAIN s :
              a < b /\ s[a] = Without(s, k)[i] /\ s[b] = Without(s, k)[j]
<1>1. CASE ~ \E l \in DOMAIN s : s[l] = k
  <2>1. Without(s, k) = s
    BY <1>1 DEF Without
  <2> QED
    BY <2>1
<1>2. CASE \E l \in DOMAIN s : s[l] = k
  <2>1. PICK n \in 1 .. Len(s) :
           /\ s[n] = k
           /\ Without(s, k) = [l \in 1 .. Len(s) - 1 |-> IF l < n THEN s[l] ELSE s[l + 1]]
    BY <1>2, WithoutIs
  <2> DEFINE at(l) == IF l < n THEN l ELSE l + 1
  <2>2. i \in 1 .. Len(s) - 1 /\ j \in 1 .. Len(s) - 1
    BY <2>1
  <2>3. at(i) \in DOMAIN s /\ at(j) \in DOMAIN s /\ at(i) < at(j)
    BY <2>2
  <2>4. s[at(i)] = Without(s, k)[i] /\ s[at(j)] = Without(s, k)[j]
    BY <2>1, <2>2
  <2> HIDE DEF at
  <2> QED
    BY <2>3, <2>4
<1> QED
  BY <1>1, <1>2

\* What a queue holds after its end grows or its head goes.
LEMMA AppendFacts ==
    ASSUME NEW s \in Seq(Tracks), NEW k \in Tracks
    PROVE  Range(Append(s, k)) = Range(s) \cup {k}
<1>1. /\ DOMAIN Append(s, k) = 1 .. Len(s) + 1 /\ DOMAIN s = 1 .. Len(s) /\ Len(s) \in Nat
      /\ \A i \in 1 .. Len(s) : Append(s, k)[i] = s[i]
      /\ Append(s, k)[Len(s) + 1] = k
  OBVIOUS
<1>2. \A x \in Range(Append(s, k)) : x \in Range(s) \cup {k}
  BY <1>1 DEF Range
<1>3. \A x \in Range(s) \cup {k} : x \in Range(Append(s, k))
  BY <1>1 DEF Range
<1> QED
  BY <1>2, <1>3

LEMMA TailFacts ==
    ASSUME NEW s \in Seq(Tracks), s # <<>>
    PROVE  Range(s) = Range(Tail(s)) \cup {Head(s)}
<1>1. /\ DOMAIN Tail(s) = 1 .. Len(s) - 1 /\ DOMAIN s = 1 .. Len(s) /\ Len(s) \in Nat \ {0}
      /\ \A i \in 1 .. Len(s) - 1 : Tail(s)[i] = s[i + 1]
      /\ Head(s) = s[1]
  OBVIOUS
<1>2. ASSUME NEW x \in Range(s) PROVE x \in Range(Tail(s)) \cup {Head(s)}
  <2>1. PICK i \in 1 .. Len(s) : x = s[i]
    BY <1>1, <1>2 DEF Range
  <2>2. CASE i = 1
    BY <1>1, <2>1, <2>2
  <2>3. CASE i # 1
    <3>1. i - 1 \in 1 .. Len(s) - 1 /\ Tail(s)[i - 1] = x
      BY <1>1, <2>1, <2>3
    <3> QED
      BY <1>1, <3>1 DEF Range
  <2> QED
    BY <2>2, <2>3
<1>3. \A x \in Range(Tail(s)) \cup {Head(s)} : x \in Range(s)
  BY <1>1 DEF Range
<1> QED
  BY <1>2, <1>3

\* The three places a custom slot can be in.
Reserved(k) == k \in Range(pending) /\ k \in Custom
Bound(k)    == \E e \in Encoders : assigned[e].custom /\ assigned[e].track = k
InHand(k)   == k \in Custom /\ \E j \in Tracks : pc[j] = "insert" /\ about[j] = k

LEMMA SlotPlaces ==
    /\ \A k : k \in CustomSlots <=> Reserved(k) \/ Bound(k) \/ InHand(k)
    /\ (\A k : k \in CustomSlots <=> Reserved(k) \/ Bound(k) \/ InHand(k))'
BY DEF CustomSlots, Reserved, Bound, InHand

\* Custom slots are tracks'.
LEMMA SlotsOfTracks == ASSUME TypeOK PROVE CustomSlots \subseteq Tracks
<1>1. \A e \in Encoders : assigned[e].custom => assigned[e].track \in Tracks
  <2> SUFFICES ASSUME NEW e \in Encoders, assigned[e].custom PROVE assigned[e].track \in Tracks
    OBVIOUS
  <2>1. assigned[e] \in Slot \cup {NoSlot}
    BY DEF TypeOK
  <2> QED
    BY <2>1 DEF Slot, NoSlot
<1> QED
  BY <1>1, TracksAssumption DEF CustomSlots

\* The places a thread can be in, and where it goes on from waiting for a mutex.
LEMMA LabelFacts ==
    /\ {"idle", "add", "push", "retract", "retain", "othersLeft", "lookPending", "othersBound",
        "lookAssigned", "degradeLock", "degrade"} \subseteq Labels
    /\ {"list", "scanPending", "listAssigned", "scanAssigned", "listed"} \subseteq Labels
    /\ {"create", "lookup", "take", "pop", "noneLeft", "lastLook", "insert", "encode", "entry",
        "route"} \subseteq Labels
    /\ \A l \in DOMAIN WantsPending : WantsPending[l] \in Labels
    /\ \A l \in DOMAIN WantsAssigned : WantsAssigned[l] \in Labels
BY DEF Labels, WantsPending, WantsAssigned

-----------------------------------------------------------------------------
(* The initial states.                                                     *)

LEMMA InitInv == Init => IInv
<1> SUFFICES ASSUME Init PROVE IInv
  OBVIOUS
<1> USE TracksAssumption, ThreadsAssumption, BoundsAssumption DEF Init
<1>1. \A k : k \notin CustomSlots
  BY SlotPlaces DEF Reserved, Bound, InHand, Range, NoSlot, Threads
<1>2. TypeOK
  <2>1. /\ pc \in [Threads -> Labels] /\ about \in [Threads -> Tracks \cup {NoTrack}]
        /\ pendingLock \in Threads \cup {NoThread} /\ assignedLock \in Threads \cup {NoThread}
    BY LabelFacts
  <2>2. assigned \in [Encoders -> Slot \cup {NoSlot}] /\ owner \in [Encoders -> Tracks \cup {NoTrack}]
    OBVIOUS
  <2>3. nextId \in Nat /\ encoder \in [Tracks -> Nat] /\ listings \in Nat
    OBVIOUS
  <2>4. /\ pending \in Seq(Tracks) /\ order \in Seq(Tracks)
        /\ \A i, j \in DOMAIN pending : pending[i] = pending[j] => i = j
    OBVIOUS
  <2>5. /\ track \in [Tracks -> {"none", "made", "live", "dropping", "gone"}]
        /\ isCustom \in [Tracks -> BOOLEAN] /\ existed \in SUBSET Tracks
        /\ found \in BOOLEAN /\ shifted \in BOOLEAN
    OBVIOUS
  <2> HIDE DEF Init
  <2> QED
    BY <2>1, <2>2, <2>3, <2>4, <2>5 DEF TypeOK
<1>3. LockInv /\ RoleInv
  BY DEF LockInv, RoleInv, HoldsPending, HoldsAssigned, Threads, Encoding
<1>4. CallInv /\ ListInv /\ NoCustomMissed
  BY DEF CallInv, ListInv, NoCustomMissed, Threads, Adding, Retracting, Retracted, Listing
<1>5. TableInv
  BY <1>1 DEF TableInv, Range
<1> QED
  BY <1>2, <1>3, <1>4, <1>5 DEF IInv

-----------------------------------------------------------------------------
(* Every step keeps the types and the locks.                                *)

LEMMA TypeStep == ASSUME IInv, Next PROVE TypeOK'
<1> USE TracksAssumption, ThreadsAssumption, BoundsAssumption
<1> USE DEF Goto, registryVars, lockVars, nativeVars, listVars
<1>00. /\ {"idle", "add", "push", "retract", "retain", "othersLeft", "lookPending", "othersBound",
        "lookAssigned", "degradeLock", "degrade"} \subseteq Labels
       /\ {"list", "scanPending", "listAssigned", "scanAssigned", "listed"} \subseteq Labels
       /\ {"create", "lookup", "take", "pop", "noneLeft", "lastLook", "insert", "encode", "entry",
        "route"} \subseteq Labels
       /\ AppThreads \subseteq Threads /\ Tracks \subseteq Threads /\ Signaling \in Threads
  BY LabelFacts DEF Threads
<1>0. TypeOK /\ RoleInv /\ CallInv /\ TableInv
  BY DEF IInv
<1>1. ASSUME NEW t \in Threads, LockPending(t) \/ LockAssigned(t) PROVE TypeOK'
  BY <1>0, <1>00, <1>1, LabelFacts DEF TypeOK, LockPending, LockAssigned
<1>2. ASSUME NEW t \in AppThreads, NEW k \in Tracks, CreateTrack(t, k) \/ DropTrack(t, k)
      PROVE  TypeOK'
  <2>1. CASE CreateTrack(t, k)
    BY <1>0, <1>00, <2>1 DEF TypeOK, CreateTrack
  <2>2. CASE DropTrack(t, k)
    <3>1. shifted' \in BOOLEAN
      BY <2>2 DEF DropTrack
    <3> QED
      BY <1>0, <1>00, <2>2, <3>1 DEF TypeOK, DropTrack
  <2> QED
    BY <1>2, <2>1, <2>2
<1>3. ASSUME NEW t \in AppThreads, AddSlot(t) PROVE TypeOK'
  <2>1. about[t] \in Tracks /\ about[t] \notin Range(pending)
    BY <1>0, <1>00, <1>3 DEF AddSlot, CallInv, TableInv, Adding
  <2>2. /\ pending' \in Seq(Tracks)
        /\ \A i, j \in DOMAIN pending' : pending'[i] = pending'[j] => i = j
    BY <1>0, <1>00, <1>3, <2>1 DEF TypeOK, AddSlot, Range
  <2> QED
    BY <1>0, <1>00, <1>3, <2>1, <2>2 DEF TypeOK, AddSlot
<1>4. ASSUME NEW t \in AppThreads, RetractPending(t) PROVE TypeOK'
  <2>1. /\ pending' \in Seq(Tracks)
        /\ \A i, j \in DOMAIN pending' : pending'[i] = pending'[j] => i = j
    BY <1>0, <1>00, <1>4, WithoutFacts DEF TypeOK, RetractPending
  <2> QED
    BY <1>0, <1>00, <1>4, <2>1 DEF TypeOK, RetractPending
<1>12. ASSUME NEW t \in AppThreads, LookPending(t) \/ LookAssigned(t) PROVE TypeOK'
  <2>1. CASE LookPending(t)
    BY <1>0, <1>00, <2>1 DEF TypeOK, LookPending
  <2>2. CASE LookAssigned(t)
    BY <1>0, <1>00, <2>2 DEF TypeOK, LookAssigned
  <2> QED
    BY <1>12, <2>1, <2>2
<1>5. ASSUME NEW t \in AppThreads, RetractAssigned(t) PROVE TypeOK'
  <2>1. about[t] \in Tracks
    BY <1>0, <1>00, <1>5 DEF RetractAssigned, CallInv, Retracting, Retracted
  <2>2. assigned' \in [Encoders -> Slot \cup {NoSlot}]
    <3> SUFFICES ASSUME NEW e \in Encoders PROVE assigned'[e] \in Slot \cup {NoSlot}
      BY <1>5 DEF RetractAssigned
    <3>1. assigned[e] \in Slot \cup {NoSlot} /\ about[t] # NoTrack
      BY <1>0, <2>1 DEF TypeOK
    <3> QED
      BY <1>5, <2>1, <3>1 DEF RetractAssigned, Slot, NoSlot
  <2> QED
    BY <1>0, <1>00, <1>5, <2>1, <2>2 DEF TypeOK, RetractAssigned
<1>6. ASSUME ListStep PROVE TypeOK'
  <2>1. CustomSlots \subseteq Tracks
    BY <1>0 DEF TypeOK, CustomSlots, Range, Slot, NoSlot
  <2>2. CASE ListCodecs
    <3>1. listings' \in Nat
      BY <1>0, <2>2 DEF TypeOK, ListCodecs
    <3> QED
      BY <1>0, <1>00, <2>1, <2>2, <3>1 DEF TypeOK, ListCodecs
  <2>5. CASE CodecsListed
    BY <1>0, <1>00, <2>5 DEF TypeOK, CodecsListed
  <2>3. CASE ScanPending
    BY <1>0, <1>00, <2>3 DEF TypeOK, ScanPending
  <2>4. CASE ScanAssigned
    BY <1>0, <1>00, <2>4 DEF TypeOK, ScanAssigned, AnyBound
  <2> QED
    BY <1>6, <2>2, <2>3, <2>4, <2>5 DEF ListStep
<1>7. ASSUME NEW k \in Tracks, CreateEncoder(k) PROVE TypeOK'
  <2>1. nextId' \in Nat /\ encoder' \in [Tracks -> Nat] /\ shifted' \in BOOLEAN
    BY <1>0, <1>7 DEF TypeOK, CreateEncoder, Encoders
  <2> QED
    BY <1>0, <1>00, <1>7, <2>1 DEF TypeOK, CreateEncoder
<1>8. ASSUME NEW k \in Tracks, Pop(k) PROVE TypeOK'
  <2>1. CASE pending # <<>>
    <3> DEFINE rest == Tail(pending)
    <3>1. /\ pending \in Seq(Tracks)
          /\ \A i, j \in DOMAIN pending : pending[i] = pending[j] => i = j
      BY <1>0 DEF TypeOK
    <3>2. /\ rest \in Seq(Tracks) /\ Head(pending) \in Tracks
          /\ Len(rest) = Len(pending) - 1
          /\ \A i \in DOMAIN rest : rest[i] = pending[i + 1]
      BY <2>1, <3>1
    <3>3. \A i, j \in DOMAIN rest : rest[i] = rest[j] => i = j
      BY <3>1, <3>2
    <3>4. pending' = rest
      BY <1>8, <2>1 DEF Pop
    <3>5. /\ pending' \in Seq(Tracks)
          /\ \A i, j \in DOMAIN pending' : pending'[i] = pending'[j] => i = j
      BY <3>2, <3>3, <3>4
    <3> HIDE DEF rest
    <3>6. pc' = [pc EXCEPT ![k] = "insert"] /\ about' = [about EXCEPT ![k] = Head(pending)]
      BY <1>8, <2>1 DEF Pop
    <3> QED
      BY <1>0, <1>00, <1>8, <2>1, <3>2, <3>5, <3>6 DEF TypeOK, Pop
  <2>2. CASE pending = <<>>
    <3>1. /\ pc' = [pc EXCEPT ![k] = "idle"] \/ pc' = [pc EXCEPT ![k] = "noneLeft"]
          /\ UNCHANGED <<pending, about>>
          /\ pendingLock' = NoThread /\ assignedLock' \in {NoThread, assignedLock}
      BY <1>8, <2>2 DEF Pop
    <3> QED
      <4>1. UNCHANGED <<assigned, nativeVars, listVars, track, order>>
        BY <1>8 DEF Pop
      <4>2. pc' \in [Threads -> Labels]
        <5>1. pc \in [Threads -> Labels] /\ k \in Threads
          BY <1>0, <1>00 DEF TypeOK
        <5>2. "idle" \in Labels /\ "noneLeft" \in Labels
          BY <1>00
        <5> QED
          BY <3>1, <5>1, <5>2
      <4>3. /\ pendingLock' \in Threads \cup {NoThread} /\ assignedLock' \in Threads \cup {NoThread}
        BY <1>0, <3>1 DEF TypeOK
      <4> QED
        BY <1>0, <3>1, <4>1, <4>2, <4>3 DEF TypeOK
  <2> QED
    BY <2>1, <2>2
<1>9. ASSUME NEW k \in Tracks, Insert(k) PROVE TypeOK'
  BY <1>0, <1>00, <1>9 DEF TypeOK, Insert, RoleInv, Slot
<1>10. ASSUME NEW k \in Tracks, Lookup(k) \/ LastLook(k) \/ Encode(k) \/ Entry(k) \/ Route(k)
       PROVE  TypeOK'
  <2>1. CASE Entry(k)
    <3>1. encoder[k] \in Encoders
      BY <1>0, <1>00, <2>1 DEF Entry, RoleInv, Encoding
    <3> QED
      BY <1>0, <1>00, <2>1, <3>1 DEF TypeOK, Entry, Slot, NoSlot
  <2>2. CASE Lookup(k)
    BY <1>0, <1>00, <2>2 DEF TypeOK, Lookup
  <2>3. CASE Encode(k)
    BY <1>0, <1>00, <2>3 DEF TypeOK, Encode
  <2>4. CASE Route(k)
    BY <1>0, <1>00, <2>4 DEF TypeOK, Route
  <2>5. CASE LastLook(k)
    BY <1>0, <1>00, <2>5 DEF TypeOK, LastLook
  <2> QED
    BY <1>10, <2>1, <2>2, <2>3, <2>4, <2>5
<1>11. ASSUME Quiet PROVE TypeOK'
  BY <1>0, <1>00, <1>11 DEF TypeOK, Quiet, vars
<1> QED
  BY <1>1, <1>2, <1>3, <1>4, <1>5, <1>6, <1>7, <1>8, <1>9, <1>10, <1>11, <1>12
     DEF Next, AppStep, EncoderStep

LEMMA LockStep == ASSUME IInv, Next PROVE LockInv'
<1> USE ThreadsAssumption
<1> USE DEF LockInv, HoldsPending, HoldsAssigned, Goto, WantsPending, WantsAssigned, lockVars
<1>0. TypeOK /\ LockInv
  BY DEF IInv
<1>00. pc \in [Threads -> Labels] /\ Signaling \in Threads /\ AppThreads \subseteq Threads
         /\ Tracks \subseteq Threads
  BY <1>0 DEF TypeOK, Threads
<1>1. ASSUME NEW t \in Threads, LockPending(t) \/ LockAssigned(t) PROVE LockInv'
  BY <1>0, <1>00, <1>1 DEF LockPending, LockAssigned
<1>2. ASSUME NEW t \in AppThreads, AppStep(t) PROVE LockInv'
  BY <1>0, <1>00, <1>2
     DEF AppStep, CreateTrack, DropTrack, AddSlot, RetractPending, LookPending, LookAssigned, RetractAssigned
<1>3. ASSUME ListStep PROVE LockInv'
  BY <1>0, <1>00, <1>3 DEF ListStep, ListCodecs, ScanPending, ScanAssigned, CodecsListed
<1>4. ASSUME NEW k \in Tracks, EncoderStep(k) PROVE LockInv'
  BY <1>0, <1>00, <1>4 DEF EncoderStep, CreateEncoder, Lookup, Pop, LastLook, Insert, Encode, Entry, Route
<1>5. ASSUME Quiet PROVE LockInv'
  BY <1>0, <1>5 DEF Quiet, vars
<1> QED
  BY <1>1, <1>2, <1>3, <1>4, <1>5 DEF Next

\* Threads stay in their own calls.
LEMMA RoleStep == ASSUME IInv, Next PROVE RoleInv'
<1> USE TracksAssumption, ThreadsAssumption, BoundsAssumption
<1> USE DEF RoleInv, Adding, Retracting, Retracted, Listing, Encoding, Goto, WantsPending, WantsAssigned,
            nativeVars, registryVars
<1>0. TypeOK /\ LockInv /\ RoleInv
  BY DEF IInv
<1>00. /\ pc \in [Threads -> Labels] /\ about \in [Threads -> Tracks \cup {NoTrack}]
       /\ encoder \in [Tracks -> Nat] /\ assigned \in [Encoders -> Slot \cup {NoSlot}]
       /\ AppThreads \subseteq Threads /\ Tracks \subseteq Threads /\ Signaling \in Threads
  BY <1>0 DEF TypeOK, Threads
<1>1. ASSUME NEW t \in Threads, LockPending(t) \/ LockAssigned(t) PROVE RoleInv'
  BY <1>0, <1>00, <1>1 DEF LockPending, LockAssigned
<1>2. ASSUME NEW t \in AppThreads, AppStep(t) PROVE RoleInv'
  <2>1. CASE RetractAssigned(t)
    <3>1. \A k \in Tracks : pc[k] \notin {"take", "pop", "insert"}
      BY <1>0, <1>00, <2>1 DEF RetractAssigned, LockInv, HoldsAssigned
    <3> QED
      BY <1>0, <1>00, <2>1, <3>1 DEF RetractAssigned
  <2>2. CASE ~ RetractAssigned(t)
    BY <1>0, <1>00, <1>2, <2>2 DEF AppStep, CreateTrack, DropTrack, AddSlot, RetractPending, LookPending,
       LookAssigned
  <2> QED
    BY <2>1, <2>2
<1>3. ASSUME ListStep PROVE RoleInv'
  <2>1. /\ UNCHANGED <<assigned, about, encoder, isCustom>>
        /\ \A t \in Threads : t # Signaling => pc'[t] = pc[t]
        /\ pc'[Signaling] \in Listing \cup {"idle"}
    BY <1>00, <1>3 DEF ListStep, ListCodecs, ScanPending, ScanAssigned, CodecsListed
  <2> QED
    BY <1>0, <1>00, <2>1
<1>4. ASSUME NEW k \in Tracks, EncoderStep(k) PROVE RoleInv'
  <2>1. CASE CreateEncoder(k)
    BY <1>0, <1>00, <2>1 DEF CreateEncoder
  <2>2. CASE Lookup(k)
    BY <1>0, <1>00, <2>2 DEF Lookup
  <2>3. CASE Pop(k)
    <3>1. pending # <<>> => Head(pending) \in Tracks
      BY <1>0 DEF TypeOK
    <3> QED
      BY <1>0, <1>00, <2>3, <3>1 DEF Pop
  <2>4. CASE Insert(k)
    <3>1. \A j \in Tracks : j # k => pc[j] \notin {"take", "pop", "insert"}
      BY <1>0, <1>00, <2>4 DEF Insert, LockInv, HoldsAssigned
    <3> QED
      BY <1>0, <1>00, <2>4, <3>1 DEF Insert
  <2>5. CASE Encode(k)
    BY <1>0, <1>00, <2>5 DEF Encode
  <2>7. CASE Route(k)
    BY <1>0, <1>00, <2>7 DEF Route
  <2>8. CASE LastLook(k)
    BY <1>0, <1>00, <2>8 DEF LastLook
  <2>6. CASE Entry(k)
    BY <1>0, <1>00, <2>6 DEF Entry
  <2> QED
    BY <1>4, <2>1, <2>2, <2>3, <2>4, <2>5, <2>6, <2>7, <2>8 DEF EncoderStep
<1>5. ASSUME Quiet PROVE RoleInv'
  BY <1>0, <1>5 DEF Quiet, vars
<1> QED
  BY <1>1, <1>2, <1>3, <1>4, <1>5 DEF Next

-----------------------------------------------------------------------------
(* Where the custom slots are.                                             *)

\* Only a new track brings a custom slot, and only a drop takes one away.
LEMMA SlotsStep ==
    ASSUME IInv, Next
    PROVE  /\ \A k \in CustomSlots' :
                 k \in CustomSlots \/ \E t \in AppThreads : AddSlot(t) /\ about[t] = k
           /\ \A k \in CustomSlots : track[k] = "live" => k \in CustomSlots'
<1> DEFINE Grows == \A k : Reserved(k)' \/ Bound(k)' \/ InHand(k)' =>
                       \/ Reserved(k) \/ Bound(k) \/ InHand(k)
                       \/ \E t \in AppThreads : AddSlot(t) /\ about[t] = k
           Stays == \A k : track[k] = "live" /\ (Reserved(k) \/ Bound(k) \/ InHand(k)) =>
                       Reserved(k)' \/ Bound(k)' \/ InHand(k)'
<1> SUFFICES Grows /\ Stays
  BY SlotPlaces
<1>0. TypeOK /\ LockInv /\ RoleInv /\ CallInv
  BY DEF IInv
<1>00. /\ pc \in [Threads -> Labels] /\ about \in [Threads -> Tracks \cup {NoTrack}]
       /\ assigned \in [Encoders -> Slot \cup {NoSlot}] /\ pending \in Seq(Tracks)
       /\ \A i, j \in DOMAIN pending : pending[i] = pending[j] => i = j
       /\ AppThreads \subseteq Threads /\ Tracks \subseteq Threads /\ Signaling \in Threads
       /\ AppThreads \cap Tracks = {} /\ Signaling \notin AppThreads \cup Tracks
  BY <1>0, ThreadsAssumption DEF TypeOK, Threads
<1> USE DEF Reserved, Bound, InHand, Goto, registryVars, WantsPending, WantsAssigned
\* A step of a thread that is in no `insert`, before or after, and moves no slot.
<1>1. ASSUME UNCHANGED registryVars, NEW t \in Threads, NEW l, pc' = [pc EXCEPT ![t] = l],
             pc[t] # "insert", l # "insert",
             \A u \in Threads : u # t => about'[u] = about[u]
      PROVE  Grows /\ Stays
  BY <1>00, <1>1
<1>2. ASSUME NEW t \in Threads, LockPending(t) \/ LockAssigned(t) PROVE Grows /\ Stays
  BY <1>1, <1>2 DEF LockPending, LockAssigned
<1>3. ASSUME NEW t \in AppThreads, NEW k \in Tracks, CreateTrack(t, k) \/ DropTrack(t, k)
      PROVE  Grows /\ Stays
  BY <1>00, <1>1, <1>3 DEF CreateTrack, DropTrack
<1>4. ASSUME NEW t \in AppThreads, AddSlot(t) PROVE Grows /\ Stays
  <2>1. Range(pending') = Range(pending) \cup {about[t]}
    <3>1. about[t] \in Tracks
      BY <1>0, <1>4 DEF AddSlot, CallInv, Adding
    <3> QED
      BY <1>00, <1>4, <3>1, AppendFacts DEF AddSlot
  <2>2. \A j \in Tracks : pc'[j] = pc[j] /\ about'[j] = about[j]
    BY <1>00, <1>4 DEF AddSlot
  <2> QED
    BY <1>4, <2>1, <2>2 DEF AddSlot
<1>5. ASSUME NEW t \in AppThreads, RetractPending(t) PROVE Grows /\ Stays
  <2>1. Range(pending') = Range(pending) \ {about[t]}
    BY <1>00, <1>5, WithoutFacts DEF RetractPending
  <2>2. \A j \in Tracks : pc'[j] = pc[j] /\ about'[j] = about[j]
    BY <1>00, <1>5 DEF RetractPending
  <2>3. track[about[t]] = "dropping"
    BY <1>0, <1>5 DEF RetractPending, CallInv, Retracting, Retracted
  <2> QED
    BY <1>5, <2>1, <2>2, <2>3 DEF RetractPending
<1>12. ASSUME NEW t \in AppThreads, LookPending(t) \/ LookAssigned(t) PROVE Grows /\ Stays
  <2>1. PICK l \in {"degradeLock", "othersBound"} : pc' = [pc EXCEPT ![t] = l]
    BY <1>12 DEF LookPending, LookAssigned
  <2>2. UNCHANGED <<pending, assigned, about>> /\ pc[t] # "insert"
    BY <1>12 DEF LookPending, LookAssigned
  <2> QED
    BY <1>00, <1>1, <2>1, <2>2
<1>6. ASSUME NEW t \in AppThreads, RetractAssigned(t) PROVE Grows /\ Stays
  <2>1. \A e \in Encoders : /\ assigned'[e].track = assigned[e].track
                            /\ assigned'[e].custom <=> assigned[e].custom /\ assigned[e].track # about[t]
    <3> SUFFICES ASSUME NEW e \in Encoders
                 PROVE  /\ assigned'[e].track = assigned[e].track
                        /\ assigned'[e].custom <=> assigned[e].custom /\ assigned[e].track # about[t]
      OBVIOUS
    <3>1. assigned[e] \in Slot \cup {NoSlot}
      BY <1>00
    <3> QED
      BY <1>6, <3>1 DEF RetractAssigned, Slot, NoSlot
  <2>2. \A j \in Tracks : pc'[j] = pc[j] /\ about'[j] = about[j]
    BY <1>00, <1>6 DEF RetractAssigned
  <2>3. track[about[t]] = "dropping"
    BY <1>0, <1>6 DEF RetractAssigned, CallInv, Retracting, Retracted
  <2> QED
    BY <1>6, <2>1, <2>2, <2>3 DEF RetractAssigned
<1>7. ASSUME ListStep PROVE Grows /\ Stays
  BY <1>00, <1>1, <1>7 DEF ListStep, ListCodecs, ScanPending, ScanAssigned, CodecsListed
<1>8. ASSUME NEW k \in Tracks, Pop(k) PROVE Grows /\ Stays
  <2>1. CASE pending = <<>>
    BY <1>00, <1>8, <2>1 DEF Pop
  <2>2. CASE pending # <<>>
    <3>1. Range(pending') \cup {Head(pending)} = Range(pending)
      BY <1>00, <1>8, <2>2, TailFacts DEF Pop
    <3>2. \A j \in Tracks : j # k => pc'[j] = pc[j] /\ about'[j] = about[j]
      BY <1>00, <1>8, <2>2 DEF Pop
    <3>3. pc[k] = "pop" /\ pc'[k] = "insert" /\ about'[k] = Head(pending) /\ assigned' = assigned
      BY <1>00, <1>8, <2>2 DEF Pop
    <3> QED
      BY <3>1, <3>2, <3>3
  <2> QED
    BY <2>1, <2>2
<1>9. ASSUME NEW k \in Tracks, Insert(k) PROVE Grows /\ Stays
  <2>1. encoder[k] \in Encoders /\ assigned[encoder[k]] = NoSlot /\ about[k] \in Tracks
    BY <1>0, <1>9 DEF Insert, RoleInv, Encoding
  <2>2. /\ assigned'[encoder[k]] = [track |-> about[k], custom |-> about[k] \in Custom]
        /\ \A e \in Encoders : e # encoder[k] => assigned'[e] = assigned[e]
    BY <1>00, <1>9, <2>1 DEF Insert
  <2>3. /\ pc[k] = "insert" /\ pc'[k] = "idle" /\ about' = about /\ pending' = pending
        /\ \A j \in Tracks : j # k => pc'[j] = pc[j]
    BY <1>00, <1>9 DEF Insert
  <2>4. \A j : Bound(j)' <=> Bound(j) \/ (j = about[k] /\ j \in Custom)
    <3>1. /\ assigned'[encoder[k]].track = about[k] /\ ~ assigned[encoder[k]].custom
          /\ assigned'[encoder[k]].custom <=> about[k] \in Custom
      <4>1. assigned'[encoder[k]].track = about[k]
        BY <2>2
      <4>2. assigned'[encoder[k]].custom <=> about[k] \in Custom
        <5> DEFINE c == about[k] \in Custom
        <5>1. assigned'[encoder[k]] = [track |-> about[k], custom |-> c]
          BY <2>2
        <5>2. c \in BOOLEAN
          OBVIOUS
        <5> HIDE DEF c
        <5>3. assigned'[encoder[k]].custom = c
          BY <5>1, <5>2
        <5> QED
          BY <5>2, <5>3 DEF c
      <4>3. ~ assigned[encoder[k]].custom
        BY <2>1 DEF NoSlot
      <4> QED
        BY <4>1, <4>2, <4>3
    <3> HIDE DEF Bound
    <3>2. ASSUME NEW j, Bound(j)' PROVE Bound(j) \/ (j = about[k] /\ j \in Custom)
      BY <2>2, <3>1, <3>2 DEF Bound
    <3>3. ASSUME NEW j, Bound(j) PROVE Bound(j)'
      BY <2>2, <3>1, <3>3 DEF Bound
    <3>4. ASSUME NEW j, j = about[k], j \in Custom PROVE Bound(j)'
      BY <2>1, <3>1, <3>4 DEF Bound
    <3> QED
      BY <3>2, <3>3, <3>4
  <2>5. \A j : InHand(j) => InHand(j)' \/ (j = about[k] /\ j \in Custom)
    BY <2>3
  <2>6. \A j : InHand(j)' => InHand(j)
    BY <2>3
  <2>7. InHand(about[k]) <=> about[k] \in Custom
    BY <2>3
  <2>8. \A j : Reserved(j)' <=> Reserved(j)
    BY <2>3
  <2> QED
    BY <2>4, <2>5, <2>6, <2>7, <2>8
<1>10. ASSUME NEW k \in Tracks, CreateEncoder(k) \/ Lookup(k) \/ LastLook(k) \/ Encode(k) \/ Entry(k) \/ Route(k)
       PROVE  Grows /\ Stays
  <2>1. CASE CreateEncoder(k) \/ Lookup(k) \/ LastLook(k) \/ Encode(k) \/ Route(k)
    BY <1>00, <1>1, <2>1 DEF CreateEncoder, Lookup, LastLook, Encode, Route
  <2>2. CASE Entry(k)
    BY <1>00, <1>1, <2>2 DEF Entry
  <2> QED
    BY <1>10, <2>1, <2>2
<1>11. ASSUME Quiet PROVE Grows /\ Stays
  BY <1>11 DEF Quiet, vars
<1> QED
  BY <1>2, <1>3, <1>4, <1>5, <1>6, <1>7, <1>8, <1>9, <1>10, <1>11, <1>12
     DEF Next, AppStep, EncoderStep

-----------------------------------------------------------------------------
(* What becomes of a track, and of the calls about it.                      *)

\* Calls in progress are about different tracks, each where its call has it.
LEMMA CallStep == ASSUME IInv, Next PROVE CallInv'
<1> USE DEF CallInv, Adding, Retracting, Retracted, Goto, WantsPending, WantsAssigned, registryVars
<1>0. TypeOK /\ RoleInv /\ CallInv
  BY DEF IInv
<1>00. /\ pc \in [Threads -> Labels] /\ about \in [Threads -> Tracks \cup {NoTrack}]
       /\ track \in [Tracks -> {"none", "made", "live", "dropping", "gone"}]
       /\ pending \in Seq(Tracks)
       /\ \A i, j \in DOMAIN pending : pending[i] = pending[j] => i = j
       /\ AppThreads \subseteq Threads /\ Tracks \subseteq Threads /\ Signaling \in Threads
       /\ AppThreads \cap Tracks = {} /\ Signaling \notin AppThreads \cup Tracks
  BY <1>0, ThreadsAssumption DEF TypeOK, Threads
<1>1. ASSUME NEW t \in Threads, LockPending(t) \/ LockAssigned(t) PROVE CallInv'
  <2>1. /\ UNCHANGED <<pending, about, track>>
        /\ \A u \in Threads : u # t => pc'[u] = pc[u]
    BY <1>00, <1>1 DEF LockPending, LockAssigned
  <2>2. CASE t \in AppThreads
    <3>1. \/ pc[t] = "add" /\ pc'[t] = "push"
          \/ pc[t] = "retract" /\ pc'[t] = "retain"
          \/ pc[t] \in Retracted /\ pc'[t] \in Retracted
      BY <1>0, <1>00, <1>1, <2>2 DEF LockPending, LockAssigned, RoleInv
    <3> QED
      BY <1>0, <1>00, <2>1, <3>1
  <2>3. CASE t \notin AppThreads
    BY <1>0, <1>00, <2>1, <2>3
  <2> QED
    BY <2>2, <2>3
<1>2. ASSUME NEW t \in AppThreads, NEW k \in Tracks, CreateTrack(t, k) \/ DropTrack(t, k)
      PROVE  CallInv'
  <2>1. /\ pc[t] = "idle" /\ pc'[t] \in {"add", "retract"} /\ about'[t] = k
        /\ \A u \in AppThreads : u # t => pc'[u] = pc[u] /\ about'[u] = about[u]
        /\ \A j \in Tracks : j # k => track'[j] = track[j]
        /\ pending' = pending
    BY <1>00, <1>2 DEF CreateTrack, DropTrack
  <2>2. /\ track[k] \in {"none", "live"}
        /\ pc'[t] = "add" => track'[k] = "made"
        /\ pc'[t] = "retract" => track'[k] = "dropping"
    BY <1>00, <1>2 DEF CreateTrack, DropTrack
  <2>3. ASSUME NEW u \in AppThreads, u # t, pc[u] # "idle"
        PROVE  about[u] # k
    BY <1>0, <2>2, <2>3 DEF RoleInv
  <2>4. ASSUME NEW u \in AppThreads
        PROVE  /\ pc'[u] \in Adding => about'[u] \in Tracks /\ track'[about'[u]] = "made"
               /\ pc'[u] \in Retracting => about'[u] \in Tracks /\ track'[about'[u]] = "dropping"
               /\ pc'[u] \in Retracted => about'[u] \notin Range(pending')
    <3>1. CASE u = t
      BY <2>1, <2>2, <3>1
    <3>2. CASE u # t
      BY <1>0, <2>1, <2>3, <3>2
    <3> QED
      BY <3>1, <3>2
  <2>5. ASSUME NEW u \in AppThreads, NEW v \in AppThreads, u # v, pc'[u] # "idle", pc'[v] # "idle"
        PROVE  about'[u] # about'[v]
    BY <1>0, <2>1, <2>3, <2>5
  <2> HIDE DEF Adding, Retracting, Retracted
  <2> QED
    BY <2>4, <2>5
<1>3. ASSUME NEW t \in AppThreads, AddSlot(t) PROVE CallInv'
  <2>1. about[t] \in Tracks /\ Range(pending') = Range(pending) \cup {about[t]}
    BY <1>0, <1>00, <1>3, AppendFacts DEF AddSlot
  <2> QED
    BY <1>0, <1>00, <1>3, <2>1 DEF AddSlot
<1>4. ASSUME NEW t \in AppThreads, RetractPending(t) PROVE CallInv'
  <2>1. Range(pending') = Range(pending) \ {about[t]}
    BY <1>00, <1>4, WithoutFacts DEF RetractPending
  <2> QED
    BY <1>0, <1>00, <1>4, <2>1 DEF RetractPending
<1>9. ASSUME NEW t \in AppThreads, LookPending(t) \/ LookAssigned(t) PROVE CallInv'
  <2>1. /\ UNCHANGED <<pending, about, track>>
        /\ pc[t] \in Retracted /\ pc'[t] \in Retracted
        /\ \A u \in Threads : u # t => pc'[u] = pc[u]
    BY <1>00, <1>9 DEF LookPending, LookAssigned
  <2> QED
    BY <1>0, <1>00, <2>1
<1>5. ASSUME NEW t \in AppThreads, RetractAssigned(t) PROVE CallInv'
  BY <1>0, <1>00, <1>5 DEF RetractAssigned
<1>6. ASSUME ListStep PROVE CallInv'
  <2>1. /\ UNCHANGED <<pending, about, track>>
        /\ \A u \in AppThreads : pc'[u] = pc[u]
    BY <1>00, <1>6 DEF ListStep, ListCodecs, ScanPending, ScanAssigned, CodecsListed
  <2> QED
    BY <1>0, <2>1
<1>7. ASSUME NEW k \in Tracks, EncoderStep(k) PROVE CallInv'
  <2>1. /\ track' = track
        /\ \A u \in AppThreads : pc'[u] = pc[u] /\ about'[u] = about[u]
    BY <1>00, <1>7
       DEF EncoderStep, CreateEncoder, Lookup, Pop, LastLook, Insert, Encode, Entry, Route
  <2>2. Range(pending') \subseteq Range(pending)
    <3>1. CASE Pop(k) /\ pending # <<>>
      BY <1>00, <3>1, TailFacts DEF Pop
    <3>2. CASE ~ (Pop(k) /\ pending # <<>>)
      BY <1>7, <3>2 DEF EncoderStep, CreateEncoder, Lookup, Pop, LastLook, Insert, Encode, Entry, Route
    <3> QED
      BY <3>1, <3>2
  <2> QED
    BY <1>0, <2>1, <2>2
<1>8. ASSUME Quiet PROVE CallInv'
  BY <1>0, <1>8 DEF Quiet, vars
<1> QED
  BY <1>1, <1>2, <1>3, <1>4, <1>5, <1>6, <1>7, <1>8, <1>9 DEF Next, AppStep

\* A track is made, lives once it is reserved, is dropped and gone, never back;
\* only the end of retract makes it gone.
LEMMA TrackStep ==
    ASSUME IInv, Next, NEW k \in Tracks
    PROVE  \/ track'[k] = track[k]
           \/ track[k] = "none" /\ track'[k] = "made"
           \/ track[k] = "made" /\ track'[k] = "live"
           \/ track[k] = "live" /\ track'[k] = "dropping"
           \/ /\ track[k] = "dropping" /\ track'[k] = "gone"
              /\ \E t \in AppThreads : RetractAssigned(t) /\ about[t] = k
<1>0. TypeOK /\ CallInv
  BY DEF IInv
<1>00. track \in [Tracks -> {"none", "made", "live", "dropping", "gone"}]
  BY <1>0 DEF TypeOK
<1>1. CASE track' = track
  BY <1>1
<1>2. ASSUME NEW t \in AppThreads, NEW j \in Tracks, CreateTrack(t, j) \/ DropTrack(t, j)
      PROVE  \/ track'[k] = track[k]
             \/ track[k] = "none" /\ track'[k] = "made"
             \/ track[k] = "live" /\ track'[k] = "dropping"
  BY <1>00, <1>2 DEF CreateTrack, DropTrack
<1>3. ASSUME NEW t \in AppThreads, AddSlot(t)
      PROVE  track'[k] = track[k] \/ (track[k] = "made" /\ track'[k] = "live")
  BY <1>0, <1>00, <1>3 DEF AddSlot, CallInv, Adding
<1>4. ASSUME NEW t \in AppThreads, RetractAssigned(t)
      PROVE  track'[k] = track[k] \/ (track[k] = "dropping" /\ track'[k] = "gone" /\ about[t] = k)
  BY <1>0, <1>00, <1>4 DEF RetractAssigned, CallInv, Retracting, Retracted
<1>5. \/ track' = track
      \/ \E t \in AppThreads : \/ \E j \in Tracks : CreateTrack(t, j) \/ DropTrack(t, j)
                              \/ AddSlot(t) \/ RetractAssigned(t)
  BY DEF Next, AppStep, ListStep, EncoderStep, LockPending, LockAssigned, RetractPending,
         LookPending, LookAssigned, ListCodecs, ScanPending, ScanAssigned, CodecsListed,
         CreateEncoder, Lookup, Pop, LastLook, Insert, Encode, Entry, Route, Quiet, vars
<1> QED
  BY <1>1, <1>2, <1>3, <1>4, <1>5

\* The end of retract leaves no custom slot of its track: it is not reserved any
\* more, the binding degrades, and with `assigned` locked nobody has it in hand.
LEMMA RetractedHasNoSlot ==
    ASSUME IInv, NEW t \in AppThreads, RetractAssigned(t)
    PROVE  about[t] \notin CustomSlots' /\ about[t] \notin Range(pending')
<1>0. TypeOK /\ LockInv /\ CallInv
  BY DEF IInv
<1>00. /\ pc \in [Threads -> Labels] /\ assigned \in [Encoders -> Slot \cup {NoSlot}]
       /\ AppThreads \subseteq Threads /\ Tracks \subseteq Threads /\ AppThreads \cap Tracks = {}
  BY <1>0, ThreadsAssumption DEF TypeOK, Threads
<1>1. about[t] \notin Range(pending')
  BY <1>0 DEF RetractAssigned, CallInv, Retracted
<1>2. ~ Bound(about[t])'
  <2> SUFFICES ASSUME NEW e \in Encoders
               PROVE  ~ (assigned'[e].custom /\ assigned'[e].track = about'[t])
    BY DEF Bound, RetractAssigned
  <2>1. assigned[e] \in Slot \cup {NoSlot}
    BY <1>00
  <2> QED
    BY <2>1 DEF RetractAssigned, Slot, NoSlot
<1>3. ~ InHand(about[t])'
  <2>1. \A j \in Tracks : pc[j] # "insert"
    BY <1>0, <1>00 DEF RetractAssigned, LockInv, HoldsAssigned
  <2> QED
    BY <1>00, <2>1 DEF RetractAssigned, InHand, Goto
<1>4. about' = about
  BY DEF RetractAssigned
<1> QED
  BY <1>1, <1>2, <1>3, <1>4, SlotPlaces DEF Reserved

\* The tables hold nothing of a track that is not reserved yet, or gone.
LEMMA TableStep == ASSUME IInv, Next PROVE TableInv'
<1>0. TypeOK /\ CallInv /\ TableInv
  BY DEF IInv
<1>00. /\ pending \in Seq(Tracks)
       /\ \A i, j \in DOMAIN pending : pending[i] = pending[j] => i = j
       /\ track \in [Tracks -> {"none", "made", "live", "dropping", "gone"}]
  BY <1>0 DEF TypeOK
<1>1. ASSUME NEW t \in AppThreads, AddSlot(t) PROVE about[t] \in Tracks /\ track'[about[t]] = "live"
  BY <1>0, <1>00, <1>1 DEF AddSlot, CallInv, Adding
\* What held a slot before and still does.
<1>2. ASSUME NEW k \in Tracks, track[k] \in {"live", "dropping"},
             k \in CustomSlots' \/ k \in Range(pending')
      PROVE  track'[k] \in {"live", "dropping"}
  BY <1>2, TrackStep, RetractedHasNoSlot
<1>3. ASSUME NEW k \in Range(pending')
      PROVE  k \in Range(pending) \/ \E t \in AppThreads : AddSlot(t) /\ about[t] = k
  <2>1. ASSUME NEW t \in AppThreads, AddSlot(t) PROVE Range(pending') = Range(pending) \cup {about[t]}
    BY <1>00, <1>1, <2>1, AppendFacts DEF AddSlot
  <2>2. ASSUME NEW t \in AppThreads, RetractPending(t) PROVE Range(pending') \subseteq Range(pending)
    BY <1>00, <2>2, WithoutFacts DEF RetractPending
  <2>3. ASSUME NEW j \in Tracks, Pop(j) PROVE Range(pending') \subseteq Range(pending)
    <3>1. CASE pending # <<>>
      BY <1>00, <2>3, <3>1, TailFacts DEF Pop
    <3>2. CASE pending = <<>>
      BY <2>3, <3>2 DEF Pop
    <3> QED
      BY <3>1, <3>2
  <2>4. \/ pending' = pending
        \/ \E t \in AppThreads : AddSlot(t) \/ RetractPending(t)
        \/ \E j \in Tracks : Pop(j)
    BY DEF Next, AppStep, ListStep, EncoderStep, LockPending, LockAssigned, CreateTrack, DropTrack,
           RetractAssigned, ListCodecs, ScanPending, ScanAssigned, CodecsListed, CreateEncoder,
           LookPending, LookAssigned, Lookup, LastLook, Insert, Encode, Entry, Route, Quiet, vars, registryVars
  <2> QED
    BY <1>3, <2>1, <2>2, <2>3, <2>4
<1>4. Range(pending) \subseteq Tracks /\ CustomSlots \subseteq Tracks
  BY <1>0, SlotsOfTracks DEF TypeOK, Range
<1>5. ASSUME NEW k \in Range(pending') PROVE track'[k] \in {"live", "dropping"}
  BY <1>0, <1>1, <1>2, <1>3, <1>4, <1>5 DEF TableInv
<1>6. ASSUME NEW k \in CustomSlots' PROVE track'[k] \in {"live", "dropping"}
  BY <1>0, <1>1, <1>2, <1>4, <1>6, SlotsStep DEF TableInv
<1> QED
  BY <1>5, <1>6 DEF TableInv

-----------------------------------------------------------------------------
(* has_custom.                                                             *)

\* What has_custom goes by is kept by every step, and so is its answer.
LEMMA ListInvStep == ASSUME IInv, Next PROVE ListInv' /\ NoCustomMissed'
<1> USE DEF Listing, Goto
<1>0. TypeOK /\ LockInv /\ RoleInv /\ CallInv /\ TableInv /\ ListInv /\ NoCustomMissed
  BY DEF IInv
<1>00. /\ pc \in [Threads -> Labels] /\ existed \subseteq Tracks
       /\ pending \in Seq(Tracks)
       /\ \A i, j \in DOMAIN pending : pending[i] = pending[j] => i = j
       /\ AppThreads \subseteq Threads /\ Tracks \subseteq Threads /\ Signaling \in Threads
       /\ Signaling \notin AppThreads \cup Tracks
  BY <1>0, ThreadsAssumption DEF TypeOK, Threads
<1>000. CustomSlots \subseteq Tracks
  BY <1>0, SlotsOfTracks
\* A track that lives, is dropped or gone came no nearer to life.
<1>1. ASSUME NEW k \in Tracks, track[k] \in {"live", "dropping", "gone"}
      PROVE  /\ track'[k] \in {"live", "dropping", "gone"}
             /\ track'[k] = "live" => track[k] = "live"
             /\ track[k] # "live" => track'[k] \in {"dropping", "gone"}
  BY <1>1, TrackStep
<1>2. ASSUME NEW k \in Tracks, track[k] \in {"live", "dropping", "gone"}, k \in Range(pending')
      PROVE  k \in Range(pending)
  <2>1. ASSUME NEW t \in AppThreads, AddSlot(t)
        PROVE  /\ Range(pending') = Range(pending) \cup {about[t]}
               /\ about[t] # k
    <3>1. about[t] \in Tracks /\ track[about[t]] = "made"
      BY <1>0, <2>1 DEF AddSlot, CallInv, Adding
    <3> QED
      BY <1>00, <1>2, <2>1, <3>1, AppendFacts DEF AddSlot
  <2>2. ASSUME NEW t \in AppThreads, RetractPending(t) PROVE Range(pending') \subseteq Range(pending)
    BY <1>00, <2>2, WithoutFacts DEF RetractPending
  <2>3. ASSUME NEW j \in Tracks, Pop(j) PROVE Range(pending') \subseteq Range(pending)
    <3>1. CASE pending # <<>>
      BY <1>00, <2>3, <3>1, TailFacts DEF Pop
    <3>2. CASE pending = <<>>
      BY <2>3, <3>2 DEF Pop
    <3> QED
      BY <3>1, <3>2
  <2>4. \/ pending' = pending
        \/ \E t \in AppThreads : AddSlot(t) \/ RetractPending(t)
        \/ \E j \in Tracks : Pop(j)
    BY DEF Next, AppStep, ListStep, EncoderStep, LockPending, LockAssigned, CreateTrack, DropTrack,
           RetractAssigned, ListCodecs, ScanPending, ScanAssigned, CodecsListed, CreateEncoder,
           LookPending, LookAssigned, Lookup, LastLook, Insert, Encode, Entry, Route, Quiet, vars, registryVars
  <2> QED
    BY <1>2, <2>1, <2>2, <2>3, <2>4
\* A step that is not has_custom's own.
<1>3. ASSUME UNCHANGED <<found, existed>>,
             pc'[Signaling] = pc[Signaling]
               \/ (pc[Signaling] = "list" /\ pc'[Signaling] = "scanPending")
               \/ (pc[Signaling] = "listAssigned" /\ pc'[Signaling] = "scanAssigned")
      PROVE  ListInv' /\ NoCustomMissed'
  <2>1. ASSUME pc'[Signaling] \in Listing, NEW k \in existed'
        PROVE  /\ track'[k] \in {"live", "dropping", "gone"}
               /\ track'[k] = "live" => k \in CustomSlots'
    BY <1>0, <1>00, <1>1, <1>3, <2>1, SlotsStep DEF ListInv
  <2>2. ASSUME pc'[Signaling] \in {"listAssigned", "scanAssigned"}, NEW k \in existed',
               track'[k] = "live"
        PROVE  k \notin Range(pending') \cap Custom
    BY <1>0, <1>00, <1>1, <1>2, <1>3, <2>2 DEF ListInv
  <2>3. ASSUME pc'[Signaling] = "listed", ~ found', NEW k \in existed'
        PROVE  track'[k] \in {"dropping", "gone"}
    BY <1>0, <1>00, <1>1, <1>3, <2>3 DEF NoCustomMissed
  <2> QED
    BY <2>1, <2>2, <2>3 DEF ListInv, NoCustomMissed
<1>4. ASSUME NEW t \in Threads, LockPending(t) \/ LockAssigned(t) PROVE ListInv' /\ NoCustomMissed'
  <2>1. CASE t # Signaling
    BY <1>00, <1>3, <1>4, <2>1 DEF LockPending, LockAssigned, listVars
  <2>2. CASE t = Signaling
    <3>1. \/ pc[Signaling] = "list" /\ pc'[Signaling] = "scanPending"
          \/ pc[Signaling] = "listAssigned" /\ pc'[Signaling] = "scanAssigned"
      BY <1>0, <1>00, <1>4, <2>2
         DEF LockPending, LockAssigned, RoleInv, WantsPending, WantsAssigned
    <3> QED
      BY <1>3, <1>4, <3>1 DEF LockPending, LockAssigned, listVars
  <2> QED
    BY <2>1, <2>2
<1>5. ASSUME NEW t \in AppThreads, AppStep(t) PROVE ListInv' /\ NoCustomMissed'
  <2>1. UNCHANGED <<found, existed>> /\ pc'[Signaling] = pc[Signaling]
    BY <1>00, <1>5
       DEF AppStep, CreateTrack, DropTrack, AddSlot, RetractPending, LookPending, LookAssigned, RetractAssigned, listVars
  <2> QED
    BY <1>3, <2>1
<1>6. ASSUME NEW k \in Tracks, EncoderStep(k) PROVE ListInv' /\ NoCustomMissed'
  <2>1. UNCHANGED <<found, existed>> /\ pc'[Signaling] = pc[Signaling]
    BY <1>00, <1>6
       DEF EncoderStep, CreateEncoder, Lookup, Pop, LastLook, Insert, Encode, Entry, Route, listVars
  <2> QED
    BY <1>3, <2>1
<1>7. CASE Quiet
  BY <1>3, <1>7 DEF Quiet, vars, listVars
<1>8. CASE ListCodecs
  <2>1. pc'[Signaling] = "list" /\ existed' = CustomSlots
    BY <1>00, <1>8 DEF ListCodecs
  <2>2. ASSUME NEW k \in existed'
        PROVE  /\ track'[k] \in {"live", "dropping", "gone"}
               /\ track'[k] = "live" => k \in CustomSlots'
    BY <1>0, <1>000, <1>1, <2>1, <2>2, SlotsStep DEF TableInv
  <2> QED
    BY <2>1, <2>2 DEF ListInv, NoCustomMissed
<1>9. CASE ScanPending
  <2>1. /\ pc[Signaling] = "scanPending" /\ UNCHANGED <<existed, pending, track>>
        /\ found' = (Range(pending) \cap Custom # {})
        /\ pc'[Signaling] = IF found' THEN "listed" ELSE "listAssigned"
    BY <1>00, <1>9 DEF ScanPending, registryVars
  <2>2. ASSUME NEW k \in existed'
        PROVE  /\ track'[k] \in {"live", "dropping", "gone"}
               /\ track'[k] = "live" => k \in CustomSlots'
    BY <1>0, <1>00, <2>1, <2>2, SlotsStep DEF ListInv
  <2>3. ~ found' => Range(pending') \cap Custom = {}
    BY <2>1
  <2> QED
    BY <2>1, <2>2, <2>3 DEF ListInv, NoCustomMissed
<1>10. CASE ScanAssigned
  <2>1. /\ pc[Signaling] = "scanAssigned" /\ UNCHANGED <<existed, pending, assigned, track>>
        /\ found' = AnyBound
        /\ pc'[Signaling] = "listed"
    BY <1>00, <1>10 DEF ScanAssigned, registryVars
  <2>2. ASSUME NEW k \in existed'
        PROVE  /\ track'[k] \in {"live", "dropping", "gone"}
               /\ track'[k] = "live" => k \in CustomSlots'
    BY <1>0, <1>00, <2>1, <2>2, SlotsStep DEF ListInv
  \* Nobody has a slot in hand while `assigned` is locked here.
  <2>3. \A k : ~ InHand(k)
    BY <1>0, <1>00, <2>1 DEF InHand, LockInv, HoldsAssigned
  <2>4. ASSUME ~ found', NEW k \in existed' PROVE track'[k] \in {"dropping", "gone"}
    <3>1. ~ Bound(k)
      BY <2>1, <2>4 DEF Bound, AnyBound
    <3>2. track[k] = "live" => ~ Reserved(k) /\ k \in CustomSlots
      BY <1>0, <2>1, <2>4 DEF ListInv, Reserved
    <3> QED
      BY <2>1, <2>2, <2>3, <2>4, <3>1, <3>2, SlotPlaces
  <2> QED
    BY <2>1, <2>2, <2>4 DEF ListInv, NoCustomMissed
<1>11. CASE CodecsListed
  <2>1. pc'[Signaling] = "idle"
    BY <1>00, <1>11 DEF CodecsListed
  <2> QED
    BY <2>1 DEF ListInv, NoCustomMissed
<1> QED
  BY <1>4, <1>5, <1>6, <1>7, <1>8, <1>9, <1>10, <1>11 DEF Next, ListStep

-----------------------------------------------------------------------------
(* The positional scheme.                                                  *)

\* x comes before y in s.
Before(s, x, y) == \E i, j \in DOMAIN s : i < j /\ s[i] = x /\ s[j] = y

\* Stream k has asked for an encoder and not taken a reservation for it yet.
Asking(k) == pc[k] \in {"create", "lookup", "take", "pop"}

\* `order` has each track once, from the reservation on, and `pending` keeps to it.
OrderInv ==
    /\ \A i, j \in DOMAIN order : order[i] = order[j] => i = j
    /\ \A k \in Tracks : k \in Range(order) <=> track[k] \in {"live", "dropping", "gone"}
    /\ \A k \in Tracks : encoder[k] # 0 => k \in Range(order)
    /\ \A i, j \in DOMAIN pending : i < j => Before(order, pending[i], pending[j])

\* An id is given once, and bound only after.
IdInv ==
    /\ nextId # 0
    /\ \A e \in Encoders : assigned[e] # NoSlot => e < nextId
    /\ \A k \in Tracks : encoder[k] < nextId
    /\ \A k \in Tracks : encoder[k] # 0 => owner[encoder[k]] = k

\* The positional scheme: one stream at a time creates its encoder, in its turn; a
\* live track is reserved until its stream takes a reservation, which is its own.
TurnInv ==
    /\ \A k \in Tracks : Creating(k) => track[k] = "live" /\ InTurn(k)
    /\ \A j, k \in Tracks : Creating(j) /\ Creating(k) => j = k
    /\ \A k \in Tracks : track[k] = "live" /\ (encoder[k] = 0 \/ Asking(k)) => k \in Range(pending)
    /\ \A k \in Tracks : k \in Range(pending) => encoder[k] = 0 \/ Asking(k)
    /\ \A k \in Tracks : pc[k] = "insert" => about[k] = k

\* What makes OwnSlot inductive.
OwnInv == OrderInv /\ IdInv /\ (~ shifted => TurnInv) /\ OwnSlot

\* What is done to `order`, to what has become of the tracks, to the streams'
\* encoders and to `pending`, and by which steps.
LEMMA OrderSplit ==
    ASSUME Next
    PROVE  \/ UNCHANGED <<order, track, encoder, pending>>
           \/ \E t \in AppThreads :
                 \/ AddSlot(t) \/ RetractPending(t) \/ RetractAssigned(t)
                 \/ \E k \in Tracks : CreateTrack(t, k) \/ DropTrack(t, k)
           \/ \E k \in Tracks : CreateEncoder(k) \/ (Pop(k) /\ pending # <<>>)
<1> USE DEF registryVars, nativeVars
<1>1. ASSUME NEW t \in Threads, LockPending(t) \/ LockAssigned(t)
      PROVE  UNCHANGED <<order, track, encoder, pending>>
  BY <1>1 DEF LockPending, LockAssigned
<1>2. ASSUME NEW t \in AppThreads, LookPending(t) \/ LookAssigned(t)
      PROVE  UNCHANGED <<order, track, encoder, pending>>
  BY <1>2 DEF LookPending, LookAssigned
<1>3. ASSUME ListStep PROVE UNCHANGED <<order, track, encoder, pending>>
  BY <1>3 DEF ListStep, ListCodecs, ScanPending, ScanAssigned, CodecsListed
<1>4. ASSUME NEW k \in Tracks, Pop(k), pending = <<>>
      PROVE  UNCHANGED <<order, track, encoder, pending>>
  BY <1>4 DEF Pop
<1>5. ASSUME NEW k \in Tracks,
             Lookup(k) \/ LastLook(k) \/ Insert(k) \/ Encode(k) \/ Entry(k) \/ Route(k)
      PROVE  UNCHANGED <<order, track, encoder, pending>>
  BY <1>5 DEF Lookup, LastLook, Insert, Encode, Entry, Route
<1>6. ASSUME Quiet PROVE UNCHANGED <<order, track, encoder, pending>>
  BY <1>6 DEF Quiet, vars
<1> QED
  BY <1>1, <1>2, <1>3, <1>4, <1>5, <1>6 DEF Next, AppStep, EncoderStep

\* A reservation is the last in `order`, of a track that was not in it.
LEMMA ReservedLast ==
    ASSUME IInv, OrderInv, NEW t \in AppThreads, AddSlot(t)
    PROVE  /\ about[t] \in Tracks /\ track[about[t]] = "made" /\ about[t] \notin Range(order)
           /\ order' \in Seq(Tracks) /\ Len(order') = Len(order) + 1
           /\ \A i \in DOMAIN order : order'[i] = order[i]
           /\ order'[Len(order) + 1] = about[t]
           /\ Range(order') = Range(order) \cup {about[t]}
           /\ UNCHANGED encoder
           /\ \A k \in Tracks : track'[k] = IF k = about[t] THEN "live" ELSE track[k]
<1>0. TypeOK /\ CallInv
  BY DEF IInv
<1>1. about[t] \in Tracks /\ track[about[t]] = "made"
  BY <1>0 DEF AddSlot, CallInv, Adding
<1>2. about[t] \notin Range(order)
  BY <1>1 DEF OrderInv
<1>3. order \in Seq(Tracks) /\ order' = Append(order, about[t])
  BY <1>0 DEF TypeOK, AddSlot
<1>4. Range(order') = Range(order) \cup {about[t]}
  BY <1>1, <1>3, AppendFacts
<1>5. /\ order' \in Seq(Tracks) /\ Len(order') = Len(order) + 1
      /\ \A i \in DOMAIN order : order'[i] = order[i]
      /\ order'[Len(order) + 1] = about[t]
  BY <1>1, <1>3
<1>6. /\ UNCHANGED encoder
      /\ \A k \in Tracks : track'[k] = IF k = about[t] THEN "live" ELSE track[k]
  BY <1>0 DEF TypeOK, AddSlot, nativeVars
<1> QED
  BY <1>1, <1>2, <1>4, <1>5, <1>6

\* What was reserved before stays so.
LEMMA BeforeKept ==
    ASSUME IInv, OrderInv, Next, NEW x, NEW y, Before(order, x, y)
    PROVE  Before(order', x, y)
<1>1. PICK i \in DOMAIN order, j \in DOMAIN order : i < j /\ order[i] = x /\ order[j] = y
  BY DEF Before
<1>2. CASE UNCHANGED order
  BY <1>1, <1>2 DEF Before
<1>3. ASSUME NEW t \in AppThreads, AddSlot(t) PROVE Before(order', x, y)
  <2>1. order \in Seq(Tracks) /\ order' \in Seq(Tracks) /\ Len(order') = Len(order) + 1
    BY <1>3, ReservedLast DEF IInv, TypeOK
  <2>2. i \in DOMAIN order' /\ j \in DOMAIN order'
    BY <1>1, <2>1
  <2>3. order'[i] = x /\ order'[j] = y
    BY <1>1, <1>3, ReservedLast
  <2> QED
    BY <1>1, <2>2, <2>3 DEF Before
<1>4. UNCHANGED order \/ \E t \in AppThreads : AddSlot(t)
  BY OrderSplit DEF RetractPending, RetractAssigned, CreateTrack, DropTrack, CreateEncoder, Pop
<1> QED
  BY <1>2, <1>3, <1>4

\* Every step keeps `order` and `pending` in order.
LEMMA OrderStep == ASSUME IInv, OrderInv, IdInv, Next PROVE OrderInv'
<1>0. TypeOK /\ RoleInv /\ CallInv /\ TableInv
  BY DEF IInv
<1>00. /\ pending \in Seq(Tracks) /\ order \in Seq(Tracks)
       /\ \A i, j \in DOMAIN pending : pending[i] = pending[j] => i = j
       /\ track \in [Tracks -> {"none", "made", "live", "dropping", "gone"}]
       /\ encoder \in [Tracks -> Nat] /\ nextId \in Nat
  BY <1>0 DEF TypeOK
<1> DEFINE Placed == \A k \in Tracks : k \in Range(order) <=> track[k] \in {"live", "dropping", "gone"}
           Made   == \A k \in Tracks : encoder[k] # 0 => k \in Range(order)
           Once   == \A i, j \in DOMAIN order : order[i] = order[j] => i = j
           Sorted == \A i, j \in DOMAIN pending : i < j => Before(order, pending[i], pending[j])
<1>000. Placed /\ Made /\ Once /\ Sorted
  BY DEF OrderInv
<1> SUFFICES Placed' /\ Made' /\ Once' /\ Sorted'
  BY DEF OrderInv
<1>1. CASE UNCHANGED <<order, track, encoder, pending>>
  <2>1. Placed' /\ Made' /\ Once'
    BY <1>000, <1>1
  <2>2. Sorted'
    BY <1>000, <1>1, BeforeKept
  <2> QED
    BY <2>1, <2>2
<1>2. ASSUME NEW t \in AppThreads, AddSlot(t) PROVE Placed' /\ Made' /\ Once' /\ Sorted'
  <2> DEFINE k == about[t]
  <2>0. /\ k \in Tracks /\ track[k] = "made" /\ k \notin Range(order)
        /\ order' \in Seq(Tracks) /\ Len(order') = Len(order) + 1
        /\ \A i \in DOMAIN order : order'[i] = order[i]
        /\ order'[Len(order) + 1] = k
        /\ Range(order') = Range(order) \cup {k}
        /\ UNCHANGED encoder
        /\ \A j \in Tracks : track'[j] = IF j = k THEN "live" ELSE track[j]
    BY <1>2, ReservedLast
  <2>1. pending' = Append(pending, k)
    BY <1>2 DEF AddSlot
  <2>9. Range(pending) \subseteq Range(order)
    <3>1. Range(pending) \subseteq Tracks
      BY <1>00 DEF Range
    <3> QED
      BY <1>0, <1>000, <3>1 DEF TableInv
  <2>10. \A l \in DOMAIN order : l \in DOMAIN order' /\ order'[l] = order[l]
    BY <1>00, <2>0
  <2> HIDE DEF k
  <2>2. Placed'
    BY <1>000, <2>0
  <2>3. Made'
    BY <1>000, <2>0
  <2>4. Once'
    <3> SUFFICES ASSUME NEW i \in DOMAIN order', NEW j \in DOMAIN order', order'[i] = order'[j]
                 PROVE  i = j
      OBVIOUS
    <3>1. /\ i \in DOMAIN order \/ i = Len(order) + 1
          /\ j \in DOMAIN order \/ j = Len(order) + 1
      BY <1>00, <2>0
    <3>2. \A l \in DOMAIN order : order[l] # k
      BY <2>0 DEF Range
    <3>3. CASE i \in DOMAIN order /\ j \in DOMAIN order
      BY <1>000, <2>0, <3>3
    <3>4. CASE i \in DOMAIN order /\ j = Len(order) + 1
      BY <2>0, <3>2, <3>4
    <3>5. CASE i = Len(order) + 1 /\ j \in DOMAIN order
      BY <2>0, <3>2, <3>5
    <3> QED
      BY <3>1, <3>3, <3>4, <3>5
  <2>5. Sorted'
    <3> SUFFICES ASSUME NEW i \in DOMAIN pending', NEW j \in DOMAIN pending', i < j
                 PROVE  Before(order', pending'[i], pending'[j])
      OBVIOUS
    <3>1. /\ i \in DOMAIN pending /\ pending'[i] = pending[i]
          /\ j \in DOMAIN pending \/ j = Len(pending) + 1
      BY <1>00, <2>0, <2>1
    <3>2. CASE j \in DOMAIN pending
      <4>1. pending'[j] = pending[j]
        BY <1>00, <2>0, <2>1, <3>2
      <4>2. Before(order, pending[i], pending[j])
        BY <1>000, <3>1, <3>2
      <4>3. PICK a \in DOMAIN order, b \in DOMAIN order :
               a < b /\ order[a] = pending[i] /\ order[b] = pending[j]
        BY <4>2 DEF Before
      <4>4. /\ a \in DOMAIN order' /\ order'[a] = pending[i]
            /\ b \in DOMAIN order' /\ order'[b] = pending[j]
        BY <2>10, <4>3
      <4> QED
        BY <3>1, <4>1, <4>3, <4>4 DEF Before
    <3>3. CASE j = Len(pending) + 1
      <4>1. pending'[j] = k
        BY <1>00, <2>0, <2>1, <3>3
      <4>2. PICK a \in DOMAIN order : order[a] = pending[i]
        BY <2>9, <3>1 DEF Range
      <4>3. /\ a \in DOMAIN order' /\ order'[a] = pending[i]
            /\ Len(order) + 1 \in DOMAIN order' /\ a < Len(order) + 1
        BY <1>00, <2>0, <4>2
      <4> QED
        BY <2>0, <3>1, <4>1, <4>3 DEF Before
    <3> QED
      BY <3>1, <3>2, <3>3
  <2> QED
    BY <2>2, <2>3, <2>4, <2>5
<1>3. ASSUME NEW t \in AppThreads, RetractPending(t) PROVE Placed' /\ Made' /\ Once' /\ Sorted'
  <2>1. UNCHANGED <<order, track, encoder>> /\ pending' = Without(pending, about[t])
    BY <1>3 DEF RetractPending, nativeVars
  <2>2. ASSUME NEW i \in DOMAIN pending', NEW j \in DOMAIN pending', i < j
        PROVE  Before(order', pending'[i], pending'[j])
    <3>1. PICK a \in DOMAIN pending, b \in DOMAIN pending :
             a < b /\ pending[a] = pending'[i] /\ pending[b] = pending'[j]
      BY <1>00, <2>1, <2>2, WithoutOrder
    <3>2. Before(order, pending'[i], pending'[j])
      BY <1>000, <3>1
    <3> QED
      BY <2>1, <3>2 DEF Before
  <2> QED
    BY <1>000, <2>1, <2>2
<1>4. ASSUME NEW t \in AppThreads, NEW k \in Tracks,
             CreateTrack(t, k) \/ DropTrack(t, k) \/ RetractAssigned(t)
      PROVE  Placed' /\ Made' /\ Once' /\ Sorted'
  <2>1. UNCHANGED <<order, encoder, pending>>
    BY <1>4 DEF CreateTrack, DropTrack, RetractAssigned, registryVars, nativeVars
  <2>2. \A j \in Tracks : track'[j] \in {"live", "dropping", "gone"} <=>
                          track[j] \in {"live", "dropping", "gone"}
    <3>1. CASE CreateTrack(t, k)
      BY <1>00, <3>1 DEF CreateTrack
    <3>2. CASE DropTrack(t, k)
      BY <1>00, <3>2 DEF DropTrack
    <3>3. CASE RetractAssigned(t)
      <4>1. about[t] \in Tracks /\ track[about[t]] = "dropping"
        BY <1>0, <3>3 DEF RetractAssigned, CallInv, Retracting, Retracted
      <4> QED
        BY <1>00, <3>3, <4>1 DEF RetractAssigned
    <3> QED
      BY <1>4, <3>1, <3>2, <3>3
  <2>3. \A x, y : Before(order', x, y) <=> Before(order, x, y)
    BY <2>1 DEF Before
  <2> QED
    BY <1>000, <2>1, <2>2, <2>3
<1>5. ASSUME NEW k \in Tracks, CreateEncoder(k) PROVE Placed' /\ Made' /\ Once' /\ Sorted'
  <2>1. /\ UNCHANGED <<order, track, pending>> /\ k \in Range(order)
        /\ \A j \in Tracks : j # k => encoder'[j] = encoder[j]
    BY <1>00, <1>5 DEF CreateEncoder, registryVars
  <2>2. \A x, y : Before(order', x, y) <=> Before(order, x, y)
    BY <2>1 DEF Before
  <2> QED
    BY <1>000, <2>1, <2>2
<1>6. ASSUME NEW k \in Tracks, Pop(k), pending # <<>> PROVE Placed' /\ Made' /\ Once' /\ Sorted'
  <2>1. UNCHANGED <<order, track, encoder>> /\ pending' = Tail(pending)
    BY <1>6 DEF Pop, nativeVars
  <2>2. ASSUME NEW i \in DOMAIN pending', NEW j \in DOMAIN pending', i < j
        PROVE  Before(order', pending'[i], pending'[j])
    <3>1. /\ i + 1 \in DOMAIN pending /\ j + 1 \in DOMAIN pending /\ i + 1 < j + 1
          /\ pending'[i] = pending[i + 1] /\ pending'[j] = pending[j + 1]
      BY <1>00, <1>6, <2>1, <2>2
    <3>2. Before(order, pending[i + 1], pending[j + 1])
      BY <1>000, <3>1
    <3> QED
      BY <2>1, <3>1, <3>2 DEF Before
  <2> QED
    BY <1>000, <2>1, <2>2
<1> DEFINE Kept == Placed' /\ Made' /\ Once' /\ Sorted'
<1>7. /\ UNCHANGED <<order, track, encoder, pending>> => Kept
      /\ \A t \in AppThreads : AddSlot(t) \/ RetractPending(t) => Kept
      /\ \A t \in AppThreads : \A k \in Tracks : CreateTrack(t, k) \/ DropTrack(t, k) => Kept
      /\ \A k \in Tracks : CreateEncoder(k) \/ (Pop(k) /\ pending # <<>>) => Kept
  BY <1>1, <1>2, <1>3, <1>4, <1>5, <1>6
<1>8. \A t \in AppThreads : RetractAssigned(t) => Kept
  <2> SUFFICES ASSUME NEW t \in AppThreads, RetractAssigned(t) PROVE Kept
    OBVIOUS
  <2>1. about[t] \in Tracks
    BY <1>0 DEF RetractAssigned, CallInv, Retracting, Retracted
  <2> QED
    BY <1>4, <2>1
<1> HIDE DEF Kept
<1>9. Kept
  BY <1>7, <1>8, OrderSplit
<1> QED
  BY <1>9 DEF Kept

\* Degrading what is bound to a track takes no binding away and makes none.
LEMMA DegradeFacts ==
    ASSUME IInv, NEW t \in AppThreads, RetractAssigned(t)
    PROVE  \A e \in Encoders : assigned'[e].track = assigned[e].track
                               /\ (assigned'[e] # NoSlot => assigned[e] # NoSlot)
<1>1. about[t] \in Tracks /\ assigned \in [Encoders -> Slot \cup {NoSlot}]
  BY DEF IInv, TypeOK, RetractAssigned, CallInv, Retracting, Retracted
<1> SUFFICES ASSUME NEW e \in Encoders
             PROVE  assigned'[e].track = assigned[e].track
                    /\ (assigned'[e] # NoSlot => assigned[e] # NoSlot)
  OBVIOUS
<1>2. assigned'[e] = IF assigned[e].track = about[t]
                     THEN [assigned[e] EXCEPT !.custom = FALSE] ELSE assigned[e]
  BY DEF RetractAssigned
<1>3. CASE assigned[e] = NoSlot
  <2>1. assigned[e].track # about[t]
    BY <1>1, <1>3, TracksAssumption DEF NoSlot
  <2> QED
    BY <1>2, <2>1
<1>4. CASE assigned[e] # NoSlot
  <2>1. assigned[e] \in Slot
    BY <1>1, <1>4
  <2>2. [assigned[e] EXCEPT !.custom = FALSE].track = assigned[e].track
    BY <2>1 DEF Slot
  <2> QED
    BY <1>2, <1>4, <2>2
<1> QED
  BY <1>3, <1>4

\* What is done to the ids, and by which steps.
LEMMA IdSplit ==
    ASSUME Next
    PROVE  \/ UNCHANGED <<assigned, nextId, encoder, owner>>
           \/ \E k \in Tracks : CreateEncoder(k) \/ Insert(k)
           \/ \E t \in AppThreads : RetractAssigned(t)
<1> USE DEF registryVars, nativeVars
<1>1. ASSUME NEW t \in Threads, LockPending(t) \/ LockAssigned(t)
      PROVE  UNCHANGED <<assigned, nextId, encoder, owner>>
  BY <1>1 DEF LockPending, LockAssigned
<1>2. ASSUME NEW t \in AppThreads,
             \/ \E k \in Tracks : CreateTrack(t, k) \/ DropTrack(t, k)
             \/ AddSlot(t) \/ RetractPending(t) \/ LookPending(t) \/ LookAssigned(t)
      PROVE  UNCHANGED <<assigned, nextId, encoder, owner>>
  BY <1>2 DEF CreateTrack, DropTrack, AddSlot, RetractPending, LookPending, LookAssigned
<1>3. ASSUME ListStep PROVE UNCHANGED <<assigned, nextId, encoder, owner>>
  BY <1>3 DEF ListStep, ListCodecs, ScanPending, ScanAssigned, CodecsListed
<1>4. ASSUME NEW k \in Tracks,
             Lookup(k) \/ Pop(k) \/ LastLook(k) \/ Encode(k) \/ Entry(k) \/ Route(k)
      PROVE  UNCHANGED <<assigned, nextId, encoder, owner>>
  BY <1>4 DEF Lookup, Pop, LastLook, Encode, Entry, Route
<1>5. ASSUME Quiet PROVE UNCHANGED <<assigned, nextId, encoder, owner>>
  BY <1>5 DEF Quiet, vars
<1> QED
  BY <1>1, <1>2, <1>3, <1>4, <1>5 DEF Next, AppStep, EncoderStep

\* An encoder has an id of its own, unknown to `assigned` until it asks.
LEMMA IdStep == ASSUME IInv, IdInv, Next PROVE IdInv'
<1>0. TypeOK /\ RoleInv /\ CallInv
  BY DEF IInv
<1>00. /\ encoder \in [Tracks -> Nat] /\ nextId \in Nat
       /\ assigned \in [Encoders -> Slot \cup {NoSlot}]
       /\ owner \in [Encoders -> Tracks \cup {NoTrack}]
       /\ \A k \in Tracks : encoder[k] \in Encoders \cup {0}
  BY <1>0 DEF TypeOK, RoleInv
<1>000. /\ nextId # 0
        /\ \A e \in Encoders : assigned[e] # NoSlot => e < nextId
        /\ \A k \in Tracks : encoder[k] < nextId
        /\ \A k \in Tracks : encoder[k] # 0 => owner[encoder[k]] = k
  BY DEF IdInv
<1>1. CASE UNCHANGED <<assigned, nextId, encoder, owner>>
  BY <1>1 DEF IdInv
<1>2. ASSUME NEW k \in Tracks, CreateEncoder(k) PROVE IdInv'
  <2>1. /\ nextId \in Encoders /\ nextId' = nextId + 1 /\ assigned' = assigned
        /\ encoder' = [encoder EXCEPT ![k] = nextId]
        /\ owner' = [owner EXCEPT ![nextId] = k]
    BY <1>2 DEF CreateEncoder, registryVars
  <2>2. nextId' # 0 /\ \A e \in Encoders : assigned'[e] # NoSlot => e < nextId'
    <3>1. Encoders \subseteq Nat
      BY DEF Encoders
    <3> QED
      BY <1>00, <1>000, <2>1, <3>1
  <2>3. ASSUME NEW j \in Tracks
        PROVE  encoder'[j] < nextId' /\ (encoder'[j] # 0 => owner'[encoder'[j]] = j)
    <3>1. CASE j = k
      BY <1>00, <2>1, <3>1
    <3>2. CASE j # k
      <4>1. encoder'[j] = encoder[j] /\ encoder[j] < nextId /\ encoder[j] \in Nat
        BY <1>00, <1>000, <2>1, <3>2
      <4>2. encoder[j] # nextId /\ encoder[j] < nextId'
        BY <1>00, <2>1, <4>1
      <4>3. encoder[j] # 0 => owner'[encoder[j]] = owner[encoder[j]]
        BY <1>00, <2>1, <4>2
      <4> QED
        BY <1>000, <4>1, <4>2, <4>3
    <3> QED
      BY <3>1, <3>2
  <2> QED
    BY <2>2, <2>3 DEF IdInv
<1>3. ASSUME NEW k \in Tracks, Insert(k) PROVE IdInv'
  <2>1. UNCHANGED <<nextId, encoder, owner>>
    BY <1>3 DEF Insert
  <2>2. encoder[k] \in Encoders /\ encoder[k] < nextId
    BY <1>0, <1>000, <1>3 DEF Insert, RoleInv, Encoding
  <2>3. \A e \in Encoders : e # encoder[k] => assigned'[e] = assigned[e]
    BY <1>00, <1>3 DEF Insert
  <2>4. \A e \in Encoders : assigned'[e] # NoSlot => e < nextId
    BY <1>000, <2>2, <2>3
  <2> QED
    BY <1>000, <2>1, <2>4 DEF IdInv
<1>4. ASSUME NEW t \in AppThreads, RetractAssigned(t) PROVE IdInv'
  <2>1. UNCHANGED <<nextId, encoder, owner>>
    BY <1>4 DEF RetractAssigned, nativeVars
  <2>2. \A e \in Encoders : assigned'[e] # NoSlot => assigned[e] # NoSlot
    BY <1>4, DegradeFacts
  <2> QED
    BY <1>000, <2>1, <2>2 DEF IdInv
<1>5. \/ UNCHANGED <<assigned, nextId, encoder, owner>>
      \/ \E k \in Tracks : CreateEncoder(k) \/ Insert(k)
      \/ \E t \in AppThreads : RetractAssigned(t)
  BY IdSplit
<1> QED
  BY <1>1, <1>2, <1>3, <1>4, <1>5

\* What the positional scheme has no answer to stays noted.
LEMMA ShiftedStays == ASSUME Next, shifted PROVE shifted'
<1> USE DEF nativeVars
<1>1. ASSUME NEW t \in Threads, LockPending(t) \/ LockAssigned(t) PROVE shifted'
  BY <1>1 DEF LockPending, LockAssigned
<1>2. ASSUME NEW t \in AppThreads, NEW k \in Tracks, CreateTrack(t, k) \/ DropTrack(t, k) PROVE shifted'
  BY <1>2 DEF CreateTrack, DropTrack
<1>3. ASSUME NEW t \in AppThreads, \/ AddSlot(t) \/ RetractPending(t) \/ LookPending(t)
                                  \/ LookAssigned(t) \/ RetractAssigned(t)
      PROVE  shifted'
  BY <1>3 DEF AddSlot, RetractPending, LookPending, LookAssigned, RetractAssigned
<1>4. ASSUME ListStep PROVE shifted'
  BY <1>4 DEF ListStep, ListCodecs, ScanPending, ScanAssigned, CodecsListed
<1>5. ASSUME NEW k \in Tracks, EncoderStep(k) PROVE shifted'
  BY <1>5 DEF EncoderStep, CreateEncoder, Lookup, Pop, LastLook, Insert, Encode, Entry, Route
<1>6. ASSUME Quiet PROVE shifted'
  BY <1>6 DEF Quiet, vars
<1> QED
  BY <1>1, <1>2, <1>3, <1>4, <1>5, <1>6 DEF Next, AppStep

\* Once it is a stream's turn it stays so: a reservation is made after it, an
\* encoder stays and a track that is gone as well.
LEMMA InTurnKept ==
    ASSUME IInv, OrderInv, IdInv, Next, NEW k \in Tracks, k \in Range(order), InTurn(k)
    PROVE  InTurn(k)'
<1>0. /\ order \in Seq(Tracks) /\ encoder \in [Tracks -> Nat] /\ nextId \in Nat /\ nextId # 0
      /\ track \in [Tracks -> {"none", "made", "live", "dropping", "gone"}]
  BY DEF IInv, TypeOK, IdInv
<1>1. ASSUME NEW j \in Tracks, encoder[j] # 0 PROVE encoder'[j] # 0
  <2>1. \/ UNCHANGED encoder
        \/ \E l \in Tracks : CreateEncoder(l)
    <3>1. ASSUME NEW t \in AppThreads, NEW l \in Tracks, CreateTrack(t, l) \/ DropTrack(t, l)
          PROVE  UNCHANGED encoder
      BY <3>1 DEF CreateTrack, DropTrack, nativeVars
    <3>2. ASSUME NEW t \in AppThreads, AddSlot(t) \/ RetractPending(t) \/ RetractAssigned(t)
          PROVE  UNCHANGED encoder
      BY <3>2 DEF AddSlot, RetractPending, RetractAssigned, nativeVars
    <3>3. ASSUME NEW l \in Tracks, Pop(l) PROVE UNCHANGED encoder
      BY <3>3 DEF Pop, nativeVars
    <3> QED
      BY <3>1, <3>2, <3>3, OrderSplit
  <2> QED
    BY <1>0, <1>1, <2>1 DEF CreateEncoder
<1>2. ASSUME NEW j \in Tracks, track[j] = "gone" PROVE track'[j] = "gone"
  BY <1>2, TrackStep
\* A place before k's was before it already.
<1>3. ASSUME NEW i \in DOMAIN order', NEW j \in DOMAIN order', i < j, order'[j] = k
      PROVE  i \in DOMAIN order /\ j \in DOMAIN order /\ order[i] = order'[i] /\ order[j] = k
  <2>1. CASE UNCHANGED order
    BY <1>3, <2>1
  <2>2. ASSUME NEW t \in AppThreads, AddSlot(t)
        PROVE  i \in DOMAIN order /\ j \in DOMAIN order /\ order[i] = order'[i] /\ order[j] = k
    <3>1. /\ order' \in Seq(Tracks) /\ Len(order') = Len(order) + 1
          /\ \A l \in DOMAIN order : order'[l] = order[l]
          /\ order'[Len(order) + 1] = about[t] /\ about[t] \notin Range(order)
      BY <2>2, ReservedLast
    <3>2. j # Len(order) + 1
      BY <1>3, <3>1
    <3>3. j \in DOMAIN order /\ i \in DOMAIN order
      BY <1>0, <1>3, <3>1, <3>2
    <3> QED
      BY <1>3, <3>1, <3>3
  <2>3. UNCHANGED order \/ \E t \in AppThreads : AddSlot(t)
    BY OrderSplit DEF RetractPending, RetractAssigned, CreateTrack, DropTrack, CreateEncoder, Pop
  <2> QED
    BY <2>1, <2>2, <2>3
<1>4. ASSUME NEW i \in DOMAIN order', NEW j \in DOMAIN order', i < j, order'[j] = k
      PROVE  encoder'[order'[i]] # 0 \/ track'[order'[i]] = "gone"
  <2>1. /\ i \in DOMAIN order /\ order[i] = order'[i]
        /\ encoder[order[i]] # 0 \/ track[order[i]] = "gone"
    BY <1>3, <1>4 DEF InTurn
  <2>2. order[i] \in Tracks
    BY <1>0, <2>1
  <2> QED
    BY <1>1, <1>2, <2>1, <2>2
<1> QED
  BY <1>4 DEF InTurn

\* With one stream at a time in its turn, what it takes is its own: whatever was
\* reserved before it has its encoder or is gone, and so is not reserved any more.
LEMMA HeadIsOwn ==
    ASSUME IInv, OrderInv, TurnInv, NEW k \in Tracks, pc[k] = "pop"
    PROVE  pending # <<>> /\ Head(pending) = k
<1>0. /\ pending \in Seq(Tracks) /\ order \in Seq(Tracks)
  BY DEF IInv, TypeOK
<1>1. Creating(k) /\ Asking(k)
  BY DEF Creating, Asking
<1>2. track[k] = "live" /\ InTurn(k) /\ k \in Range(pending)
  BY <1>1 DEF TurnInv
<1>3. PICK j \in DOMAIN pending : pending[j] = k
  BY <1>2 DEF Range
<1>4. pending # <<>> /\ 1 \in DOMAIN pending /\ Head(pending) = pending[1]
  BY <1>0, <1>3
<1>5. CASE j = 1
  BY <1>3, <1>4, <1>5
<1>6. CASE j # 1
  <2> DEFINE h == pending[1]
  <2>1. h \in Tracks /\ h \in Range(pending)
    BY <1>0, <1>4 DEF Range
  <2>2. 1 < j
    BY <1>0, <1>3, <1>6
  <2>3. Before(order, h, k)
    BY <1>3, <1>4, <2>2 DEF OrderInv
  <2>4. PICK a \in DOMAIN order, b \in DOMAIN order : a < b /\ order[a] = h /\ order[b] = k
    BY <2>3 DEF Before
  <2>5. encoder[h] # 0 \/ track[h] = "gone"
    BY <1>2, <2>4 DEF InTurn
  <2>6. track[h] # "gone"
    BY <2>1 DEF IInv, TableInv
  <2>7. Asking(h)
    BY <2>1, <2>5, <2>6 DEF TurnInv
  <2>8. Creating(h)
    BY <2>7 DEF Creating, Asking
  <2>9. h = k
    BY <1>1, <2>1, <2>8 DEF TurnInv
  <2> QED
    BY <1>4, <2>9
<1> QED
  BY <1>5, <1>6

\* The positional scheme holds on as long as nothing it has no answer to happens.
LEMMA TurnStep == ASSUME IInv, OrderInv, IdInv, TurnInv, Next, ~ shifted' PROVE TurnInv'
<1> USE DEF Creating, Asking, Goto
<1>0. TypeOK /\ RoleInv /\ CallInv /\ TableInv
  BY DEF IInv
<1>00. /\ pc \in [Threads -> Labels] /\ about \in [Threads -> Tracks \cup {NoTrack}]
       /\ encoder \in [Tracks -> Nat] /\ pending \in Seq(Tracks) /\ nextId # 0
       /\ \A i, j \in DOMAIN pending : pending[i] = pending[j] => i = j
       /\ track \in [Tracks -> {"none", "made", "live", "dropping", "gone"}]
       /\ AppThreads \subseteq Threads /\ Tracks \subseteq Threads
       /\ Signaling \in Threads
       /\ AppThreads \cap Tracks = {} /\ Signaling \notin AppThreads \cup Tracks
  BY <1>0, ThreadsAssumption DEF TypeOK, Threads, IdInv
<1>h. /\ \A k \in Tracks : Creating(k) => track[k] = "live" /\ InTurn(k)
      /\ \A j, k \in Tracks : Creating(j) /\ Creating(k) => j = k
      /\ \A k \in Tracks : track[k] = "live" /\ (encoder[k] = 0 \/ Asking(k)) => k \in Range(pending)
      /\ \A k \in Tracks : k \in Range(pending) => encoder[k] = 0 \/ Asking(k)
      /\ \A k \in Tracks : pc[k] = "insert" => about[k] = k
  BY DEF TurnInv
<1>t. ASSUME NEW k \in Tracks, Creating(k) PROVE InTurn(k)'
  <2>1. k \in Range(order) /\ InTurn(k)
    BY <1>h, <1>t DEF OrderInv
  <2> QED
    BY <2>1, InTurnKept
\* A step that asks for no encoder, takes no reservation and makes none.
<1>q. ASSUME \A k \in Tracks :
                /\ Creating(k)' => Creating(k)
                /\ Asking(k)' <=> Asking(k)
                /\ pc'[k] = "insert" => pc[k] = "insert" /\ about'[k] = about[k]
                /\ track'[k] = "live" => track[k] = "live"
                /\ Creating(k)' => track'[k] = track[k]
                /\ k \in Range(pending') => k \in Range(pending)
                /\ track'[k] = "live" /\ k \in Range(pending) => k \in Range(pending'),
             UNCHANGED encoder
      PROVE  TurnInv'
  <2> HIDE DEF Creating, Asking
  <2>1. \A k \in Tracks : Creating(k)' => track'[k] = "live" /\ InTurn(k)'
    BY <1>q, <1>h, <1>t
  <2>2. \A j, k \in Tracks : Creating(j)' /\ Creating(k)' => j = k
    BY <1>q, <1>h
  <2>3. \A k \in Tracks : track'[k] = "live" /\ (encoder'[k] = 0 \/ Asking(k)') => k \in Range(pending')
    BY <1>q, <1>h
  <2>4. \A k \in Tracks : k \in Range(pending') => encoder'[k] = 0 \/ Asking(k)'
    BY <1>q, <1>h
  <2>5. \A k \in Tracks : pc'[k] = "insert" => about'[k] = k
    BY <1>q, <1>h
  <2> QED
    BY <2>1, <2>2, <2>3, <2>4, <2>5 DEF TurnInv
<1>1. ASSUME NEW t \in Threads, LockPending(t) \/ LockAssigned(t) PROVE TurnInv'
  <2>1. /\ UNCHANGED <<pending, encoder, track, about>>
        /\ \A u \in Threads : u # t => pc'[u] = pc[u]
    BY <1>00, <1>1 DEF LockPending, LockAssigned, registryVars, nativeVars
  <2>2. /\ pc[t] \in {"create", "lookup", "take", "pop"} <=> pc'[t] \in {"create", "lookup", "take", "pop"}
        /\ pc[t] \in {"noneLeft", "lastLook"} <=> pc'[t] \in {"noneLeft", "lastLook"}
        /\ pc'[t] # "insert"
    BY <1>00, <1>1 DEF LockPending, LockAssigned, WantsPending, WantsAssigned
  <2>3. \A k \in Tracks : /\ Creating(k)' => Creating(k)
                          /\ Asking(k)' <=> Asking(k)
                          /\ pc'[k] = "insert" => pc[k] = "insert" /\ about'[k] = about[k]
    BY <1>00, <2>1, <2>2
  <2> QED
    BY <1>q, <2>1, <2>3
<1>2. ASSUME NEW t \in AppThreads, NEW k \in Tracks, CreateTrack(t, k) \/ DropTrack(t, k)
      PROVE  TurnInv'
  <2>1. /\ UNCHANGED <<pending, encoder>>
        /\ \A j \in Tracks : pc'[j] = pc[j] /\ about'[j] = about[j]
        /\ \A j \in Tracks : j # k => track'[j] = track[j]
        /\ track'[k] # "live"
    BY <1>00, <1>2 DEF CreateTrack, DropTrack, registryVars, nativeVars
  <2>2. Creating(k) => track'[k] = track[k]
    <3>1. CASE CreateTrack(t, k)
      BY <1>h, <3>1 DEF CreateTrack
    <3>2. CASE DropTrack(t, k)
      BY <3>2 DEF DropTrack
    <3> QED
      BY <1>2, <3>1, <3>2
  <2> QED
    BY <1>q, <2>1, <2>2
<1>3. ASSUME NEW t \in AppThreads, AddSlot(t) PROVE TurnInv'
  <2> DEFINE k == about[t]
  <2>1. /\ k \in Tracks /\ track[k] = "made" /\ k \notin Range(order)
        /\ UNCHANGED encoder
        /\ \A j \in Tracks : track'[j] = IF j = k THEN "live" ELSE track[j]
    BY <1>3, ReservedLast
  <2>2. encoder[k] = 0
    BY <2>1 DEF OrderInv
  <2>3. Range(pending') = Range(pending) \cup {k}
    BY <1>00, <1>3, <2>1, AppendFacts DEF AddSlot
  <2>4. \A j \in Tracks : pc'[j] = pc[j] /\ about'[j] = about[j]
    BY <1>00, <1>3 DEF AddSlot
  <2> HIDE DEF k
  <2>5. \A j \in Tracks : /\ Creating(j)' <=> Creating(j)
                          /\ Asking(j)' <=> Asking(j)
    BY <2>4
  <2>10. \A j \in Tracks : Creating(j) => track'[j] = "live"
    BY <1>h, <2>1
  <2> HIDE DEF Creating, Asking
  <2>6. \A j \in Tracks : Creating(j)' => track'[j] = "live" /\ InTurn(j)'
    BY <1>t, <2>5, <2>10
  <2>7. \A i, j \in Tracks : Creating(i)' /\ Creating(j)' => i = j
    BY <1>h, <2>5
  <2>8. \A j \in Tracks : track'[j] = "live" /\ (encoder'[j] = 0 \/ Asking(j)') => j \in Range(pending')
    BY <1>h, <2>1, <2>3, <2>5
  <2>9. \A j \in Tracks : j \in Range(pending') => encoder'[j] = 0 \/ Asking(j)'
    BY <1>h, <2>1, <2>2, <2>3, <2>5
  <2>11. \A j \in Tracks : pc'[j] = "insert" => about'[j] = j
    BY <1>h, <2>4
  <2> QED
    BY <2>6, <2>7, <2>8, <2>9, <2>11 DEF TurnInv
<1>4. ASSUME NEW t \in AppThreads, RetractPending(t) PROVE TurnInv'
  <2>1. /\ UNCHANGED <<encoder, track>>
        /\ \A j \in Tracks : pc'[j] = pc[j] /\ about'[j] = about[j]
    BY <1>00, <1>4 DEF RetractPending, nativeVars
  <2>2. Range(pending') = Range(pending) \ {about[t]}
    BY <1>00, <1>4, WithoutFacts DEF RetractPending
  <2>3. track[about[t]] = "dropping"
    BY <1>0, <1>4 DEF RetractPending, CallInv, Retracting, Retracted
  <2> QED
    BY <1>q, <2>1, <2>2, <2>3
<1>5. ASSUME NEW t \in AppThreads, LookPending(t) \/ LookAssigned(t) PROVE TurnInv'
  <2>1. /\ UNCHANGED <<encoder, track, pending>>
        /\ \A j \in Tracks : pc'[j] = pc[j] /\ about'[j] = about[j]
    BY <1>00, <1>5 DEF LookPending, LookAssigned, nativeVars, registryVars
  <2> QED
    BY <1>q, <2>1
<1>6. ASSUME NEW t \in AppThreads, RetractAssigned(t) PROVE TurnInv'
  <2>1. /\ UNCHANGED <<encoder, pending>>
        /\ \A j \in Tracks : pc'[j] = pc[j] /\ about'[j] = about[j]
        /\ \A j \in Tracks : track'[j] = IF j = about[t] THEN "gone" ELSE track[j]
    BY <1>00, <1>6 DEF RetractAssigned, nativeVars
  <2>2. about[t] \in Tracks /\ track[about[t]] = "dropping"
    BY <1>0, <1>6 DEF RetractAssigned, CallInv, Retracting, Retracted
  <2>3. \A j \in Tracks : Creating(j) => track'[j] = track[j]
    BY <1>h, <2>1, <2>2
  <2> QED
    BY <1>q, <2>1, <2>3
<1>7. ASSUME ListStep PROVE TurnInv'
  <2>1. /\ UNCHANGED <<encoder, track, pending>>
        /\ \A j \in Tracks : pc'[j] = pc[j] /\ about'[j] = about[j]
    BY <1>00, <1>7 DEF ListStep, ListCodecs, ScanPending, ScanAssigned, CodecsListed, nativeVars, registryVars
  <2> QED
    BY <1>q, <2>1
<1>8. ASSUME NEW k \in Tracks, CreateEncoder(k) PROVE TurnInv'
  <2>1. /\ encoder[k] = 0 /\ track[k] = "live" /\ InTurn(k) /\ k \in Range(order)
        /\ \A j \in Tracks : ~ Creating(j)
    BY <1>8 DEF CreateEncoder
  <2>2. /\ pc'[k] = "create" /\ encoder'[k] # 0
        /\ \A j \in Tracks : j # k => pc'[j] = pc[j] /\ encoder'[j] = encoder[j]
        /\ UNCHANGED <<pending, track, about>>
    BY <1>00, <1>8 DEF CreateEncoder, registryVars
  <2>3. InTurn(k)'
    BY <2>1, InTurnKept
  <2>4. k \in Range(pending)
    BY <1>h, <2>1
  <2>5. /\ \A j \in Tracks : Creating(j)' <=> j = k
        /\ \A j \in Tracks : Asking(j)' <=> j = k
    BY <2>1, <2>2
  <2>10. \A j \in Tracks : ~ Asking(j)
    BY <2>1
  <2> HIDE DEF Creating, Asking
  <2>6. \A j \in Tracks : Creating(j)' => track'[j] = "live" /\ InTurn(j)'
    BY <2>1, <2>2, <2>3, <2>5
  <2>8. \A j \in Tracks : track'[j] = "live" /\ (encoder'[j] = 0 \/ Asking(j)') => j \in Range(pending')
    BY <1>h, <2>2, <2>4, <2>5
  <2>9. \A j \in Tracks : j \in Range(pending') => encoder'[j] = 0 \/ Asking(j)'
    BY <1>h, <2>2, <2>5, <2>10
  <2>11. \A j \in Tracks : pc'[j] = "insert" => about'[j] = j
    BY <1>h, <2>2
  <2> QED
    BY <2>5, <2>6, <2>8, <2>9, <2>11 DEF TurnInv
<1>9. ASSUME NEW k \in Tracks, Pop(k) PROVE TurnInv'
  <2>1. pending # <<>> /\ Head(pending) = k
    BY <1>9, HeadIsOwn DEF Pop
  <2>2. /\ pc[k] = "pop" /\ pc'[k] = "insert" /\ about'[k] = k /\ pending' = Tail(pending)
        /\ \A j \in Tracks : j # k => pc'[j] = pc[j] /\ about'[j] = about[j]
        /\ UNCHANGED <<encoder, track>>
    BY <1>00, <1>9, <2>1 DEF Pop, nativeVars
  <2>3. Range(pending) = Range(pending') \cup {k}
    BY <1>00, <2>1, <2>2, TailFacts
  <2>4. k \notin Range(pending')
    <3> SUFFICES ASSUME NEW i \in DOMAIN Tail(pending), Tail(pending)[i] = k PROVE FALSE
      BY <2>2 DEF Range
    <3>1. /\ i + 1 \in DOMAIN pending /\ pending[i + 1] = k
          /\ 1 \in DOMAIN pending /\ pending[1] = k /\ i + 1 # 1
      BY <1>00, <2>1
    <3> QED
      BY <1>00, <3>1
  <2>5. /\ \A j \in Tracks : Creating(j)' <=> Creating(j)
        /\ \A j \in Tracks : Asking(j)' <=> Asking(j) /\ j # k
    BY <2>2
  <2>10. encoder[k] # 0
    <3>1. encoder[k] \in Encoders
      BY <1>0, <2>2 DEF RoleInv, Encoding
    <3> QED
      BY <3>1 DEF Encoders
  <2> HIDE DEF Creating, Asking
  <2>6. \A j \in Tracks : Creating(j)' => track'[j] = "live" /\ InTurn(j)'
    BY <1>h, <1>t, <2>2, <2>5
  <2>7. \A i, j \in Tracks : Creating(i)' /\ Creating(j)' => i = j
    BY <1>h, <2>5
  <2>8. \A j \in Tracks : track'[j] = "live" /\ (encoder'[j] = 0 \/ Asking(j)') => j \in Range(pending')
    BY <1>h, <2>2, <2>3, <2>5, <2>10
  <2>9. \A j \in Tracks : j \in Range(pending') => encoder'[j] = 0 \/ Asking(j)'
    BY <1>h, <2>2, <2>3, <2>4, <2>5
  <2>11. \A j \in Tracks : pc'[j] = "insert" => about'[j] = j
    BY <1>h, <2>2
  <2> QED
    BY <2>6, <2>7, <2>8, <2>9, <2>11 DEF TurnInv
<1>10. ASSUME NEW k \in Tracks, Lookup(k) \/ LastLook(k) \/ Insert(k) \/ Encode(k) \/ Route(k)
       PROVE  TurnInv'
  <2>1. /\ UNCHANGED <<encoder, track, pending, about>>
        /\ \A j \in Tracks : j # k => pc'[j] = pc[j]
        /\ \/ pc[k] = "lookup" /\ pc'[k] = "take"
           \/ pc[k] \in {"lastLook", "insert", "idle", "route"} /\ pc'[k] \in {"idle", "encode"}
    <3> USE DEF nativeVars, registryVars
    <3>1. CASE Lookup(k)
      BY <1>00, <3>1 DEF Lookup
    <3>2. CASE LastLook(k)
      BY <1>00, <3>2 DEF LastLook
    <3>3. CASE Insert(k)
      BY <1>00, <3>3 DEF Insert
    <3>4. CASE Encode(k) \/ Route(k)
      BY <1>00, <3>4 DEF Encode, Route
    <3> QED
      BY <1>10, <3>1, <3>2, <3>3, <3>4
  <2>2. \A j \in Tracks : /\ Creating(j)' => Creating(j)
                          /\ Asking(j)' <=> Asking(j)
                          /\ pc'[j] = "insert" => pc[j] = "insert" /\ about'[j] = about[j]
    BY <2>1
  <2> QED
    BY <1>q, <2>1, <2>2
<1>11. ASSUME NEW k \in Tracks, Entry(k) PROVE TurnInv'
  <2>1. /\ UNCHANGED <<encoder, track, pending>>
        /\ \A j \in Tracks : j # k => pc'[j] = pc[j] /\ about'[j] = about[j]
        /\ pc[k] = "entry" /\ pc'[k] \in {"idle", "route"}
    BY <1>00, <1>11 DEF Entry, nativeVars, registryVars
  <2>2. \A j \in Tracks : /\ Creating(j)' => Creating(j)
                          /\ Asking(j)' <=> Asking(j)
                          /\ pc'[j] = "insert" => pc[j] = "insert" /\ about'[j] = about[j]
    BY <2>1
  <2> QED
    BY <1>q, <2>1, <2>2
<1>12. ASSUME Quiet PROVE TurnInv'
  <2>1. UNCHANGED <<encoder, track, pending, pc, about>>
    BY <1>12 DEF Quiet, vars, nativeVars, registryVars
  <2> QED
    BY <1>q, <2>1
<1> HIDE DEF Creating, Asking, Goto
<1>13. ASSUME NEW t \in AppThreads, AppStep(t) PROVE TurnInv'
  BY <1>2, <1>3, <1>4, <1>5, <1>6, <1>13 DEF AppStep
<1>14. ASSUME NEW k \in Tracks, EncoderStep(k) PROVE TurnInv'
  BY <1>8, <1>9, <1>10, <1>11, <1>14 DEF EncoderStep
<1> QED
  BY <1>1, <1>7, <1>12, <1>13, <1>14 DEF Next

\* A binding is made with the reservation of the encoder's own stream, and keeps
\* its track.
LEMMA OwnStep ==
    ASSUME IInv, IdInv, TurnInv, OwnSlot, Next, ~ shifted, ~ shifted'
    PROVE  OwnSlot'
<1>0. TypeOK /\ RoleInv
  BY DEF IInv
<1>00. /\ assigned \in [Encoders -> Slot \cup {NoSlot}]
       /\ owner \in [Encoders -> Tracks \cup {NoTrack}]
       /\ \A e \in Encoders : assigned[e] # NoSlot => assigned[e].track = owner[e] /\ e < nextId
       /\ nextId \in Nat
  BY <1>0 DEF TypeOK, OwnSlot, IdInv
<1>1. CASE UNCHANGED <<assigned, nextId, encoder, owner>>
  BY <1>00, <1>1 DEF OwnSlot
<1>2. ASSUME NEW k \in Tracks, CreateEncoder(k) PROVE OwnSlot'
  <2>1. assigned' = assigned /\ \A e \in Encoders : e # nextId => owner'[e] = owner[e]
    BY <1>00, <1>2 DEF CreateEncoder, registryVars
  <2>2. \A e \in Encoders : assigned[e] # NoSlot => e # nextId
    BY <1>00
  <2> QED
    BY <1>00, <2>1, <2>2 DEF OwnSlot
<1>3. ASSUME NEW k \in Tracks, Insert(k) PROVE OwnSlot'
  <2>1. encoder[k] \in Encoders /\ about[k] = k
    BY <1>0, <1>3 DEF Insert, RoleInv, Encoding, TurnInv
  <2>2. owner[encoder[k]] = k
    BY <2>1 DEF IdInv, Encoders
  <2>3. /\ owner' = owner
        /\ assigned'[encoder[k]].track = about[k]
        /\ \A e \in Encoders : e # encoder[k] => assigned'[e] = assigned[e]
    BY <1>00, <1>3, <2>1 DEF Insert
  <2> QED
    BY <1>00, <2>1, <2>2, <2>3 DEF OwnSlot
<1>4. ASSUME NEW t \in AppThreads, RetractAssigned(t) PROVE OwnSlot'
  <2>1. owner' = owner
    BY <1>4 DEF RetractAssigned, nativeVars
  <2> QED
    BY <1>00, <1>4, <2>1, DegradeFacts DEF OwnSlot
<1> QED
  BY <1>1, <1>2, <1>3, <1>4, IdSplit

-----------------------------------------------------------------------------
(* The theorems.                                                           *)

\* The inductive invariant holds of every state the registry reaches.
THEOREM Invariance == Spec => []IInv
<1>1. IInv /\ [Next]_vars => IInv'
  <2> SUFFICES ASSUME IInv, [Next]_vars PROVE IInv'
    OBVIOUS
  <2>1. CASE Next
    <3>1. TypeOK' /\ LockInv' /\ RoleInv' /\ CallInv' /\ TableInv' /\ ListInv' /\ NoCustomMissed'
      BY <2>1, TypeStep, LockStep, RoleStep, CallStep, TableStep, ListInvStep
    <3> QED
      BY <3>1 DEF IInv
  <2>2. CASE UNCHANGED vars
    BY <2>2 DEF IInv, TypeOK, LockInv, RoleInv, CallInv, TableInv, ListInv, NoCustomMissed,
                CustomSlots, vars, registryVars, lockVars, nativeVars, listVars
  <2> QED
    BY <2>1, <2>2
<1> QED
  BY <1>1, InitInv, PTL DEF Spec

\* The registry's types, and one reservation at most for each track.
THEOREM TypeCorrect == Spec => []TypeOK
<1>1. IInv => TypeOK
  BY DEF IInv
<1> QED
  BY <1>1, Invariance, PTL

\* Nothing is routed through the lane of a track whose drop is over (retract,
\* against an encoder thread in use_builtin_for at the time).
THEOREM DeadRoutesNothing == Spec => []DeadNeverRoutes
<1>1. IInv => DeadNeverRoutes
  BY DEF IInv, TableInv, DeadNeverRoutes
<1> QED
  BY <1>1, Invariance, PTL

\* has_custom overlooks no slot, also one that changes tables between its two
\* looks.
THEOREM NothingMissed == Spec => []NoCustomMissed
<1>1. IInv => NoCustomMissed
  BY DEF IInv
<1> QED
  BY <1>1, Invariance, PTL

\* The two mutexes are taken in one order only: `pending` inside `assigned`.
THEOREM NoDeadlock == Spec => []NoLockCycle
<1>1. IInv => NoLockCycle
  <2> SUFFICES ASSUME LockInv, NEW t \in Threads, NEW u \in Threads,
                      NEW l \in {"pending", "assigned"}, NEW m \in {"pending", "assigned"},
                      WaitsFor(t, l), Holds(u, l), WaitsFor(u, m), Holds(t, m)
               PROVE  FALSE
    BY DEF IInv, NoLockCycle
  <2> QED
    BY DEF LockInv, HoldsPending, HoldsAssigned, WaitsFor, Holds, WantsPending, WantsAssigned
<1> QED
  BY <1>1, Invariance, PTL

\* An encoder is bound to its own stream's track, for as long as none is asked for
\* on behalf of a dropped track or for the second time (use_builtin_for takes the
\* oldest reservation, add_*_slot and retract come at any moment).
THEOREM OwnReservation == Spec => []OwnSlot
<1>1. Init => OwnInv
  <2> SUFFICES ASSUME Init PROVE OwnInv
    OBVIOUS
  <2> USE DEF OwnInv
  <2>1. OrderInv
    BY DEF Init, OrderInv, Range
  <2>2. IdInv
    BY DEF Init, IdInv
  <2>3. TurnInv
    <3>1. \A k \in Tracks : pc[k] = "idle"
      BY DEF Init, Threads
    <3>2. \A k \in Tracks : ~ Creating(k) /\ ~ Asking(k) /\ pc[k] # "insert"
      BY <3>1 DEF Creating, Asking
    <3>3. \A k \in Tracks : track[k] = "none" /\ k \notin Range(pending)
      BY DEF Init, Range
    <3> QED
      BY <3>2, <3>3 DEF TurnInv
  <2>4. OwnSlot
    BY DEF Init, OwnSlot
  <2> QED
    BY <2>1, <2>2, <2>3, <2>4
<1>2. IInv /\ OwnInv /\ [Next]_vars => OwnInv'
  <2> SUFFICES ASSUME IInv, OwnInv, [Next]_vars PROVE OwnInv'
    OBVIOUS
  <2> USE DEF OwnInv
  <2>1. CASE Next
    <3>1. OrderInv' /\ IdInv'
      BY <2>1, OrderStep, IdStep
    <3>2. CASE shifted'
      BY <3>1, <3>2 DEF OwnSlot
    <3>3. CASE ~ shifted'
      <4>1. ~ shifted /\ TurnInv
        BY <2>1, <3>3, ShiftedStays
      <4>2. TurnInv' /\ OwnSlot'
        BY <2>1, <3>3, <4>1, TurnStep, OwnStep
      <4> QED
        BY <3>1, <4>2
    <3> QED
      BY <3>2, <3>3
  <2>2. CASE UNCHANGED vars
    <3>1. UNCHANGED <<pending, assigned, pc, about, track, nextId, encoder, order, owner, shifted>>
      BY <2>2 DEF vars, registryVars, nativeVars
    <3>2. OrderInv' /\ IdInv' /\ OwnSlot'
      BY <3>1 DEF OrderInv, IdInv, OwnSlot, Before
    <3>3. ~ shifted' => TurnInv'
      BY <3>1 DEF TurnInv, Creating, Asking, InTurn
    <3> QED
      BY <3>2, <3>3
  <2> QED
    BY <2>1, <2>2
<1>3. OwnInv => OwnSlot
  BY DEF OwnInv
<1> QED
  BY <1>1, <1>2, <1>3, Invariance, PTL DEF Spec

=============================================================================
