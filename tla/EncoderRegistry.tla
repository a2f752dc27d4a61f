-------------------------- MODULE EncoderRegistry --------------------------
(***************************************************************************)
(* Which track's encoder slot an encoder of libwebrtc is served from         *)
(* (EncoderRegistry, encoded.rs): a track reserves a slot when it is created  *)
(* (lib.rs) and retracts it when it is dropped (media.rs); the native factory *)
(* gives each encoder it creates an id (reactor_webrtc.cpp), and the first    *)
(* question about an id takes the oldest reservation.                        *)
(*                                                                         *)
(* Application threads, the encoder thread of each stream and the thread      *)
(* that lists the codecs share two mutexes.  A thread is between two steps    *)
(* where it takes or releases one.  Log lines are left out, the looks into the *)
(* tables that decide about one are kept for the mutexes they take.          *)
(***************************************************************************)
EXTENDS Naturals, Sequences, Functions

CONSTANTS
    Tracks,       \* local video tracks; each has one stream, with a thread of its own
    Custom,       \* those created with a TrackVideoEncoder
    NoTrack,
    AppThreads,   \* threads that create and drop tracks
    Signaling,    \* the thread that lists the codecs
    NoThread,     \* nobody holds the lock
    MaxEncoders,  \* bound: encoders libwebrtc creates
    Listings      \* bound: lists of codecs asked for

Threads  == AppThreads \cup {Signaling} \cup Tracks
Encoders == 1 .. MaxEncoders

ASSUME TracksAssumption  == Custom \subseteq Tracks /\ NoTrack \notin Tracks
ASSUME ThreadsAssumption ==
    /\ NoThread \notin Threads
    /\ Signaling \notin AppThreads \cup Tracks
    /\ AppThreads \cap Tracks = {}
ASSUME BoundsAssumption  == MaxEncoders \in Nat /\ Listings \in Nat

VARIABLES
    pending,       \* EncoderRegistry::pending: the tracks with a reservation, oldest first
    assigned,      \* EncoderRegistry::assigned, or NoSlot for an id it does not have
    pendingLock,   \* holder of each mutex, or NoThread
    assignedLock,
    pc,            \* where each thread is
    about,         \* the track a thread's call is about: to add, to retract, or popped
    track,         \* what has become of each track
    nextId,        \* the native factory's next_id_
    encoder,       \* the id of each stream's encoder, or 0
    isCustom,      \* that encoder is a ReactorVideoEncoder
    found,         \* has_custom's answer
    listings,      \* bound
    order,         \* history: the tracks in the order of their reservations
    owner,         \* history: the stream each encoder was created for
    existed,       \* history: the custom slots there were when has_custom was called
    shifted        \* history: an encoder was asked for that no reservation was made for

registryVars == <<pending, assigned>>
lockVars     == <<pendingLock, assignedLock>>
nativeVars   == <<nextId, encoder, isCustom, owner, shifted>>
listVars     == <<found, existed, listings>>
vars         == <<registryVars, lockVars, nativeVars, listVars, pc, about, track, order>>

\* The slot an id is bound to; a custom one is served by its track's owner.
Slot   == [track : Tracks, custom : BOOLEAN]
NoSlot == [track |-> NoTrack, custom |-> FALSE]

Goto(t, label) == pc' = [pc EXCEPT ![t] = label]

-----------------------------------------------------------------------------
(* The mutexes.                                                            *)

\* Where a thread waits for a mutex, and where it goes on once it has it.
WantsPending  == [add |-> "push", retract |-> "retain", othersLeft |-> "lookPending",
                  list |-> "scanPending", take |-> "pop", noneLeft |-> "lastLook"]
WantsAssigned == [othersBound |-> "lookAssigned", degradeLock |-> "degrade",
                  listAssigned |-> "scanAssigned", create |-> "lookup", encode |-> "entry"]

LockPending(t) ==
    /\ pc[t] \in DOMAIN WantsPending
    /\ pendingLock = NoThread
    /\ pendingLock' = t
    /\ Goto(t, WantsPending[pc[t]])
    /\ UNCHANGED <<registryVars, assignedLock, nativeVars, listVars, about, track, order>>

LockAssigned(t) ==
    /\ pc[t] \in DOMAIN WantsAssigned
    /\ assignedLock = NoThread
    /\ assignedLock' = t
    /\ Goto(t, WantsAssigned[pc[t]])
    /\ UNCHANGED <<registryVars, pendingLock, nativeVars, listVars, about, track, order>>

-----------------------------------------------------------------------------
(* Tracks come and go.                                                     *)

\* The native track is made; its reservation comes after.
CreateTrack(t, k) ==
    /\ pc[t] = "idle" /\ track[k] = "none"
    /\ track' = [track EXCEPT ![k] = "made"]
    /\ about' = [about EXCEPT ![t] = k]
    /\ Goto(t, "add")
    /\ UNCHANGED <<registryVars, lockVars, nativeVars, listVars, order>>

\* Mutant: the track was made by a call that had reserved already.
AddSlot_Twice(t) ==
    /\ pc[t] = "push"
    /\ pending' = pending \o <<about[t], about[t]>>
    /\ order' = Append(order, about[t])
    /\ pendingLock' = NoThread
    /\ track' = [track EXCEPT ![about[t]] = "live"]
    /\ Goto(t, "idle")
    /\ UNCHANGED <<assigned, assignedLock, nativeVars, listVars, about>>

\* Mutant: the new reservation goes first.
AddSlot_First(t) ==
    /\ pc[t] = "push"
    /\ pending' = <<about[t]>> \o pending
    /\ order' = Append(order, about[t])
    /\ pendingLock' = NoThread
    /\ track' = [track EXCEPT ![about[t]] = "live"]
    /\ Goto(t, "idle")
    /\ UNCHANGED <<assigned, assignedLock, nativeVars, listVars, about>>

\* add_encoded_slot, add_inline_slot, add_raw_slot: the reservation goes last.
AddSlot(t) ==
    /\ pc[t] = "push"
    /\ pending' = Append(pending, about[t])
    /\ order' = Append(order, about[t])
    /\ pendingLock' = NoThread
    /\ track' = [track EXCEPT ![about[t]] = "live"]
    /\ Goto(t, "idle")
    /\ UNCHANGED <<assigned, assignedLock, nativeVars, listVars, about>>

\* Stream k is in the middle of creating an encoder.
Creating(k) == pc[k] \in {"create", "lookup", "take", "pop", "noneLeft", "lastLook", "insert"}

\* Track's drop.
DropTrack(t, k) ==
    /\ pc[t] = "idle" /\ track[k] = "live"
    /\ track' = [track EXCEPT ![k] = "dropping"]
    /\ about' = [about EXCEPT ![t] = k]
    /\ shifted' = (shifted \/ Creating(k))
    /\ Goto(t, "retract")
    /\ UNCHANGED <<registryVars, lockVars, nextId, encoder, isCustom, owner, listVars, order>>

\* What is left of s without k, which is in it once at most.
Without(s, k) ==
    IF \E i \in DOMAIN s : s[i] = k
    THEN LET i == CHOOSE i \in DOMAIN s : s[i] = k
         IN SubSeq(s, 1, i - 1) \o SubSeq(s, i + 1, Len(s))
    ELSE s

\* Mutant: the reservation stays.
RetractPending_Keeps(t) ==
    /\ pc[t] = "retain"
    /\ pendingLock' = NoThread
    /\ Goto(t, "othersLeft")
    /\ UNCHANGED <<registryVars, assignedLock, nativeVars, listVars, about, track, order>>

\* retract: what is reserved goes,
RetractPending(t) ==
    /\ pc[t] = "retain"
    /\ pending' = Without(pending, about[t])
    /\ pendingLock' = NoThread
    /\ Goto(t, "othersLeft")
    /\ UNCHANGED <<assigned, assignedLock, nativeVars, listVars, about, track, order>>

\* is any other custom slot left (for a log line), reserved
LookPending(t) ==
    /\ pc[t] = "lookPending"
    /\ pendingLock' = NoThread
    /\ Goto(t, IF Range(pending) \cap Custom # {} THEN "degradeLock" ELSE "othersBound")
    /\ UNCHANGED <<registryVars, assignedLock, nativeVars, listVars, about, track, order>>

\* or bound,
LookAssigned(t) ==
    /\ pc[t] = "lookAssigned"
    /\ assignedLock' = NoThread
    /\ Goto(t, "degradeLock")
    /\ UNCHANGED <<registryVars, pendingLock, nativeVars, listVars, about, track, order>>

\* and what is bound degrades to the builtin encoder.
RetractAssigned(t) ==
    /\ pc[t] = "degrade"
    /\ assigned' = [e \in Encoders |->
          IF assigned[e].track = about[t] THEN [assigned[e] EXCEPT !.custom = FALSE] ELSE assigned[e]]
    /\ assignedLock' = NoThread
    /\ track' = [track EXCEPT ![about[t]] = "gone"]
    /\ Goto(t, "idle")
    /\ UNCHANGED <<pending, pendingLock, nativeVars, listVars, about, order>>

-----------------------------------------------------------------------------
(* has_custom, for the list of codecs.                                      *)

\* Tracks with a custom slot the registry holds, also one on its way between
\* the two tables.
CustomSlots ==
    (Range(pending) \cap Custom)
      \cup {assigned[e].track : e \in {e \in Encoders : assigned[e].custom}}
      \cup {about[k] : k \in {k \in Tracks : pc[k] = "insert" /\ about[k] \in Custom}}

\* Some custom slot is bound.
AnyBound == \E e \in Encoders : assigned[e].custom

\* GetSupportedFormats
ListCodecs ==
    /\ pc[Signaling] = "idle"
    /\ listings > 0 /\ listings' = listings - 1
    /\ existed' = CustomSlots
    /\ found' = FALSE
    /\ Goto(Signaling, "list")
    /\ UNCHANGED <<registryVars, lockVars, nativeVars, about, track, order>>

\* has_custom: `pending`, whose lock goes before the other is taken,
ScanPending ==
    /\ pc[Signaling] = "scanPending"
    /\ found' = (Range(pending) \cap Custom # {})
    /\ pendingLock' = NoThread
    /\ Goto(Signaling, IF found' THEN "listed" ELSE "listAssigned")
    /\ UNCHANGED <<registryVars, assignedLock, nativeVars, existed, listings, about, track, order>>

\* and, unless that had one, `assigned`.
ScanAssigned ==
    /\ pc[Signaling] = "scanAssigned"
    /\ found' = AnyBound
    /\ assignedLock' = NoThread
    /\ Goto(Signaling, "listed")
    /\ UNCHANGED <<registryVars, pendingLock, nativeVars, existed, listings, about, track, order>>

CodecsListed ==
    /\ pc[Signaling] = "listed"
    /\ Goto(Signaling, "idle")
    /\ UNCHANGED <<registryVars, lockVars, nativeVars, listVars, about, track, order>>

-----------------------------------------------------------------------------
(* An encoder is created, and encodes.                                     *)

\* k's turn in the order of the reservations: every track before it has its
\* encoder or is gone.
InTurn(k) ==
    \A i, j \in DOMAIN order :
        i < j /\ order[j] = k => encoder[order[i]] # 0 \/ track[order[i]] = "gone"

\* The native factory's Create: libwebrtc creates the encoders of a negotiation
\* one after the other, and another one for a stream that has one whenever it
\* sees fit.
CreateEncoder(k) ==
    /\ pc[k] = "idle"
    /\ k \in Range(order)
    /\ nextId \in Encoders
    /\ \/ encoder[k] # 0
       \/ encoder[k] = 0 /\ InTurn(k) /\ \A j \in Tracks : ~Creating(j)
    /\ shifted' = (shifted \/ encoder[k] # 0 \/ track[k] # "live")
    /\ nextId' = nextId + 1
    /\ encoder' = [encoder EXCEPT ![k] = nextId]
    /\ owner' = [owner EXCEPT ![nextId] = k]
    /\ isCustom' = [isCustom EXCEPT ![k] = FALSE]
    /\ Goto(k, "create")
    /\ UNCHANGED <<registryVars, lockVars, listVars, about, track, order>>

\* Mutant: `assigned` is let go while `pending` is asked.
Lookup_Unlocks(k) ==
    /\ pc[k] = "lookup"
    /\ assignedLock' = NoThread
    /\ Goto(k, "take")
    /\ UNCHANGED <<registryVars, pendingLock, nativeVars, listVars, about, track, order>>

\* use_builtin_for: an id nobody has asked about is not in `assigned`, which
\* stays locked.
Lookup(k) ==
    /\ pc[k] = "lookup"
    /\ assigned[encoder[k]] = NoSlot
    /\ Goto(k, "take")
    /\ UNCHANGED <<registryVars, lockVars, nativeVars, listVars, about, track, order>>

\* Mutant: with no reservation left has_custom is asked, `assigned` locked.
Pop_AsksHasCustom(k) ==
    /\ pc[k] = "pop"
    /\ pendingLock' = NoThread
    /\ IF pending # <<>>
       THEN /\ about' = [about EXCEPT ![k] = Head(pending)]
            /\ pending' = Tail(pending)
            /\ Goto(k, "insert")
       ELSE /\ Goto(k, "listAssigned")
            /\ UNCHANGED <<about, pending>>
    /\ UNCHANGED <<assigned, assignedLock, nativeVars, listVars, track, order>>

\* The oldest reservation, or the builtin encoder when there is none; is any
\* custom slot left then (for a log line), bound
Pop(k) ==
    /\ pc[k] = "pop"
    /\ pendingLock' = NoThread
    /\ \/ /\ pending # <<>>
          /\ about' = [about EXCEPT ![k] = Head(pending)]
          /\ pending' = Tail(pending)
          /\ Goto(k, "insert")
          /\ UNCHANGED assignedLock
       \/ /\ pending = <<>> /\ AnyBound
          /\ assignedLock' = NoThread
          /\ Goto(k, "idle")
          /\ UNCHANGED <<about, pending>>
       \/ /\ pending = <<>> /\ ~AnyBound
          /\ Goto(k, "noneLeft")
          /\ UNCHANGED <<about, pending, assignedLock>>
    /\ UNCHANGED <<assigned, nativeVars, listVars, track, order>>

\* or reserved in the meantime.
LastLook(k) ==
    /\ pc[k] = "lastLook"
    /\ pendingLock' = NoThread /\ assignedLock' = NoThread
    /\ Goto(k, "idle")
    /\ UNCHANGED <<registryVars, nativeVars, listVars, about, track, order>>

\* The reservation becomes the id's, and decides which encoder is built.
Insert(k) ==
    /\ pc[k] = "insert"
    /\ assigned' = [assigned EXCEPT ![encoder[k]] =
                       [track |-> about[k], custom |-> about[k] \in Custom]]
    /\ isCustom' = [isCustom EXCEPT ![k] = about[k] \in Custom]
    /\ assignedLock' = NoThread
    /\ Goto(k, "idle")
    /\ UNCHANGED <<pending, pendingLock, nextId, encoder, owner, shifted, listVars, about, track,
                   order>>

\* ReactorVideoEncoder::Encode, and SetRates likewise
Encode(k) ==
    /\ pc[k] = "idle"
    /\ isCustom[k]
    /\ Goto(k, "encode")
    /\ UNCHANGED <<registryVars, lockVars, nativeVars, listVars, about, track, order>>

\* encode_for, rate_update: the slot is cloned and the lock let go,
Entry(k) ==
    /\ pc[k] = "entry"
    /\ assignedLock' = NoThread
    /\ about' = [about EXCEPT ![k] = assigned[encoder[k]].track]
    /\ Goto(k, IF assigned[encoder[k]].custom THEN "route" ELSE "idle")
    /\ UNCHANGED <<registryVars, pendingLock, nativeVars, listVars, track, order>>

\* before the track's queue, callback or listener is used.
Route(k) ==
    /\ pc[k] = "route"
    /\ Goto(k, "idle")
    /\ UNCHANGED <<registryVars, lockVars, nativeVars, listVars, about, track, order>>

-----------------------------------------------------------------------------

Init ==
    /\ pending = <<>> /\ assigned = [e \in Encoders |-> NoSlot]
    /\ pendingLock = NoThread /\ assignedLock = NoThread
    /\ pc = [t \in Threads |-> "idle"]
    /\ about = [t \in Threads |-> NoTrack]
    /\ track = [k \in Tracks |-> "none"]
    /\ nextId = 1
    /\ encoder = [k \in Tracks |-> 0]
    /\ isCustom = [k \in Tracks |-> FALSE]
    /\ found = FALSE /\ existed = {} /\ listings = Listings
    /\ order = <<>>
    /\ owner = [e \in Encoders |-> NoTrack]
    /\ shifted = FALSE

AppStep(t) ==
    \/ \E k \in Tracks : CreateTrack(t, k) \/ DropTrack(t, k)
    \/ AddSlot(t)
    \/ RetractPending(t) \/ LookPending(t) \/ LookAssigned(t) \/ RetractAssigned(t)

ListStep == ListCodecs \/ ScanPending \/ ScanAssigned \/ CodecsListed

EncoderStep(k) ==
    \/ CreateEncoder(k) \/ Lookup(k) \/ Pop(k) \/ LastLook(k) \/ Insert(k)
    \/ Encode(k) \/ Entry(k) \/ Route(k)

\* No call is in progress.
Quiet == (\A t \in Threads : pc[t] = "idle") /\ UNCHANGED vars

Next ==
    \/ \E t \in Threads : LockPending(t) \/ LockAssigned(t)
    \/ \E t \in AppThreads : AppStep(t)
    \/ ListStep
    \/ \E k \in Tracks : EncoderStep(k)
    \/ Quiet

Spec == Init /\ [][Next]_vars

-----------------------------------------------------------------------------
(* Correctness.                                                            *)

Labels == DOMAIN WantsPending \cup DOMAIN WantsAssigned
            \cup {"idle", "push", "retain", "lookPending", "lookAssigned", "degrade", "scanPending",
                  "scanAssigned", "pop", "lastLook", "lookup", "entry", "insert", "route", "listed"}

\* Every variable keeps to the values the code's types allow it, and a track
\* has one reservation at most.
TypeOK ==
    /\ pending \in Seq(Tracks)
    /\ \A i, j \in DOMAIN pending : pending[i] = pending[j] => i = j
    /\ assigned \in [Encoders -> Slot \cup {NoSlot}]
    /\ pendingLock \in Threads \cup {NoThread}
    /\ assignedLock \in Threads \cup {NoThread}
    /\ pc \in [Threads -> Labels]
    /\ about \in [Threads -> Tracks \cup {NoTrack}]
    /\ track \in [Tracks -> {"none", "made", "live", "dropping", "gone"}]
    /\ nextId \in Nat /\ encoder \in [Tracks -> Nat]
    /\ isCustom \in [Tracks -> BOOLEAN]
    /\ found \in BOOLEAN /\ existed \in SUBSET Tracks /\ listings \in Nat
    /\ order \in Seq(Tracks)
    /\ owner \in [Encoders -> Tracks \cup {NoTrack}]
    /\ shifted \in BOOLEAN

\* Once a track's drop is over none of its custom slot is left, reserved or
\* bound, whatever an encoder thread was doing with it at the time: nothing
\* asked from then on is routed through the dead lane (media.rs).
DeadNeverRoutes ==
    \A k \in Tracks : track[k] = "gone" => k \notin CustomSlots

\* has_custom misses no custom slot, also one that moves from one table to the
\* other between its two looks: when it says no, every one there was when it
\* was called has been or is being dropped.
NoCustomMissed ==
    pc[Signaling] = "listed" /\ ~found =>
        \A k \in existed : track[k] \in {"dropping", "gone"}

\* The mutex a thread waits for.
WaitsFor(t, lock) ==
    \/ lock = "pending"  /\ pc[t] \in DOMAIN WantsPending
    \/ lock = "assigned" /\ pc[t] \in DOMAIN WantsAssigned

Holds(t, lock) ==
    \/ lock = "pending"  /\ pendingLock = t
    \/ lock = "assigned" /\ assignedLock = t

\* Nobody waits for a mutex of his own, and no two threads for each other's.
NoLockCycle ==
    \A t, u \in Threads : \A l, m \in {"pending", "assigned"} :
        ~(WaitsFor(t, l) /\ Holds(u, l) /\ WaitsFor(u, m) /\ Holds(t, m))

\* An encoder is bound to its own stream's track, as long as no encoder is asked
\* for on behalf of a dropped track or for the second time, whatever is dropped
\* in between: the order of the reservations is enough.
OwnSlot ==
    ~shifted => \A e \in Encoders : assigned[e] # NoSlot => assigned[e].track = owner[e]

\* Stream k had an encoder before the one it has now.
Recreated(k) == \E e \in Encoders : owner[e] = k /\ e # encoder[k]

\* retract's comment: an encoder recreated for a dead stream never consumes
\* another track's slot.
NeverAnothersSlot ==
    \A k \in Tracks : pc[k] = "insert" /\ track[k] = "gone" /\ Recreated(k) => about[k] = k

=============================================================================
