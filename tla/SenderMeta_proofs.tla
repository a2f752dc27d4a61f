-------------------------- MODULE SenderMeta_proofs --------------------------
(***************************************************************************)
(* Theorems about SenderMeta, for any threads, transceivers and tracks.      *)
(***************************************************************************)
EXTENDS SenderMeta, SequenceTheorems, TLAPS

-----------------------------------------------------------------------------
(* The inductive invariant: types.                                         *)

Transceiver == [up : BOOLEAN, nth : Nat, track : Tracks \cup {Nothing},
                remote : {"none", "live", "gone"}]
Slot == [caller : Nat, meta : Tracks \cup Nat \cup {Nothing}, installed : BOOLEAN]
Op == [at : Labels, call : {"none", "remote", "install", "set_track", "transform"},
       key : Keys \cup {Nothing}, fill : Tracks \cup Nat \cup {Nothing} \cup BOOLEAN,
       slot : Nat, handles : SUBSET Transceivers, todo : SUBSET Transceivers,
       lent : Tracks \cup {Nothing}]

\* Where a thread has the key of a side, and where it has its slot.
KeyLabels  == {"allowed", "lookup", "lookupReceiver", "reread", "update", "swap", "gate", "slot",
               "fill", "claim", "attach", "release", "unclaim"}
SlotLabels == {"fill", "swap", "claim", "attach", "release", "unclaim"}

StateTypes ==
    /\ mode \in Modes /\ gate \in BOOLEAN
    /\ tc \in [Transceivers -> Transceiver]
    /\ slots \in Seq(Slot)
    /\ registry \in [Keys -> 0 .. Len(slots)] /\ attached \in [Keys -> 0 .. Len(slots)]
    /\ wrapped \subseteq Tracks
    /\ calls \in [Threads -> Nat] /\ op \in [Threads -> Op]
    /\ promised \in [Keys -> BOOLEAN] /\ raced \in BOOLEAN

\* What the call o has in hand: a key's transceiver is kept by a handle.
InHand(o) ==
    /\ o.handles \subseteq Up /\ o.todo \subseteq o.handles
    /\ o.at \in KeyLabels => o.key \in Keys /\ o.key[1] \in o.handles
    /\ o.at \in SlotLabels => o.slot \in 1 .. Len(slots)
    /\ o.at # "arm" => o.fill \in Tracks \cup Nat \cup {Nothing}

TypeInv == StateTypes /\ \A t \in Threads : InHand(op[t])

-----------------------------------------------------------------------------
(* The inductive invariant: slots and transformers.                        *)

\* Only one thread makes calls.
Single(m) == \E t \in Threads : \A u \in Threads \ {t} : m.calls[u] = 0

\* No transceiver is made between another thread's enumeration and its pruning; and
\* libwebrtc frees them, if at all, under one thread and where a pruning follows.
Orderly ==
    \A m \in Modes : ~m.overtakes /\ (m.frees = "never" \/ (m.frees = "gateOpen" /\ Single(m)))

\* Nor is an attach that fails another thread's, whose flag was taken for it.
Reported == Orderly /\ \A m \in Modes : m.fails => Single(m)

Claims(o) == o.at \in {"attach", "release", "unclaim"}

\* A thread that will prune before its call ends.
Prunes(o) == \/ o.at = "arm" /\ Enabled /\ o.fill = TRUE
             \/ o.at = "install" /\ gate
             \/ o.at = "prune"

LoneInv == Single(mode) =>
    \E t \in Threads : \A u \in Threads \ {t} : calls[u] = 0 /\ op[u] = Idle

\* Nothing is left at an address without a transceiver, but a slot soon to be pruned.
StaleInv ==
    \A k \in Keys : ~tc[k[1]].up =>
        /\ attached[k] = 0 /\ ~promised[k]
        /\ registry[k] # 0 => mode.frees = "gateOpen" /\ \E t \in Threads : Prunes(op[t])

PruneInv == \A t \in Threads : op[t].at = "prune" => op[t].handles = Up

\* A slot is found by one key, which finds the slot a thread has in hand.
RegistryInv ==
    /\ \A k, l \in Keys : registry[k] = registry[l] /\ registry[k] # 0 => k = l
    /\ \A t \in Threads : op[t].at \in SlotLabels => registry[op[t].key] = op[t].slot

\* A side is claimed by one thread, with nothing attached yet.
ClaimInv ==
    \A t \in Threads : Claims(op[t]) =>
        /\ attached[op[t].key] = 0 /\ slots[op[t].slot].installed
        /\ \A u \in Threads \ {t} : ~(Claims(op[u]) /\ op[u].key = op[t].key)

\* A callback that was promised is in the slot of its side, which is installed.
PromiseInv ==
    /\ \A k \in Keys : promised[k] =>
          /\ registry[k] # 0 /\ slots[registry[k]].installed
          /\ slots[registry[k]].caller = tc[k[1]].nth
    /\ \A t \in Threads : op[t].call = "transform" /\ op[t].at \in {"claim", "attach"} =>
          slots[op[t].slot].caller = tc[op[t].key[1]].nth
    /\ \A t \in Threads : Claims(op[t]) /\ mode.fails => ~promised[op[t].key]
    /\ \A t \in Threads : op[t].at \in {"release", "unclaim"} => mode.fails

-----------------------------------------------------------------------------
(* Calls and slots, field by field.                                        *)

LEMMA OpFields ==
    ASSUME NEW o \in Op
    PROVE  /\ o.at \in Labels /\ o.key \in Keys \cup {Nothing} /\ o.slot \in Nat
           /\ o.call \in {"none", "remote", "install", "set_track", "transform"}
           /\ o.fill \in Tracks \cup Nat \cup {Nothing} \cup BOOLEAN
           /\ o.handles \subseteq Transceivers /\ o.todo \subseteq Transceivers
           /\ o.lent \in Tracks \cup {Nothing}
BY DEF Op

LEMMA IdleFields ==
    /\ Idle \in Op /\ Idle.at = "idle" /\ Idle.call = "none" /\ Idle.handles = {}
    /\ Idle.todo = {} /\ Idle.fill = Nothing /\ Idle.slot = 0 /\ Idle.key = Nothing
BY DEF Idle, Op, Labels

LEMMA KeyFacts ==
    /\ \A k \in Keys : k[1] \in Transceivers /\ k[2] \in Sides
    /\ \A a \in Transceivers : \A s \in Sides : /\ <<a, s>> \in Keys
                                                /\ <<a, s>>[1] = a /\ <<a, s>>[2] = s
    /\ "send" \in Sides /\ "receive" \in Sides
BY DEF Keys, Sides

\* A thread's step leaves the other threads' calls alone.
LEMMA Becomes ==
    ASSUME op \in [Threads -> Op], NEW t \in Threads, NEW r \in Op, op' = [op EXCEPT ![t] = r]
    PROVE  op' \in [Threads -> Op] /\ op'[t] = r /\ \A u \in Threads \ {t} : op'[u] = op[u]
OBVIOUS

LEMMA GoFields ==
    ASSUME op \in [Threads -> Op], NEW t \in Threads, NEW l \in Labels, Go(t, l)
    PROVE  /\ op' \in [Threads -> Op] /\ \A u \in Threads \ {t} : op'[u] = op[u]
           /\ op'[t].at = l /\ op'[t].key = op[t].key /\ op'[t].slot = op[t].slot
           /\ op'[t].call = op[t].call /\ op'[t].fill = op[t].fill
           /\ op'[t].handles = op[t].handles /\ op'[t].todo = op[t].todo
<1> DEFINE r == [op[t] EXCEPT !.at = l]
<1>1. op' = [op EXCEPT ![t] = r] /\ op[t] \in Op
  BY DEF Go
<1>2. /\ r \in Op /\ r.at = l /\ r.key = op[t].key /\ r.slot = op[t].slot
      /\ r.call = op[t].call /\ r.fill = op[t].fill
      /\ r.handles = op[t].handles /\ r.todo = op[t].todo
  BY <1>1 DEF Op
<1> HIDE DEF r
<1> QED
  BY <1>1, <1>2, Becomes

LEMMA InstallFields ==
    ASSUME op \in [Threads -> Op], NEW t \in Threads, StartInstall(t)
    PROVE  /\ op' \in [Threads -> Op] /\ \A u \in Threads \ {t} : op'[u] = op[u]
           /\ op'[t].at = "install" /\ op'[t].call = "install" /\ op'[t].handles = {}
           /\ op'[t].todo = {} /\ op'[t].fill = Nothing /\ raced' \in BOOLEAN
<1> DEFINE r == [Idle EXCEPT !.at = "install", !.call = "install"]
<1>1. op' = [op EXCEPT ![t] = r]
  BY DEF StartInstall
<1>2. /\ r \in Op /\ r.at = "install" /\ r.call = "install" /\ r.handles = {} /\ r.todo = {}
      /\ r.fill = Nothing
  BY DEF Op, Idle, Labels
<1>3. raced' \in BOOLEAN
  BY DEF StartInstall, Crosses
<1> HIDE DEF r
<1> QED
  BY <1>1, <1>2, <1>3, Becomes

\* A side that is done.
LEMMA LeaveFields ==
    ASSUME op \in [Threads -> Op], NEW t \in Threads, Leave(t)
    PROVE  /\ op' \in [Threads -> Op] /\ \A u \in Threads \ {t} : op'[u] = op[u]
           /\ \/ op'[t] = Idle
              \/ /\ op'[t].at \in {"lookupReceiver", "next"} /\ op'[t].key = op[t].key
                 /\ op'[t].handles = op[t].handles /\ op'[t].todo = op[t].todo
                 /\ op'[t].fill = Nothing
<1> DEFINE q == [op[t] EXCEPT !.at = IF op[t].key[2] = "send" THEN "lookupReceiver" ELSE "next",
                              !.slot = 0, !.fill = Nothing]
           r == IF op[t].call # "install" THEN Idle ELSE q
<1>1. op' = [op EXCEPT ![t] = r] /\ op[t] \in Op
  BY DEF Leave
<1>2. /\ q \in Op /\ q.at \in {"lookupReceiver", "next"} /\ q.key = op[t].key
      /\ q.handles = op[t].handles /\ q.todo = op[t].todo /\ q.fill = Nothing
  BY <1>1 DEF Op, Labels
<1> HIDE DEF q
<1>3. r \in Op /\ (r = Idle \/ r = q)
  BY <1>2, IdleFields
<1> HIDE DEF r
<1>4. op' \in [Threads -> Op] /\ op'[t] = r /\ \A u \in Threads \ {t} : op'[u] = op[u]
  BY <1>1, <1>3, Becomes
<1> QED
  BY <1>2, <1>3, <1>4

\* A slot looked up, or made.
LEMMA SlotFields ==
    ASSUME StateTypes, NEW t \in Threads, op[t].key \in Keys, NEW l \in Labels, SlotFor(t, l)
    PROVE  /\ op' \in [Threads -> Op] /\ \A u \in Threads \ {t} : op'[u] = op[u]
           /\ op'[t].at = l /\ op'[t].key = op[t].key /\ op'[t].fill = op[t].fill
           /\ op'[t].call = op[t].call
           /\ op'[t].handles = op[t].handles /\ op'[t].todo = op[t].todo
           /\ op'[t].slot = registry'[op[t].key] /\ op'[t].slot \in 1 .. Len(slots')
           /\ slots' \in Seq(Slot) /\ registry' \in [Keys -> 0 .. Len(slots')]
           /\ Len(slots) <= Len(slots') /\ Len(slots) \in Nat /\ Len(slots') \in Nat
           /\ \A i \in 1 .. Len(slots) : slots'[i] = slots[i]
           /\ \/ /\ registry[op[t].key] # 0 /\ slots' = slots /\ registry' = registry
              \/ /\ registry[op[t].key] = 0 /\ Len(slots') = Len(slots) + 1
                 /\ registry' = [registry EXCEPT ![op[t].key] = Len(slots')]
                 /\ slots'[Len(slots')] = [caller |-> 0, meta |-> Nothing, installed |-> FALSE]
<1> DEFINE k == op[t].key
<1>t. /\ op \in [Threads -> Op] /\ op[t] \in Op /\ slots \in Seq(Slot) /\ Len(slots) \in Nat
      /\ registry \in [Keys -> 0 .. Len(slots)] /\ k \in Keys /\ registry[k] \in 0 .. Len(slots)
  BY DEF StateTypes
<1>r. ASSUME NEW x \in Nat, op' = [op EXCEPT ![t].at = l, ![t].slot = x]
      PROVE  /\ op' \in [Threads -> Op] /\ \A u \in Threads \ {t} : op'[u] = op[u]
             /\ op'[t].at = l /\ op'[t].key = op[t].key /\ op'[t].fill = op[t].fill
             /\ op'[t].call = op[t].call /\ op'[t].slot = x
             /\ op'[t].handles = op[t].handles /\ op'[t].todo = op[t].todo
  <2> DEFINE r == [op[t] EXCEPT !.at = l, !.slot = x]
  <2>1. op' = [op EXCEPT ![t] = r]
    BY <1>r, <1>t
  <2>2. /\ r \in Op /\ r.at = l /\ r.key = op[t].key /\ r.fill = op[t].fill
        /\ r.call = op[t].call /\ r.slot = x
        /\ r.handles = op[t].handles /\ r.todo = op[t].todo
    BY <1>t DEF Op
  <2> HIDE DEF r
  <2> QED
    BY <2>1, <2>2, <1>t, Becomes
<1>1. CASE registry[k] # 0
  <2>1. op' = [op EXCEPT ![t].at = l, ![t].slot = registry[k]] /\ slots' = slots
        /\ registry' = registry
    BY <1>1 DEF SlotFor, slotVars
  <2>2. registry[k] \in Nat /\ registry[k] \in 1 .. Len(slots)
    BY <1>1, <1>t
  <2>3. /\ op' \in [Threads -> Op] /\ \A u \in Threads \ {t} : op'[u] = op[u]
        /\ op'[t].at = l /\ op'[t].key = op[t].key /\ op'[t].fill = op[t].fill
        /\ op'[t].call = op[t].call /\ op'[t].slot = registry[k]
        /\ op'[t].handles = op[t].handles /\ op'[t].todo = op[t].todo
    BY <2>1, <2>2, <1>r, Zenon
  <2>4. /\ slots' \in Seq(Slot) /\ registry' \in [Keys -> 0 .. Len(slots')]
        /\ Len(slots) <= Len(slots') /\ Len(slots') \in Nat
        /\ \A i \in 1 .. Len(slots) : slots'[i] = slots[i]
    BY <2>1, <1>t
  <2>5. registry'[k] = registry[k] /\ Len(slots') = Len(slots)
    BY <2>1
  <2> QED
    BY <2>1, <2>2, <2>3, <2>4, <2>5, <1>1, <1>t
<1>2. CASE registry[k] = 0
  <2> DEFINE x == [caller |-> 0, meta |-> Nothing, installed |-> FALSE]
  <2>1. /\ slots' = Append(slots, x) /\ registry' = [registry EXCEPT ![k] = Len(slots')]
        /\ op' = [op EXCEPT ![t].at = l, ![t].slot = Len(slots')]
    BY <1>2 DEF SlotFor
  <2>2. x \in Slot
    BY DEF Slot
  <2>3. /\ slots' \in Seq(Slot) /\ Len(slots') = Len(slots) + 1
        /\ \A i \in 1 .. Len(slots) : slots'[i] = slots[i]
        /\ slots'[Len(slots')] = x
    BY <2>1, <2>2, <1>t
  <2> HIDE DEF x
  <2>4. registry' \in [Keys -> 0 .. Len(slots')] /\ registry'[k] = Len(slots')
    BY <2>1, <2>3, <1>t
  <2>5. Len(slots') \in Nat /\ Len(slots') \in 1 .. Len(slots')
    BY <2>3, <1>t
  <2>6. /\ op' \in [Threads -> Op] /\ \A u \in Threads \ {t} : op'[u] = op[u]
        /\ op'[t].at = l /\ op'[t].key = op[t].key /\ op'[t].fill = op[t].fill
        /\ op'[t].call = op[t].call /\ op'[t].slot = Len(slots')
        /\ op'[t].handles = op[t].handles /\ op'[t].todo = op[t].todo
    BY <2>1, <2>5, <1>r, Zenon
  <2> QED
    BY <2>1, <2>3, <2>4, <2>5, <2>6, <1>2, <1>t DEF x
<1> QED
  BY <1>1, <1>2

-----------------------------------------------------------------------------
(* The types.                                                              *)

LEMMA TypesFrom ==
    ASSUME TypeInv, NEW t \in Threads, StateTypes', \A u \in Threads \ {t} : op'[u] = op[u],
           Len(slots) <= Len(slots'), \A u \in Threads \ {t} : op[u].handles \subseteq Up',
           InHand(op[t])'
    PROVE  TypeInv'
<1>1. Len(slots) \in Nat /\ Len(slots') \in Nat
  BY DEF TypeInv, StateTypes
<1>2. ASSUME NEW u \in Threads \ {t}
      PROVE  InHand(op[u])'
  <2>1. InHand(op[u]) /\ op'[u] = op[u] /\ op[u].handles \subseteq Up'
    BY DEF TypeInv
  <2> QED
    BY <2>1, <1>1 DEF InHand
<1> QED
  BY <1>2 DEF TypeInv

\* Steps that change only the call of their thread.
LEMMA MoveTypes ==
    ASSUME TypeInv, NEW t \in Threads,
           UNCHANGED <<mode, gate, nativeVars, slotVars, wrapped, calls, promised, raced>>,
           op' \in [Threads -> Op], \A u \in Threads \ {t} : op'[u] = op[u], InHand(op'[t])
    PROVE  TypeInv'
<1>1. /\ mode' = mode /\ gate' = gate /\ tc' = tc /\ attached' = attached /\ slots' = slots
      /\ registry' = registry /\ wrapped' = wrapped /\ calls' = calls /\ promised' = promised
      /\ raced' = raced
  BY DEF nativeVars, slotVars
<1>2. StateTypes' /\ Len(slots) \in Nat
  BY <1>1 DEF TypeInv, StateTypes
<1>3. InHand(op[t])'
  BY <1>1 DEF InHand, Up
<1>4. \A u \in Threads : op[u].handles \subseteq Up'
  BY <1>1 DEF TypeInv, InHand, Up
<1> QED
  BY <1>1, <1>2, <1>3, <1>4, TypesFrom

\* What a thread's step can count on.
LEMMA ThreadTypes ==
    ASSUME TypeInv, NEW t \in Threads
    PROVE  /\ op \in [Threads -> Op] /\ op[t] \in Op /\ InHand(op[t])
           /\ Len(slots) \in Nat /\ DOMAIN slots = 1 .. Len(slots)
           /\ op[t].handles \subseteq Up /\ Up \subseteq Transceivers
           /\ op[t].todo \subseteq op[t].handles
           /\ \A a \in Transceivers : tc[a] \in Transceiver
           /\ op[t].at \in KeyLabels => op[t].key \in Keys /\ op[t].key[1] \in op[t].handles
           /\ op[t].at \in SlotLabels => op[t].slot \in 1 .. Len(slots)
           /\ op[t].at # "arm" => op[t].fill \in Tracks \cup Nat \cup {Nothing}
BY DEF TypeInv, StateTypes, InHand, Up

\* The walk over the transceivers, and the questions about one.
LEMMA WalkTypes ==
    ASSUME TypeInv, NEW t \in Threads,
           \/ Enumerate(t) \/ NextTransceiver(t) \/ CheckAllowed(t) \/ LookupSource(t)
           \/ LookupReceiver(t) \/ Reread(t) \/ EmbedAtOnce(t) \/ AttachFails(t)
    PROVE  TypeInv'
<1>u. UNCHANGED <<mode, gate, nativeVars, slotVars, wrapped, calls, promised, raced>>
  BY DEF Enumerate, NextTransceiver, CheckAllowed, LookupSource, LookupReceiver, Reread,
         EmbedAtOnce, AttachFails
<1>t. /\ op \in [Threads -> Op] /\ op[t] \in Op /\ InHand(op[t])
      /\ op[t].handles \subseteq Up /\ Up \subseteq Transceivers
      /\ op[t].todo \subseteq op[t].handles
      /\ \A a \in Transceivers : tc[a] \in Transceiver
  BY ThreadTypes
<1>i. InHand(Idle)
  BY IdleFields DEF InHand, KeyLabels, SlotLabels
<1>r. ASSUME NEW r \in Op, op' = [op EXCEPT ![t] = r], InHand(r)
      PROVE  TypeInv'
  <2>1. op' \in [Threads -> Op] /\ op'[t] = r /\ \A u \in Threads \ {t} : op'[u] = op[u]
    BY <1>r, <1>t, Becomes
  <2>2. InHand(op'[t])
    BY <2>1, <1>r
  <2> QED
    BY <2>1, <2>2, <1>u, MoveTypes
<1>0. ASSUME op' = [op EXCEPT ![t] = Idle]
      PROVE  TypeInv'
  BY <1>0, <1>i, <1>r, IdleFields
<1>1. CASE Enumerate(t)
  <2>1. CASE ~gate
    BY <2>1, <1>1, <1>0 DEF Enumerate
  <2>2. CASE gate
    <3> DEFINE r == [op[t] EXCEPT !.at = "prune", !.handles = Up, !.todo = Up]
    <3>1. op' = [op EXCEPT ![t] = r]
      BY <2>2, <1>1 DEF Enumerate
    <3>2. r \in Op /\ r.at = "prune" /\ r.handles = Up /\ r.todo = Up /\ r.fill = op[t].fill
      BY <1>t DEF Op, Labels
    <3>3. op[t].at # "arm"
      BY <1>1 DEF Enumerate
    <3> HIDE DEF r
    <3>4. InHand(r)
      BY <3>2, <3>3, <1>t DEF InHand, KeyLabels, SlotLabels
    <3> QED
      BY <3>1, <3>2, <3>4, <1>r
  <2> QED
    BY <2>1, <2>2
<1>2. CASE NextTransceiver(t)
  <2>1. CASE op[t].todo = {}
    BY <2>1, <1>2, <1>0 DEF NextTransceiver
  <2>2. CASE op[t].todo # {}
    <3>1. PICK a \in op[t].todo :
             op' = [op EXCEPT ![t].at = "allowed", ![t].key = <<a, "send">>,
                              ![t].todo = @ \ {a}]
      BY <2>2, <1>2 DEF NextTransceiver
    <3> DEFINE r == [op[t] EXCEPT !.at = "allowed", !.key = <<a, "send">>, !.todo = @ \ {a}]
    <3>2. op' = [op EXCEPT ![t] = r]
      BY <3>1, <1>t
    <3>3. <<a, "send">> \in Keys /\ <<a, "send">>[1] = a
      BY <1>t, KeyFacts
    <3>4. r \in Op /\ r.at = "allowed" /\ r.handles = op[t].handles /\ r.key = <<a, "send">>
          /\ r.todo \subseteq op[t].todo /\ r.fill = op[t].fill
      BY <3>3, <1>t DEF Op, Labels
    <3>5. op[t].at # "arm"
      BY <1>2 DEF NextTransceiver
    <3> HIDE DEF r
    <3>6. InHand(r)
      BY <3>3, <3>4, <3>5, <1>t DEF InHand, SlotLabels
    <3> QED
      BY <3>2, <3>4, <3>6, <1>r
  <2> QED
    BY <2>1, <2>2
<1>3. CASE CheckAllowed(t)
  <2>1. PICK l \in {"lookup", "lookupReceiver"} : Go(t, l)
    BY <1>3 DEF CheckAllowed
  <2>2. l \in Labels /\ op[t].at = "allowed" /\ l # "arm" /\ l \notin SlotLabels
    BY <1>3 DEF CheckAllowed, Labels, SlotLabels
  <2>3. /\ op' \in [Threads -> Op] /\ \A u \in Threads \ {t} : op'[u] = op[u]
        /\ op'[t].at = l /\ op'[t].key = op[t].key /\ op'[t].slot = op[t].slot
        /\ op'[t].fill = op[t].fill
        /\ op'[t].handles = op[t].handles /\ op'[t].todo = op[t].todo
    BY <2>1, <2>2, <1>t, GoFields
  <2>4. InHand(op'[t])
    BY <2>2, <2>3, <1>t DEF InHand, KeyLabels
  <2> QED
    BY <2>3, <2>4, <1>u, MoveTypes
<1>4. CASE LookupSource(t)
  <2> DEFINE track == tc[op[t].key[1]].track
  <2>0. op[t].at = "lookup" /\ op[t].key \in Keys /\ op[t].key[1] \in op[t].handles
        /\ op[t].fill \in Tracks \cup Nat \cup {Nothing} /\ track \in Tracks \cup {Nothing}
    <3>1. op[t].at = "lookup"
      BY <1>4 DEF LookupSource
    <3>2. op[t].key \in Keys /\ op[t].key[1] \in op[t].handles
          /\ op[t].fill \in Tracks \cup Nat \cup {Nothing}
      BY <3>1, ThreadTypes DEF KeyLabels
    <3>3. tc[op[t].key[1]] \in Transceiver
      BY <3>2, <1>t
    <3> QED
      BY <3>1, <3>2, <3>3 DEF Transceiver
  <2>1. CASE Known(track)
    <3> DEFINE r == [op[t] EXCEPT !.at = "slot", !.fill = track]
    <3>1. op' = [op EXCEPT ![t] = r]
      BY <2>1, <1>4 DEF LookupSource
    <3>2. r \in Op /\ r.at = "slot" /\ r.handles = op[t].handles /\ r.key = op[t].key
          /\ r.todo = op[t].todo /\ r.fill = track
      BY <2>0, <1>t DEF Op, Labels
    <3> HIDE DEF r
    <3>3. InHand(r)
      BY <3>2, <2>0, <1>t DEF InHand, SlotLabels
    <3> QED
      BY <3>1, <3>2, <3>3, <1>r
  <2>2. CASE ~Known(track)
    <3> DEFINE r == [op[t] EXCEPT !.at = "lookupReceiver"]
    <3>1. op' = [op EXCEPT ![t] = r]
      BY <2>2, <1>4 DEF LookupSource
    <3>2. r \in Op /\ r.at = "lookupReceiver" /\ r.handles = op[t].handles /\ r.key = op[t].key
          /\ r.todo = op[t].todo /\ r.fill = op[t].fill
      BY <2>0, <1>t DEF Op, Labels
    <3> HIDE DEF r
    <3>3. InHand(r)
      BY <3>2, <2>0, <1>t DEF InHand, SlotLabels
    <3> QED
      BY <3>1, <3>2, <3>3, <1>r
  <2> QED
    BY <2>1, <2>2
<1>5. CASE LookupReceiver(t)
  <2> DEFINE a == op[t].key[1]
  <2>0. op[t].at = "lookupReceiver" /\ op[t].key \in Keys /\ a \in op[t].handles
        /\ op[t].fill \in Tracks \cup Nat \cup {Nothing} /\ tc[a].nth \in Nat
        /\ a \in Transceivers
    <3>1. op[t].at = "lookupReceiver"
      BY <1>5 DEF LookupReceiver
    <3>2. op[t].key \in Keys /\ op[t].key[1] \in op[t].handles
          /\ op[t].fill \in Tracks \cup Nat \cup {Nothing}
      BY <3>1, ThreadTypes DEF KeyLabels
    <3>3. tc[op[t].key[1]] \in Transceiver
      BY <3>2, <1>t
    <3> QED
      BY <3>1, <3>2, <3>3, <1>t DEF Transceiver
  <2>1. CASE tc[a].remote = "live"
    <3> DEFINE r == [op[t] EXCEPT !.at = "slot", !.key = <<a, "receive">>, !.fill = tc[a].nth]
    <3>1. op' = [op EXCEPT ![t] = r]
      BY <2>1, <1>5 DEF LookupReceiver
    <3>2. <<a, "receive">> \in Keys /\ <<a, "receive">>[1] = a
      BY <2>0, KeyFacts
    <3>3. r \in Op /\ r.at = "slot" /\ r.handles = op[t].handles /\ r.key = <<a, "receive">>
          /\ r.todo = op[t].todo /\ r.fill = tc[a].nth
      BY <3>2, <2>0, <1>t DEF Op, Labels
    <3> HIDE DEF r
    <3>4. InHand(r)
      BY <3>2, <3>3, <2>0, <1>t DEF InHand, SlotLabels
    <3> QED
      BY <3>1, <3>3, <3>4, <1>r
  <2>2. CASE tc[a].remote # "live"
    <3> DEFINE r == [op[t] EXCEPT !.at = "next"]
    <3>1. op' = [op EXCEPT ![t] = r]
      BY <2>2, <1>5 DEF LookupReceiver
    <3>2. r \in Op /\ r.at = "next" /\ r.handles = op[t].handles
          /\ r.todo = op[t].todo /\ r.fill = op[t].fill
      BY <2>0, <1>t DEF Op, Labels
    <3> HIDE DEF r
    <3>3. InHand(r)
      BY <3>2, <2>0, <1>t DEF InHand, SlotLabels, KeyLabels
    <3> QED
      BY <3>1, <3>2, <3>3, <1>r
  <2> QED
    BY <2>1, <2>2
<1>6. CASE Reread(t)
  <2> DEFINE track == tc[op[t].key[1]].track
             r     == [op[t] EXCEPT !.at = "update", !.fill = track]
  <2>1. op[t].at = "reread" /\ op' = [op EXCEPT ![t] = r]
    BY <1>6, <1>t DEF Reread
  <2>2. op[t].key \in Keys /\ op[t].key[1] \in op[t].handles
    BY <2>1, ThreadTypes DEF KeyLabels
  <2>3. tc[op[t].key[1]] \in Transceiver
    BY <2>2, <1>t
  <2>4. track \in Tracks \cup {Nothing}
    BY <2>3 DEF Transceiver
  <2>5. r \in Op /\ r.at = "update" /\ r.handles = op[t].handles /\ r.key = op[t].key
        /\ r.todo = op[t].todo /\ r.fill = track
    BY <2>4, <1>t DEF Op, Labels
  <2> HIDE DEF r
  <2>6. InHand(r)
    BY <2>2, <2>4, <2>5, <1>t DEF InHand, SlotLabels
  <2> QED
    BY <2>1, <2>5, <2>6, <1>r
<1>7. CASE EmbedAtOnce(t)
  <2>1. CASE op' = [op EXCEPT ![t] = Idle]
    BY <2>1, <1>0
  <2>2. CASE Go(t, "slot")
    <3>1. op[t].at = "gate" /\ "slot" \in Labels
      BY <1>7 DEF EmbedAtOnce, Labels
    <3>2. /\ op' \in [Threads -> Op] /\ \A u \in Threads \ {t} : op'[u] = op[u]
          /\ op'[t].at = "slot" /\ op'[t].key = op[t].key
          /\ op'[t].fill = op[t].fill
          /\ op'[t].handles = op[t].handles /\ op'[t].todo = op[t].todo
      BY <2>2, <3>1, <1>t, GoFields
    <3>3. InHand(op'[t])
      BY <3>1, <3>2, <1>t DEF InHand, KeyLabels, SlotLabels
    <3> QED
      BY <3>2, <3>3, <1>u, MoveTypes
  <2> QED
    BY <2>1, <2>2, <1>7 DEF EmbedAtOnce
<1>8. CASE AttachFails(t)
  <2>1. Go(t, "release") /\ op[t].at = "attach" /\ "release" \in Labels
    BY <1>8 DEF AttachFails, Labels
  <2>2. /\ op' \in [Threads -> Op] /\ \A u \in Threads \ {t} : op'[u] = op[u]
        /\ op'[t].at = "release" /\ op'[t].key = op[t].key /\ op'[t].slot = op[t].slot
        /\ op'[t].fill = op[t].fill
        /\ op'[t].handles = op[t].handles /\ op'[t].todo = op[t].todo
    BY <2>1, <1>t, GoFields
  <2>3. InHand(op'[t])
    BY <2>1, <2>2, <1>t DEF InHand, KeyLabels, SlotLabels
  <2> QED
    BY <2>2, <2>3, <1>u, MoveTypes
<1> QED
  BY <1>1, <1>2, <1>3, <1>4, <1>5, <1>6, <1>7, <1>8

LEMMA SlotUpdate ==
    ASSUME slots \in Seq(Slot), NEW i \in 1 .. Len(slots), NEW r \in Slot,
           slots' = [slots EXCEPT ![i] = r]
    PROVE  /\ slots' \in Seq(Slot) /\ Len(slots') = Len(slots) /\ slots'[i] = r
           /\ \A j \in 1 .. Len(slots) : j # i => slots'[j] = slots[j]
OBVIOUS

\* Each field of a slot is set with the others left alone.
LEMMA SlotFieldSet ==
    ASSUME slots \in Seq(Slot), NEW i \in 1 .. Len(slots)
    PROVE  /\ \A x \in Nat : slots' = [slots EXCEPT ![i].caller = x] =>
                /\ slots' \in Seq(Slot) /\ Len(slots') = Len(slots)
                /\ slots'[i].caller = x /\ slots'[i].installed = slots[i].installed
                /\ \A j \in 1 .. Len(slots) : j # i => slots'[j] = slots[j]
           /\ \A x \in Tracks \cup Nat \cup {Nothing} : slots' = [slots EXCEPT ![i].meta = x] =>
                /\ slots' \in Seq(Slot) /\ Len(slots') = Len(slots)
                /\ slots'[i].caller = slots[i].caller
                /\ slots'[i].installed = slots[i].installed
                /\ slots'[i].meta = x
                /\ \A j \in 1 .. Len(slots) : j # i => slots'[j] = slots[j]
           /\ \A x \in BOOLEAN : slots' = [slots EXCEPT ![i].installed = x] =>
                /\ slots' \in Seq(Slot) /\ Len(slots') = Len(slots)
                /\ slots'[i].caller = slots[i].caller /\ slots'[i].installed = x
                /\ slots'[i].meta = slots[i].meta
                /\ \A j \in 1 .. Len(slots) : j # i => slots'[j] = slots[j]
<1>1. slots[i] \in Slot
  OBVIOUS
<1>2. ASSUME NEW x \in Nat, slots' = [slots EXCEPT ![i].caller = x]
      PROVE  /\ slots' \in Seq(Slot) /\ Len(slots') = Len(slots)
             /\ slots'[i].caller = x /\ slots'[i].installed = slots[i].installed
             /\ \A j \in 1 .. Len(slots) : j # i => slots'[j] = slots[j]
  <2> DEFINE r == [slots[i] EXCEPT !.caller = x]
  <2>1. slots' = [slots EXCEPT ![i] = r]
    BY <1>2
  <2>2. r \in Slot /\ r.caller = x /\ r.installed = slots[i].installed
    BY <1>1 DEF Slot
  <2> HIDE DEF r
  <2> QED
    BY <2>1, <2>2, SlotUpdate
<1>3. ASSUME NEW x \in Tracks \cup Nat \cup {Nothing}, slots' = [slots EXCEPT ![i].meta = x]
      PROVE  /\ slots' \in Seq(Slot) /\ Len(slots') = Len(slots)
             /\ slots'[i].caller = slots[i].caller /\ slots'[i].installed = slots[i].installed
             /\ slots'[i].meta = x
             /\ \A j \in 1 .. Len(slots) : j # i => slots'[j] = slots[j]
  <2> DEFINE r == [slots[i] EXCEPT !.meta = x]
  <2>1. slots' = [slots EXCEPT ![i] = r]
    BY <1>3
  <2>2. r \in Slot /\ r.caller = slots[i].caller /\ r.installed = slots[i].installed
        /\ r.meta = x
    BY <1>1 DEF Slot
  <2> HIDE DEF r
  <2> QED
    BY <2>1, <2>2, SlotUpdate
<1>4. ASSUME NEW x \in BOOLEAN, slots' = [slots EXCEPT ![i].installed = x]
      PROVE  /\ slots' \in Seq(Slot) /\ Len(slots') = Len(slots)
             /\ slots'[i].caller = slots[i].caller /\ slots'[i].installed = x
             /\ slots'[i].meta = slots[i].meta
             /\ \A j \in 1 .. Len(slots) : j # i => slots'[j] = slots[j]
  <2> DEFINE r == [slots[i] EXCEPT !.installed = x]
  <2>1. slots' = [slots EXCEPT ![i] = r]
    BY <1>4
  <2>2. r \in Slot /\ r.caller = slots[i].caller /\ r.installed = x /\ r.meta = slots[i].meta
    BY <1>1 DEF Slot
  <2> HIDE DEF r
  <2> QED
    BY <2>1, <2>2, SlotUpdate
<1> QED
  BY <1>2, <1>3, <1>4

\* What a step does to the slots.
LEMMA SwapFields ==
    ASSUME TypeInv, NEW t \in Threads, SwapSource(t)
    PROVE  /\ slots' \in Seq(Slot) /\ Len(slots') = Len(slots)
           /\ \A j \in 1 .. Len(slots) : /\ slots'[j].installed = slots[j].installed
                                         /\ slots'[j].caller = slots[j].caller
<1>1. op[t].at = "swap" /\ op[t].slot \in 1 .. Len(slots)
      /\ op[t].fill \in Tracks \cup Nat \cup {Nothing} /\ slots \in Seq(Slot)
  BY ThreadTypes DEF SwapSource, TypeInv, StateTypes, SlotLabels
<1>2. CASE slots' = slots
  BY <1>1, <1>2
<1>3. CASE slots' = [slots EXCEPT ![op[t].slot].meta = op[t].fill]
  <2>1. /\ slots' \in Seq(Slot) /\ Len(slots') = Len(slots)
        /\ slots'[op[t].slot].caller = slots[op[t].slot].caller
        /\ slots'[op[t].slot].installed = slots[op[t].slot].installed
        /\ \A j \in 1 .. Len(slots) : j # op[t].slot => slots'[j] = slots[j]
    BY <1>1, <1>3, SlotFieldSet
  <2> QED
    BY <2>1
<1> QED
  BY <1>2, <1>3 DEF SwapSource

LEMMA FillFields ==
    ASSUME TypeInv, NEW t \in Threads, FillSlot(t)
    PROVE  /\ slots' \in Seq(Slot) /\ Len(slots') = Len(slots)
           /\ \A j \in 1 .. Len(slots) :
                 /\ slots'[j].installed = slots[j].installed
                 /\ j # op[t].slot \/ op[t].call # "transform" => slots'[j].caller = slots[j].caller
           /\ op[t].call = "transform" => slots'[op[t].slot].caller = tc[op[t].key[1]].nth
<1>1. op[t].at = "fill" /\ op[t].slot \in 1 .. Len(slots) /\ slots \in Seq(Slot)
      /\ op[t].fill \in Tracks \cup Nat \cup {Nothing} /\ tc[op[t].key[1]].nth \in Nat
  <2>1. op[t].at = "fill"
    BY DEF FillSlot
  <2>2. op[t].slot \in 1 .. Len(slots) /\ op[t].fill \in Tracks \cup Nat \cup {Nothing}
        /\ op[t].key[1] \in Transceivers
    BY <2>1, ThreadTypes DEF SlotLabels, KeyLabels
  <2>3. tc[op[t].key[1]] \in Transceiver
    BY <2>2, ThreadTypes
  <2> QED
    BY <2>1, <2>2, <2>3 DEF TypeInv, StateTypes, Transceiver
<1> DEFINE i == op[t].slot
<1>2. CASE op[t].call = "transform"
  <2>1. slots' = [slots EXCEPT ![i].caller = tc[op[t].key[1]].nth]
    BY <1>2 DEF FillSlot
  <2>2. /\ slots' \in Seq(Slot) /\ Len(slots') = Len(slots)
        /\ slots'[i].caller = tc[op[t].key[1]].nth /\ slots'[i].installed = slots[i].installed
        /\ \A j \in 1 .. Len(slots) : j # i => slots'[j] = slots[j]
    BY <1>1, <2>1, SlotFieldSet
  <2> QED
    BY <2>2, <1>2
<1>3. CASE op[t].call # "transform"
  <2>1. slots' = [slots EXCEPT ![i].meta = op[t].fill]
    BY <1>3 DEF FillSlot
  <2>2. /\ slots' \in Seq(Slot) /\ Len(slots') = Len(slots)
        /\ slots'[i].caller = slots[i].caller /\ slots'[i].installed = slots[i].installed
        /\ \A j \in 1 .. Len(slots) : j # i => slots'[j] = slots[j]
    BY <1>1, <2>1, SlotFieldSet
  <2> QED
    BY <2>2, <1>3
<1> QED
  BY <1>2, <1>3

LEMMA FlagFields ==
    ASSUME TypeInv, NEW t \in Threads, NEW b \in BOOLEAN,
           (ClaimInstall(t) /\ b = TRUE) \/ (ReleaseInstall(t) /\ b = FALSE)
    PROVE  /\ slots' \in Seq(Slot) /\ Len(slots') = Len(slots) /\ op[t].slot \in 1 .. Len(slots)
           /\ op[t].key \in Keys /\ op[t].key[1] \in op[t].handles
           /\ slots'[op[t].slot].installed = b
           /\ \A j \in 1 .. Len(slots) :
                 /\ j # op[t].slot => slots'[j].installed = slots[j].installed
                 /\ slots'[j].caller = slots[j].caller
<1>1. op[t].at \in {"claim", "unclaim"} /\ slots' = [slots EXCEPT ![op[t].slot].installed = b]
  BY DEF ClaimInstall, ReleaseInstall
<1>2. op[t].slot \in 1 .. Len(slots) /\ op[t].key \in Keys /\ op[t].key[1] \in op[t].handles
      /\ slots \in Seq(Slot)
  BY <1>1, ThreadTypes DEF KeyLabels, SlotLabels, TypeInv, StateTypes
<1>3. /\ slots' \in Seq(Slot) /\ Len(slots') = Len(slots)
      /\ slots'[op[t].slot].caller = slots[op[t].slot].caller
      /\ slots'[op[t].slot].installed = b
      /\ \A j \in 1 .. Len(slots) : j # op[t].slot => slots'[j] = slots[j]
  BY <1>1, <1>2, SlotFieldSet
<1> QED
  BY <1>2, <1>3

\* Steps of a call that keep the transceivers and the gate.
LEMMA StateFrom ==
    ASSUME StateTypes, UNCHANGED <<mode, gate, tc, wrapped, calls, raced>>,
           op' \in [Threads -> Op], slots' \in Seq(Slot), Len(slots) <= Len(slots'),
           registry' \in [Keys -> 0 .. Len(slots')], attached' \in [Keys -> 0 .. Len(slots')],
           promised' \in [Keys -> BOOLEAN]
    PROVE  StateTypes'
BY DEF StateTypes

LEMMA Widen ==
    ASSUME NEW m \in Nat, NEW n \in Nat, m <= n, NEW f \in [Keys -> 0 .. m]
    PROVE  f \in [Keys -> 0 .. n]
<1>1. \A x \in 0 .. m : x \in 0 .. n
  OBVIOUS
<1> QED
  BY <1>1

LEMMA ReturnFields ==
    ASSUME StateTypes, NEW t \in Threads, NEW ok \in BOOLEAN, Return(t, ok), op[t].key \in Keys
    PROVE  /\ promised' \in [Keys -> BOOLEAN]
           /\ \A k \in Keys : promised'[k] <=> \/ promised[k]
                                               \/ ok /\ op[t].call = "transform" /\ k = op[t].key
           /\ op' \in [Threads -> Op] /\ \A u \in Threads \ {t} : op'[u] = op[u]
           /\ \/ op'[t] = Idle
              \/ /\ op'[t].at \in {"lookupReceiver", "next"} /\ op'[t].key = op[t].key
                 /\ op'[t].handles = op[t].handles /\ op'[t].todo = op[t].todo
                 /\ op'[t].fill = Nothing
<1>1. promised \in [Keys -> BOOLEAN] /\ op \in [Threads -> Op]
  BY DEF StateTypes
<1>2. promised' = IF ok /\ op[t].call = "transform"
                  THEN [promised EXCEPT ![op[t].key] = TRUE] ELSE promised
  BY DEF Return
<1>3. /\ promised' \in [Keys -> BOOLEAN]
      /\ \A k \in Keys : promised'[k] <=> \/ promised[k]
                                          \/ ok /\ op[t].call = "transform" /\ k = op[t].key
  <2>1. CASE ok /\ op[t].call = "transform"
    <3>1. promised' = [promised EXCEPT ![op[t].key] = TRUE]
      BY <2>1, <1>2
    <3>2. /\ promised' \in [Keys -> BOOLEAN] /\ promised'[op[t].key] = TRUE
          /\ \A k \in Keys : k # op[t].key => promised'[k] = promised[k]
      BY <3>1, <1>1
    <3> QED
      BY <3>2, <2>1
  <2>2. CASE ~(ok /\ op[t].call = "transform")
    BY <2>2, <1>1, <1>2
  <2> QED
    BY <2>1, <2>2
<1>4. Leave(t)
  BY DEF Return
<1> QED
  BY <1>1, <1>3, <1>4, LeaveFields

LEMMA LeftInHand ==
    ASSUME TypeInv, NEW t \in Threads, op[t].at \in KeyLabels,
           \/ op'[t] = Idle
           \/ /\ op'[t].at \in {"lookupReceiver", "next"} /\ op'[t].key = op[t].key
              /\ op'[t].handles = op[t].handles /\ op'[t].todo = op[t].todo
              /\ op'[t].fill = Nothing
    PROVE  InHand(op'[t])
BY ThreadTypes, IdleFields DEF InHand, KeyLabels, SlotLabels

\* The steps that look a slot up.
LEMMA LookupTypes ==
    ASSUME TypeInv, NEW t \in Threads, UpdateSource(t) \/ TakeSlot(t) \/ ReleaseSlot(t)
    PROVE  TypeInv'
<1>t. /\ op \in [Threads -> Op] /\ op[t] \in Op /\ InHand(op[t]) /\ StateTypes
      /\ op[t].at \in {"update", "slot", "release"}
      /\ op[t].fill \in Tracks \cup Nat \cup {Nothing}
      /\ op[t].key \in Keys /\ op[t].key[1] \in op[t].handles
  BY ThreadTypes DEF UpdateSource, TakeSlot, ReleaseSlot, TypeInv, KeyLabels
<1>u. UNCHANGED <<mode, gate, nativeVars, wrapped, calls, promised, raced>>
  BY DEF UpdateSource, TakeSlot, ReleaseSlot
<1>1. ASSUME NEW l \in {"swap", "fill", "unclaim"}, SlotFor(t, l)
      PROVE  TypeInv'
  <2>1. l \in Labels /\ l # "arm"
    BY <1>1 DEF Labels
  <2>2. /\ op' \in [Threads -> Op] /\ \A u \in Threads \ {t} : op'[u] = op[u]
        /\ op'[t].at = l /\ op'[t].key = op[t].key /\ op'[t].fill = op[t].fill
        /\ op'[t].handles = op[t].handles /\ op'[t].todo = op[t].todo
        /\ op'[t].slot \in 1 .. Len(slots')
        /\ slots' \in Seq(Slot) /\ registry' \in [Keys -> 0 .. Len(slots')]
        /\ Len(slots) <= Len(slots') /\ Len(slots) \in Nat /\ Len(slots') \in Nat
    BY <1>1, <2>1, <1>t, SlotFields
  <2>3. tc' = tc /\ attached' = attached /\ promised' = promised
        /\ attached \in [Keys -> 0 .. Len(slots)] /\ promised \in [Keys -> BOOLEAN]
    BY <1>u, <1>t DEF nativeVars, StateTypes
  <2>4. attached' \in [Keys -> 0 .. Len(slots')] /\ promised' \in [Keys -> BOOLEAN]
    BY <2>2, <2>3, Widen
  <2>5. StateTypes'
    BY <2>2, <2>3, <2>4, <1>t, <1>u, StateFrom
  <2>6. Up' = Up
    BY <2>3 DEF Up
  <2>7. InHand(op[t])'
    BY <2>1, <2>2, <2>6, <1>t DEF InHand
  <2>8. \A u \in Threads : op[u].handles \subseteq Up'
    BY <2>6 DEF TypeInv, InHand
  <2> QED
    BY <2>2, <2>5, <2>7, <2>8, TypesFrom
<1>2. CASE Go(t, "gate") /\ UNCHANGED slotVars
  <2>1. "gate" \in Labels /\ op[t].at # "arm"
    BY <1>t DEF Labels
  <2>2. /\ op' \in [Threads -> Op] /\ \A u \in Threads \ {t} : op'[u] = op[u]
        /\ op'[t].at = "gate" /\ op'[t].key = op[t].key
        /\ op'[t].fill = op[t].fill
        /\ op'[t].handles = op[t].handles /\ op'[t].todo = op[t].todo
    BY <1>2, <2>1, <1>t, GoFields
  <2>3. InHand(op'[t])
    BY <2>1, <2>2, <1>t DEF InHand, SlotLabels
  <2> QED
    BY <2>2, <2>3, <1>2, <1>u, MoveTypes
<1> QED
  BY <1>1, <1>2 DEF UpdateSource, TakeSlot, ReleaseSlot

\* The steps that fill it, claim it, attach its transformer and give it back.
LEMMA FillTypes ==
    ASSUME TypeInv, NEW t \in Threads,
           \/ SwapSource(t) \/ FillSlot(t) \/ ClaimInstall(t) \/ Attach(t) \/ ReleaseInstall(t)
           \/ PruneStaleSlots(t)
    PROVE  TypeInv'
<1>t. /\ op \in [Threads -> Op] /\ op[t] \in Op /\ InHand(op[t]) /\ StateTypes
      /\ Len(slots) \in Nat
      /\ op[t].at \in {"swap", "fill", "claim", "attach", "unclaim", "prune"}
      /\ op[t].fill \in Tracks \cup Nat \cup {Nothing}
      /\ attached \in [Keys -> 0 .. Len(slots)] /\ registry \in [Keys -> 0 .. Len(slots)]
      /\ promised \in [Keys -> BOOLEAN] /\ slots \in Seq(Slot)
  BY ThreadTypes DEF SwapSource, FillSlot, ClaimInstall, Attach, ReleaseInstall,
                     PruneStaleSlots, TypeInv, StateTypes
<1>k. op[t].at # "prune" => /\ op[t].key \in Keys /\ op[t].key[1] \in op[t].handles
                            /\ op[t].slot \in 1 .. Len(slots) /\ op[t].at \in KeyLabels
  BY <1>t DEF InHand, KeyLabels, SlotLabels
<1>u. UNCHANGED <<mode, gate, tc, wrapped, calls, raced>>
  BY DEF SwapSource, FillSlot, ClaimInstall, Attach, ReleaseInstall, PruneStaleSlots,
         nativeVars, slotVars
<1>p. Up' = Up
  BY <1>u DEF Up
<1>q. ASSUME op' \in [Threads -> Op], \A u \in Threads \ {t} : op'[u] = op[u],
             slots' \in Seq(Slot), Len(slots') = Len(slots),
             registry' \in [Keys -> 0 .. Len(slots)], attached' \in [Keys -> 0 .. Len(slots)],
             promised' \in [Keys -> BOOLEAN], InHand(op'[t])
      PROVE  TypeInv'
  <2>1. StateTypes'
    BY <1>q, <1>t, <1>u, StateFrom
  <2>2. InHand(op[t])'
    BY <1>q, <1>p DEF InHand
  <2>3. \A u \in Threads : op[u].handles \subseteq Up'
    BY <1>p DEF TypeInv, InHand
  <2>4. Len(slots) <= Len(slots') /\ TypeInv /\ \A u \in Threads \ {t} : op'[u] = op[u]
    BY <1>q, <1>t
  <2> QED
    BY <2>1, <2>2, <2>3, <2>4, TypesFrom
<1>g. ASSUME NEW l \in {"gate", "claim", "attach", "next"}, Go(t, l),
             op[t].at = "prune" => l = "next"
      PROVE  /\ op' \in [Threads -> Op] /\ \A u \in Threads \ {t} : op'[u] = op[u]
             /\ InHand(op'[t])
  <2>1. l \in Labels /\ l # "arm" /\ op[t].at # "arm"
    BY <1>t DEF Labels
  <2>2. /\ op' \in [Threads -> Op] /\ \A u \in Threads \ {t} : op'[u] = op[u]
        /\ op'[t].at = l /\ op'[t].key = op[t].key
        /\ op'[t].slot = op[t].slot /\ op'[t].fill = op[t].fill
        /\ op'[t].handles = op[t].handles /\ op'[t].todo = op[t].todo
    BY <1>g, <2>1, <1>t, GoFields
  <2>3. InHand(op'[t])
    BY <1>g, <2>1, <2>2, <1>k, <1>t DEF InHand, KeyLabels, SlotLabels
  <2> QED
    BY <2>2, <2>3
<1>r. ASSUME NEW ok \in BOOLEAN, Return(t, ok), op[t].at # "prune"
      PROVE  /\ op' \in [Threads -> Op] /\ \A u \in Threads \ {t} : op'[u] = op[u]
             /\ InHand(op'[t]) /\ promised' \in [Keys -> BOOLEAN]
  BY <1>r, <1>t, <1>k, ReturnFields, LeftInHand
<1>1. CASE SwapSource(t)
  <2>1. Go(t, "gate") /\ op[t].at # "prune" /\ registry' = registry /\ attached' = attached
        /\ promised' = promised
    BY <1>1 DEF SwapSource, nativeVars
  <2> QED
    BY <1>1, <2>1, <1>g, <1>t, <1>q, SwapFields
<1>2. CASE FillSlot(t)
  <2>1. Go(t, "claim") /\ op[t].at # "prune" /\ registry' = registry /\ attached' = attached
        /\ promised' = promised
    BY <1>2 DEF FillSlot, nativeVars
  <2>2. slots' \in Seq(Slot) /\ Len(slots') = Len(slots)
    BY <1>2, FillFields
  <2> QED
    BY <2>1, <2>2, <1>g, <1>t, <1>q
<1>3. CASE ClaimInstall(t)
  <2>1. op[t].at = "claim" /\ registry' = registry /\ attached' = attached
        /\ \/ Return(t, TRUE)
           \/ Go(t, "attach") /\ promised' = promised
    BY <1>3 DEF ClaimInstall, nativeVars
  <2>2. slots' \in Seq(Slot) /\ Len(slots') = Len(slots)
    BY <1>3, FlagFields
  <2> QED
    BY <2>1, <2>2, <1>g, <1>r, <1>t, <1>q
<1>4. CASE Attach(t)
  <2>1. op[t].at = "attach" /\ registry' = registry /\ slots' = slots /\ Return(t, TRUE)
        /\ attached' = [attached EXCEPT ![op[t].key] = op[t].slot]
    BY <1>4 DEF Attach, slotVars
  <2>2. attached' \in [Keys -> 0 .. Len(slots)]
    BY <2>1, <1>k, <1>t
  <2> QED
    BY <2>1, <2>2, <1>r, <1>t, <1>q
<1>5. CASE ReleaseInstall(t)
  <2>1. op[t].at = "unclaim" /\ registry' = registry /\ attached' = attached
        /\ Return(t, FALSE)
    BY <1>5 DEF ReleaseInstall, nativeVars
  <2>2. slots' \in Seq(Slot) /\ Len(slots') = Len(slots)
    BY <1>5, FlagFields
  <2> QED
    BY <2>1, <2>2, <1>r, <1>t, <1>q
<1>6. CASE PruneStaleSlots(t)
  <2>1. /\ Go(t, "next") /\ slots' = slots /\ attached' = attached /\ promised' = promised
        /\ registry' = [k \in Keys |-> IF k[1] \in op[t].handles THEN registry[k] ELSE 0]
    BY <1>6 DEF PruneStaleSlots, nativeVars
  <2>2. registry' \in [Keys -> 0 .. Len(slots)]
    BY <2>1, <1>t
  <2> QED
    BY <2>1, <2>2, <1>g, <1>t, <1>q
<1> QED
  BY <1>1, <1>2, <1>3, <1>4, <1>5, <1>6

\* The transceivers F are freed and those in N made, the others stay as they are.
Remade(F, N) ==
    /\ F \subseteq Up /\ N \subseteq Transceivers \ Up
    /\ tc' \in [Transceivers -> Transceiver]
    /\ attached' \in [Keys -> 0 .. Len(slots)] /\ promised' \in [Keys -> BOOLEAN]
    /\ \A a \in Transceivers :
          /\ a \in F => ~tc'[a].up
          /\ a \in N => tc'[a].up
          /\ a \notin F \cup N => tc'[a].up = tc[a].up /\ tc'[a].nth = tc[a].nth
    /\ \A k \in Keys :
          /\ k[1] \in F \cup N => attached'[k] = 0 /\ ~promised'[k]
          /\ k[1] \notin F \cup N => attached'[k] = attached[k] /\ promised'[k] = promised[k]

LEMMA FreshFields ==
    ASSUME NEW a, tc[a] \in Transceiver
    PROVE  Fresh(a) \in Transceiver /\ Fresh(a).up
<1>1. tc[a].nth \in Nat
  BY DEF Transceiver
<1>2. tc[a].nth + 1 \in Nat
  BY <1>1
<1>3. Fresh(a) = [up |-> TRUE, nth |-> tc[a].nth + 1, track |-> Nothing, remote |-> "none"]
  BY DEF Fresh
<1> QED
  BY <1>2, <1>3 DEF Transceiver

LEMMA AppliedFields ==
    ASSUME StateTypes, NEW F \in SUBSET Up, NEW N \in SUBSET (Transceivers \ Up),
           NEW d \in BOOLEAN, ApplyNatively(F, N, d)
    PROVE  Remade(F, N)
<1>1. /\ tc \in [Transceivers -> Transceiver] /\ attached \in [Keys -> 0 .. Len(slots)]
      /\ promised \in [Keys -> BOOLEAN] /\ Len(slots) \in Nat
  BY DEF StateTypes
<1>2. ASSUME NEW a \in Transceivers
      PROVE  /\ tc'[a] \in Transceiver
             /\ a \in F => ~tc'[a].up
             /\ a \in N => tc'[a].up
             /\ a \notin F \cup N => tc'[a].up = tc[a].up /\ tc'[a].nth = tc[a].nth
  <2>1. tc'[a] = IF a \in F THEN [tc[a] EXCEPT !.up = FALSE]
                 ELSE IF a \in N THEN [Fresh(a) EXCEPT !.remote = "live"]
                 ELSE IF d /\ tc[a].up /\ tc[a].remote = "none"
                      THEN [tc[a] EXCEPT !.remote = "live"]
                 ELSE tc[a]
    BY DEF ApplyNatively
  <2>2. tc[a] \in Transceiver
    BY <1>1
  <2>3. [tc[a] EXCEPT !.up = FALSE] \in Transceiver /\ ~[tc[a] EXCEPT !.up = FALSE].up
    BY <2>2 DEF Transceiver
  <2>4. LET r == [Fresh(a) EXCEPT !.remote = "live"] IN r \in Transceiver /\ r.up
    BY <2>2, FreshFields DEF Transceiver
  <2>5. LET r == [tc[a] EXCEPT !.remote = "live"]
        IN r \in Transceiver /\ r.up = tc[a].up /\ r.nth = tc[a].nth
    BY <2>2 DEF Transceiver
  <2>6. a \notin F \/ a \notin N
    OBVIOUS
  <2> QED
    BY <2>1, <2>2, <2>3, <2>4, <2>5, <2>6
<1>3. /\ DOMAIN tc' = Transceivers
      /\ tc' = [a \in Transceivers |-> tc'[a]]
  BY DEF ApplyNatively
<1>4. tc' \in [Transceivers -> Transceiver]
  BY <1>2, <1>3
<1>5. /\ attached' \in [Keys -> 0 .. Len(slots)] /\ promised' \in [Keys -> BOOLEAN]
      /\ \A k \in Keys :
            /\ k[1] \in F \cup N => attached'[k] = 0 /\ ~promised'[k]
            /\ k[1] \notin F \cup N => attached'[k] = attached[k] /\ promised'[k] = promised[k]
  <2>1. attached' = [k \in Keys |-> IF k[1] \in F \cup N THEN 0 ELSE attached[k]]
        /\ promised' = [k \in Keys |-> k[1] \notin F \cup N /\ promised[k]]
    BY DEF ApplyNatively
  <2>2. \A k \in Keys : promised[k] \in BOOLEAN /\ attached[k] \in 0 .. Len(slots)
                        /\ 0 \in 0 .. Len(slots)
    BY <1>1
  <2> QED
    BY <2>1, <2>2
<1> QED
  BY <1>2, <1>4, <1>5 DEF Remade

\* A transceiver changed without being made or freed, and one made.
LEMMA ChangedFields ==
    ASSUME StateTypes, NEW a \in Transceivers, NEW r \in Transceiver,
           r.up = tc[a].up, r.nth = tc[a].nth, tc' = [tc EXCEPT ![a] = r],
           attached' = attached, promised' = promised
    PROVE  Remade({}, {})
<1>1. /\ tc \in [Transceivers -> Transceiver] /\ attached \in [Keys -> 0 .. Len(slots)]
      /\ promised \in [Keys -> BOOLEAN]
  BY DEF StateTypes
<1>2. tc' \in [Transceivers -> Transceiver]
      /\ \A b \in Transceivers : tc'[b].up = tc[b].up /\ tc'[b].nth = tc[b].nth
  BY <1>1
<1> QED
  BY <1>1, <1>2 DEF Remade

LEMMA MadeFields ==
    ASSUME StateTypes, NEW a \in Transceivers \ Up, NEW r \in Transceiver, r.up,
           tc' = [tc EXCEPT ![a] = r],
           attached' = [k \in Keys |-> IF k[1] = a THEN 0 ELSE attached[k]],
           promised' = [k \in Keys |-> k[1] # a /\ promised[k]]
    PROVE  Remade({}, {a})
<1>1. /\ tc \in [Transceivers -> Transceiver] /\ attached \in [Keys -> 0 .. Len(slots)]
      /\ promised \in [Keys -> BOOLEAN] /\ Len(slots) \in Nat
  BY DEF StateTypes
<1>2. /\ tc' \in [Transceivers -> Transceiver] /\ tc'[a].up
      /\ \A b \in Transceivers : b # a => tc'[b] = tc[b]
  BY <1>1
<1>3. \A k \in Keys : promised[k] \in BOOLEAN /\ attached[k] \in 0 .. Len(slots)
                      /\ 0 \in 0 .. Len(slots)
  BY <1>1
<1>4. /\ attached' \in [Keys -> 0 .. Len(slots)] /\ promised' \in [Keys -> BOOLEAN]
      /\ \A k \in Keys :
            /\ k[1] = a => attached'[k] = 0 /\ ~promised'[k]
            /\ k[1] # a => attached'[k] = attached[k] /\ promised'[k] = promised[k]
  BY <1>3
<1> QED
  BY <1>2, <1>4 DEF Remade

\* What a call, but the drop of the connection, does before its thread goes on.
Called(t, F, N) ==
    /\ Remade(F, N) /\ UNCHANGED <<mode, gate, slotVars>>
    /\ op[t].at = "idle" /\ calls[t] > 0 /\ calls' = [calls EXCEPT ![t] = @ - 1]
    /\ wrapped' \subseteq Tracks /\ raced' \in BOOLEAN
    /\ op' \in [Threads -> Op] /\ \A u \in Threads \ {t} : op'[u] = op[u]
    /\ op'[t].at \notin SlotLabels \cup {"prune"} /\ InHand(op[t])'
    /\ F \cap Held = {} /\ (N # {} => MayMake)
    /\ F # {} => mode.frees # "never" /\ (mode.frees = "gateOpen" => Prunes(op'[t]))

\* A call that goes on with install, or returns, takes nothing along.
LEMMA NothingInHand ==
    ASSUME NEW t \in Threads, op'[t].handles = {}, op'[t].todo = {},
           op'[t].at \notin KeyLabels \cup SlotLabels,
           op'[t].at = "arm" \/ op'[t].fill = Nothing
    PROVE  InHand(op[t])'
BY DEF InHand

LEMMA CalledSteps ==
    ASSUME TypeInv, NEW t \in Threads, CallStep(t), ~Reconnect(t)
    PROVE  \E F \in SUBSET Up, N \in SUBSET (Transceivers \ Up) : Called(t, F, N)
<1>t. /\ StateTypes /\ op \in [Threads -> Op] /\ op[t] \in Op /\ InHand(op[t])
      /\ wrapped \subseteq Tracks /\ raced \in BOOLEAN /\ gate \in BOOLEAN
      /\ \A a \in Transceivers : tc[a] \in Transceiver
      /\ tc \in [Transceivers -> Transceiver] /\ Up \subseteq Transceivers
  BY ThreadTypes DEF TypeInv, StateTypes
<1>l. /\ {"idle", "arm", "install"} \cap (KeyLabels \cup SlotLabels) = {}
      /\ {"idle", "arm", "install", "reread", "slot"} \cap (SlotLabels \cup {"prune"}) = {}
      /\ {"idle", "arm", "install", "reread", "slot"} \subseteq Labels
  BY DEF KeyLabels, SlotLabels, Labels
<1>c. ASSUME NEW o, Call(t, o)
      PROVE  op[t].at = "idle" /\ calls[t] > 0 /\ calls' = [calls EXCEPT ![t] = @ - 1]
  BY <1>c DEF Call
<1>0. {} \in SUBSET Up /\ {} \in SUBSET (Transceivers \ Up)
  OBVIOUS
<1>i. ASSUME StartInstall(t)
      PROVE  /\ op' \in [Threads -> Op] /\ \A u \in Threads \ {t} : op'[u] = op[u]
             /\ op'[t].at = "install" /\ raced' \in BOOLEAN
             /\ op'[t].at \notin SlotLabels \cup {"prune"} /\ InHand(op[t])'
  <2>1. /\ op' \in [Threads -> Op] /\ \A u \in Threads \ {t} : op'[u] = op[u]
        /\ op'[t].at = "install" /\ op'[t].handles = {}
        /\ op'[t].todo = {} /\ op'[t].fill = Nothing /\ raced' \in BOOLEAN
    BY <1>i, <1>t, InstallFields
  <2> QED
    BY <2>1, <1>l, NothingInHand
<1>1. ASSUME NEW d \in BOOLEAN, SetRemoteDescription(t, d)
      PROVE  \E F \in SUBSET Up, N \in SUBSET (Transceivers \ Up) : Called(t, F, N)
  <2>1. PICK F \in SUBSET Up, N \in {{}} \cup {{a} : a \in Transceivers \ Up} :
           /\ MayFree(F, Enabled /\ d) /\ (N = {} \/ MayMake) /\ ApplyNatively(F, N, TRUE)
    BY <1>1 DEF SetRemoteDescription
  <2>2. N \in SUBSET (Transceivers \ Up)
    OBVIOUS
  <2>3. Remade(F, N)
    BY <2>1, <2>2, <1>t, AppliedFields
  <2> DEFINE r == [Idle EXCEPT !.at = "arm", !.call = "remote", !.fill = d]
  <2>4. op' = [op EXCEPT ![t] = r]
    BY <1>1 DEF SetRemoteDescription
  <2>5. r \in Op /\ r.at = "arm" /\ r.fill = d /\ r.handles = {} /\ r.todo = {}
    BY DEF Op, Idle, Labels
  <2> HIDE DEF r
  <2>6. op' \in [Threads -> Op] /\ op'[t] = r /\ \A u \in Threads \ {t} : op'[u] = op[u]
    BY <2>4, <2>5, <1>t, Becomes
  <2>7. InHand(op[t])' /\ op'[t].at \notin SlotLabels \cup {"prune"}
    BY <2>5, <2>6, <1>l, NothingInHand
  <2>8. /\ F \cap Held = {}
        /\ F # {} => mode.frees # "never" /\ (mode.frees = "gateOpen" => Prunes(op'[t]))
    BY <2>1, <2>5, <2>6 DEF MayFree, Prunes
  <2>9. UNCHANGED <<mode, gate, slotVars>> /\ wrapped' = wrapped /\ raced' = raced
        /\ Call(t, "remote")
    BY <1>1 DEF SetRemoteDescription
  <2>10. op[t].at = "idle" /\ calls[t] > 0 /\ calls' = [calls EXCEPT ![t] = @ - 1]
    BY <2>9, <1>c
  <2>11. N # {} => MayMake
    BY <2>1
  <2>12. wrapped' \subseteq Tracks /\ raced' \in BOOLEAN
    BY <2>9, <1>t
  <2>13. Called(t, F, N)
    BY <2>3, <2>6, <2>7, <2>8, <2>9, <2>10, <2>11, <2>12 DEF Called
  <2> QED
    BY <2>2, <2>13
<1>2. CASE SetLocalDescription(t)
  <2>1. PICK F \in SUBSET Up : MayFree(F, gate) /\ ApplyNatively(F, {}, FALSE)
    BY <1>2 DEF SetLocalDescription
  <2>2. Remade(F, {})
    BY <2>1, <1>t, AppliedFields
  <2>3. StartInstall(t) /\ UNCHANGED <<mode, gate, slotVars>> /\ wrapped' = wrapped
        /\ Call(t, "local")
    BY <1>2 DEF SetLocalDescription
  <2>4. /\ F \cap Held = {}
        /\ F # {} => mode.frees # "never" /\ (mode.frees = "gateOpen" => Prunes(op'[t]))
    BY <2>1, <2>3, <1>i DEF MayFree, Prunes
  <2>5. op[t].at = "idle" /\ calls[t] > 0 /\ calls' = [calls EXCEPT ![t] = @ - 1]
    BY <2>3, <1>c
  <2>6. /\ wrapped' \subseteq Tracks /\ raced' \in BOOLEAN
        /\ op' \in [Threads -> Op] /\ \A u \in Threads \ {t} : op'[u] = op[u]
        /\ op'[t].at \notin SlotLabels \cup {"prune"} /\ InHand(op[t])'
    BY <2>3, <1>i, <1>t
  <2>7. Called(t, F, {})
    BY <2>2, <2>3, <2>4, <2>5, <2>6 DEF Called
  <2> QED
    BY <2>7, <1>0
<1>q. ASSUME op' = op, op[t].at = "idle", Remade({}, {})
      PROVE  /\ op' \in [Threads -> Op] /\ \A u \in Threads \ {t} : op'[u] = op[u]
             /\ op'[t].at \notin SlotLabels \cup {"prune"} /\ InHand(op[t])'
  <2>1. Up \subseteq Up'
    BY <1>q DEF Remade, Up
  <2>2. op[t].handles \subseteq Up'
    BY <2>1, <1>t DEF InHand
  <2> QED
    BY <2>2, <1>q, <1>t, <1>l DEF InHand
<1>3. ASSUME NEW track \in Tracks, DropTrack(t, track)
      PROVE  Called(t, {}, {})
  <2>1. /\ tc' = tc /\ attached' = attached /\ promised' = promised /\ op' = op
        /\ UNCHANGED <<mode, gate, slotVars>> /\ wrapped' \subseteq Tracks /\ raced' = raced
        /\ Call(t, "drop_track")
    BY <1>3, <1>t DEF DropTrack, nativeVars
  <2>2. Remade({}, {})
    BY <2>1, <1>t DEF Remade, StateTypes
  <2> QED
    BY <2>1, <2>2, <1>c, <1>q, <1>t DEF Called
<1>4. ASSUME NEW a \in Transceivers, AddTransceiver(t, a)
      PROVE  a \notin Up /\ Called(t, {}, {a})
  <2>1. /\ a \notin Up /\ MayMake /\ tc' = [tc EXCEPT ![a] = Fresh(a)]
        /\ attached' = [k \in Keys |-> IF k[1] = a THEN 0 ELSE attached[k]]
        /\ promised' = [k \in Keys |-> k[1] # a /\ promised[k]]
        /\ UNCHANGED <<mode, gate, slotVars>> /\ wrapped' = wrapped /\ raced' = raced
        /\ op' = op /\ Call(t, "add_transceiver")
    BY <1>4 DEF AddTransceiver
  <2>2. Fresh(a) \in Transceiver /\ Fresh(a).up
    BY <1>t, FreshFields
  <2>3. Remade({}, {a})
    BY <2>1, <2>2, <1>t, MadeFields
  <2>4. Up \subseteq Up'
    BY <2>1, <2>3 DEF Remade, Up
  <2>5. InHand(op[t])' /\ op'[t].at \notin SlotLabels \cup {"prune"}
        /\ op' \in [Threads -> Op] /\ \A u \in Threads \ {t} : op'[u] = op[u]
    BY <2>1, <2>4, <1>c, <1>t, <1>l DEF InHand
  <2> QED
    BY <2>1, <2>3, <2>5, <1>c, <1>t DEF Called
<1>5. ASSUME NEW a \in Transceivers, DropRemoteTrack(t, a)
      PROVE  Called(t, {}, {})
  <2> DEFINE r == [tc[a] EXCEPT !.remote = "gone"]
  <2>1. /\ tc' = [tc EXCEPT ![a] = r] /\ attached' = attached /\ promised' = promised
        /\ UNCHANGED <<mode, gate, slotVars>> /\ wrapped' = wrapped /\ raced' = raced
        /\ op' = op /\ Call(t, "drop_remote")
    BY <1>5 DEF DropRemoteTrack
  <2>2. r \in Transceiver /\ r.up = tc[a].up /\ r.nth = tc[a].nth
    BY <1>t DEF Transceiver
  <2> HIDE DEF r
  <2>3. Remade({}, {})
    BY <2>1, <2>2, <1>t, ChangedFields
  <2> QED
    BY <2>1, <2>3, <1>c, <1>q, <1>t DEF Called
<1>6. ASSUME NEW a \in Transceivers, NEW track \in Tracks, AddTrack(t, track, a)
      PROVE  Called(t, {}, {}) \/ (a \notin Up /\ Called(t, {}, {a}))
  <2>0. StartInstall(t) /\ UNCHANGED <<mode, gate, slotVars>> /\ wrapped' = wrapped
        /\ Call(t, "add_track")
    BY <1>6 DEF AddTrack
  <2>1. CASE tc[a].up
    <3> DEFINE r == [tc[a] EXCEPT !.track = track]
    <3>1. tc' = [tc EXCEPT ![a] = r] /\ attached' = attached /\ promised' = promised
      BY <2>1, <1>6 DEF AddTrack
    <3>2. r \in Transceiver /\ r.up = tc[a].up /\ r.nth = tc[a].nth
      BY <1>t DEF Transceiver
    <3> HIDE DEF r
    <3>3. Remade({}, {})
      BY <3>1, <3>2, <1>t, ChangedFields
    <3> QED
      BY <3>3, <2>0, <1>c, <1>i, <1>t DEF Called
  <2>2. CASE ~tc[a].up
    <3> DEFINE r == [Fresh(a) EXCEPT !.track = track]
    <3>1. /\ tc' = [tc EXCEPT ![a] = r] /\ MayMake
          /\ attached' = [k \in Keys |-> IF k[1] = a THEN 0 ELSE attached[k]]
          /\ promised' = [k \in Keys |-> k[1] # a /\ promised[k]]
      BY <2>2, <1>6 DEF AddTrack
    <3>2. Fresh(a) \in Transceiver /\ Fresh(a).up
      BY <1>t, FreshFields
    <3>3. r \in Transceiver /\ r.up
      BY <3>2 DEF Transceiver
    <3>4. a \in Transceivers \ Up
      BY <2>2 DEF Up
    <3> HIDE DEF r
    <3>5. Remade({}, {a})
      BY <3>1, <3>3, <3>4, <1>t, MadeFields
    <3> QED
      BY <3>1, <3>4, <3>5, <2>0, <1>c, <1>i, <1>t DEF Called
  <2> QED
    BY <2>1, <2>2
<1>h. ASSUME NEW a \in Up, NEW k \in Keys, k[1] = a, NEW r \in Op, r.key = k,
             r.handles = {a}, r.todo = {}, r.fill = Nothing, r.at \in {"reread", "slot"},
             op' = [op EXCEPT ![t] = r], Remade({}, {})
      PROVE  /\ op' \in [Threads -> Op] /\ \A u \in Threads \ {t} : op'[u] = op[u]
             /\ op'[t].at \notin SlotLabels \cup {"prune"} /\ InHand(op[t])'
  <2>1. op' \in [Threads -> Op] /\ op'[t] = r /\ \A u \in Threads \ {t} : op'[u] = op[u]
    BY <1>h, <1>t, Becomes
  <2>2. a \in Up'
    BY <1>h, <1>t DEF Remade, Up
  <2>3. InHand(op[t])'
    BY <2>1, <2>2, <1>h, <1>l DEF InHand
  <2> QED
    BY <2>1, <2>3, <1>h, <1>l
<1>7. ASSUME NEW a \in Transceivers, NEW track \in Tracks, SetTrack(t, track, a)
      PROVE  Called(t, {}, {})
  <2> DEFINE r == [tc[a] EXCEPT !.track = track]
             o == [Idle EXCEPT !.at = "reread", !.call = "set_track", !.key = <<a, "send">>,
                               !.handles = {a}, !.lent = track]
  <2>1. /\ tc' = [tc EXCEPT ![a] = r] /\ attached' = attached /\ promised' = promised
        /\ a \in Up /\ UNCHANGED <<mode, gate, slotVars>> /\ wrapped' = wrapped
        /\ raced' = Crosses(t, "set_track") /\ Call(t, "set_track")
        /\ op' = [op EXCEPT ![t] = o]
    BY <1>7 DEF SetTrack
  <2>2. r \in Transceiver /\ r.up = tc[a].up /\ r.nth = tc[a].nth
    BY <1>t DEF Transceiver
  <2>3. <<a, "send">> \in Keys /\ <<a, "send">>[1] = a
    BY KeyFacts
  <2>4. /\ o \in Op /\ o.key = <<a, "send">> /\ o.handles = {a} /\ o.todo = {}
        /\ o.fill = Nothing /\ o.at = "reread"
    BY <2>3 DEF Op, Idle, Labels
  <2> HIDE DEF r, o
  <2>5. Remade({}, {})
    BY <2>1, <2>2, <1>t, ChangedFields
  <2>6. raced' \in BOOLEAN
    BY <2>1 DEF Crosses
  <2>7. /\ op' \in [Threads -> Op] /\ \A u \in Threads \ {t} : op'[u] = op[u]
        /\ op'[t].at \notin SlotLabels \cup {"prune"} /\ InHand(op[t])'
    BY <2>1, <2>3, <2>4, <2>5, <1>h
  <2> QED
    BY <2>1, <2>5, <2>6, <2>7, <1>c, <1>t DEF Called
<1>8. ASSUME NEW a \in Transceivers, NEW side \in Sides, SetTransform(t, a, side)
      PROVE  Called(t, {}, {})
  <2> DEFINE o == [Idle EXCEPT !.at = "slot", !.call = "transform", !.key = <<a, side>>,
                               !.handles = {a}]
  <2>1. /\ tc' = tc /\ attached' = attached /\ promised' = promised
        /\ a \in Up /\ UNCHANGED <<mode, gate, slotVars>> /\ wrapped' = wrapped
        /\ raced' = raced /\ Call(t, "set_transform")
        /\ op' = [op EXCEPT ![t] = o]
    BY <1>8 DEF SetTransform, nativeVars
  <2>2. <<a, side>> \in Keys /\ <<a, side>>[1] = a
    BY KeyFacts
  <2>3. /\ o \in Op /\ o.key = <<a, side>> /\ o.handles = {a} /\ o.todo = {}
        /\ o.fill = Nothing /\ o.at = "slot"
    BY <2>2 DEF Op, Idle, Labels
  <2> HIDE DEF o
  <2>4. Remade({}, {})
    BY <2>1, <1>t DEF Remade, StateTypes
  <2>5. /\ op' \in [Threads -> Op] /\ \A u \in Threads \ {t} : op'[u] = op[u]
        /\ op'[t].at \notin SlotLabels \cup {"prune"} /\ InHand(op[t])'
    BY <2>1, <2>2, <2>3, <2>4, <1>h
  <2> QED
    BY <2>1, <2>4, <2>5, <1>c, <1>t DEF Called
<1>9. \A a \in Transceivers \ Up : {a} \in SUBSET (Transceivers \ Up)
  OBVIOUS
<1> QED
  BY <1>0, <1>1, <1>2, <1>3, <1>4, <1>5, <1>6, <1>7, <1>8, <1>9 DEF CallStep

LEMMA ReconnectFields ==
    ASSUME StateTypes, NEW t \in Threads, Reconnect(t)
    PROVE  /\ \A u \in Threads : op[u] = Idle /\ op'[u] = Idle
           /\ op' = op /\ slots' = slots /\ mode' = mode /\ wrapped' = wrapped
           /\ calls' = [calls EXCEPT ![t] = @ - 1] /\ calls[t] > 0
           /\ tc' \in [Transceivers -> Transceiver]
           /\ attached' \in [Keys -> 0 .. Len(slots)] /\ promised' \in [Keys -> BOOLEAN]
           /\ registry' \in [Keys -> 0 .. Len(slots)] /\ gate' \in BOOLEAN /\ raced' = raced
           /\ \A a \in Transceivers : ~tc'[a].up
           /\ \A k \in Keys : /\ attached'[k] = 0 /\ ~promised'[k]
                              /\ registry'[k] = IF k[1] \in Up THEN 0 ELSE registry[k]
<1>1. /\ tc \in [Transceivers -> Transceiver] /\ registry \in [Keys -> 0 .. Len(slots)]
      /\ Len(slots) \in Nat
  BY DEF StateTypes
<1>2. tc' = [a \in Transceivers |-> [tc[a] EXCEPT !.up = FALSE]]
  BY DEF Reconnect
<1>3. \A a \in Transceivers : LET r == [tc[a] EXCEPT !.up = FALSE]
                              IN r \in Transceiver /\ ~r.up
  BY <1>1 DEF Transceiver
<1>4. tc' \in [Transceivers -> Transceiver] /\ \A a \in Transceivers : ~tc'[a].up
  BY <1>2, <1>3
<1>5. /\ registry' = [k \in Keys |-> IF k[1] \in Up THEN 0 ELSE registry[k]]
      /\ attached' = [k \in Keys |-> 0] /\ promised' = [k \in Keys |-> FALSE]
  BY DEF Reconnect
<1>6. /\ registry' \in [Keys -> 0 .. Len(slots)] /\ attached' \in [Keys -> 0 .. Len(slots)]
      /\ promised' \in [Keys -> BOOLEAN]
      /\ \A k \in Keys : /\ attached'[k] = 0 /\ ~promised'[k]
                         /\ registry'[k] = IF k[1] \in Up THEN 0 ELSE registry[k]
  BY <1>1, <1>5
<1>7. /\ \A u \in Threads : op[u] = Idle
      /\ op' = op /\ slots' = slots /\ mode' = mode /\ wrapped' = wrapped
      /\ calls' = [calls EXCEPT ![t] = @ - 1] /\ calls[t] > 0 /\ gate' = FALSE
      /\ raced' = raced
  BY DEF Reconnect, Call
<1> QED
  BY <1>4, <1>6, <1>7

\* The transceivers that handles keep stay.
LEMMA HandlesStay ==
    ASSUME TypeInv, NEW t \in Threads, NEW F \in SUBSET Up, NEW N, Remade(F, N),
           F \cap Held = {}
    PROVE  \A u \in Threads : op[u].handles \subseteq Up'
<1> SUFFICES ASSUME NEW u \in Threads, NEW a \in op[u].handles
             PROVE  a \in Up'
  OBVIOUS
<1>1. a \in Held /\ a \in Up /\ a \in Transceivers
  BY DEF Held, TypeInv, InHand, Up
<1>2. a \notin F
  BY <1>1
<1>3. tc[a].up
  BY <1>1 DEF Up
<1>4. tc'[a].up
  BY <1>1, <1>2, <1>3 DEF Remade
<1> QED
  BY <1>1, <1>4 DEF Up

LEMMA TypeStep == ASSUME TypeInv, [Next]_vars PROVE TypeInv'
<1>c. ASSUME NEW t \in Threads, calls' = [calls EXCEPT ![t] = @ - 1], calls[t] > 0
      PROVE  calls' \in [Threads -> Nat]
  <2>1. calls \in [Threads -> Nat]
    BY DEF TypeInv, StateTypes
  <2>2. calls[t] - 1 \in Nat
    BY <2>1, <1>c
  <2> QED
    BY <2>1, <2>2, <1>c
<1>1. ASSUME NEW t \in Threads, CallStep(t), ~Reconnect(t)
      PROVE  TypeInv'
  <2>1. PICK F \in SUBSET Up, N \in SUBSET (Transceivers \ Up) : Called(t, F, N)
    BY <1>1, CalledSteps
  <2>2. \A u \in Threads : op[u].handles \subseteq Up'
    BY <2>1, HandlesStay DEF Called
  <2>3. /\ mode' = mode /\ gate' = gate /\ slots' = slots /\ registry' = registry
        /\ tc' \in [Transceivers -> Transceiver]
        /\ attached' \in [Keys -> 0 .. Len(slots)] /\ promised' \in [Keys -> BOOLEAN]
        /\ wrapped' \subseteq Tracks /\ raced' \in BOOLEAN /\ op' \in [Threads -> Op]
        /\ \A u \in Threads \ {t} : op'[u] = op[u]
    BY <2>1 DEF Called, Remade, slotVars
  <2>4. calls' \in [Threads -> Nat]
    BY <2>1, <1>c DEF Called
  <2>5. StateTypes' /\ Len(slots) \in Nat /\ Len(slots') = Len(slots)
    BY <2>3, <2>4 DEF TypeInv, StateTypes
  <2>6. InHand(op[t])'
    BY <2>1 DEF Called
  <2>7. Len(slots) <= Len(slots')
    BY <2>5
  <2> QED
    BY <2>2, <2>3, <2>5, <2>6, <2>7, TypesFrom
<1>2. ASSUME NEW t \in Threads, Reconnect(t)
      PROVE  TypeInv'
  <2>1. StateTypes
    BY DEF TypeInv
  <2>2. /\ \A u \in Threads : op'[u] = Idle
        /\ op' = op /\ slots' = slots /\ mode' = mode /\ wrapped' = wrapped
        /\ calls' = [calls EXCEPT ![t] = @ - 1] /\ calls[t] > 0
        /\ tc' \in [Transceivers -> Transceiver]
        /\ attached' \in [Keys -> 0 .. Len(slots)] /\ promised' \in [Keys -> BOOLEAN]
        /\ registry' \in [Keys -> 0 .. Len(slots)] /\ gate' \in BOOLEAN /\ raced' = raced
    BY <2>1, <1>2, ReconnectFields
  <2>3. calls' \in [Threads -> Nat]
    BY <2>2, <1>c
  <2>4. StateTypes'
    BY <2>1, <2>2, <2>3 DEF StateTypes
  <2>5. \A u \in Threads : InHand(op[u])'
    BY <2>2, IdleFields DEF InHand, KeyLabels, SlotLabels
  <2> QED
    BY <2>4, <2>5 DEF TypeInv
<1>3. ASSUME NEW t \in Threads, ArmGate(t)
      PROVE  TypeInv'
  <2>1. StartInstall(t) /\ gate' = (Enabled /\ op[t].fill) /\ calls' = calls
        /\ UNCHANGED <<mode, nativeVars, slotVars, wrapped, promised>>
    BY <1>3 DEF ArmGate
  <2>2. /\ op' \in [Threads -> Op] /\ \A u \in Threads \ {t} : op'[u] = op[u]
        /\ op'[t].at = "install" /\ op'[t].handles = {}
        /\ op'[t].todo = {} /\ op'[t].fill = Nothing /\ raced' \in BOOLEAN
    BY <2>1, InstallFields DEF TypeInv, StateTypes
  <2>3. tc' = tc /\ attached' = attached /\ slots' = slots /\ registry' = registry
        /\ gate' \in BOOLEAN
    BY <2>1 DEF nativeVars, slotVars
  <2>4. StateTypes' /\ Len(slots) \in Nat
    BY <2>1, <2>2, <2>3 DEF TypeInv, StateTypes
  <2>5. InHand(op[t])'
    BY <2>2, NothingInHand DEF KeyLabels, SlotLabels
  <2>6. \A u \in Threads : op[u].handles \subseteq Up'
    BY <2>3 DEF TypeInv, InHand, Up
  <2>7. Len(slots) <= Len(slots')
    BY <2>3, <2>4
  <2> QED
    BY <2>2, <2>4, <2>5, <2>6, <2>7, TypesFrom
<1>4. CASE UNCHANGED vars
  BY <1>4 DEF vars, nativeVars, slotVars, TypeInv, StateTypes, InHand, Up
<1> QED
  BY <1>1, <1>2, <1>3, <1>4, WalkTypes, LookupTypes, FillTypes
     DEF Next, InstallStep, SetTrackStep, AttachStep

LEMMA InitTypes == ASSUME Init PROVE TypeInv
<1>1. StateTypes
  <2>1. mode \in Modes /\ mode.calls \in [Threads -> Nat]
    BY ModesAssumption DEF Init, Mode
  <2>2. /\ tc \in [Transceivers -> Transceiver] /\ slots \in Seq(Slot) /\ Len(slots) = 0
        /\ gate \in BOOLEAN /\ wrapped \subseteq Tracks /\ raced \in BOOLEAN
    <3> DEFINE r == [up |-> FALSE, nth |-> 0, track |-> Nothing, remote |-> "none"]
    <3>1. r \in Transceiver
      BY DEF Transceiver
    <3>2. tc = [a \in Transceivers |-> r]
      BY DEF Init
    <3> HIDE DEF r
    <3>3. tc \in [Transceivers -> Transceiver]
      BY <3>1, <3>2
    <3>4. slots = << >> /\ gate = FALSE /\ wrapped = Tracks /\ raced = FALSE
      BY DEF Init
    <3>5. slots \in Seq(Slot) /\ Len(slots) = 0
      BY <3>4
    <3> QED
      BY <3>3, <3>4, <3>5
  <2>3. registry \in [Keys -> 0 .. 0] /\ attached \in [Keys -> 0 .. 0]
        /\ promised \in [Keys -> BOOLEAN]
    BY DEF Init
  <2>4. op \in [Threads -> Op] /\ calls \in [Threads -> Nat]
    BY <2>1, IdleFields DEF Init
  <2> QED
    BY <2>1, <2>2, <2>3, <2>4 DEF StateTypes
<1>2. \A t \in Threads : op[t] = Idle
  BY DEF Init
<1> QED
  BY <1>1, <1>2, IdleFields DEF TypeInv, InHand, KeyLabels, SlotLabels

-----------------------------------------------------------------------------
(* Who steps, and what stays.                                              *)

\* A step that leaves the slots' flags and callbacks, what is attached and promised
\* as they are, and its thread without a slot in hand.
Still(t) ==
    /\ UNCHANGED <<mode, gate, tc, attached, registry, promised>>
    /\ Len(slots') = Len(slots)
    /\ \A j \in 1 .. Len(slots) : /\ slots'[j].installed = slots[j].installed
                                  /\ slots'[j].caller = slots[j].caller
    /\ op'[t].at \notin SlotLabels
    /\ Prunes(op[t]) => op'[t].at = "prune"
    /\ op'[t].at = "prune" => op'[t].handles = Up

LEMMA StillSteps ==
    ASSUME TypeInv, NEW t \in Threads,
           \/ Enumerate(t) \/ NextTransceiver(t) \/ CheckAllowed(t) \/ LookupSource(t)
           \/ LookupReceiver(t) \/ Reread(t) \/ EmbedAtOnce(t) \/ SwapSource(t)
           \/ UpdateSource(t) /\ Go(t, "gate") /\ UNCHANGED slotVars
    PROVE  Still(t)
<1>t. /\ op \in [Threads -> Op] /\ op[t] \in Op
  BY ThreadTypes
<1>l. \A l \in {"idle", "next", "allowed", "lookup", "lookupReceiver", "slot", "update", "gate",
                "prune"} :
         l \notin SlotLabels
  BY DEF SlotLabels
<1>u. UNCHANGED <<mode, gate, tc, attached, registry, promised>>
  BY DEF Enumerate, NextTransceiver, CheckAllowed, LookupSource, LookupReceiver, Reread,
         EmbedAtOnce, SwapSource, UpdateSource, nativeVars, slotVars
<1>s. /\ Len(slots') = Len(slots)
      /\ \A j \in 1 .. Len(slots) : /\ slots'[j].installed = slots[j].installed
                                    /\ slots'[j].caller = slots[j].caller
  <2>1. CASE SwapSource(t)
    BY <2>1, SwapFields
  <2>2. CASE slots' = slots
    BY <2>2
  <2> QED
    BY <2>1, <2>2 DEF Enumerate, NextTransceiver, CheckAllowed, LookupSource, LookupReceiver,
                      Reread, EmbedAtOnce, slotVars
<1>q. ASSUME op'[t].at \in {"idle", "next", "allowed", "lookup", "lookupReceiver", "slot",
                            "update", "gate"},
             op[t].at \notin {"arm", "install", "prune"}
      PROVE  Still(t)
  BY <1>q, <1>l, <1>u, <1>s DEF Still, Prunes
<1>1. CASE Enumerate(t)
  <2>1. CASE ~gate
    <3>1. op[t].at = "install" /\ op'[t] = Idle
      BY <2>1, <1>1, <1>t DEF Enumerate
    <3> QED
      BY <3>1, <2>1, <1>l, <1>u, <1>s, IdleFields DEF Still, Prunes
  <2>2. CASE gate
    <3>1. op'[t].at = "prune" /\ op'[t].handles = Up
      BY <2>2, <1>1, <1>t DEF Enumerate, Op
    <3> QED
      BY <3>1, <1>l, <1>u, <1>s DEF Still
  <2> QED
    BY <2>1, <2>2
<1>2. CASE NextTransceiver(t)
  <2>1. op[t].at = "next" /\ (op'[t] = Idle \/ op'[t].at = "allowed")
    <3>1. ASSUME NEW a, op' = [op EXCEPT ![t].at = "allowed", ![t].key = <<a, "send">>,
                                          ![t].todo = @ \ {a}]
          PROVE  op'[t].at = "allowed"
      BY <3>1, <1>t DEF Op
    <3>2. op' = [op EXCEPT ![t] = Idle] => op'[t] = Idle
      BY <1>t
    <3> QED
      BY <3>1, <3>2, <1>2 DEF NextTransceiver
  <2> QED
    BY <2>1, <1>q, IdleFields
<1>3. CASE CheckAllowed(t)
  <2>1. op[t].at = "allowed" /\ op'[t].at \in {"lookup", "lookupReceiver"}
    BY <1>3, <1>t DEF CheckAllowed, Op, Go
  <2> QED
    BY <2>1, <1>q
<1>4. CASE LookupSource(t)
  <2>1. op[t].at = "lookup" /\ op'[t].at \in {"slot", "lookupReceiver"}
    BY <1>4, <1>t DEF LookupSource, Op
  <2> QED
    BY <2>1, <1>q
<1>5. CASE LookupReceiver(t)
  <2>1. op[t].at = "lookupReceiver" /\ op'[t].at \in {"slot", "next"}
    BY <1>5, <1>t DEF LookupReceiver, Op
  <2> QED
    BY <2>1, <1>q
<1>6. CASE Reread(t)
  <2>1. op[t].at = "reread" /\ op'[t].at = "update"
    BY <1>6, <1>t DEF Reread, Op
  <2> QED
    BY <2>1, <1>q
<1>7. CASE EmbedAtOnce(t)
  <2>1. op[t].at = "gate" /\ (op'[t].at = "slot" \/ op'[t] = Idle)
    BY <1>7, <1>t DEF EmbedAtOnce, Op, Go
  <2> QED
    BY <2>1, <1>q, IdleFields
<1>8. CASE SwapSource(t)
  <2>1. op[t].at = "swap" /\ op'[t].at = "gate"
    BY <1>8, <1>t DEF SwapSource, Op, Go
  <2> QED
    BY <2>1, <1>q
<1>9. CASE UpdateSource(t) /\ Go(t, "gate")
  <2>1. op[t].at = "update" /\ op'[t].at = "gate"
    BY <1>9, <1>t DEF UpdateSource, Op, Go
  <2> QED
    BY <2>1, <1>q
<1> QED
  BY <1>1, <1>2, <1>3, <1>4, <1>5, <1>6, <1>7, <1>8, <1>9

\* The steps that look a slot up do so, or change nothing.
LEMMA LookupSteps ==
    ASSUME NEW t \in Threads, UpdateSource(t) \/ TakeSlot(t) \/ ReleaseSlot(t)
    PROVE  /\ UNCHANGED <<mode, gate, nativeVars, promised, calls>>
           /\ op[t].at \in {"update", "slot", "release"}
           /\ \/ op[t].at = "update" /\ SlotFor(t, "swap")
              \/ op[t].at = "slot" /\ SlotFor(t, "fill")
              \/ op[t].at = "release" /\ SlotFor(t, "unclaim")
              \/ UpdateSource(t) /\ Go(t, "gate") /\ UNCHANGED slotVars
BY DEF UpdateSource, TakeSlot, ReleaseSlot

\* A step is one thread's, which has a call left to make or is in one.
LEMMA Steps ==
    ASSUME TypeInv, NEW t \in Threads,
           CallStep(t) \/ InstallStep(t) \/ SetTrackStep(t) \/ AttachStep(t)
    PROVE  /\ mode' = mode
           /\ \A u \in Threads \ {t} : op'[u] = op[u] /\ calls'[u] = calls[u]
           /\ op[t].at = "idle" => calls[t] > 0
<1>t. op \in [Threads -> Op] /\ calls \in [Threads -> Nat] /\ StateTypes
  BY DEF TypeInv, StateTypes
<1>1. CASE CallStep(t) /\ ~Reconnect(t)
  <2>1. PICK F \in SUBSET Up, N \in SUBSET (Transceivers \ Up) : Called(t, F, N)
    BY <1>1, CalledSteps
  <2>2. /\ mode' = mode /\ calls[t] > 0 /\ calls' = [calls EXCEPT ![t] = @ - 1]
        /\ \A u \in Threads \ {t} : op'[u] = op[u]
    BY <2>1 DEF Called
  <2> QED
    BY <2>2, <1>t
<1>2. CASE Reconnect(t)
  <2>1. /\ mode' = mode /\ calls[t] > 0 /\ calls' = [calls EXCEPT ![t] = @ - 1]
        /\ op' = op
    BY <1>2, <1>t, ReconnectFields
  <2> QED
    BY <2>1, <1>t
<1>3. ASSUME mode' = mode, calls' = calls, op[t].at # "idle",
             \A u \in Threads \ {t} : op'[u] = op[u]
      PROVE  /\ mode' = mode
             /\ \A u \in Threads \ {t} : op'[u] = op[u] /\ calls'[u] = calls[u]
             /\ op[t].at = "idle" => calls[t] > 0
  BY <1>3
<1>4. CASE InstallStep(t)
  <2>1. mode' = mode /\ calls' = calls /\ op[t].at # "idle"
    BY <1>4 DEF InstallStep, ArmGate, Enumerate, PruneStaleSlots, NextTransceiver, CheckAllowed,
                LookupSource, LookupReceiver
  <2>2. \A u \in Threads \ {t} : op'[u] = op[u]
    BY <1>4, <1>t DEF InstallStep, ArmGate, Enumerate, PruneStaleSlots, NextTransceiver,
                      CheckAllowed, LookupSource, LookupReceiver, StartInstall, Go
  <2> QED
    BY <2>1, <2>2, <1>3
<1>5. CASE SetTrackStep(t)
  <2>1. mode' = mode /\ calls' = calls /\ op[t].at # "idle"
    BY <1>5 DEF SetTrackStep, Reread, UpdateSource, SwapSource, EmbedAtOnce
  <2>2. \A u \in Threads \ {t} : op'[u] = op[u]
    BY <1>5, <1>t DEF SetTrackStep, Reread, UpdateSource, SwapSource, EmbedAtOnce, SlotFor, Go
  <2> QED
    BY <2>1, <2>2, <1>3
<1>6. CASE AttachStep(t)
  <2>1. mode' = mode /\ calls' = calls /\ op[t].at # "idle"
    BY <1>6 DEF AttachStep, TakeSlot, FillSlot, ClaimInstall, Attach, AttachFails, ReleaseSlot,
                ReleaseInstall
  <2>2. \A u \in Threads \ {t} : op'[u] = op[u]
    BY <1>6, <1>t DEF AttachStep, TakeSlot, FillSlot, ClaimInstall, Attach, AttachFails,
                      ReleaseSlot, ReleaseInstall, SlotFor, Go, Return, Leave
  <2> QED
    BY <2>1, <2>2, <1>3
<1> QED
  BY <1>1, <1>2, <1>4, <1>5, <1>6

LEMMA StepsOf ==
    ASSUME [Next]_vars
    PROVE  \/ UNCHANGED vars
           \/ \E t \in Threads : CallStep(t) \/ InstallStep(t) \/ SetTrackStep(t) \/ AttachStep(t)
BY DEF Next

LEMMA LoneStep == ASSUME TypeInv, LoneInv, [Next]_vars PROVE LoneInv'
<1>1. CASE UNCHANGED vars
  BY <1>1 DEF LoneInv, Single, vars
<1>2. ASSUME NEW t \in Threads,
             CallStep(t) \/ InstallStep(t) \/ SetTrackStep(t) \/ AttachStep(t)
      PROVE  LoneInv'
  <2>1. /\ mode' = mode
        /\ \A u \in Threads \ {t} : op'[u] = op[u] /\ calls'[u] = calls[u]
        /\ op[t].at = "idle" => calls[t] > 0
    BY <1>2, Steps
  <2> SUFFICES ASSUME Single(mode)
               PROVE  \E s \in Threads : \A u \in Threads \ {s} : calls'[u] = 0 /\ op'[u] = Idle
    BY <2>1 DEF LoneInv, Single
  <2>2. PICK s \in Threads : \A u \in Threads \ {s} : calls[u] = 0 /\ op[u] = Idle
    BY DEF LoneInv
  <2>3. s = t
    <3>1. ASSUME s # t PROVE FALSE
      <4>1. calls[t] = 0 /\ op[t].at = "idle"
        BY <3>1, <2>2, IdleFields
      <4> QED
        BY <4>1, <2>1
    <3> QED
      BY <3>1
  <2> QED
    BY <2>1, <2>2, <2>3
<1> QED
  BY <1>1, <1>2, StepsOf

\* Where transceivers are freed the thread that steps is the only one in a call.
LEMMA Alone ==
    ASSUME Orderly, TypeInv, LoneInv, NEW t \in Threads, op[t].at = "idle" => calls[t] > 0
    PROVE  /\ ~mode.overtakes /\ mode.frees \in {"never", "gateOpen"}
           /\ mode.frees = "gateOpen" \/ Single(mode) =>
                 \A u \in Threads \ {t} : op[u] = Idle /\ calls[u] = 0
<1>1. /\ ~mode.overtakes
      /\ mode.frees = "never" \/ (mode.frees = "gateOpen" /\ Single(mode))
  BY DEF Orderly, TypeInv, StateTypes
<1>2. ASSUME Single(mode), NEW u \in Threads \ {t}
      PROVE  op[u] = Idle /\ calls[u] = 0
  <2>1. PICK s \in Threads : \A v \in Threads \ {s} : calls[v] = 0 /\ op[v] = Idle
    BY <1>2 DEF LoneInv
  <2>2. s = t
    <3>1. ASSUME s # t PROVE FALSE
      <4>1. calls[t] = 0 /\ op[t].at = "idle"
        BY <3>1, <2>1, IdleFields
      <4> QED
        BY <4>1
    <3> QED
      BY <3>1
  <2> QED
    BY <2>1, <2>2
<1>3. mode.frees = "gateOpen" => Single(mode)
  BY <1>1
<1> QED
  BY <1>1, <1>2, <1>3

-----------------------------------------------------------------------------
(* Slots, claims and transformers, step by step.                           *)

\* The conjuncts that a step needs together.
WiringInv == StaleInv /\ PruneInv /\ RegistryInv /\ ClaimInv /\ RunsItsSlot

\* The side a thread has in hand is of a transceiver there is.
LEMMA HandUp ==
    ASSUME TypeInv, NEW t \in Threads, op[t].at \in KeyLabels
    PROVE  /\ op[t].key \in Keys /\ op[t].key[1] \in Transceivers /\ tc[op[t].key[1]].up
           /\ op[t].key[1] \in Up
BY ThreadTypes, KeyFacts DEF Up

LEMMA LabelFacts ==
    /\ SlotLabels \subseteq KeyLabels
    /\ \A o : Claims(o) => o.at \in SlotLabels /\ o.at \in KeyLabels
    /\ \A o : Prunes(o) => o.at \in {"arm", "install", "prune"}
    /\ "slot" \in KeyLabels /\ "update" \in KeyLabels
    /\ {"arm", "install", "prune", "idle", "slot", "update", "lookupReceiver", "next"}
         \cap SlotLabels = {}
BY DEF SlotLabels, KeyLabels, Claims, Prunes

\* No slot is left for an address where the thread's call makes a transceiver.
LEMMA NothingStale ==
    ASSUME Orderly, TypeInv, LoneInv, StaleInv, NEW t \in Threads, op[t].at = "idle",
           calls[t] > 0, NEW k \in Keys, ~tc[k[1]].up
    PROVE  registry[k] = 0
<1> SUFFICES ASSUME registry[k] # 0 PROVE FALSE
  OBVIOUS
<1>1. mode.frees = "gateOpen" /\ \E u \in Threads : Prunes(op[u])
  BY DEF StaleInv
<1>2. PICK u \in Threads : Prunes(op[u])
  BY <1>1
<1>3. op[u].at # "idle"
  BY <1>2, LabelFacts
<1>4. u # t
  BY <1>3
<1>5. op[u] = Idle
  BY <1>1, <1>4, Alone
<1> QED
  BY <1>3, <1>5, IdleFields

LEMMA CalledWiring ==
    ASSUME Orderly, TypeInv, LoneInv, WiringInv, NEW t \in Threads,
           NEW F \in SUBSET Up, NEW N \in SUBSET (Transceivers \ Up), Called(t, F, N)
    PROVE  WiringInv'
<1>c. /\ mode' = mode /\ gate' = gate /\ slots' = slots /\ registry' = registry
      /\ op[t].at = "idle" /\ calls[t] > 0
      /\ \A u \in Threads \ {t} : op'[u] = op[u]
      /\ op'[t].at \notin SlotLabels \cup {"prune"}
      /\ F \cap Held = {} /\ (N # {} => MayMake)
      /\ F # {} => mode.frees # "never" /\ (mode.frees = "gateOpen" => Prunes(op'[t]))
  BY DEF Called, slotVars
<1>k. /\ \A a \in Transceivers :
            /\ a \in F => ~tc'[a].up
            /\ a \in N => tc'[a].up
            /\ a \notin F \cup N => tc'[a].up = tc[a].up /\ tc'[a].nth = tc[a].nth
      /\ \A k \in Keys :
            /\ k[1] \in F \cup N => attached'[k] = 0 /\ ~promised'[k]
            /\ k[1] \notin F \cup N => attached'[k] = attached[k] /\ promised'[k] = promised[k]
      /\ \A k \in Keys : k[1] \in Transceivers
  BY KeyFacts DEF Called, Remade
<1>w. StaleInv /\ PruneInv /\ RegistryInv /\ ClaimInv /\ RunsItsSlot
  BY DEF WiringInv
<1>a. /\ ~mode.overtakes /\ mode.frees \in {"never", "gateOpen"}
      /\ mode.frees = "gateOpen" => \A u \in Threads \ {t} : op[u] = Idle
  BY <1>c, Alone
<1>h. ASSUME NEW u \in Threads, op[u].at \in KeyLabels
      PROVE  op[u].key[1] \notin F \cup N /\ op[u].key \in Keys
  <2>1. op[u].key[1] \in Up /\ op[u].key \in Keys
    BY <1>h, HandUp
  <2>2. op[u].key[1] \in Held
    BY <1>h, ThreadTypes DEF Held
  <2> QED
    BY <2>1, <2>2, <1>c
<1>p. \A u \in Threads : Claims(op'[u]) => u # t /\ op'[u] = op[u] /\ Claims(op[u])
  BY <1>c, LabelFacts
<1>0. ~Claims(op[t])
  BY <1>c DEF Claims
<1>1. StaleInv'
  <2> SUFFICES ASSUME NEW k \in Keys, ~tc'[k[1]].up
               PROVE  /\ attached'[k] = 0 /\ ~promised'[k]
                      /\ registry[k] # 0 => mode.frees = "gateOpen"
                                            /\ \E u \in Threads : Prunes(op'[u])
    BY <1>c DEF StaleInv, Prunes
  <2>1. CASE k[1] \in F
    BY <2>1, <1>k, <1>c, <1>a
  <2>2. CASE k[1] \notin F
    <3>1. k[1] \notin F \cup N /\ ~tc[k[1]].up
      BY <2>2, <1>k
    <3>2. registry[k] = 0
      BY <3>1, <1>w, <1>c, NothingStale
    <3> QED
      BY <3>1, <3>2, <1>k, <1>w DEF StaleInv
  <2> QED
    BY <2>1, <2>2
<1>2. PruneInv'
  <2> SUFFICES ASSUME NEW u \in Threads, op'[u].at = "prune"
               PROVE  op'[u].handles = Up'
    BY DEF PruneInv
  <2>1. u # t /\ op'[u] = op[u] /\ op[u].at = "prune"
    BY <1>c
  <2>2. op[u].handles = Up
    BY <2>1, <1>w DEF PruneInv
  <2>3. N = {}
    BY <2>1, <1>c, <1>a DEF MayMake
  <2>4. F = {}
    <3>1. F # {} => op[u] = Idle
      BY <2>1, <1>c, <1>a
    <3> QED
      BY <3>1, <2>1, IdleFields
  <2>5. Up' = Up
    BY <2>3, <2>4, <1>k DEF Up
  <2> QED
    BY <2>1, <2>2, <2>5
<1>3. RegistryInv'
  <2>1. \A u \in Threads : op'[u].at \in SlotLabels => op'[u] = op[u]
    BY <1>c
  <2> QED
    BY <2>1, <1>c, <1>w DEF RegistryInv
<1>4. ClaimInv'
  <2> SUFFICES ASSUME NEW u \in Threads, Claims(op'[u])
               PROVE  /\ attached'[op'[u].key] = 0 /\ slots[op'[u].slot].installed
                      /\ \A v \in Threads \ {u} : ~(Claims(op'[v]) /\ op'[v].key = op'[u].key)
    BY <1>c DEF ClaimInv, Claims
  <2>1. op'[u] = op[u] /\ Claims(op[u])
    BY <1>p
  <2>2. op[u].key[1] \notin F \cup N /\ op[u].key \in Keys
    BY <2>1, <1>h, LabelFacts
  <2>3. attached'[op[u].key] = attached[op[u].key]
    BY <2>2, <1>k
  <2>4. \A v \in Threads : Claims(op'[v]) => op'[v] = op[v] /\ Claims(op[v])
    BY <1>p
  <2> QED
    BY <2>1, <2>3, <2>4, <1>w DEF ClaimInv
<1>5. RunsItsSlot'
  <2> SUFFICES ASSUME NEW k \in Keys, tc'[k[1]].up,
                      ~(\E u \in Threads : Claims(op'[u]) /\ op'[u].key = k)
               PROVE  attached'[k] = IF registry[k] # 0 /\ slots[registry[k]].installed
                                     THEN registry[k] ELSE 0
    BY <1>c DEF RunsItsSlot, Claimed, Claims
  <2>1. CASE k[1] \in F \cup N
    <3>1. ~tc[k[1]].up
      BY <2>1, <1>k DEF Up
    <3>2. registry[k] = 0
      BY <3>1, <1>w, <1>c, NothingStale
    <3> QED
      BY <3>2, <2>1, <1>k
  <2>2. CASE k[1] \notin F \cup N
    <3>1. tc[k[1]].up /\ attached'[k] = attached[k]
      BY <2>2, <1>k
    <3>2. \A u \in Threads : Claims(op[u]) => u # t /\ op'[u] = op[u]
      BY <1>0, <1>c
    <3>3. ~Claimed(k)
      BY <3>2 DEF Claimed, Claims
    <3> QED
      BY <3>1, <3>3, <1>w DEF RunsItsSlot
  <2> QED
    BY <2>1, <2>2
<1> QED
  BY <1>1, <1>2, <1>3, <1>4, <1>5 DEF WiringInv

LEMMA ReconnectWiring ==
    ASSUME TypeInv, WiringInv, NEW t \in Threads, Reconnect(t)
    PROVE  WiringInv'
<1>1. /\ \A u \in Threads : op[u] = Idle /\ op'[u] = Idle
      /\ slots' = slots
      /\ \A a \in Transceivers : ~tc'[a].up
      /\ \A k \in Keys : /\ attached'[k] = 0 /\ ~promised'[k]
                         /\ registry'[k] = IF k[1] \in Up THEN 0 ELSE registry[k]
  BY ReconnectFields DEF TypeInv
<1>w. StaleInv /\ RegistryInv
  BY DEF WiringInv
<1>2. \A u \in Threads : /\ op'[u].at \notin SlotLabels /\ ~Claims(op'[u])
                         /\ op'[u].at # "prune" /\ ~Prunes(op[u])
  BY <1>1, IdleFields DEF SlotLabels, Claims, Prunes
<1>3. \A k \in Keys : registry'[k] = 0
  <2> TAKE k \in Keys
  <2>1. CASE k[1] \in Up
    BY <2>1, <1>1
  <2>2. CASE k[1] \notin Up
    <3>1. ~tc[k[1]].up
      BY <2>2, KeyFacts DEF Up
    <3> QED
      BY <3>1, <2>2, <1>1, <1>2, <1>w DEF StaleInv
  <2> QED
    BY <2>1, <2>2
<1>4. StaleInv' /\ PruneInv' /\ RegistryInv'
  BY <1>1, <1>2, <1>3 DEF StaleInv, PruneInv, RegistryInv
<1>5. ClaimInv'
  BY <1>2 DEF ClaimInv
<1>6. RunsItsSlot'
  BY <1>1, KeyFacts DEF RunsItsSlot
<1> QED
  BY <1>4, <1>5, <1>6 DEF WiringInv

\* Steps that attach nothing, claim nothing, and leave every side's slot as it is.
LEMMA KeepsWiring ==
    ASSUME TypeInv, WiringInv, NEW t \in Threads,
           UNCHANGED <<mode, gate, tc, attached, registry>>,
           Len(slots') = Len(slots),
           \A j \in 1 .. Len(slots) : slots'[j].installed = slots[j].installed,
           \A k \in Keys : promised'[k] => promised[k] \/ tc[k[1]].up,
           \A u \in Threads \ {t} : op'[u] = op[u],
           Claims(op'[t]) <=> Claims(op[t]),
           op'[t].at \in SlotLabels => /\ op[t].at \in SlotLabels /\ op'[t].key = op[t].key
                                       /\ op'[t].slot = op[t].slot,
           Prunes(op[t]) => op'[t].at = "prune",
           op'[t].at = "prune" => op'[t].handles = Up
    PROVE  WiringInv'
<1>w. StaleInv /\ PruneInv /\ RegistryInv /\ ClaimInv /\ RunsItsSlot
  BY DEF WiringInv
<1>r. /\ \A k \in Keys : registry[k] \in 0 .. Len(slots) /\ Len(slots) \in Nat
      /\ \A u \in Threads : Claims(op[u]) => op[u].slot \in 1 .. Len(slots) /\ op[u].key \in Keys
  BY ThreadTypes, LabelFacts DEF TypeInv, StateTypes
<1>s. \A u \in Threads : Claims(op'[u]) => /\ Claims(op[u]) /\ op'[u].key = op[u].key
                                           /\ op'[u].slot = op[u].slot
  BY LabelFacts
<1>z. \A u \in Threads : Claims(op[u]) => Claims(op'[u]) /\ op'[u].key = op[u].key
  BY LabelFacts
<1>1. StaleInv'
  <2>1. \A u \in Threads : Prunes(op[u]) => Prunes(op[u])'
    BY DEF Prunes
  <2> QED
    BY <2>1, <1>w DEF StaleInv
<1>2. PruneInv'
  BY <1>w DEF PruneInv, Up
<1>3. RegistryInv'
  BY <1>w DEF RegistryInv
<1>4. ClaimInv'
  <2> SUFFICES ASSUME NEW u \in Threads, Claims(op'[u])
               PROVE  /\ attached[op'[u].key] = 0 /\ slots'[op'[u].slot].installed
                      /\ \A v \in Threads \ {u} : ~(Claims(op'[v]) /\ op'[v].key = op'[u].key)
    BY DEF ClaimInv, Claims
  <2>1. /\ Claims(op[u]) /\ op'[u].key = op[u].key /\ op'[u].slot = op[u].slot
        /\ op[u].slot \in 1 .. Len(slots)
    BY <1>s, <1>r
  <2>2. attached[op[u].key] = 0 /\ slots'[op[u].slot].installed
    BY <2>1, <1>w DEF ClaimInv
  <2>3. \A v \in Threads \ {u} : ~(Claims(op[v]) /\ op[v].key = op[u].key)
    BY <2>1, <1>w DEF ClaimInv
  <2> QED
    BY <2>1, <2>2, <2>3, <1>s
<1>5. RunsItsSlot'
  <2> SUFFICES ASSUME NEW k \in Keys, tc[k[1]].up,
                      ~(\E u \in Threads : Claims(op'[u]) /\ op'[u].key = k)
               PROVE  attached[k] = IF registry[k] # 0 /\ slots'[registry[k]].installed
                                    THEN registry[k] ELSE 0
    BY DEF RunsItsSlot, Claimed, Claims
  <2>1. ~Claimed(k)
    BY <1>z DEF Claimed, Claims
  <2>2. attached[k] = IF registry[k] # 0 /\ slots[registry[k]].installed
                      THEN registry[k] ELSE 0
    BY <2>1, <1>w DEF RunsItsSlot
  <2>3. registry[k] # 0 => slots'[registry[k]].installed = slots[registry[k]].installed
    BY <1>r
  <2> QED
    BY <2>2, <2>3
<1> QED
  BY <1>1, <1>2, <1>3, <1>4, <1>5 DEF WiringInv

LEMMA ArmWiring ==
    ASSUME Orderly, TypeInv, LoneInv, WiringInv, NEW t \in Threads, ArmGate(t)
    PROVE  WiringInv'
<1>1. /\ StartInstall(t) /\ gate' = (Enabled /\ op[t].fill) /\ op[t].at = "arm"
      /\ mode' = mode /\ tc' = tc /\ attached' = attached /\ slots' = slots
      /\ registry' = registry /\ promised' = promised
  BY DEF ArmGate, nativeVars, slotVars
<1>2. /\ \A u \in Threads \ {t} : op'[u] = op[u]
      /\ op'[t].at = "install"
  BY <1>1, InstallFields DEF TypeInv, StateTypes
<1>w. StaleInv /\ PruneInv /\ RegistryInv /\ ClaimInv /\ RunsItsSlot
  BY DEF WiringInv
<1>a. mode.frees = "gateOpen" => \A u \in Threads \ {t} : op[u] = Idle
  BY <1>1, Alone
<1>3. StaleInv'
  <2> SUFFICES ASSUME NEW k \in Keys, ~tc[k[1]].up, registry[k] # 0
               PROVE  mode.frees = "gateOpen" /\ \E u \in Threads : Prunes(op[u])'
    BY <1>1, <1>w DEF StaleInv
  <2>1. mode.frees = "gateOpen" /\ \E u \in Threads : Prunes(op[u])
    BY <1>w DEF StaleInv
  <2>2. PICK u \in Threads : Prunes(op[u])
    BY <2>1
  <2>3. u = t
    BY <2>1, <2>2, <1>a, LabelFacts, IdleFields
  <2>4. Enabled /\ op[t].fill = TRUE
    BY <2>2, <2>3, <1>1 DEF Prunes
  <2>5. Prunes(op[t])'
    BY <2>4, <1>1, <1>2 DEF Prunes
  <2> QED
    BY <2>1, <2>5
<1>4. \A u \in Threads : op'[u].at \in SlotLabels \cup {"prune"} => op'[u] = op[u]
  BY <1>2 DEF SlotLabels
<1>5. \A u \in Threads : op[u].at \in SlotLabels => op'[u] = op[u]
  BY <1>1, <1>2 DEF SlotLabels
<1>6. PruneInv' /\ RegistryInv'
  BY <1>1, <1>4, <1>w DEF PruneInv, RegistryInv, Up
<1>7. ClaimInv'
  <2>1. \A u \in Threads : Claims(op'[u]) => op'[u] = op[u]
    BY <1>4, LabelFacts
  <2> QED
    BY <2>1, <1>1, <1>w DEF ClaimInv
<1>8. RunsItsSlot'
  <2>1. \A k : Claimed(k) => Claimed(k)'
    BY <1>5 DEF Claimed, SlotLabels
  <2> QED
    BY <2>1, <1>1, <1>w DEF RunsItsSlot
<1> QED
  BY <1>3, <1>6, <1>7, <1>8 DEF WiringInv

LEMMA PruneWiring ==
    ASSUME TypeInv, WiringInv, NEW t \in Threads, PruneStaleSlots(t)
    PROVE  WiringInv'
<1>1. /\ Go(t, "next") /\ op[t].at = "prune" /\ mode' = mode /\ gate' = gate /\ tc' = tc
      /\ attached' = attached /\ slots' = slots /\ promised' = promised
      /\ registry' = [k \in Keys |-> IF k[1] \in op[t].handles THEN registry[k] ELSE 0]
  BY DEF PruneStaleSlots, nativeVars
<1>2. /\ \A u \in Threads \ {t} : op'[u] = op[u]
      /\ op'[t].at = "next"
  BY <1>1, GoFields DEF TypeInv, StateTypes, Labels
<1>w. StaleInv /\ PruneInv /\ RegistryInv /\ ClaimInv /\ RunsItsSlot
  BY DEF WiringInv
<1>3. \A k \in Keys : registry'[k] = IF tc[k[1]].up THEN registry[k] ELSE 0
  <2>1. op[t].handles = Up
    BY <1>1, <1>w DEF PruneInv
  <2> QED
    BY <2>1, <1>1, KeyFacts DEF Up
<1>4. \A u \in Threads : op'[u].at \in SlotLabels \cup {"prune"} => op'[u] = op[u]
  BY <1>2 DEF SlotLabels
<1>5. \A u \in Threads : op[u].at \in SlotLabels => op'[u] = op[u]
  BY <1>1, <1>2 DEF SlotLabels
<1>6. StaleInv'
  BY <1>1, <1>3, <1>w DEF StaleInv
<1>7. PruneInv'
  BY <1>1, <1>4, <1>w DEF PruneInv, Up
<1>8. RegistryInv'
  <2>1. \A u \in Threads : op[u].at \in SlotLabels => op[u].key \in Keys /\ tc[op[u].key[1]].up
    BY HandUp, LabelFacts
  <2> QED
    BY <2>1, <1>3, <1>4, <1>w DEF RegistryInv
<1>9. ClaimInv'
  <2>1. \A u \in Threads : Claims(op'[u]) => op'[u] = op[u]
    BY <1>4, LabelFacts
  <2> QED
    BY <2>1, <1>1, <1>w DEF ClaimInv
<1>10. RunsItsSlot'
  <2>1. \A k : Claimed(k) => Claimed(k)'
    BY <1>5 DEF Claimed, SlotLabels
  <2> QED
    BY <2>1, <1>1, <1>3, <1>w DEF RunsItsSlot
<1> QED
  BY <1>6, <1>7, <1>8, <1>9, <1>10 DEF WiringInv

\* A slot that is found keeps its side, and a new one is found by nobody else.
LEMMA LookupWiring ==
    ASSUME TypeInv, WiringInv, NEW t \in Threads, NEW l \in {"swap", "fill", "unclaim"},
           UNCHANGED <<mode, gate, nativeVars, promised>>, SlotFor(t, l),
           op[t].at = CASE l = "swap" -> "update" [] l = "fill" -> "slot" [] l = "unclaim" -> "release"
    PROVE  WiringInv'
<1>0. op[t].at \in {"update", "slot", "release"} /\ op[t].at \in KeyLabels
      /\ (op[t].at = "release" <=> l = "unclaim") /\ l \in Labels
  BY DEF KeyLabels, Labels
<1>k. op[t].key \in Keys /\ tc[op[t].key[1]].up
  BY <1>0, HandUp
<1>1. /\ mode' = mode /\ gate' = gate /\ tc' = tc /\ attached' = attached
      /\ promised' = promised
  BY DEF nativeVars
<1>2. /\ \A u \in Threads \ {t} : op'[u] = op[u]
      /\ op'[t].at = l /\ op'[t].key = op[t].key
      /\ op'[t].slot = registry'[op[t].key]
      /\ \A i \in 1 .. Len(slots) : slots'[i] = slots[i]
      /\ \/ /\ registry[op[t].key] # 0 /\ slots' = slots /\ registry' = registry
         \/ /\ registry[op[t].key] = 0 /\ Len(slots') = Len(slots) + 1
            /\ registry' = [registry EXCEPT ![op[t].key] = Len(slots')]
            /\ slots'[Len(slots')] = [caller |-> 0, meta |-> Nothing, installed |-> FALSE]
  BY <1>0, <1>k, SlotFields DEF TypeInv
<1>w. StaleInv /\ PruneInv /\ RegistryInv /\ ClaimInv /\ RunsItsSlot
  BY DEF WiringInv
<1>r. /\ registry \in [Keys -> 0 .. Len(slots)] /\ Len(slots) \in Nat
      /\ \A u \in Threads : Claims(op[u]) => op[u].slot \in 1 .. Len(slots) /\ op[u].key \in Keys
      /\ \A u \in Threads : op[u].at \in SlotLabels =>
            op[u].slot \in 1 .. Len(slots) /\ op[u].key \in Keys
  BY ThreadTypes, LabelFacts DEF TypeInv, StateTypes
<1>3. \A k \in Keys : \/ registry'[k] = registry[k]
                      \/ k = op[t].key /\ registry[k] = 0 /\ registry'[k] = Len(slots) + 1
                         /\ ~slots'[Len(slots) + 1].installed
  <2>1. CASE registry' = registry
    BY <2>1
  <2>2. CASE /\ Len(slots') = Len(slots) + 1 /\ registry[op[t].key] = 0
             /\ registry' = [registry EXCEPT ![op[t].key] = Len(slots')]
             /\ slots'[Len(slots')] = [caller |-> 0, meta |-> Nothing, installed |-> FALSE]
    <3>1. ~slots'[Len(slots) + 1].installed
      BY <2>2
    <3> QED
      BY <3>1, <2>2, <1>r
  <2> QED
    BY <2>1, <2>2, <1>2
<1>4. registry'[op[t].key] # 0
  BY <1>2, <1>r, <1>k
<1>5. StaleInv'
  <2>1. \A k \in Keys : ~tc[k[1]].up => registry'[k] = registry[k]
    BY <1>3, <1>k
  <2>2. \A u \in Threads : Prunes(op[u]) => Prunes(op[u])'
    BY <1>0, <1>1, <1>2 DEF Prunes
  <2> QED
    BY <2>1, <2>2, <1>1, <1>w DEF StaleInv
<1>6. PruneInv'
  <2>1. \A u \in Threads : op'[u].at = "prune" => op'[u] = op[u]
    BY <1>2
  <2> QED
    BY <2>1, <1>1, <1>w DEF PruneInv, Up
<1>7. RegistryInv'
  <2>1. ASSUME NEW j \in Keys, NEW k \in Keys, registry'[j] = registry'[k], registry'[j] # 0
        PROVE  j = k
    <3>1. registry[j] \in Nat /\ registry[k] \in Nat /\ registry[j] <= Len(slots)
          /\ registry[k] <= Len(slots)
      BY <1>r
    <3> QED
      BY <3>1, <2>1, <1>3, <1>r, <1>w DEF RegistryInv
  <2>2. ASSUME NEW u \in Threads, op'[u].at \in SlotLabels
        PROVE  registry'[op'[u].key] = op'[u].slot
    <3>1. CASE u = t
      BY <3>1, <1>2
    <3>2. CASE u # t
      <4>1. op'[u] = op[u] /\ registry[op[u].key] = op[u].slot /\ op[u].slot \in 1 .. Len(slots)
            /\ op[u].key \in Keys
        BY <3>2, <2>2, <1>2, <1>r, <1>w DEF RegistryInv
      <4>2. registry[op[u].key] # 0
        BY <4>1
      <4> QED
        BY <4>1, <4>2, <1>3
    <3> QED
      BY <3>1, <3>2
  <2> QED
    BY <2>1, <2>2 DEF RegistryInv
<1>s. ASSUME NEW u \in Threads, Claims(op'[u])
      PROVE  /\ Claims(op[u]) /\ op'[u].key = op[u].key /\ op'[u].slot = op[u].slot
  <2>1. CASE u # t
    BY <2>1, <1>s, <1>2
  <2>2. CASE u = t
    <3>1. op[t].at = "release"
      BY <2>2, <1>s, <1>2, <1>0 DEF Claims
    <3>2. Claims(op[t]) /\ registry[op[t].key] = op[t].slot
      BY <3>1, <1>w DEF Claims, RegistryInv, SlotLabels
    <3>3. op[t].slot # 0
      BY <3>2, <1>r
    <3> QED
      BY <3>2, <3>3, <2>2, <1>2
  <2> QED
    BY <2>1, <2>2
<1>z. \A u \in Threads : Claims(op[u]) => Claims(op'[u]) /\ op'[u].key = op[u].key
  BY <1>0, <1>2 DEF Claims
<1>8. ClaimInv'
  <2> SUFFICES ASSUME NEW u \in Threads, Claims(op'[u])
               PROVE  /\ attached[op'[u].key] = 0 /\ slots'[op'[u].slot].installed
                      /\ \A v \in Threads \ {u} : ~(Claims(op'[v]) /\ op'[v].key = op'[u].key)
    BY <1>1 DEF ClaimInv, Claims
  <2>1. Claims(op[u]) /\ op'[u].key = op[u].key /\ op'[u].slot = op[u].slot
        /\ op[u].slot \in 1 .. Len(slots)
    BY <1>s, <1>r
  <2>2. attached[op[u].key] = 0 /\ slots'[op[u].slot].installed
    BY <2>1, <1>2, <1>w DEF ClaimInv
  <2>3. \A v \in Threads \ {u} : ~(Claims(op[v]) /\ op[v].key = op[u].key)
    BY <2>1, <1>w DEF ClaimInv
  <2> QED
    BY <2>1, <2>2, <2>3, <1>s
<1>9. RunsItsSlot'
  <2> SUFFICES ASSUME NEW k \in Keys, tc[k[1]].up,
                      ~(\E u \in Threads : Claims(op'[u]) /\ op'[u].key = k)
               PROVE  attached[k] = IF registry'[k] # 0 /\ slots'[registry'[k]].installed
                                    THEN registry'[k] ELSE 0
    BY <1>1 DEF RunsItsSlot, Claimed, Claims
  <2>1. ~Claimed(k)
    BY <1>z DEF Claimed, Claims
  <2>2. attached[k] = IF registry[k] # 0 /\ slots[registry[k]].installed
                      THEN registry[k] ELSE 0
    BY <2>1, <1>w DEF RunsItsSlot
  <2>3. CASE registry'[k] = registry[k]
    <3>1. registry[k] # 0 => slots'[registry[k]] = slots[registry[k]]
      BY <1>2, <1>r
    <3> QED
      BY <3>1, <2>2, <2>3
  <2>4. CASE registry'[k] # registry[k]
    <3>1. registry[k] = 0 /\ ~slots'[registry'[k]].installed
      BY <2>4, <1>3
    <3> QED
      BY <3>1, <2>2
  <2> QED
    BY <2>3, <2>4
<1> QED
  BY <1>5, <1>6, <1>7, <1>8, <1>9 DEF WiringInv

\* Only the slot of a side that runs no transformer is claimed, and by one thread.
LEMMA ClaimWiring ==
    ASSUME TypeInv, WiringInv, NEW t \in Threads, ClaimInstall(t), ~slots[op[t].slot].installed
    PROVE  WiringInv'
<1>1. /\ op[t].at = "claim" /\ Go(t, "attach") /\ mode' = mode /\ gate' = gate /\ tc' = tc
      /\ attached' = attached /\ registry' = registry /\ promised' = promised
  BY DEF ClaimInstall, nativeVars
<1>2. /\ Len(slots') = Len(slots) /\ op[t].slot \in 1 .. Len(slots)
      /\ op[t].key \in Keys
      /\ slots'[op[t].slot].installed
      /\ \A j \in 1 .. Len(slots) : j # op[t].slot => slots'[j].installed = slots[j].installed
  BY FlagFields
<1>3. /\ \A u \in Threads \ {t} : op'[u] = op[u]
      /\ op'[t].at = "attach" /\ op'[t].key = op[t].key /\ op'[t].slot = op[t].slot
  BY <1>1, GoFields DEF TypeInv, StateTypes, Labels
<1>w. StaleInv /\ PruneInv /\ RegistryInv /\ ClaimInv /\ RunsItsSlot
  BY DEF WiringInv
<1>r. /\ \A k \in Keys : registry[k] \in 0 .. Len(slots)
      /\ Len(slots) \in Nat
      /\ \A u \in Threads : Claims(op[u]) => op[u].slot \in 1 .. Len(slots) /\ op[u].key \in Keys
  BY ThreadTypes, LabelFacts DEF TypeInv, StateTypes
<1>k. tc[op[t].key[1]].up /\ registry[op[t].key] = op[t].slot
  BY <1>1, <1>w, HandUp DEF KeyLabels, SlotLabels, RegistryInv
<1>4. ~Claimed(op[t].key)
  <2> SUFFICES ASSUME NEW u \in Threads, Claims(op[u]), op[u].key = op[t].key
               PROVE  FALSE
    BY DEF Claimed, Claims
  <2>1. registry[op[u].key] = op[u].slot /\ slots[op[u].slot].installed
    BY <1>w, LabelFacts DEF RegistryInv, ClaimInv
  <2> QED
    BY <2>1, <1>k
<1>5. attached[op[t].key] = 0
  BY <1>4, <1>k, <1>2, <1>w DEF RunsItsSlot
<1>6. StaleInv'
  <2>1. \A u \in Threads : Prunes(op[u]) => Prunes(op[u])'
    BY <1>1, <1>3 DEF Prunes
  <2> QED
    BY <2>1, <1>1, <1>w DEF StaleInv
<1>7. PruneInv' /\ RegistryInv'
  <2>1. \A u \in Threads : op'[u].at = "prune" => op'[u] = op[u]
    BY <1>3
  <2>2. \A u \in Threads : op'[u].at \in SlotLabels =>
           op[u].at \in SlotLabels /\ op'[u].key = op[u].key /\ op'[u].slot = op[u].slot
    BY <1>1, <1>3 DEF SlotLabels
  <2> QED
    BY <2>1, <2>2, <1>1, <1>w DEF PruneInv, RegistryInv, Up
<1>8. ClaimInv'
  <2> SUFFICES ASSUME NEW u \in Threads, Claims(op'[u])
               PROVE  /\ attached[op'[u].key] = 0 /\ slots'[op'[u].slot].installed
                      /\ \A v \in Threads \ {u} : ~(Claims(op'[v]) /\ op'[v].key = op'[u].key)
    BY <1>1 DEF ClaimInv, Claims
  <2>1. CASE u = t
    <3>1. \A v \in Threads \ {t} : ~(Claims(op'[v]) /\ op'[v].key = op[t].key)
      BY <1>3, <1>4 DEF Claimed, Claims
    <3> QED
      BY <3>1, <2>1, <1>2, <1>3, <1>5
  <2>2. CASE u # t
    <3>1. op'[u] = op[u] /\ Claims(op[u]) /\ op[u].slot \in 1 .. Len(slots)
      BY <2>2, <1>3, <1>r
    <3>2. attached[op[u].key] = 0 /\ slots[op[u].slot].installed
          /\ \A v \in Threads \ {u} : ~(Claims(op[v]) /\ op[v].key = op[u].key)
      BY <3>1, <1>w DEF ClaimInv
    <3>3. slots'[op[u].slot].installed
      BY <3>1, <3>2, <1>2
    <3>4. op[u].key # op[t].key
      BY <3>1, <1>4 DEF Claimed, Claims
    <3> QED
      BY <3>1, <3>2, <3>3, <3>4, <1>3
  <2> QED
    BY <2>1, <2>2
<1>9. RunsItsSlot'
  <2> SUFFICES ASSUME NEW k \in Keys, tc[k[1]].up,
                      ~(\E u \in Threads : Claims(op'[u]) /\ op'[u].key = k)
               PROVE  attached[k] = IF registry[k] # 0 /\ slots'[registry[k]].installed
                                    THEN registry[k] ELSE 0
    BY <1>1 DEF RunsItsSlot, Claimed, Claims
  <2>1. k # op[t].key
    BY <1>3 DEF Claims
  <2>2. \A u \in Threads : Claims(op[u]) => op'[u] = op[u]
    BY <1>1, <1>3 DEF Claims
  <2>3. ~Claimed(k)
    BY <2>2 DEF Claimed, Claims
  <2>4. attached[k] = IF registry[k] # 0 /\ slots[registry[k]].installed
                      THEN registry[k] ELSE 0
    BY <2>3, <1>w DEF RunsItsSlot
  <2>5. registry[k] # 0 => registry[k] # op[t].slot
    BY <2>1, <1>k, <1>2, <1>w DEF RegistryInv
  <2>6. registry[k] # 0 => slots'[registry[k]].installed = slots[registry[k]].installed
    BY <2>5, <1>2, <1>r
  <2> QED
    BY <2>4, <2>6
<1> QED
  BY <1>6, <1>7, <1>8, <1>9 DEF WiringInv

LEMMA AttachWiring ==
    ASSUME TypeInv, WiringInv, NEW t \in Threads, Attach(t)
    PROVE  WiringInv'
<1>1. /\ op[t].at = "attach" /\ mode' = mode /\ gate' = gate /\ tc' = tc
      /\ slots' = slots /\ registry' = registry
      /\ attached' = [attached EXCEPT ![op[t].key] = op[t].slot] /\ Return(t, TRUE)
  BY DEF Attach, slotVars
<1>k. /\ op[t].key \in Keys /\ tc[op[t].key[1]].up /\ Claims(op[t])
      /\ op[t].slot \in 1 .. Len(slots)
  BY <1>1, HandUp, ThreadTypes DEF KeyLabels, SlotLabels, Claims
<1>2. /\ \A k \in Keys : promised'[k] => promised[k] \/ k = op[t].key
      /\ \A u \in Threads \ {t} : op'[u] = op[u]
      /\ op'[t].at \in {"idle", "lookupReceiver", "next"}
  BY <1>1, <1>k, ReturnFields, IdleFields DEF TypeInv
<1>w. StaleInv /\ PruneInv /\ RegistryInv /\ ClaimInv /\ RunsItsSlot
  BY DEF WiringInv
<1>3. \A k \in Keys : attached'[k] = IF k = op[t].key THEN op[t].slot ELSE attached[k]
  BY <1>1 DEF TypeInv, StateTypes
<1>4. \A u \in Threads : op'[u].at \in SlotLabels \cup {"prune"} => u # t /\ op'[u] = op[u]
  BY <1>2 DEF SlotLabels
<1>5. \A u \in Threads : Prunes(op[u]) => Prunes(op[u])'
  BY <1>1, <1>2 DEF Prunes
<1>6. StaleInv'
  BY <1>1, <1>2, <1>3, <1>5, <1>k, <1>w DEF StaleInv
<1>7. PruneInv' /\ RegistryInv'
  BY <1>1, <1>4, <1>w DEF PruneInv, RegistryInv, Up
<1>8. ClaimInv'
  <2> SUFFICES ASSUME NEW u \in Threads, Claims(op'[u])
               PROVE  /\ attached'[op'[u].key] = 0 /\ slots[op'[u].slot].installed
                      /\ \A v \in Threads \ {u} : ~(Claims(op'[v]) /\ op'[v].key = op'[u].key)
    BY <1>1 DEF ClaimInv, Claims
  <2>1. \A v \in Threads : Claims(op'[v]) => v # t /\ op'[v] = op[v] /\ Claims(op[v])
    BY <1>4, LabelFacts
  <2>2. op[u].key # op[t].key /\ op[u].key \in Keys
    BY <2>1, <1>k, <1>w, HandUp, LabelFacts DEF ClaimInv
  <2>3. attached'[op[u].key] = attached[op[u].key]
    BY <2>2, <1>3
  <2> QED
    BY <2>1, <2>3, <1>w DEF ClaimInv
<1>9. RunsItsSlot'
  <2> SUFFICES ASSUME NEW k \in Keys, tc[k[1]].up,
                      ~(\E u \in Threads : Claims(op'[u]) /\ op'[u].key = k)
               PROVE  attached'[k] = IF registry[k] # 0 /\ slots[registry[k]].installed
                                     THEN registry[k] ELSE 0
    BY <1>1 DEF RunsItsSlot, Claimed, Claims
  <2>1. CASE k = op[t].key
    <3>1. registry[k] = op[t].slot /\ slots[op[t].slot].installed
      BY <2>1, <1>k, <1>w, LabelFacts DEF RegistryInv, ClaimInv
    <3>2. registry[k] # 0
      BY <3>1, <1>k
    <3> QED
      BY <3>1, <3>2, <2>1, <1>3
  <2>2. CASE k # op[t].key
    <3>1. \A u \in Threads : Claims(op[u]) /\ op[u].key = k => op'[u] = op[u]
      BY <2>2, <1>2
    <3>2. ~Claimed(k)
      BY <3>1 DEF Claimed, Claims
    <3> QED
      BY <3>2, <2>2, <1>3, <1>w DEF RunsItsSlot
  <2> QED
    BY <2>1, <2>2
<1> QED
  BY <1>6, <1>7, <1>8, <1>9 DEF WiringInv

LEMMA ReleaseWiring ==
    ASSUME TypeInv, WiringInv, NEW t \in Threads, ReleaseInstall(t)
    PROVE  WiringInv'
<1>1. /\ op[t].at = "unclaim" /\ mode' = mode /\ gate' = gate /\ tc' = tc
      /\ attached' = attached /\ registry' = registry /\ Return(t, FALSE)
  BY DEF ReleaseInstall, nativeVars
<1>k. /\ op[t].key \in Keys /\ tc[op[t].key[1]].up /\ Claims(op[t])
      /\ op[t].slot \in 1 .. Len(slots)
  BY <1>1, HandUp, ThreadTypes DEF KeyLabels, SlotLabels, Claims
<1>2. /\ \A k \in Keys : promised'[k] => promised[k]
      /\ \A u \in Threads \ {t} : op'[u] = op[u]
      /\ op'[t].at \in {"idle", "lookupReceiver", "next"}
  BY <1>1, <1>k, ReturnFields, IdleFields DEF TypeInv
<1>3. /\ Len(slots') = Len(slots) /\ ~slots'[op[t].slot].installed
      /\ \A j \in 1 .. Len(slots) : j # op[t].slot => slots'[j].installed = slots[j].installed
  BY FlagFields
<1>w. StaleInv /\ PruneInv /\ RegistryInv /\ ClaimInv /\ RunsItsSlot
  BY DEF WiringInv
<1>r. /\ \A k \in Keys : registry[k] \in 0 .. Len(slots) /\ Len(slots) \in Nat
      /\ \A u \in Threads : Claims(op[u]) => op[u].slot \in 1 .. Len(slots) /\ op[u].key \in Keys
  BY ThreadTypes, LabelFacts DEF TypeInv, StateTypes
<1>4. \A u \in Threads : op'[u].at \in SlotLabels \cup {"prune"} => u # t /\ op'[u] = op[u]
  BY <1>2 DEF SlotLabels
<1>5. \A u \in Threads : Prunes(op[u]) => Prunes(op[u])'
  BY <1>1, <1>2 DEF Prunes
<1>6. StaleInv'
  BY <1>1, <1>2, <1>5, <1>w DEF StaleInv
<1>7. PruneInv' /\ RegistryInv'
  BY <1>1, <1>4, <1>w DEF PruneInv, RegistryInv, Up
<1>s. registry[op[t].key] = op[t].slot /\ op[t].slot # 0
  BY <1>k, <1>w, LabelFacts DEF RegistryInv
<1>8. ClaimInv'
  <2> SUFFICES ASSUME NEW u \in Threads, Claims(op'[u])
               PROVE  /\ attached[op'[u].key] = 0 /\ slots'[op'[u].slot].installed
                      /\ \A v \in Threads \ {u} : ~(Claims(op'[v]) /\ op'[v].key = op'[u].key)
    BY <1>1 DEF ClaimInv, Claims
  <2>1. \A v \in Threads : Claims(op'[v]) => v # t /\ op'[v] = op[v] /\ Claims(op[v])
    BY <1>4, LabelFacts
  <2>2. /\ op[u].key # op[t].key /\ op[u].key \in Keys /\ op[u].slot \in 1 .. Len(slots)
        /\ registry[op[u].key] = op[u].slot
    BY <2>1, <1>k, <1>r, <1>w, LabelFacts DEF ClaimInv, RegistryInv
  <2>3. op[u].slot # op[t].slot
    BY <2>2, <1>s, <1>k, <1>w DEF RegistryInv
  <2> QED
    BY <2>1, <2>2, <2>3, <1>3, <1>w DEF ClaimInv
<1>9. RunsItsSlot'
  <2> SUFFICES ASSUME NEW k \in Keys, tc[k[1]].up,
                      ~(\E u \in Threads : Claims(op'[u]) /\ op'[u].key = k)
               PROVE  attached[k] = IF registry[k] # 0 /\ slots'[registry[k]].installed
                                    THEN registry[k] ELSE 0
    BY <1>1 DEF RunsItsSlot, Claimed, Claims
  <2>1. CASE k = op[t].key
    <3>1. attached[k] = 0
      BY <2>1, <1>k, <1>w DEF ClaimInv
    <3> QED
      BY <3>1, <2>1, <1>s, <1>3
  <2>2. CASE k # op[t].key
    <3>1. \A u \in Threads : Claims(op[u]) /\ op[u].key = k => op'[u] = op[u]
      BY <2>2, <1>2
    <3>2. ~Claimed(k)
      BY <3>1 DEF Claimed, Claims
    <3>3. registry[k] # 0 => registry[k] # op[t].slot
      BY <2>2, <1>s, <1>k, <1>w DEF RegistryInv
    <3>4. registry[k] # 0 => slots'[registry[k]].installed = slots[registry[k]].installed
      BY <3>3, <1>3, <1>r
    <3> QED
      BY <3>2, <3>4, <1>w DEF RunsItsSlot
  <2> QED
    BY <2>1, <2>2
<1> QED
  BY <1>6, <1>7, <1>8, <1>9 DEF WiringInv

\* What a thread's step is: a call, one of those above, or one that leaves what is
\* claimed and attached as it is.
LEMMA StepCases ==
    ASSUME NEW t \in Threads, CallStep(t) \/ InstallStep(t) \/ SetTrackStep(t) \/ AttachStep(t)
    PROVE  \/ CallStep(t) /\ ~Reconnect(t)
           \/ Reconnect(t)
           \/ ArmGate(t)
           \/ PruneStaleSlots(t)
           \/ \/ Enumerate(t) \/ NextTransceiver(t) \/ CheckAllowed(t) \/ LookupSource(t)
              \/ LookupReceiver(t) \/ Reread(t) \/ EmbedAtOnce(t) \/ SwapSource(t)
              \/ UpdateSource(t) /\ Go(t, "gate") /\ UNCHANGED slotVars
           \/ UpdateSource(t) /\ SlotFor(t, "swap")
           \/ TakeSlot(t)
           \/ ReleaseSlot(t)
           \/ FillSlot(t)
           \/ ClaimInstall(t) /\ slots[op[t].slot].installed
           \/ ClaimInstall(t) /\ ~slots[op[t].slot].installed
           \/ Attach(t)
           \/ AttachFails(t)
           \/ ReleaseInstall(t)
<1>1. UpdateSource(t) => \/ SlotFor(t, "swap")
                         \/ Go(t, "gate") /\ UNCHANGED slotVars
  BY DEF UpdateSource
<1> QED
  BY <1>1 DEF InstallStep, SetTrackStep, AttachStep

LEMMA StillWiring ==
    ASSUME TypeInv, WiringInv, NEW t \in Threads,
           \/ Enumerate(t) \/ NextTransceiver(t) \/ CheckAllowed(t) \/ LookupSource(t)
           \/ LookupReceiver(t) \/ Reread(t) \/ EmbedAtOnce(t) \/ SwapSource(t)
           \/ UpdateSource(t) /\ Go(t, "gate") /\ UNCHANGED slotVars
    PROVE  WiringInv'
<1>1. Still(t)
  BY StillSteps
<1>2. op[t].at \notin {"attach", "release", "unclaim"}
  BY DEF Enumerate, NextTransceiver, CheckAllowed, LookupSource, LookupReceiver, Reread,
         EmbedAtOnce, SwapSource, UpdateSource
<1>3. ~Claims(op[t]) /\ ~Claims(op'[t])
  BY <1>1, <1>2, LabelFacts DEF Claims, Still
<1>4. \A u \in Threads \ {t} : op'[u] = op[u]
  BY Steps DEF InstallStep, SetTrackStep
<1>5. /\ UNCHANGED <<mode, gate, tc, attached, registry, promised>>
      /\ Len(slots') = Len(slots)
      /\ \A j \in 1 .. Len(slots) : slots'[j].installed = slots[j].installed
      /\ op'[t].at \notin SlotLabels
      /\ Prunes(op[t]) => op'[t].at = "prune"
      /\ op'[t].at = "prune" => op'[t].handles = Up
  BY <1>1 DEF Still
<1> QED
  BY <1>3, <1>4, <1>5, KeepsWiring

LEMMA FillWiring ==
    ASSUME TypeInv, WiringInv, NEW t \in Threads, FillSlot(t)
    PROVE  WiringInv'
<1>1. /\ Len(slots') = Len(slots)
      /\ \A j \in 1 .. Len(slots) : slots'[j].installed = slots[j].installed
  BY FillFields
<1>2. /\ UNCHANGED <<mode, gate, tc, attached, registry, promised>>
      /\ op[t].at = "fill" /\ Go(t, "claim")
  BY DEF FillSlot, nativeVars
<1>3. /\ \A u \in Threads \ {t} : op'[u] = op[u]
      /\ op'[t].at = "claim" /\ op'[t].key = op[t].key /\ op'[t].slot = op[t].slot
  BY <1>2, GoFields DEF TypeInv, StateTypes, Labels
<1>4. ~Claims(op[t]) /\ ~Claims(op'[t]) /\ ~Prunes(op[t]) /\ op[t].at \in SlotLabels
  BY <1>2, <1>3 DEF Claims, Prunes, SlotLabels
<1> QED
  BY <1>1, <1>2, <1>3, <1>4, KeepsWiring

LEMMA FailsWiring ==
    ASSUME TypeInv, WiringInv, NEW t \in Threads, AttachFails(t)
    PROVE  WiringInv'
<1>1. /\ UNCHANGED <<mode, gate, tc, attached, slots, registry, promised>>
      /\ op[t].at = "attach" /\ Go(t, "release")
  BY DEF AttachFails, nativeVars, slotVars
<1>2. /\ \A u \in Threads \ {t} : op'[u] = op[u]
      /\ op'[t].at = "release" /\ op'[t].key = op[t].key /\ op'[t].slot = op[t].slot
  BY <1>1, GoFields DEF TypeInv, StateTypes, Labels
<1>3. Claims(op[t]) /\ Claims(op'[t]) /\ ~Prunes(op[t]) /\ op[t].at \in SlotLabels
  BY <1>1, <1>2 DEF Claims, Prunes, SlotLabels
<1> QED
  BY <1>1, <1>2, <1>3, KeepsWiring

\* A thread that finds the slot installed goes on.
LEMMA FoundWiring ==
    ASSUME TypeInv, WiringInv, NEW t \in Threads, ClaimInstall(t), slots[op[t].slot].installed
    PROVE  WiringInv'
<1>1. /\ UNCHANGED <<mode, gate, tc, attached, registry>>
      /\ op[t].at = "claim" /\ Return(t, TRUE)
  BY DEF ClaimInstall, nativeVars
<1>2. op[t].key \in Keys /\ tc[op[t].key[1]].up
  BY <1>1, HandUp DEF KeyLabels
<1>3. /\ \A k \in Keys : promised'[k] => promised[k] \/ tc[k[1]].up
      /\ \A u \in Threads \ {t} : op'[u] = op[u]
      /\ op'[t].at \in {"idle", "lookupReceiver", "next"}
  BY <1>1, <1>2, ReturnFields, IdleFields DEF TypeInv
<1>4. /\ Len(slots') = Len(slots)
      /\ \A j \in 1 .. Len(slots) : slots'[j].installed = slots[j].installed
  BY FlagFields
<1>5. ~Claims(op[t]) /\ ~Claims(op'[t]) /\ ~Prunes(op[t]) /\ op'[t].at \notin SlotLabels
      /\ op'[t].at # "prune"
  BY <1>1, <1>3 DEF Claims, Prunes, SlotLabels
<1> QED
  BY <1>1, <1>3, <1>4, <1>5, KeepsWiring

LEMMA WiringStep ==
    ASSUME Orderly, TypeInv, LoneInv, WiringInv, [Next]_vars
    PROVE  WiringInv'
<1>1. CASE UNCHANGED vars
  BY <1>1 DEF vars, nativeVars, slotVars, WiringInv, StaleInv, PruneInv, RegistryInv, ClaimInv,
              RunsItsSlot, Prunes, Claims, Claimed, Up
<1>2. ASSUME NEW t \in Threads,
             CallStep(t) \/ InstallStep(t) \/ SetTrackStep(t) \/ AttachStep(t)
      PROVE  WiringInv'
  <2>1. CASE CallStep(t) /\ ~Reconnect(t)
    BY <2>1, CalledSteps, CalledWiring
  <2>2. CASE UpdateSource(t) /\ SlotFor(t, "swap")
    <3>1. op[t].at = "update" /\ UNCHANGED <<mode, gate, nativeVars, promised>>
      BY <2>2 DEF UpdateSource
    <3> QED
      BY <3>1, <2>2, LookupWiring
  <2>3. CASE TakeSlot(t)
    <3>1. op[t].at = "slot" /\ UNCHANGED <<mode, gate, nativeVars, promised>> /\ SlotFor(t, "fill")
      BY <2>3 DEF TakeSlot
    <3> QED
      BY <3>1, LookupWiring
  <2>4. CASE ReleaseSlot(t)
    <3>1. /\ op[t].at = "release" /\ UNCHANGED <<mode, gate, nativeVars, promised>>
          /\ SlotFor(t, "unclaim")
      BY <2>4 DEF ReleaseSlot
    <3> QED
      BY <3>1, LookupWiring
  <2> QED
    BY <1>2, <2>1, <2>2, <2>3, <2>4, StepCases, ReconnectWiring, ArmWiring, PruneWiring,
       StillWiring, FillWiring, FoundWiring, ClaimWiring, AttachWiring, FailsWiring,
       ReleaseWiring
<1> QED
  BY <1>1, <1>2, StepsOf

-----------------------------------------------------------------------------
(* Callbacks that were promised, step by step.                             *)

LEMMA PromisedUp ==
    ASSUME WiringInv, NEW k \in Keys, promised[k]
    PROVE  tc[k[1]].up
BY DEF WiringInv, StaleInv

LEMMA PromiseTypes ==
    ASSUME TypeInv
    PROVE  /\ Len(slots) \in Nat
           /\ \A k \in Keys : registry[k] \in 0 .. Len(slots)
           /\ \A u \in Threads : op[u].at \in SlotLabels \/ Claims(op[u]) =>
                 op[u].slot \in 1 .. Len(slots) /\ op[u].key \in Keys
           /\ \A u \in Threads : op[u].at \in {"claim", "attach", "release", "unclaim"} =>
                 op[u].at \in SlotLabels
BY ThreadTypes, LabelFacts DEF TypeInv, StateTypes, SlotLabels

\* Steps that promise nothing, fill and install no slot and drop no promised one.
LEMMA KeepsPromise ==
    ASSUME TypeInv, PromiseInv, NEW t \in Threads, tc' = tc, mode' = mode,
           \A k \in Keys : promised'[k] => promised[k],
           \A k \in Keys : promised[k] => registry'[k] = registry[k],
           \A j \in 1 .. Len(slots) : /\ slots'[j].installed = slots[j].installed
                                      /\ slots'[j].caller = slots[j].caller,
           \A u \in Threads \ {t} : op'[u] = op[u],
           op'[t].at \notin {"claim", "attach"},
           Claims(op'[t]) => Claims(op[t]) /\ op'[t].key = op[t].key /\ mode.fails
    PROVE  PromiseInv'
<1>t. /\ Len(slots) \in Nat
      /\ \A k \in Keys : registry[k] \in 0 .. Len(slots)
      /\ \A u \in Threads : op[u].at \in SlotLabels \/ Claims(op[u]) =>
            op[u].slot \in 1 .. Len(slots) /\ op[u].key \in Keys
      /\ \A u \in Threads : op[u].at \in {"claim", "attach", "release", "unclaim"} =>
            op[u].at \in SlotLabels
  BY PromiseTypes
<1>1. ASSUME NEW k \in Keys, promised'[k]
      PROVE  /\ registry'[k] # 0 /\ slots'[registry'[k]].installed
             /\ slots'[registry'[k]].caller = tc'[k[1]].nth
  <2>1. /\ registry[k] # 0 /\ slots[registry[k]].installed
        /\ slots[registry[k]].caller = tc[k[1]].nth /\ registry'[k] = registry[k]
    BY <1>1 DEF PromiseInv
  <2>2. registry[k] \in 1 .. Len(slots)
    BY <2>1, <1>t
  <2> QED
    BY <2>1, <2>2
<1>2. ASSUME NEW u \in Threads, op'[u].call = "transform", op'[u].at \in {"claim", "attach"}
      PROVE  slots'[op'[u].slot].caller = tc'[op'[u].key[1]].nth
  <2>1. op'[u] = op[u]
    BY <1>2
  <2>2. slots[op[u].slot].caller = tc[op[u].key[1]].nth /\ op[u].slot \in 1 .. Len(slots)
    BY <2>1, <1>2, <1>t DEF PromiseInv
  <2> QED
    BY <2>1, <2>2
<1>3. ASSUME NEW u \in Threads, Claims(op'[u]), mode.fails
      PROVE  ~promised'[op'[u].key]
  <2>1. Claims(op[u]) /\ op'[u].key = op[u].key /\ op[u].key \in Keys
    BY <1>3, <1>t
  <2> QED
    BY <2>1, <1>3 DEF PromiseInv
<1>4. ASSUME NEW u \in Threads, op'[u].at \in {"release", "unclaim"}
      PROVE  mode.fails
  <2>1. CASE u = t
    BY <2>1, <1>4 DEF Claims
  <2>2. CASE u # t
    BY <2>2, <1>4 DEF PromiseInv
  <2> QED
    BY <2>1, <2>2
<1> QED
  BY <1>1, <1>2, <1>3, <1>4 DEF PromiseInv, Claims

LEMMA CalledPromise ==
    ASSUME TypeInv, WiringInv, PromiseInv, NEW t \in Threads,
           NEW F \in SUBSET Up, NEW N \in SUBSET (Transceivers \ Up), Called(t, F, N)
    PROVE  PromiseInv'
<1>c. /\ mode' = mode /\ slots' = slots /\ registry' = registry
      /\ \A u \in Threads \ {t} : op'[u] = op[u]
      /\ op'[t].at \notin SlotLabels /\ F \cap Held = {}
  BY DEF Called, slotVars
<1>k. /\ \A a \in Transceivers : a \notin F \cup N => tc'[a].nth = tc[a].nth
      /\ \A k \in Keys : /\ promised'[k] => promised[k]
                         /\ promised'[k] => k[1] \notin F \cup N
      /\ \A k \in Keys : k[1] \in Transceivers
  BY KeyFacts DEF Called, Remade
<1>t. /\ \A u \in Threads : op[u].at \in SlotLabels \/ Claims(op[u]) =>
            op[u].slot \in 1 .. Len(slots) /\ op[u].key \in Keys
      /\ \A u \in Threads : op[u].at \in {"claim", "attach", "release", "unclaim"} =>
            op[u].at \in SlotLabels
  BY PromiseTypes
<1>h. ASSUME NEW u \in Threads, op'[u].at \in {"claim", "attach", "release", "unclaim"}
      PROVE  /\ op'[u] = op[u] /\ op[u].key \in Keys
             /\ tc'[op[u].key[1]].nth = tc[op[u].key[1]].nth
  <2>1. op'[u] = op[u] /\ op[u].at \in KeyLabels
    BY <1>h, <1>c, LabelFacts DEF SlotLabels
  <2>2. op[u].key[1] \in Up /\ op[u].key \in Keys /\ op[u].key[1] \in Held
    BY <2>1, HandUp, ThreadTypes DEF Held
  <2>3. op[u].key[1] \notin F \cup N
    BY <2>2, <1>c
  <2> QED
    BY <2>1, <2>2, <2>3, <1>k
<1>1. \A k \in Keys : promised'[k] =>
         /\ registry'[k] # 0 /\ slots'[registry'[k]].installed
         /\ slots'[registry'[k]].caller = tc'[k[1]].nth
  BY <1>c, <1>k DEF PromiseInv
<1>2. \A u \in Threads : op'[u].call = "transform" /\ op'[u].at \in {"claim", "attach"} =>
         slots'[op'[u].slot].caller = tc'[op'[u].key[1]].nth
  BY <1>c, <1>h DEF PromiseInv
<1>3. \A u \in Threads : Claims(op'[u]) /\ mode'.fails => ~promised'[op'[u].key]
  BY <1>c, <1>h, <1>k DEF PromiseInv, Claims
<1>4. \A u \in Threads : op'[u].at \in {"release", "unclaim"} => mode'.fails
  BY <1>c, <1>h DEF PromiseInv
<1> QED
  BY <1>1, <1>2, <1>3, <1>4 DEF PromiseInv, Claims

LEMMA ReconnectPromise ==
    ASSUME TypeInv, NEW t \in Threads, Reconnect(t)
    PROVE  PromiseInv'
<1>1. /\ \A u \in Threads : op'[u] = Idle
      /\ \A k \in Keys : ~promised'[k]
  BY ReconnectFields DEF TypeInv
<1> QED
  BY <1>1, IdleFields DEF PromiseInv, Claims

\* The slot is filled for the side that finds it.
LEMMA FillPromise ==
    ASSUME TypeInv, WiringInv, PromiseInv, NEW t \in Threads, FillSlot(t)
    PROVE  PromiseInv'
<1>1. /\ UNCHANGED <<mode, tc, registry, promised>> /\ op[t].at = "fill" /\ Go(t, "claim")
  BY DEF FillSlot, nativeVars
<1>2. /\ \A u \in Threads \ {t} : op'[u] = op[u]
      /\ op'[t].at = "claim" /\ op'[t].key = op[t].key /\ op'[t].slot = op[t].slot
      /\ op'[t].call = op[t].call
  BY <1>1, GoFields DEF TypeInv, StateTypes, Labels
<1>3. /\ \A j \in 1 .. Len(slots) :
            /\ slots'[j].installed = slots[j].installed
            /\ j # op[t].slot \/ op[t].call # "transform" => slots'[j].caller = slots[j].caller
      /\ op[t].call = "transform" => slots'[op[t].slot].caller = tc[op[t].key[1]].nth
  BY FillFields
<1>t. /\ Len(slots) \in Nat
      /\ \A k \in Keys : registry[k] \in 0 .. Len(slots)
      /\ \A u \in Threads : op[u].at \in SlotLabels \/ Claims(op[u]) =>
            op[u].slot \in 1 .. Len(slots) /\ op[u].key \in Keys
      /\ \A u \in Threads : op[u].at \in {"claim", "attach", "release", "unclaim"} =>
            op[u].at \in SlotLabels
  BY PromiseTypes
<1>s. /\ op[t].key \in Keys /\ registry[op[t].key] = op[t].slot
      /\ \A j, k \in Keys : registry[j] = registry[k] /\ registry[j] # 0 => j = k
      /\ \A u \in Threads : op[u].at \in SlotLabels => registry[op[u].key] = op[u].slot
  <2>1. op[t].at \in SlotLabels
    BY <1>1 DEF SlotLabels
  <2> QED
    BY <2>1, <1>t DEF WiringInv, RegistryInv
<1>f. ASSUME NEW k \in Keys, registry[k] \in 1 .. Len(slots),
             slots[registry[k]].caller = tc[k[1]].nth
      PROVE  slots'[registry[k]].caller = tc[k[1]].nth
  <2>1. CASE registry[k] = op[t].slot /\ op[t].call = "transform"
    <3>1. k = op[t].key
      BY <2>1, <1>f, <1>s
    <3> QED
      BY <3>1, <2>1, <1>3
  <2>2. CASE registry[k] # op[t].slot \/ op[t].call # "transform"
    BY <2>2, <1>f, <1>3
  <2> QED
    BY <2>1, <2>2
<1>4. \A k \in Keys : promised[k] =>
         /\ registry[k] # 0 /\ slots'[registry[k]].installed
         /\ slots'[registry[k]].caller = tc[k[1]].nth
  <2> TAKE k \in Keys
  <2> HAVE promised[k]
  <2>1. /\ registry[k] # 0 /\ slots[registry[k]].installed
        /\ slots[registry[k]].caller = tc[k[1]].nth
    BY DEF PromiseInv
  <2>2. registry[k] \in 1 .. Len(slots)
    BY <2>1, <1>t
  <2> QED
    BY <2>1, <2>2, <1>3, <1>f
<1>5. ASSUME NEW u \in Threads, op'[u].call = "transform", op'[u].at \in {"claim", "attach"}
      PROVE  slots'[op'[u].slot].caller = tc[op'[u].key[1]].nth
  <2>1. CASE u = t
    BY <2>1, <1>5, <1>2, <1>3
  <2>2. CASE u # t
    <3>1. /\ op'[u] = op[u] /\ op[u].key \in Keys /\ op[u].slot \in 1 .. Len(slots)
          /\ registry[op[u].key] = op[u].slot
          /\ slots[op[u].slot].caller = tc[op[u].key[1]].nth
      BY <2>2, <1>5, <1>2, <1>t, <1>s DEF PromiseInv
    <3>2. slots'[registry[op[u].key]].caller = tc[op[u].key[1]].nth
      BY <3>1, <1>f
    <3> QED
      BY <3>1, <3>2
  <2> QED
    BY <2>1, <2>2
<1>6. \A u \in Threads : op'[u].at \in {"attach", "release", "unclaim"} => op'[u] = op[u]
  BY <1>2
<1> QED
  BY <1>1, <1>4, <1>5, <1>6 DEF PromiseInv, Claims

\* Where an attach may fail, nobody else waits for the transformer t attaches.
LEMMA OthersClaimNone ==
    ASSUME Reported, TypeInv, LoneInv, NEW t \in Threads, op[t].at # "idle", mode.fails,
           NEW u \in Threads \ {t}
    PROVE  ~Claims(op[u])
<1>1. Orderly /\ Single(mode)
  BY DEF Reported, TypeInv, StateTypes
<1>2. op[u] = Idle
  BY <1>1, Alone
<1> QED
  BY <1>2, IdleFields DEF Claims

\* A set_*_transform that returns Ok has its callback in a slot that is installed.
LEMMA ReturnPromise ==
    ASSUME Reported, TypeInv, LoneInv, WiringInv, PromiseInv, NEW t \in Threads,
           op[t].at \in {"claim", "attach"}, slots[op[t].slot].installed, Return(t, TRUE),
           UNCHANGED <<mode, tc, registry>>,
           \A j \in 1 .. Len(slots) : /\ slots'[j].installed = slots[j].installed
                                      /\ slots'[j].caller = slots[j].caller
    PROVE  PromiseInv'
<1>t. /\ Len(slots) \in Nat
      /\ \A k \in Keys : registry[k] \in 0 .. Len(slots)
      /\ \A u \in Threads : op[u].at \in SlotLabels \/ Claims(op[u]) =>
            op[u].slot \in 1 .. Len(slots) /\ op[u].key \in Keys
      /\ \A u \in Threads : op[u].at \in {"claim", "attach", "release", "unclaim"} =>
            op[u].at \in SlotLabels
  BY PromiseTypes
<1>1. /\ op[t].key \in Keys /\ op[t].slot \in 1 .. Len(slots)
      /\ registry[op[t].key] = op[t].slot
  BY <1>t DEF WiringInv, RegistryInv
<1>2. /\ \A k \in Keys : promised'[k] <=> \/ promised[k]
                                          \/ op[t].call = "transform" /\ k = op[t].key
      /\ \A u \in Threads \ {t} : op'[u] = op[u]
      /\ op'[t].at \in {"idle", "lookupReceiver", "next"}
  BY <1>1, ReturnFields, IdleFields DEF TypeInv
<1>3. ASSUME NEW k \in Keys, promised'[k]
      PROVE  /\ registry[k] # 0 /\ slots'[registry[k]].installed
             /\ slots'[registry[k]].caller = tc[k[1]].nth
  <2>1. /\ registry[k] # 0 /\ slots[registry[k]].installed
        /\ slots[registry[k]].caller = tc[k[1]].nth
    <3>1. CASE promised[k]
      BY <3>1 DEF PromiseInv
    <3>2. CASE op[t].call = "transform" /\ k = op[t].key
      <4>1. slots[op[t].slot].caller = tc[op[t].key[1]].nth
        BY <3>2 DEF PromiseInv
      <4> QED
        BY <4>1, <3>2, <1>1
    <3> QED
      BY <3>1, <3>2, <1>2, <1>3
  <2>2. registry[k] \in 1 .. Len(slots)
    BY <2>1, <1>t
  <2> QED
    BY <2>1, <2>2
<1>4. ASSUME NEW u \in Threads, op'[u].at \in {"claim", "attach", "release", "unclaim"}
      PROVE  /\ u # t /\ op'[u] = op[u] /\ op[u].slot \in 1 .. Len(slots) /\ op[u].key \in Keys
  BY <1>4, <1>2, <1>t
<1>5. \A u \in Threads : op'[u].call = "transform" /\ op'[u].at \in {"claim", "attach"} =>
         slots'[op'[u].slot].caller = tc[op'[u].key[1]].nth
  BY <1>4 DEF PromiseInv
<1>6. \A u \in Threads : Claims(op'[u]) => ~mode.fails
  <2> TAKE u \in Threads
  <2> HAVE Claims(op'[u])
  <2>1. u # t /\ op'[u] = op[u]
    BY <1>4 DEF Claims
  <2> QED
    BY <2>1, OthersClaimNone
<1>7. \A u \in Threads : op'[u].at \in {"release", "unclaim"} => mode.fails
  BY <1>4 DEF PromiseInv
<1> QED
  BY <1>3, <1>5, <1>6, <1>7 DEF PromiseInv, Claims

\* A side whose slot was not installed was promised nothing.
LEMMA ClaimPromise ==
    ASSUME TypeInv, WiringInv, PromiseInv, NEW t \in Threads, ClaimInstall(t),
           ~slots[op[t].slot].installed
    PROVE  PromiseInv'
<1>1. /\ UNCHANGED <<mode, tc, registry, promised>> /\ op[t].at = "claim" /\ Go(t, "attach")
  BY DEF ClaimInstall, nativeVars
<1>2. /\ \A u \in Threads \ {t} : op'[u] = op[u]
      /\ op'[t].at = "attach" /\ op'[t].key = op[t].key /\ op'[t].slot = op[t].slot
      /\ op'[t].call = op[t].call
  BY <1>1, GoFields DEF TypeInv, StateTypes, Labels
<1>3. /\ \A j \in 1 .. Len(slots) : /\ slots[j].installed => slots'[j].installed
                                    /\ slots'[j].caller = slots[j].caller
  <2>1. /\ slots'[op[t].slot].installed
        /\ \A j \in 1 .. Len(slots) :
              /\ j # op[t].slot => slots'[j].installed = slots[j].installed
              /\ slots'[j].caller = slots[j].caller
    BY FlagFields
  <2> QED
    BY <2>1
<1>t. /\ Len(slots) \in Nat
      /\ \A k \in Keys : registry[k] \in 0 .. Len(slots)
      /\ \A u \in Threads : op[u].at \in SlotLabels \/ Claims(op[u]) =>
            op[u].slot \in 1 .. Len(slots) /\ op[u].key \in Keys
      /\ \A u \in Threads : op[u].at \in {"claim", "attach", "release", "unclaim"} =>
            op[u].at \in SlotLabels
  BY PromiseTypes
<1>4. ASSUME NEW k \in Keys, promised[k]
      PROVE  /\ registry[k] # 0 /\ slots'[registry[k]].installed
             /\ slots'[registry[k]].caller = tc[k[1]].nth
  <2>1. /\ registry[k] # 0 /\ slots[registry[k]].installed
        /\ slots[registry[k]].caller = tc[k[1]].nth
    BY <1>4 DEF PromiseInv
  <2>2. registry[k] \in 1 .. Len(slots)
    BY <2>1, <1>t
  <2> QED
    BY <2>1, <2>2, <1>3
<1>5. ASSUME NEW u \in Threads, op'[u].call = "transform", op'[u].at \in {"claim", "attach"}
      PROVE  slots'[op'[u].slot].caller = tc[op'[u].key[1]].nth
  <2>1. /\ op[u].call = "transform" /\ op[u].at \in {"claim", "attach"}
        /\ op'[u].key = op[u].key /\ op'[u].slot = op[u].slot
    BY <1>5, <1>1, <1>2
  <2>2. slots[op[u].slot].caller = tc[op[u].key[1]].nth /\ op[u].slot \in 1 .. Len(slots)
    BY <2>1, <1>t DEF PromiseInv
  <2> QED
    BY <2>1, <2>2, <1>3
<1>6. ~promised[op[t].key]
  <2>1. op[t].key \in Keys /\ registry[op[t].key] = op[t].slot
    BY <1>1, <1>t DEF WiringInv, RegistryInv
  <2> QED
    BY <2>1 DEF PromiseInv
<1>7. ASSUME NEW u \in Threads, Claims(op'[u]), mode.fails
      PROVE  ~promised[op'[u].key]
  <2>1. CASE u = t
    BY <2>1, <1>2, <1>6
  <2>2. CASE u # t
    BY <2>2, <1>2, <1>7 DEF PromiseInv
  <2> QED
    BY <2>1, <2>2
<1>8. \A u \in Threads : op'[u].at \in {"release", "unclaim"} => mode.fails
  BY <1>2 DEF PromiseInv
<1> QED
  BY <1>1, <1>4, <1>5, <1>7, <1>8 DEF PromiseInv, Claims

\* A flag is taken back from a side that was promised nothing.
LEMMA ReleasePromise ==
    ASSUME TypeInv, WiringInv, PromiseInv, NEW t \in Threads, ReleaseInstall(t)
    PROVE  PromiseInv'
<1>1. /\ UNCHANGED <<mode, tc, registry>> /\ op[t].at = "unclaim" /\ Return(t, FALSE)
  BY DEF ReleaseInstall, nativeVars
<1>t. /\ Len(slots) \in Nat
      /\ \A k \in Keys : registry[k] \in 0 .. Len(slots)
      /\ \A u \in Threads : op[u].at \in SlotLabels \/ Claims(op[u]) =>
            op[u].slot \in 1 .. Len(slots) /\ op[u].key \in Keys
      /\ \A u \in Threads : op[u].at \in {"claim", "attach", "release", "unclaim"} =>
            op[u].at \in SlotLabels
  BY PromiseTypes
<1>2. /\ op[t].key \in Keys /\ op[t].slot \in 1 .. Len(slots)
      /\ registry[op[t].key] = op[t].slot /\ op[t].slot # 0
      /\ \A j, k \in Keys : registry[j] = registry[k] /\ registry[j] # 0 => j = k
  BY <1>1, <1>t DEF WiringInv, RegistryInv
<1>3. /\ \A k \in Keys : promised'[k] <=> promised[k]
      /\ \A u \in Threads \ {t} : op'[u] = op[u]
      /\ op'[t].at \in {"idle", "lookupReceiver", "next"}
  BY <1>1, <1>2, ReturnFields, IdleFields DEF TypeInv
<1>4. \A j \in 1 .. Len(slots) : /\ j # op[t].slot => slots'[j].installed = slots[j].installed
                                 /\ slots'[j].caller = slots[j].caller
  BY FlagFields
<1>5. ~promised[op[t].key]
  BY <1>1 DEF PromiseInv, Claims
<1>6. ASSUME NEW k \in Keys, promised'[k]
      PROVE  /\ registry[k] # 0 /\ slots'[registry[k]].installed
             /\ slots'[registry[k]].caller = tc[k[1]].nth
  <2>1. /\ registry[k] # 0 /\ slots[registry[k]].installed
        /\ slots[registry[k]].caller = tc[k[1]].nth
    BY <1>3, <1>6 DEF PromiseInv
  <2>2. registry[k] \in 1 .. Len(slots) /\ registry[k] # op[t].slot
    BY <2>1, <1>2, <1>3, <1>5, <1>6, <1>t
  <2> QED
    BY <2>1, <2>2, <1>4
<1>7. ASSUME NEW u \in Threads, op'[u].at \in {"claim", "attach", "release", "unclaim"}
      PROVE  /\ u # t /\ op'[u] = op[u] /\ op[u].slot \in 1 .. Len(slots) /\ op[u].key \in Keys
  BY <1>7, <1>3, <1>t
<1>8. \A u \in Threads : op'[u].call = "transform" /\ op'[u].at \in {"claim", "attach"} =>
         slots'[op'[u].slot].caller = tc[op'[u].key[1]].nth
  BY <1>4, <1>7 DEF PromiseInv
<1>9. \A u \in Threads : Claims(op'[u]) /\ mode.fails => ~promised'[op'[u].key]
  BY <1>3, <1>7 DEF PromiseInv, Claims
<1>10. \A u \in Threads : op'[u].at \in {"release", "unclaim"} => mode.fails
  BY <1>7 DEF PromiseInv
<1> QED
  BY <1>1, <1>6, <1>8, <1>9, <1>10 DEF PromiseInv, Claims

\* The steps of KeepsPromise.
LEMMA QuietPromise ==
    ASSUME TypeInv, WiringInv, PromiseInv, NEW t \in Threads,
           \/ ArmGate(t) \/ PruneStaleSlots(t) \/ AttachFails(t)
           \/ UpdateSource(t) \/ TakeSlot(t) \/ ReleaseSlot(t)
           \/ Enumerate(t) \/ NextTransceiver(t) \/ CheckAllowed(t) \/ LookupSource(t)
           \/ LookupReceiver(t) \/ Reread(t) \/ EmbedAtOnce(t) \/ SwapSource(t)
    PROVE  PromiseInv'
<1>t. op \in [Threads -> Op] /\ StateTypes
  BY DEF TypeInv, StateTypes
<1>o. \A u \in Threads \ {t} : op'[u] = op[u]
  BY Steps DEF InstallStep, SetTrackStep, AttachStep
<1>1. CASE ArmGate(t)
  <2>1. UNCHANGED <<mode, tc, slots, registry, promised>> /\ StartInstall(t)
    BY <1>1 DEF ArmGate, nativeVars, slotVars
  <2>2. op'[t].at = "install"
    BY <2>1, <1>t, InstallFields
  <2> QED
    BY <2>1, <2>2, <1>o, KeepsPromise DEF Claims
<1>2. CASE PruneStaleSlots(t)
  <2>1. /\ UNCHANGED <<mode, tc, slots, promised>> /\ Go(t, "next") /\ op[t].handles = Up
        /\ registry' = [k \in Keys |-> IF k[1] \in op[t].handles THEN registry[k] ELSE 0]
    BY <1>2 DEF PruneStaleSlots, nativeVars, WiringInv, PruneInv
  <2>2. op'[t].at = "next"
    BY <2>1, <1>t, GoFields DEF Labels
  <2>3. \A k \in Keys : promised[k] => registry'[k] = registry[k]
    BY <2>1, PromisedUp, KeyFacts DEF Up
  <2> QED
    BY <2>1, <2>2, <2>3, <1>o, KeepsPromise DEF Claims
<1>3. CASE AttachFails(t)
  <2>1. /\ UNCHANGED <<mode, tc, slots, registry, promised>> /\ Go(t, "release")
        /\ op[t].at = "attach" /\ mode.fails
    BY <1>3 DEF AttachFails, nativeVars, slotVars
  <2>2. op'[t].at = "release" /\ op'[t].key = op[t].key
    BY <2>1, <1>t, GoFields DEF Labels
  <2>3. Claims(op[t])
    BY <2>1 DEF Claims
  <2> QED
    BY <2>1, <2>2, <2>3, <1>o, KeepsPromise
<1>4. ASSUME NEW l \in {"swap", "fill", "unclaim"}, SlotFor(t, l),
             UNCHANGED <<nativeVars, mode, promised>>, op[t].at \in {"update", "slot", "release"},
             l = "unclaim" => op[t].at = "release"
      PROVE  PromiseInv'
  <2>1. l \in Labels /\ op[t].key \in Keys
    BY <1>4, HandUp DEF Labels, KeyLabels
  <2>2. /\ op'[t].at = l /\ op'[t].key = op[t].key
        /\ \A i \in 1 .. Len(slots) : slots'[i] = slots[i]
        /\ \/ /\ registry[op[t].key] # 0 /\ registry' = registry
           \/ /\ registry[op[t].key] = 0
              /\ registry' = [registry EXCEPT ![op[t].key] = Len(slots')]
    BY <2>1, <1>4, <1>t, SlotFields
  <2>3. \A k \in Keys : registry[k] # 0 => registry'[k] = registry[k]
    BY <2>2, <1>t DEF StateTypes
  <2>4. \A k \in Keys : promised[k] => registry'[k] = registry[k]
    BY <2>3 DEF PromiseInv
  <2>5. tc' = tc /\ mode' = mode /\ promised' = promised
    BY <1>4 DEF nativeVars
  <2>6. l = "unclaim" => Claims(op[t]) /\ mode.fails
    BY <1>4 DEF Claims, PromiseInv
  <2>7. op'[t].at \notin {"claim", "attach"}
        /\ (Claims(op'[t]) => Claims(op[t]) /\ op'[t].key = op[t].key /\ mode.fails)
    BY <2>2, <2>6, <1>4 DEF Claims
  <2>8. \A j \in 1 .. Len(slots) : /\ slots'[j].installed = slots[j].installed
                                   /\ slots'[j].caller = slots[j].caller
    BY <2>2
  <2> QED
    BY <2>4, <2>5, <2>7, <2>8, <1>o, KeepsPromise
<1>5. CASE Still(t)
  <2>1. /\ UNCHANGED <<mode, tc, registry, promised>>
        /\ \A j \in 1 .. Len(slots) : /\ slots'[j].installed = slots[j].installed
                                      /\ slots'[j].caller = slots[j].caller
        /\ op'[t].at \notin SlotLabels
    BY <1>5 DEF Still
  <2>2. op'[t].at \notin {"claim", "attach"} /\ ~Claims(op'[t])
    BY <2>1 DEF SlotLabels, Claims
  <2> QED
    BY <2>1, <2>2, <1>o, KeepsPromise
<1>6. CASE UpdateSource(t) \/ TakeSlot(t) \/ ReleaseSlot(t)
  <2>1. /\ UNCHANGED <<nativeVars, mode, promised>>
        /\ \/ op[t].at = "update" /\ SlotFor(t, "swap")
           \/ op[t].at = "slot" /\ SlotFor(t, "fill")
           \/ op[t].at = "release" /\ SlotFor(t, "unclaim")
           \/ UpdateSource(t) /\ Go(t, "gate") /\ UNCHANGED slotVars
    BY <1>6, LookupSteps
  <2> QED
    BY <2>1, <1>4, <1>5, StillSteps
<1> QED
  BY <1>1, <1>2, <1>3, <1>5, <1>6, StillSteps

LEMMA PromiseStep ==
    ASSUME Reported, TypeInv, LoneInv, WiringInv, PromiseInv, [Next]_vars
    PROVE  PromiseInv'
<1>1. CASE UNCHANGED vars
  BY <1>1 DEF vars, nativeVars, slotVars, PromiseInv, Claims
<1>2. ASSUME NEW t \in Threads,
             CallStep(t) \/ InstallStep(t) \/ SetTrackStep(t) \/ AttachStep(t)
      PROVE  PromiseInv'
  <2>1. CASE CallStep(t) /\ ~Reconnect(t)
    BY <2>1, CalledSteps, CalledPromise
  <2>2. CASE ClaimInstall(t) /\ slots[op[t].slot].installed
    <3>1. /\ op[t].at = "claim" /\ Return(t, TRUE) /\ UNCHANGED <<mode, tc, registry>>
      BY <2>2 DEF ClaimInstall, nativeVars
    <3>2. \A j \in 1 .. Len(slots) : /\ slots'[j].installed = slots[j].installed
                                     /\ slots'[j].caller = slots[j].caller
      BY <2>2, FlagFields
    <3> QED
      BY <3>1, <3>2, <2>2, ReturnPromise
  <2>3. CASE Attach(t)
    <3>1. /\ op[t].at = "attach" /\ Return(t, TRUE) /\ UNCHANGED <<mode, tc, registry>>
          /\ slots' = slots
      BY <2>3 DEF Attach, slotVars
    <3>2. slots[op[t].slot].installed
      BY <3>1 DEF WiringInv, ClaimInv, Claims
    <3> QED
      BY <3>1, <3>2, ReturnPromise
  <2> QED
    BY <1>2, <2>1, <2>2, <2>3, StepCases, ReconnectPromise, QuietPromise, FillPromise,
       ClaimPromise, ReleasePromise
<1> QED
  BY <1>1, <1>2, StepsOf

-----------------------------------------------------------------------------
(* The initial states.                                                     *)

LEMMA InitLone == ASSUME Init PROVE LoneInv
<1>1. calls = mode.calls /\ op = [t \in Threads |-> Idle]
  BY DEF Init
<1> SUFFICES ASSUME Single(mode)
             PROVE  \E t \in Threads : \A u \in Threads \ {t} : calls[u] = 0 /\ op[u] = Idle
  BY DEF LoneInv
<1>2. PICK t \in Threads : \A u \in Threads \ {t} : mode.calls[u] = 0
  BY DEF Single
<1> QED
  BY <1>1, <1>2

LEMMA InitWiring == ASSUME Init PROVE WiringInv
<1>1. /\ \A k \in Keys : attached[k] = 0 /\ registry[k] = 0 /\ ~promised[k]
      /\ \A t \in Threads : op[t] = Idle
      /\ \A k \in Keys : ~tc[k[1]].up
  BY KeyFacts DEF Init
<1>2. \A t \in Threads : op[t].at # "prune" /\ op[t].at \notin SlotLabels /\ ~Claims(op[t])
  BY <1>1, IdleFields DEF SlotLabels, Claims
<1> QED
  BY <1>1, <1>2 DEF WiringInv, StaleInv, PruneInv, RegistryInv, ClaimInv, RunsItsSlot

LEMMA InitPromise == ASSUME Init PROVE PromiseInv
<1>1. /\ \A k \in Keys : ~promised[k]
      /\ \A t \in Threads : op[t] = Idle
  BY DEF Init
<1> QED
  BY <1>1, IdleFields DEF PromiseInv, Claims

-----------------------------------------------------------------------------
(* The theorems.                                                           *)

LEMMA TypeInvariance == Spec => []TypeInv
<1>1. Init => TypeInv
  BY InitTypes
<1>2. TypeInv /\ [Next]_vars => TypeInv'
  BY TypeStep
<1> QED
  BY <1>1, <1>2, PTL DEF Spec

\* Every variable keeps to the values the code's types allow it: what slots() and
\* libwebrtc's sides refer to are slots that exist, through every interleaving of
\* calls, installs and failed attaches, and whenever transceivers are freed.
THEOREM TypeCorrect == Spec => []TypeOK
<1>1. ASSUME TypeInv, NEW t \in Threads,
             op[t].at \in {"fill", "swap", "claim", "attach", "unclaim"}
      PROVE  op[t].slot \in DOMAIN slots
  <2>1. op[t].at \in SlotLabels
    BY <1>1 DEF SlotLabels
  <2> QED
    BY <2>1, <1>1, ThreadTypes
<1>2. \A t \in Threads : TypeInv => op[t].at \in Labels
  BY ThreadTypes, OpFields
<1>3. TypeInv => TypeOK
  BY <1>1, <1>2 DEF TypeInv, StateTypes, TypeOK, Transceiver, Slot
<1> QED
  BY <1>3, TypeInvariance, PTL

LEMMA WiringInvariance == Orderly => (Spec => [](TypeInv /\ LoneInv /\ WiringInv))
<1> SUFFICES ASSUME Orderly PROVE Spec => [](TypeInv /\ LoneInv /\ WiringInv)
  OBVIOUS
<1> DEFINE I == TypeInv /\ LoneInv /\ WiringInv
<1>1. Init => I
  BY InitTypes, InitLone, InitWiring
<1>2. I /\ [Next]_vars => I'
  BY TypeStep, LoneStep, WiringStep
<1> HIDE DEF I
<1>3. Spec => []I
  BY <1>1, <1>2, PTL DEF Spec
<1> QED
  BY <1>3 DEF I

\* Of all the threads that fill the slot of a side, only one calls
\* SetFrameTransformer at a time, and where nothing is attached: what claim_install
\* is for, with any number of threads, calls, tracks and failures, as long as no
\* transceiver takes the address of one whose slot is still registered.
THEOREM TransformerAttachedOnce == Orderly => (Spec => []AttachedOnce)
<1> SUFFICES ASSUME Orderly PROVE Spec => []AttachedOnce
  OBVIOUS
<1>1. WiringInv => AttachedOnce
  BY DEF WiringInv, ClaimInv, AttachedOnce, Claims
<1>2. Spec => [](TypeInv /\ LoneInv /\ WiringInv)
  BY WiringInvariance
<1> QED
  BY <1>1, <1>2, PTL

\* libwebrtc runs the very slot that attach_caller and attach_embed fill from then
\* on, and `installed` tells whether it does: no registration is lost on a slot
\* that nothing runs, and none is thought to be running that failed to attach.
THEOREM SlotIsRun == Orderly => (Spec => []RunsItsSlot)
<1> SUFFICES ASSUME Orderly PROVE Spec => []RunsItsSlot
  OBVIOUS
<1>1. WiringInv => RunsItsSlot
  BY DEF WiringInv
<1>2. Spec => [](TypeInv /\ LoneInv /\ WiringInv)
  BY WiringInvariance
<1> QED
  BY <1>1, <1>2, PTL

\* A set_sender_transform or set_receiver_transform that returned Ok told the
\* truth: from then on the transceiver, as long as it lives, runs a callback that
\* was set on it.
THEOREM PromisedCallbackRuns == Reported => (Spec => []CallbackRuns)
<1> SUFFICES ASSUME Reported PROVE Spec => []CallbackRuns
  OBVIOUS
<1>o. Orderly
  BY DEF Reported
<1> DEFINE I == TypeInv /\ LoneInv /\ WiringInv
<1>1. Spec => []I
  BY <1>o, WiringInvariance
<1>2. I /\ PromiseInv /\ [Next]_vars => PromiseInv'
  BY PromiseStep
<1>3. I /\ PromiseInv => CallbackRuns
  <2> SUFFICES ASSUME I, PromiseInv, NEW k \in Keys, tc[k[1]].up, promised[k], ~Claimed(k)
               PROVE  attached[k] # 0 /\ slots[attached[k]].caller = tc[k[1]].nth
    BY DEF CallbackRuns
  <2>1. /\ registry[k] # 0 /\ slots[registry[k]].installed
        /\ slots[registry[k]].caller = tc[k[1]].nth
    BY DEF PromiseInv
  <2>2. attached[k] = registry[k]
    BY <2>1 DEF WiringInv, RunsItsSlot
  <2> QED
    BY <2>1, <2>2
<1> HIDE DEF I
<1>4. Init => PromiseInv
  BY InitPromise
<1> QED
  BY <1>1, <1>2, <1>3, <1>4, PTL DEF Spec

==============================================================================
