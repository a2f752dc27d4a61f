------------------------ MODULE DcSendStream_proofs ------------------------
(***************************************************************************)
(* More proofs about DcSend: the byte count of the queue and what a drain   *)
(* may conclude from it, every byte in one place, and the stream of whole   *)
(* messages the sending half implements.                                    *)
(***************************************************************************)
EXTENDS DcSend_proofs, WellFoundedInduction

USE DEF Threads, Room, Buffered

-----------------------------------------------------------------------------
(* What the recursive functions of the model compute.  Induction over the    *)
(* naturals is by least counterexample.                                     *)

LEMMA LeastNat ==
    ASSUME NEW T \in SUBSET Nat, T # {}
    PROVE  \E n \in T : \A m \in T : n <= m
  <1>1. IsWellFoundedOn(OpToRel(<, Nat), Nat)
    BY NatLessThanWellFounded
  <1>2. PICK n \in T : \A m \in T : <<m, n>> \notin OpToRel(<, Nat)
    BY <1>1, WFMin
  <1>3. \A m \in T : ~(m < n)
    BY <1>2 DEF OpToRel
  <1>. QED
    BY <1>3

\* f adds up s from its first element on.
SumsUp(f, s) == f = [i \in 0 .. Len(s) |-> IF i = 0 THEN 0 ELSE f[i - 1] + s[i]]

\* Two sequences with the same first n elements.
Agree(s, r, n) == n <= Len(s) /\ n <= Len(r) /\ \A i \in 1 .. n : s[i] = r[i]

\* The first sums depend on the first elements only.
LEMMA SumsUpUnique ==
    ASSUME NEW s \in Seq(Int), NEW r \in Seq(Int), NEW f, NEW g, NEW n \in Nat,
           SumsUp(f, s), SumsUp(g, r), Agree(s, r, n)
    PROVE  f[n] = g[n]
  <1>. DEFINE T == {i \in 0 .. n : f[i] # g[i]}
  <1>1. /\ Len(s) \in Nat /\ n <= Len(s) /\ Len(r) \in Nat /\ n <= Len(r)
        /\ \A i \in 1 .. n : s[i] = r[i]
    BY DEF Agree
  <1>2. /\ \A i \in 0 .. Len(s) : f[i] = IF i = 0 THEN 0 ELSE f[i - 1] + s[i]
        /\ \A i \in 0 .. Len(r) : g[i] = IF i = 0 THEN 0 ELSE g[i - 1] + r[i]
    BY DEF SumsUp
  <1>3. ASSUME T # {} PROVE FALSE
    <2>1. T \in SUBSET Nat
      OBVIOUS
    <2>2. PICK i \in T : \A j \in T : i <= j
      BY <1>3, <2>1, LeastNat
    <2>3. i \in 0 .. n /\ f[i] # g[i] /\ i \in 0 .. Len(s) /\ i \in 0 .. Len(r)
      BY <1>1, <2>2
    <2>4. i # 0
      BY <1>2, <2>3
    <2>5. i - 1 \in 0 .. n /\ i \in 1 .. n
      BY <2>3, <2>4
    <2>6. f[i - 1] = g[i - 1]
      <3>1. i - 1 \notin T
        BY <2>2, <2>5
      <3>. QED
        BY <2>5, <3>1
    <2>7. f[i] = f[i - 1] + s[i] /\ g[i] = g[i - 1] + r[i]
      BY <1>2, <2>3, <2>4
    <2>. QED
      BY <1>1, <2>3, <2>5, <2>6, <2>7
  <1>4. n \in 0 .. n
    OBVIOUS
  <1>. QED
    BY <1>3, <1>4

LEMMA SumsUpExists ==
    ASSUME NEW s \in Seq(Int)
    PROVE  \E f \in [0 .. Len(s) -> Int] : SumsUp(f, s)
  <1>. DEFINE Up(f, n) == /\ f \in [0 .. n -> Int] /\ f[0] = 0
                          /\ \A i \in 1 .. n : f[i] = f[i - 1] + s[i]
              T == {n \in 0 .. Len(s) : ~ \E f : Up(f, n)}
  <1>1. Len(s) \in Nat
    OBVIOUS
  <1>2. ASSUME T # {} PROVE FALSE
    <2>1. T \in SUBSET Nat
      OBVIOUS
    <2>2. PICK n \in T : \A m \in T : n <= m
      BY <1>2, <2>1, LeastNat
    <2>3. n \in 0 .. Len(s) /\ ~ \E f : Up(f, n)
      BY <2>2
    <2>4. CASE n = 0
      <3>. DEFINE z == [i \in 0 .. 0 |-> 0]
      <3>1. z \in [0 .. 0 -> Int] /\ z[0] = 0
        OBVIOUS
      <3>2. Up(z, 0)
        BY <3>1
      <3>. QED
        BY <2>3, <2>4, <3>2
    <2>5. CASE n # 0
      <3>1. n - 1 \in 0 .. Len(s) /\ n \in 1 .. Len(s)
        BY <1>1, <2>3, <2>5
      <3>2. n - 1 \notin T
        <4>1. ~(n <= n - 1)
          BY <3>1
        <4>. QED
          BY <2>2, <4>1
      <3>3. PICK f : Up(f, n - 1)
        BY <3>1, <3>2
      <3>. DEFINE g == [i \in 0 .. n |-> IF i = n THEN f[n - 1] + s[n] ELSE f[i]]
      <3>4. s[n] \in Int /\ n - 1 \in 0 .. n - 1
        BY <3>1
      <3>5. \A i \in 0 .. n : i # n => i \in 0 .. n - 1
        BY <3>1
      <3>6. f[n - 1] + s[n] \in Int
        BY <3>3, <3>4
      <3>7. g \in [0 .. n -> Int]
        BY <3>3, <3>5, <3>6
      <3>8. 0 \in 0 .. n /\ 0 # n /\ g[0] = 0
        BY <3>1, <3>3
      <3>9. ASSUME NEW i \in 1 .. n PROVE g[i] = g[i - 1] + s[i]
        <4>1. i \in 0 .. n /\ i - 1 \in 0 .. n /\ i - 1 # n
          BY <3>1
        <4>2. CASE i = n
          BY <4>1, <4>2
        <4>3. CASE i # n
          <5>1. i \in 1 .. n - 1
            BY <3>1, <4>3
          <5>. QED
            BY <3>3, <4>1, <4>3, <5>1
        <4>. QED
          BY <4>2, <4>3
      <3>. HIDE DEF g
      <3>10. Up(g, n)
        BY <3>7, <3>8, <3>9
      <3>. QED
        BY <2>3, <3>10
    <2>. QED
      BY <2>4, <2>5
  <1>3. Len(s) \in 0 .. Len(s)
    BY <1>1
  <1>4. PICK f : Up(f, Len(s))
    BY <1>2, <1>3
  <1>5. \A i \in 0 .. Len(s) : i # 0 => i \in 1 .. Len(s)
    BY <1>1
  <1>6. f = [i \in 0 .. Len(s) |-> f[i]]
    BY <1>4
  <1>7. \A i \in 0 .. Len(s) : f[i] = IF i = 0 THEN 0 ELSE f[i - 1] + s[i]
    BY <1>4, <1>5
  <1>8. SumsUp(f, s)
    BY <1>6, <1>7 DEF SumsUp
  <1>. QED
    BY <1>4, <1>8

LEMMA TotalIs ==
    ASSUME NEW s \in Seq(Int), NEW f, SumsUp(f, s)
    PROVE  Total(s) = f[Len(s)]
  <1>. DEFINE g == CHOOSE h : SumsUp(h, s)
  <1>1. SumsUp(g, s)
    OBVIOUS
  <1>2. Total(s) = g[Len(s)]
    BY DEF Total, SumsUp
  <1>. HIDE DEF g
  <1>3. Len(s) \in Nat /\ Agree(s, s, Len(s))
    BY DEF Agree
  <1>4. f[Len(s)] = g[Len(s)]
    BY <1>1, <1>3, SumsUpUnique
  <1>. QED
    BY <1>2, <1>4

LEMMA TotalEmpty == Total(<<>>) = 0
  <1>1. <<>> \in Seq(Int) /\ Len(<<>>) = 0
    OBVIOUS
  <1>2. PICK f \in [0 .. 0 -> Int] : SumsUp(f, <<>>)
    BY <1>1, SumsUpExists
  <1>3. f[0] = 0
    BY <1>1, <1>2 DEF SumsUp
  <1>. QED
    BY <1>1, <1>2, <1>3, TotalIs

LEMMA TotalExtends ==
    ASSUME NEW s \in Seq(Int), NEW r \in Seq(Int), NEW n \in Nat,
           Len(s) = n, Len(r) = n + 1, \A i \in 1 .. n : s[i] = r[i]
    PROVE  Total(s) \in Int /\ Total(r) = Total(s) + r[n + 1]
  <1>1. PICK f : f \in [0 .. n -> Int] /\ SumsUp(f, s)
    BY SumsUpExists
  <1>2. PICK g : g \in [0 .. n + 1 -> Int] /\ SumsUp(g, r)
    BY SumsUpExists
  <1>3. Total(s) = f[n] /\ Total(r) = g[n + 1]
    BY <1>1, <1>2, TotalIs
  <1>4. g[n + 1] = g[n] + r[n + 1]
    <2>1. n + 1 \in 0 .. n + 1 /\ n + 1 # 0 /\ (n + 1) - 1 = n
      OBVIOUS
    <2>. QED
      BY <1>2, <2>1 DEF SumsUp
  <1>5. f[n] = g[n]
    <2>1. SumsUp(f, s) /\ SumsUp(g, r)
      BY <1>1, <1>2
    <2>2. Agree(s, r, n)
      BY DEF Agree
    <2>. QED
      BY <2>1, <2>2, SumsUpUnique
  <1>6. f[n] \in Int
    BY <1>1
  <1>. QED
    BY <1>3, <1>4, <1>5, <1>6

LEMMA TotalAppend ==
    ASSUME NEW s \in Seq(Int), NEW x \in Int
    PROVE  Total(s) \in Int /\ Total(Append(s, x)) = Total(s) + x
  <1>1. /\ Len(s) \in Nat /\ Append(s, x) \in Seq(Int) /\ Len(Append(s, x)) = Len(s) + 1
        /\ Append(s, x)[Len(s) + 1] = x
        /\ \A i \in 1 .. Len(s) : s[i] = Append(s, x)[i]
    OBVIOUS
  <1>. QED
    BY <1>1, TotalExtends

\* f collects the messages that are whole, frame by frame.
Collects(f, w) ==
    f = [i \in 0 .. Len(w) |->
            IF i = 0 THEN <<>>
            ELSE IF w[i].more THEN f[i - 1]
            ELSE Append(f[i - 1], w[i].to)]

LEMMA CollectsUnique ==
    ASSUME NEW w \in Seq(Frame), NEW v \in Seq(Frame), NEW f, NEW g, NEW n \in Nat,
           Collects(f, w), Collects(g, v), Agree(w, v, n)
    PROVE  f[n] = g[n]
  <1>. DEFINE T == {i \in 0 .. n : f[i] # g[i]}
  <1>1. /\ Len(w) \in Nat /\ n <= Len(w) /\ Len(v) \in Nat /\ n <= Len(v)
        /\ \A i \in 1 .. n : w[i] = v[i]
    BY DEF Agree
  <1>2. /\ f[0] = <<>> /\ g[0] = <<>>
        /\ \A i \in 1 .. n : f[i] = IF w[i].more THEN f[i - 1] ELSE Append(f[i - 1], w[i].to)
        /\ \A i \in 1 .. n : g[i] = IF v[i].more THEN g[i - 1] ELSE Append(g[i - 1], v[i].to)
    <2>1. 0 \in 0 .. Len(w) /\ 0 \in 0 .. Len(v)
      BY <1>1
    <2>2. \A i \in 1 .. n : i \in 0 .. Len(w) /\ i \in 0 .. Len(v) /\ i # 0
      BY <1>1
    <2>. QED
      BY <2>1, <2>2 DEF Collects
  <1>3. ASSUME T # {} PROVE FALSE
    <2>1. T \in SUBSET Nat
      OBVIOUS
    <2>2. PICK i \in T : \A j \in T : i <= j
      BY <1>3, <2>1, LeastNat
    <2>3. i \in 0 .. n /\ f[i] # g[i]
      BY <2>2
    <2>4. i # 0
      BY <1>2, <2>3
    <2>5. i - 1 \in 0 .. n /\ i \in 1 .. n
      BY <2>3, <2>4
    <2>6. f[i - 1] = g[i - 1]
      <3>1. ~(i <= i - 1)
        BY <2>3
      <3>2. i - 1 \notin T
        BY <2>2, <3>1
      <3>. QED
        BY <2>5, <3>2
    <2>7. /\ f[i] = IF w[i].more THEN f[i - 1] ELSE Append(f[i - 1], w[i].to)
          /\ g[i] = IF v[i].more THEN g[i - 1] ELSE Append(g[i - 1], v[i].to)
      BY <1>2, <2>5
    <2>8. w[i] = v[i]
      BY <1>1, <2>5
    <2>. QED
      BY <2>3, <2>6, <2>7, <2>8
  <1>4. n \in 0 .. n
    OBVIOUS
  <1>. QED
    BY <1>3, <1>4

LEMMA CollectsExists ==
    ASSUME NEW w \in Seq(Frame)
    PROVE  \E f \in [0 .. Len(w) -> Seq(Nat)] : Collects(f, w)
  <1>. DEFINE Grown(a, i) == IF w[i].more THEN a ELSE Append(a, w[i].to)
              Up(f, n) == /\ f \in [0 .. n -> Seq(Nat)] /\ f[0] = <<>>
                          /\ \A i \in 1 .. n : f[i] = Grown(f[i - 1], i)
              T == {n \in 0 .. Len(w) : ~ \E f : Up(f, n)}
  <1>0. Len(w) \in Nat
    OBVIOUS
  <1>1. ASSUME NEW a \in Seq(Nat), NEW i \in 1 .. Len(w) PROVE Grown(a, i) \in Seq(Nat)
    <2>0. w[i] \in Frame
      OBVIOUS
    <2>1. w[i].to \in Nat
      BY <2>0 DEF Frame
    <2>2. Append(a, w[i].to) \in Seq(Nat)
      BY <2>1, AppendProperties
    <2>. QED
      BY <2>2
  <1>. HIDE DEF Grown
  <1>2. ASSUME T # {} PROVE FALSE
    <2>1. T \in SUBSET Nat
      OBVIOUS
    <2>2. PICK n \in T : \A m \in T : n <= m
      BY <1>2, <2>1, LeastNat
    <2>3. n \in 0 .. Len(w) /\ ~ \E f : Up(f, n)
      BY <2>2
    <2>4. CASE n = 0
      <3>. DEFINE z == [i \in 0 .. 0 |-> <<>>]
      <3>1. <<>> \in Seq(Nat)
        OBVIOUS
      <3>2. z \in [0 .. 0 -> Seq(Nat)] /\ z[0] = <<>>
        BY <3>1
      <3>3. Up(z, 0)
        BY <3>2
      <3>. QED
        BY <2>3, <2>4, <3>3
    <2>5. CASE n # 0
      <3>1. n - 1 \in 0 .. Len(w) /\ n \in 1 .. Len(w)
        BY <1>0, <2>3, <2>5
      <3>2. n - 1 \notin T
        <4>1. ~(n <= n - 1)
          BY <3>1
        <4>. QED
          BY <2>2, <4>1
      <3>3. PICK f : Up(f, n - 1)
        BY <3>1, <3>2
      <3>. DEFINE g == [i \in 0 .. n |-> IF i = n THEN Grown(f[n - 1], n) ELSE f[i]]
      <3>4. f[n - 1] \in Seq(Nat)
        <4>1. n - 1 \in 0 .. n - 1
          BY <3>1
        <4>. QED
          BY <3>3, <4>1
      <3>5. \A i \in 0 .. n : i # n => i \in 0 .. n - 1
        BY <3>1
      <3>6. Grown(f[n - 1], n) \in Seq(Nat)
        BY <1>1, <3>1, <3>4
      <3>7. g \in [0 .. n -> Seq(Nat)]
        BY <3>3, <3>5, <3>6
      <3>8. 0 \in 0 .. n /\ 0 # n /\ g[0] = <<>>
        BY <3>1, <3>3
      <3>9. ASSUME NEW i \in 1 .. n PROVE g[i] = Grown(g[i - 1], i)
        <4>1. i \in 0 .. n /\ i - 1 \in 0 .. n /\ i - 1 # n
          BY <3>1
        <4>2. CASE i = n
          BY <4>1, <4>2
        <4>3. CASE i # n
          <5>1. i \in 1 .. n - 1
            BY <3>1, <4>3
          <5>2. f[i] = Grown(f[i - 1], i)
            BY <3>3, <5>1
          <5>3. g[i] = f[i] /\ g[i - 1] = f[i - 1]
            BY <4>1, <4>3
          <5>. QED
            BY <5>2, <5>3
        <4>. QED
          BY <4>2, <4>3
      <3>. HIDE DEF g
      <3>10. Up(g, n)
        BY <3>7, <3>8, <3>9
      <3>. QED
        BY <2>3, <3>10
    <2>. QED
      BY <2>4, <2>5
  <1>3. Len(w) \in 0 .. Len(w)
    BY <1>0
  <1>4. PICK f : Up(f, Len(w))
    BY <1>2, <1>3
  <1>5. \A i \in 0 .. Len(w) : i # 0 => i \in 1 .. Len(w)
    BY <1>0
  <1>6. f = [i \in 0 .. Len(w) |-> f[i]]
    BY <1>4
  <1>7. \A i \in 0 .. Len(w) : f[i] = IF i = 0 THEN <<>> ELSE Grown(f[i - 1], i)
    BY <1>4, <1>5
  <1>8. Collects(f, w)
    <2>1. f = [i \in 0 .. Len(w) |-> IF i = 0 THEN <<>> ELSE Grown(f[i - 1], i)]
      BY <1>6, <1>7
    <2>. QED
      BY <2>1 DEF Collects, Grown
  <1>. QED
    BY <1>4, <1>8

LEMMA WholesIs ==
    ASSUME NEW w \in Seq(Frame), NEW f, Collects(f, w)
    PROVE  Wholes(w) = f[Len(w)]
  <1>. DEFINE g == CHOOSE h : Collects(h, w)
  <1>1. Collects(g, w)
    OBVIOUS
  <1>2. Wholes(w) = g[Len(w)]
    BY DEF Wholes, Collects
  <1>. HIDE DEF g
  <1>3. Len(w) \in Nat /\ Agree(w, w, Len(w))
    BY DEF Agree
  <1>4. f[Len(w)] = g[Len(w)]
    BY <1>1, <1>3, CollectsUnique
  <1>. QED
    BY <1>2, <1>4

LEMMA WholesEmpty == Wholes(<<>>) = <<>>
  <1>1. <<>> \in Seq(Frame) /\ Len(<<>>) = 0
    OBVIOUS
  <1>2. PICK f \in [0 .. 0 -> Seq(Nat)] : Collects(f, <<>>)
    BY <1>1, CollectsExists
  <1>3. f[0] = <<>>
    BY <1>1, <1>2 DEF Collects
  <1>. QED
    BY <1>1, <1>2, <1>3, WholesIs

LEMMA WholesExtends ==
    ASSUME NEW w \in Seq(Frame), NEW v \in Seq(Frame), NEW n \in Nat,
           Len(w) = n, Len(v) = n + 1, \A i \in 1 .. n : w[i] = v[i]
    PROVE  /\ Wholes(w) \in Seq(Nat)
           /\ Wholes(v) = IF v[n + 1].more THEN Wholes(w)
                          ELSE Append(Wholes(w), v[n + 1].to)
  <1>1. PICK f : f \in [0 .. n -> Seq(Nat)] /\ Collects(f, w)
    BY CollectsExists
  <1>2. PICK g : g \in [0 .. n + 1 -> Seq(Nat)] /\ Collects(g, v)
    BY CollectsExists
  <1>3. Wholes(w) = f[n] /\ Wholes(v) = g[n + 1]
    BY <1>1, <1>2, WholesIs
  <1>4. g[n + 1] = IF v[n + 1].more THEN g[n] ELSE Append(g[n], v[n + 1].to)
    <2>1. n + 1 \in 0 .. n + 1 /\ n + 1 # 0 /\ (n + 1) - 1 = n
      OBVIOUS
    <2>. QED
      BY <1>2, <2>1 DEF Collects
  <1>5. f[n] = g[n]
    <2>1. Collects(f, w) /\ Collects(g, v)
      BY <1>1, <1>2
    <2>2. Agree(w, v, n)
      BY DEF Agree
    <2>. QED
      BY <2>1, <2>2, CollectsUnique
  <1>6. f[n] \in Seq(Nat)
    BY <1>1
  <1>. QED
    BY <1>3, <1>4, <1>5, <1>6

LEMMA WholesAppend ==
    ASSUME NEW w \in Seq(Frame), NEW f \in Frame
    PROVE  /\ Wholes(w) \in Seq(Nat)
           /\ Wholes(Append(w, f)) = IF f.more THEN Wholes(w) ELSE Append(Wholes(w), f.to)
  <1>1. /\ Len(w) \in Nat /\ Append(w, f) \in Seq(Frame) /\ Len(Append(w, f)) = Len(w) + 1
        /\ Append(w, f)[Len(w) + 1] = f
        /\ \A i \in 1 .. Len(w) : w[i] = Append(w, f)[i]
    OBVIOUS
  <1>. QED
    BY <1>1, WholesExtends

-----------------------------------------------------------------------------
(* The byte count of the queue, and what a drain may conclude from it.      *)

\* What is left of a queued message.
Left(p) == p.size - p.offset

\* f[i] is what is left of the first i messages of q.
Sums(f, q) ==
    /\ f \in [0 .. Len(q) -> Nat] /\ f[0] = 0
    /\ \A i \in 1 .. Len(q) : f[i] = f[i - 1] + Left(q[i])
    /\ \A i, j \in 0 .. Len(q) : i <= j => f[i] <= f[j]

\* SendQueue::queued is what is left of the messages queued, so it never wraps.
SumInv == \E f : Sums(f, queue) /\ queued = f[Len(queue)]

\* Only a message without payload is queued with nothing left.
PieceInv == \A i \in 1 .. Len(queue) : queue[i].size = 0 \/ queue[i].offset < queue[i].size

\* Every message the wire has passed is on it to its end.
HandedInv == \A m \in 1 .. WireEnd[1] - 1 : Handed(m)

\* A drain is asked about messages accepted before, and answers once.
VerdictInv ==
    \A t \in Closers :
        /\ promised[t] <= Len(accepted)
        /\ verdict[t] # "none" => pc[t] \in {"close", "done"}

\* One message more.
LEMMA SumsAppend ==
    ASSUME NEW q \in Seq(Pending), NEW f, Sums(f, q), NEW p \in Pending, p.offset <= p.size
    PROVE  \E g : Sums(g, Append(q, p)) /\ g[Len(q) + 1] = f[Len(q)] + Left(p)
  <1>. DEFINE n == Len(q)
              s == Append(q, p)
              g == [i \in 0 .. n + 1 |-> IF i <= n THEN f[i] ELSE f[n] + Left(p)]
  <1>1. /\ n \in Nat /\ Len(s) = n + 1 /\ s[n + 1] = p
        /\ \A i \in 1 .. n : s[i] = q[i]
    OBVIOUS
  <1>2. /\ f \in [0 .. n -> Nat] /\ f[0] = 0
        /\ \A i \in 1 .. n : f[i] = f[i - 1] + Left(q[i])
        /\ \A i, j \in 0 .. n : i <= j => f[i] <= f[j]
    BY DEF Sums
  <1>3. Left(p) \in Nat
    BY DEF Left, Pending
  <1>. HIDE DEF n, s
  <1>4. f[n] \in Nat
    BY <1>1, <1>2
  <1>5. g \in [0 .. n + 1 -> Nat]
    BY <1>1, <1>2, <1>3, <1>4
  <1>6. g[0] = 0 /\ g[n + 1] = f[n] + Left(p) /\ \A i \in 0 .. n : g[i] = f[i]
    BY <1>1, <1>2
  <1>. HIDE DEF g
  <1>7. ASSUME NEW i \in 1 .. n + 1 PROVE g[i] = g[i - 1] + Left(s[i])
    <2>1. CASE i = n + 1
      BY <1>1, <1>6, <2>1
    <2>2. CASE i # n + 1
      <3>1. i \in 1 .. n /\ i \in 0 .. n /\ i - 1 \in 0 .. n
        BY <1>1, <2>2
      <3>. QED
        BY <1>1, <1>2, <1>6, <3>1
    <2>. QED
      BY <2>1, <2>2
  <1>8. ASSUME NEW i \in 0 .. n + 1, NEW j \in 0 .. n + 1, i <= j PROVE g[i] <= g[j]
    <2>1. CASE j = n + 1 /\ i # n + 1
      <3>1. i \in 0 .. n /\ n \in 0 .. n /\ i <= n
        BY <1>1, <2>1
      <3>2. f[i] <= f[n] /\ f[i] \in Nat
        BY <1>2, <3>1
      <3>. QED
        BY <1>3, <1>4, <1>6, <2>1, <3>1, <3>2
    <2>2. CASE j # n + 1
      <3>1. i \in 0 .. n /\ j \in 0 .. n
        BY <1>1, <1>8, <2>2
      <3>. QED
        BY <1>2, <1>6, <1>8, <3>1
    <2>3. CASE j = n + 1 /\ i = n + 1
      BY <1>3, <1>4, <1>6, <2>3
    <2>. QED
      BY <2>1, <2>2, <2>3
  <1>9. Sums(g, s)
    BY <1>1, <1>5, <1>6, <1>7, <1>8 DEF Sums
  <1>. QED
    BY <1>6, <1>9 DEF s, n

\* One message less.
LEMMA SumsTail ==
    ASSUME NEW q \in Seq(Pending), q # <<>>, NEW f, Sums(f, q)
    PROVE  \E g : Sums(g, Tail(q)) /\ g[Len(Tail(q))] = f[Len(q)] - Left(q[1])
  <1>. DEFINE n == Len(q)
              s == Tail(q)
              g == [i \in 0 .. n - 1 |-> f[i + 1] - Left(q[1])]
  <1>1. /\ n \in Nat \ {0} /\ Len(s) = n - 1
        /\ \A i \in 1 .. n - 1 : s[i] = q[i + 1]
    OBVIOUS
  <1>2. /\ f \in [0 .. n -> Nat] /\ f[0] = 0
        /\ \A i \in 1 .. n : f[i] = f[i - 1] + Left(q[i])
        /\ \A i, j \in 0 .. n : i <= j => f[i] <= f[j]
    BY DEF Sums
  <1>0. \A i \in 1 .. n : Left(q[i]) \in Int
    <2>1. \A i \in 1 .. n : q[i] \in Pending
      OBVIOUS
    <2>2. \A p \in Pending : Left(p) \in Int
      BY DEF Left, Pending
    <2>. QED
      BY <2>1, <2>2
  <1>. HIDE DEF n, s
  <1>3. f[1] = Left(q[1]) /\ f[1] \in Nat
    <2>1. 1 \in 1 .. n /\ 1 \in 0 .. n
      BY <1>1
    <2>. QED
      BY <1>0, <1>2, <2>1
  <1>4. ASSUME NEW i \in 0 .. n - 1 PROVE f[i + 1] \in Nat /\ f[1] <= f[i + 1]
    <2>1. i + 1 \in 0 .. n /\ 1 \in 0 .. n /\ 1 <= i + 1
      BY <1>1
    <2>. QED
      BY <1>2, <2>1
  <1>5. \A i \in 0 .. n - 1 : g[i] = f[i + 1] - f[1]
    BY <1>3
  <1>6. g \in [0 .. n - 1 -> Nat]
    <2>1. \A i \in 0 .. n - 1 : f[i + 1] - Left(q[1]) \in Nat
      BY <1>3, <1>4
    <2>. QED
      BY <2>1
  <1>. HIDE DEF g
  <1>7. g[0] = 0 /\ g[n - 1] = f[n] - Left(q[1])
    <2>1. 0 \in 0 .. n - 1 /\ n - 1 \in 0 .. n - 1 /\ (n - 1) + 1 = n
      BY <1>1
    <2>. QED
      BY <1>3, <1>5, <2>1
  <1>8. ASSUME NEW i \in 1 .. n - 1 PROVE g[i] = g[i - 1] + Left(s[i])
    <2>1. /\ i \in 0 .. n - 1 /\ i - 1 \in 0 .. n - 1 /\ (i - 1) + 1 = i
          /\ i + 1 \in 1 .. n /\ (i + 1) - 1 = i
      BY <1>1
    <2>2. g[i] = f[i + 1] - f[1] /\ g[i - 1] = f[i] - f[1]
      BY <1>5, <2>1
    <2>3. f[i + 1] = f[i] + Left(q[i + 1]) /\ s[i] = q[i + 1]
      BY <1>1, <1>2, <2>1
    <2>4. f[i] \in Nat
      <3>1. i \in 0 .. n
        BY <1>1
      <3>. QED
        BY <1>2, <3>1
    <2>5. Left(q[i + 1]) \in Int
      BY <1>0, <2>1
    <2>. QED
      BY <1>3, <2>2, <2>3, <2>4, <2>5
  <1>9. ASSUME NEW i \in 0 .. n - 1, NEW j \in 0 .. n - 1, i <= j PROVE g[i] <= g[j]
    <2>1. i + 1 \in 0 .. n /\ j + 1 \in 0 .. n /\ i + 1 <= j + 1
      BY <1>1, <1>9
    <2>2. f[i + 1] <= f[j + 1]
      BY <1>2, <2>1
    <2>. QED
      BY <1>3, <1>4, <1>5, <2>2
  <1>10. Sums(g, s)
    BY <1>1, <1>6, <1>7, <1>8, <1>9 DEF Sums
  <1>. QED
    BY <1>1, <1>7, <1>10 DEF s, n

\* Some bytes of the head less.
LEMMA SumsAdvance ==
    ASSUME NEW q \in Seq(Pending), q # <<>>, NEW f, Sums(f, q),
           NEW x \in Nat, q[1].offset <= x, x <= q[1].size
    PROVE  \E g : /\ Sums(g, [q EXCEPT ![1].offset = x])
                  /\ g[Len(q)] = f[Len(q)] - (x - q[1].offset)
  <1>. DEFINE n == Len(q)
              s == [q EXCEPT ![1].offset = x]
              d == x - q[1].offset
              g == [i \in 0 .. n |-> IF i = 0 THEN 0 ELSE f[i] - d]
  <1>1. /\ n \in Nat \ {0} /\ Len(s) = n
        /\ s[1] = [q[1] EXCEPT !.offset = x]
        /\ \A i \in 2 .. n : s[i] = q[i]
        /\ q[1] \in Pending
    BY HeadAdvances
  <1>2. /\ f \in [0 .. n -> Nat] /\ f[0] = 0
        /\ \A i \in 1 .. n : f[i] = f[i - 1] + Left(q[i])
        /\ \A i, j \in 0 .. n : i <= j => f[i] <= f[j]
    BY DEF Sums
  <1>0. \A i \in 1 .. n : Left(q[i]) \in Int
    <2>1. \A i \in 1 .. n : q[i] \in Pending
      OBVIOUS
    <2>2. \A p \in Pending : Left(p) \in Int
      BY DEF Left, Pending
    <2>. QED
      BY <2>1, <2>2
  <1>3. /\ d \in Nat /\ d <= Left(q[1])
        /\ Left(s[1]) = Left(q[1]) - d
    <2>1. /\ q[1].offset \in Nat /\ q[1].size \in Nat
          /\ s[1].offset = x /\ s[1].size = q[1].size
      BY <1>1, PendingAdvances DEF Pending
    <2>. QED
      BY <2>1 DEF Left
  <1>. HIDE DEF n, s, d
  <1>4. f[1] = Left(q[1]) /\ f[1] \in Nat
    <2>1. 1 \in 1 .. n /\ 1 \in 0 .. n
      BY <1>1
    <2>. QED
      BY <1>0, <1>2, <2>1
  <1>5. ASSUME NEW i \in 1 .. n PROVE f[i] \in Nat /\ d <= f[i]
    <2>1. i \in 0 .. n /\ 1 \in 0 .. n /\ 1 <= i
      BY <1>1
    <2>2. f[1] <= f[i] /\ f[i] \in Nat
      BY <1>2, <2>1
    <2>. QED
      BY <1>3, <1>4, <2>2
  <1>6. g[0] = 0 /\ \A i \in 1 .. n : g[i] = f[i] - d
    BY <1>1
  <1>7. g \in [0 .. n -> Nat]
    <2>1. \A i \in 0 .. n : (IF i = 0 THEN 0 ELSE f[i] - d) \in Nat
      BY <1>1, <1>3, <1>5
    <2>. QED
      BY <2>1
  <1>. HIDE DEF g
  <1>8. ASSUME NEW i \in 1 .. n PROVE g[i] = g[i - 1] + Left(s[i])
    <2>1. CASE i = 1
      <3>1. g[1] = f[1] - d /\ g[0] = 0
        BY <1>6, <2>1
      <3>. QED
        BY <1>0, <1>3, <1>4, <2>1, <3>1
    <2>2. CASE i # 1
      <3>1. i \in 2 .. n /\ i - 1 \in 1 .. n
        BY <1>1, <2>2
      <3>2. g[i] = f[i] - d /\ g[i - 1] = f[i - 1] - d /\ s[i] = q[i]
        BY <1>1, <1>6, <3>1
      <3>3. f[i] = f[i - 1] + Left(q[i]) /\ f[i - 1] \in Nat /\ Left(q[i]) \in Int
        BY <1>0, <1>2, <1>5, <3>1
      <3>. QED
        BY <1>3, <3>2, <3>3
    <2>. QED
      BY <2>1, <2>2
  <1>9. ASSUME NEW i \in 0 .. n, NEW j \in 0 .. n, i <= j PROVE g[i] <= g[j]
    <2>1. CASE i = 0
      <3>1. g[j] \in Nat
        BY <1>7
      <3>. QED
        BY <1>6, <2>1, <3>1
    <2>2. CASE i # 0
      <3>1. i \in 1 .. n /\ j \in 1 .. n
        BY <1>1, <1>9, <2>2
      <3>2. f[i] <= f[j]
        BY <1>2, <1>9
      <3>. QED
        BY <1>3, <1>5, <1>6, <3>1, <3>2
    <2>. QED
      BY <2>1, <2>2
  <1>10. Sums(g, s)
    BY <1>1, <1>6, <1>7, <1>8, <1>9 DEF Sums
  <1>11. g[n] = f[n] - d
    BY <1>1, <1>6
  <1>. QED
    BY <1>10, <1>11 DEF s, n, d

-----------------------------------------------------------------------------
(* Which steps touch what.                                                 *)

DataKept    == UNCHANGED <<queue, queued, accepted, wire, hand>>
DrainedKept ==
    /\ UNCHANGED <<promised, verdict>>
    /\ \A t \in Closers : pc[t] \in {"close", "done"} => pc'[t] \in {"close", "done"}

\* A channel that is no longer open does not open again.
LEMMA NeverReopens ==
    ASSUME [Next]_vars, chan' = "open"
    PROVE  chan = "open"
  <1>. USE DEF Goto, nativeVars, queueVars, pumpVars, userVars
  <1>1. ASSUME NEW t \in Senders, Send(t) PROVE chan = "open"
    BY <1>1 DEF Send
  <1>2. ASSUME NEW t \in Senders, Push(t) PROVE chan = "open"
    BY <1>2 DEF Push
  <1>3. ASSUME NEW t \in Senders, Arm(t) PROVE chan = "open"
    BY <1>3 DEF Arm
  <1>4. ASSUME NEW t \in Threads, Request(t) PROVE chan = "open"
    BY <1>4 DEF Request
  <1>5. ASSUME NEW t \in Threads, TryLock(t) PROVE chan = "open"
    BY <1>5 DEF TryLock
  <1>6. ASSUME NEW t \in Threads, Pass(t) PROVE chan = "open"
    BY <1>6 DEF Pass
  <1>7. ASSUME NEW t \in Threads, Measure(t) PROVE chan = "open"
    BY <1>7 DEF Measure
  <1>8. ASSUME NEW t \in Threads, Take(t) PROVE chan = "open"
    BY <1>8 DEF Take
  <1>9. ASSUME NEW t \in Threads, NativeSend(t) PROVE chan = "open"
    BY <1>9 DEF NativeSend
  <1>10. ASSUME NEW t \in Threads, Clear(t) PROVE chan = "open"
    BY <1>10 DEF Clear, ClearQueue
  <1>11. ASSUME NEW t \in Threads, Abandon(t) PROVE chan = "open"
    BY <1>11 DEF Abandon
  <1>12. ASSUME NEW t \in Threads, Unlock(t) PROVE chan = "open"
    BY <1>12 DEF Unlock
  <1>13. ASSUME NEW t \in Threads, Recheck(t) PROVE chan = "open"
    BY <1>13 DEF Recheck
  <1>14. CASE OnBufferedAmountChange
    BY <1>14 DEF OnBufferedAmountChange
  <1>15. CASE Fire
    BY <1>15 DEF Fire
  <1>16. CASE OnClosed
    BY <1>16 DEF OnClosed, ClearQueue
  <1>17. ASSUME NEW t \in Closers, Close(t) PROVE chan = "open"
    BY <1>17 DEF Close
  <1>18. ASSUME NEW t \in Closers, DrainReadNative(t) PROVE chan = "open"
    BY <1>18 DEF DrainReadNative
  <1>19. ASSUME NEW t \in Closers, DrainReadQueue(t) PROVE chan = "open"
    BY <1>19 DEF DrainReadQueue
  <1>20. ASSUME NEW t \in Closers, RawClose(t) PROVE chan = "open"
    BY <1>20 DEF RawClose
  <1>21. CASE Drain
    BY <1>21 DEF Drain
  <1>22. CASE CloseDone
    BY <1>22 DEF CloseDone
  <1>23. CASE Break
    BY <1>23 DEF Break
  <1>24. CASE UNCHANGED vars
    BY <1>24 DEF vars
  <1>. QED
    BY <1>1, <1>2, <1>3, <1>4, <1>5, <1>6, <1>7, <1>8, <1>9, <1>10, <1>11, <1>12,
       <1>13, <1>14, <1>15, <1>16, <1>17, <1>18, <1>19, <1>20, <1>21, <1>22, <1>23, <1>24
       DEF Next, SenderStep, PumpStep, CloserStep, Terminated

\* The queue, the wire and the frame in hand change in these steps only.
LEMMA DataSteps ==
    ASSUME [Next]_vars
    PROVE  \/ DataKept
           \/ \E t \in Senders : Push(t)
           \/ \E t \in Threads : Take(t) \/ NativeSend(t) \/ Clear(t)
           \/ OnClosed
  <1>. DEFINE Goal == \/ DataKept
                      \/ \E t \in Senders : Push(t)
                      \/ \E t \in Threads : Take(t) \/ NativeSend(t) \/ Clear(t)
                      \/ OnClosed
  <1>. SUFFICES Goal
    OBVIOUS
  <1>. USE DEF Goto, nativeVars, queueVars, pumpVars, userVars, DataKept
  <1>1. ASSUME NEW t \in Senders, Send(t) PROVE Goal
    BY <1>1 DEF Send
  <1>2. ASSUME NEW t \in Senders, Push(t) PROVE Goal
    BY <1>2
  <1>3. ASSUME NEW t \in Senders, Arm(t) PROVE Goal
    BY <1>3 DEF Arm
  <1>4. ASSUME NEW t \in Threads, Request(t) PROVE Goal
    BY <1>4 DEF Request
  <1>5. ASSUME NEW t \in Threads, TryLock(t) PROVE Goal
    BY <1>5 DEF TryLock
  <1>6. ASSUME NEW t \in Threads, Pass(t) PROVE Goal
    BY <1>6 DEF Pass
  <1>7. ASSUME NEW t \in Threads, Measure(t) PROVE Goal
    BY <1>7 DEF Measure
  <1>8. ASSUME NEW t \in Threads, Take(t) PROVE Goal
    BY <1>8
  <1>9. ASSUME NEW t \in Threads, NativeSend(t) PROVE Goal
    BY <1>9
  <1>10. ASSUME NEW t \in Threads, Clear(t) PROVE Goal
    BY <1>10
  <1>11. ASSUME NEW t \in Threads, Abandon(t) PROVE Goal
    BY <1>11 DEF Abandon
  <1>12. ASSUME NEW t \in Threads, Unlock(t) PROVE Goal
    BY <1>12 DEF Unlock
  <1>13. ASSUME NEW t \in Threads, Recheck(t) PROVE Goal
    BY <1>13 DEF Recheck
  <1>14. CASE OnBufferedAmountChange
    BY <1>14 DEF OnBufferedAmountChange
  <1>15. CASE Fire
    BY <1>15 DEF Fire
  <1>16. CASE OnClosed
    BY <1>16
  <1>17. ASSUME NEW t \in Closers, Close(t) PROVE Goal
    BY <1>17 DEF Close
  <1>18. ASSUME NEW t \in Closers, DrainReadNative(t) PROVE Goal
    BY <1>18 DEF DrainReadNative
  <1>19. ASSUME NEW t \in Closers, DrainReadQueue(t) PROVE Goal
    BY <1>19 DEF DrainReadQueue
  <1>20. ASSUME NEW t \in Closers, RawClose(t) PROVE Goal
    BY <1>20 DEF RawClose
  <1>21. CASE Drain
    BY <1>21 DEF Drain
  <1>22. CASE CloseDone
    BY <1>22 DEF CloseDone
  <1>23. CASE Break
    BY <1>23 DEF Break
  <1>24. CASE UNCHANGED vars
    BY <1>24 DEF vars
  <1>. QED
    BY <1>1, <1>2, <1>3, <1>4, <1>5, <1>6, <1>7, <1>8, <1>9, <1>10, <1>11, <1>12,
       <1>13, <1>14, <1>15, <1>16, <1>17, <1>18, <1>19, <1>20, <1>21, <1>22, <1>23, <1>24
       DEF Next, SenderStep, PumpStep, CloserStep, Terminated

\* A drain's verdict, and what it is measured against, change in these only.
LEMMA DrainedSteps ==
    ASSUME TypeOK, [Next]_vars
    PROVE  \/ DrainedKept
           \/ \E t \in Closers : Close(t) \/ DrainReadQueue(t)
  <1>. DEFINE Goal == \/ DrainedKept
                      \/ \E t \in Closers : Close(t) \/ DrainReadQueue(t)
  <1>. SUFFICES Goal
    OBVIOUS
  <1>. USE DEF Goto, nativeVars, queueVars, pumpVars, userVars, DrainedKept
  <1>0. pc \in [Threads -> PcLabels]
    BY DEF TypeOK
  <1>1. ASSUME NEW t \in Senders, Send(t) PROVE Goal
    BY <1>0, <1>1 DEF Send
  <1>2. ASSUME NEW t \in Senders, Push(t) PROVE Goal
    <2>1. UNCHANGED <<promised, verdict>> /\ pc[t] \notin {"close", "done"}
      BY <1>2 DEF Push
    <2>2. \E l : pc' = [pc EXCEPT ![t] = l]
      BY <1>2 DEF Push
    <2>3. \A u \in Threads : u # t => pc'[u] = pc[u]
      BY <1>0, <2>2
    <2>4. \A u \in Closers : u \in Threads
      OBVIOUS
    <2>5. \A u \in Closers : pc[u] \in {"close", "done"} => pc'[u] \in {"close", "done"}
      BY <2>1, <2>3, <2>4
    <2>6. DrainedKept
      BY <2>1, <2>5
    <2>. QED
      BY <2>6, Zenon
  <1>3. ASSUME NEW t \in Senders, Arm(t) PROVE Goal
    BY <1>0, <1>3 DEF Arm
  <1>4. ASSUME NEW t \in Threads, Request(t) PROVE Goal
    BY <1>0, <1>4 DEF Request
  <1>5. ASSUME NEW t \in Threads, TryLock(t) PROVE Goal
    <2>1. UNCHANGED <<promised, verdict>> /\ pc[t] \notin {"close", "done"}
      BY <1>5 DEF TryLock
    <2>2. \E l : pc' = [pc EXCEPT ![t] = l]
      BY <1>5 DEF TryLock
    <2>3. \A u \in Threads : u # t => pc'[u] = pc[u]
      BY <1>0, <2>2
    <2>4. \A u \in Closers : u \in Threads
      OBVIOUS
    <2>5. \A u \in Closers : pc[u] \in {"close", "done"} => pc'[u] \in {"close", "done"}
      BY <2>1, <2>3, <2>4
    <2>6. DrainedKept
      BY <2>1, <2>5
    <2>. QED
      BY <2>6, Zenon
  <1>6. ASSUME NEW t \in Threads, Pass(t) PROVE Goal
    BY <1>0, <1>6 DEF Pass
  <1>7. ASSUME NEW t \in Threads, Measure(t) PROVE Goal
    BY <1>0, <1>7 DEF Measure
  <1>8. ASSUME NEW t \in Threads, Take(t) PROVE Goal
    <2>1. UNCHANGED <<promised, verdict>> /\ pc[t] \notin {"close", "done"}
      BY <1>8 DEF Take
    <2>2. \E l : pc' = [pc EXCEPT ![t] = l]
      BY <1>8 DEF Take
    <2>3. \A u \in Threads : u # t => pc'[u] = pc[u]
      BY <1>0, <2>2
    <2>4. \A u \in Closers : u \in Threads
      OBVIOUS
    <2>5. \A u \in Closers : pc[u] \in {"close", "done"} => pc'[u] \in {"close", "done"}
      BY <2>1, <2>3, <2>4
    <2>6. DrainedKept
      BY <2>1, <2>5
    <2>. QED
      BY <2>6, Zenon
  <1>9. ASSUME NEW t \in Threads, NativeSend(t) PROVE Goal
    <2>1. UNCHANGED <<promised, verdict>> /\ pc[t] \notin {"close", "done"}
      BY <1>9 DEF NativeSend
    <2>2. \E l : pc' = [pc EXCEPT ![t] = l]
      BY <1>9 DEF NativeSend
    <2>3. \A u \in Threads : u # t => pc'[u] = pc[u]
      BY <1>0, <2>2
    <2>4. \A u \in Closers : u \in Threads
      OBVIOUS
    <2>5. \A u \in Closers : pc[u] \in {"close", "done"} => pc'[u] \in {"close", "done"}
      BY <2>1, <2>3, <2>4
    <2>6. DrainedKept
      BY <2>1, <2>5
    <2>. QED
      BY <2>6, Zenon
  <1>10. ASSUME NEW t \in Threads, Clear(t) PROVE Goal
    BY <1>0, <1>10 DEF Clear, ClearQueue
  <1>11. ASSUME NEW t \in Threads, Abandon(t) PROVE Goal
    BY <1>0, <1>11 DEF Abandon
  <1>12. ASSUME NEW t \in Threads, Unlock(t) PROVE Goal
    BY <1>0, <1>12 DEF Unlock
  <1>13. ASSUME NEW t \in Threads, Recheck(t) PROVE Goal
    BY <1>0, <1>13 DEF Recheck
  <1>14. CASE OnBufferedAmountChange
    BY <1>0, <1>14 DEF OnBufferedAmountChange
  <1>15. CASE Fire
    BY <1>0, <1>15 DEF Fire
  <1>16. CASE OnClosed
    BY <1>0, <1>16 DEF OnClosed, ClearQueue
  <1>17. ASSUME NEW t \in Closers, Close(t) PROVE Goal
    BY <1>17
  <1>18. ASSUME NEW t \in Closers, DrainReadNative(t) PROVE Goal
    BY <1>0, <1>18 DEF DrainReadNative
  <1>19. ASSUME NEW t \in Closers, DrainReadQueue(t) PROVE Goal
    BY <1>19
  <1>20. ASSUME NEW t \in Closers, RawClose(t) PROVE Goal
    BY <1>0, <1>20 DEF RawClose
  <1>21. CASE Drain
    BY <1>0, <1>21 DEF Drain
  <1>22. CASE CloseDone
    BY <1>0, <1>22 DEF CloseDone
  <1>23. CASE Break
    BY <1>0, <1>23 DEF Break
  <1>24. CASE UNCHANGED vars
    BY <1>0, <1>24 DEF vars
  <1>. QED
    BY <1>1, <1>2, <1>3, <1>4, <1>5, <1>6, <1>7, <1>8, <1>9, <1>10, <1>11, <1>12,
       <1>13, <1>14, <1>15, <1>16, <1>17, <1>18, <1>19, <1>20, <1>21, <1>22, <1>23, <1>24
       DEF Next, SenderStep, PumpStep, CloserStep, Terminated

\* What happens to the queue and its byte count in each step that touches them.
LEMMA PushFacts ==
    ASSUME TypeOK, NEW t \in Senders, Push(t)
    PROVE  \/ UNCHANGED <<queue, queued, accepted, wire, hand>>
           \/ \E size \in Nat :
                 /\ accepted' = Append(accepted, size)
                 /\ queue' = Append(queue, [msg |-> Len(accepted) + 1, size |-> size, offset |-> 0])
                 /\ [msg |-> Len(accepted) + 1, size |-> size, offset |-> 0] \in Pending
                 /\ queued' = queued + size
                 /\ UNCHANGED <<wire, hand>>
  <1>1. UNCHANGED <<wire, hand>>
    BY DEF Push, nativeVars, pumpVars
  <1>2. PICK size \in Sizes :
           \/ UNCHANGED <<queue, queued, accepted>>
           \/ /\ accepted' = Append(accepted, size)
              /\ queue' = Append(queue, [msg |-> Len(accepted) + 1, size |-> size, offset |-> 0])
              /\ queued' = queued + size
    BY DEF Push, queueVars
  <1>3. size \in Nat
    BY ConstantTypes
  <1>4. Len(accepted) + 1 \in Nat \ {0}
    BY DEF TypeOK
  <1>5. [msg |-> Len(accepted) + 1, size |-> size, offset |-> 0] \in Pending
    BY <1>3, <1>4 DEF Pending
  <1>. QED
    BY <1>1, <1>2, <1>3, <1>5

LEMMA TakeFacts ==
    ASSUME TypeOK, QueueInv, NEW t \in Threads, Take(t)
    PROVE  /\ UNCHANGED <<accepted, wire, chan>>
           /\ pc[t] = "take"
           /\ \/ UNCHANGED <<queue, queued, hand>>
              \/ /\ queue # <<>> /\ queue \in Seq(Pending) /\ queue[1] \in Pending
                 /\ hand' = <<NextFrame>>
                 /\ NextFrame.to \in Nat /\ NextFrame.from = queue[1].offset
                 /\ NextFrame.from <= NextFrame.to /\ NextFrame.to <= queue[1].size
                 /\ queued' = queued - (NextFrame.to - queue[1].offset)
                 /\ \/ /\ NextFrame.to < queue[1].size
                       /\ queue' = [queue EXCEPT ![1].offset = NextFrame.to]
                    \/ /\ NextFrame.to = queue[1].size
                       /\ queue' = Tail(queue)
  <1>1. UNCHANGED <<accepted, wire, chan>> /\ pc[t] = "take"
    BY DEF Take, queueVars, nativeVars
  <1>2. CASE UNCHANGED <<queue, queued, hand>>
    BY <1>1, <1>2
  <1>3. CASE ~UNCHANGED <<queue, queued, hand>>
    <2>1. /\ queue # <<>>
          /\ hand' = <<NextFrame>>
          /\ queue' = QueueWithout(NextFrame)
          /\ queued' = queued - (NextFrame.to - NextFrame.from)
      BY <1>3 DEF Take, queueVars
    <2>2. /\ NextFrame \in Frame
          /\ FrameSize(NextFrame) \in 1 .. ChunkSize
          /\ NextFrame.to <= queue[1].size
          /\ NextFrame.more <=> NextFrame.to < queue[1].size
      BY <2>1, NextFrameFacts
    <2>3. queue \in Seq(Pending) /\ queue[1] \in Pending /\ Head(queue) = queue[1]
      BY <2>1 DEF TypeOK
    <2>4. NextFrame.from = queue[1].offset
      BY <2>3 DEF NextFrame
    <2>5. NextFrame.to \in Nat /\ NextFrame.from \in Nat
      BY <2>2 DEF Frame
    <2>6. NextFrame.from <= NextFrame.to
      BY <2>2, <2>5, ConstantTypes DEF FrameSize
    <2>7. queue[1].size \in Nat
      BY <2>3 DEF Pending
    <2>8. \/ /\ NextFrame.to < queue[1].size
             /\ queue' = [queue EXCEPT ![1].offset = NextFrame.to]
          \/ /\ NextFrame.to = queue[1].size
             /\ queue' = Tail(queue)
      <3>1. CASE NextFrame.more
        BY <2>1, <2>2, <3>1 DEF QueueWithout
      <3>2. CASE ~NextFrame.more
        <4>1. queue' = Tail(queue)
          BY <2>1, <3>2 DEF QueueWithout
        <4>2. ~(NextFrame.to < queue[1].size)
          BY <2>2, <3>2
        <4>3. NextFrame.to = queue[1].size
          BY <2>2, <2>5, <2>7, <4>2
        <4>. QED
          BY <4>1, <4>3
      <3>. QED
        BY <3>1, <3>2
    <2>. QED
      BY <1>1, <2>1, <2>3, <2>4, <2>5, <2>6, <2>2, <2>8
  <1>. QED
    BY <1>2, <1>3

LEMMA NativeSendFacts ==
    ASSUME TypeOK, HandInv, NEW t \in Threads, NativeSend(t)
    PROVE  /\ UNCHANGED <<queue, queued, accepted>>
           /\ hand # <<>> /\ hand[1] \in Frame
           /\ \/ UNCHANGED wire /\ chan' # "open"
              \/ chan = "open" /\ wire' = Append(wire, hand[1])
  <1>1. UNCHANGED <<queue, queued, accepted>>
    BY DEF NativeSend, queueVars
  <1>2. pc[t] = "native"
    BY DEF NativeSend
  <1>3. hand # <<>>
    BY <1>2 DEF HandInv
  <1>4. hand[1] \in Frame
    BY <1>3 DEF TypeOK
  <1>5. \/ UNCHANGED wire /\ chan' # "open"
        \/ chan = "open" /\ wire' = Append(wire, hand[1])
    BY DEF NativeSend
  <1>. QED
    BY <1>1, <1>3, <1>4, <1>5

LEMMA EmptySums == Sums([i \in 0 .. 0 |-> 0], <<>>)
  <1>. DEFINE f == [i \in 0 .. 0 |-> 0]
  <1>1. Len(<<>>) = 0
    OBVIOUS
  <1>2. f \in [0 .. 0 -> Nat] /\ f[0] = 0
    OBVIOUS
  <1>3. \A i, j \in 0 .. 0 : i <= j => f[i] <= f[j]
    OBVIOUS
  <1>4. \A i \in 1 .. 0 : f[i] = f[i - 1] + Left(<<>>[i])
    OBVIOUS
  <1>. QED
    BY <1>1, <1>2, <1>3, <1>4 DEF Sums

LEMMA NothingQueued ==
    ASSUME queue = <<>>, queued = 0
    PROVE  SumInv
  <1>1. Len(<<>>) = 0 /\ [i \in 0 .. 0 |-> 0][0] = 0
    OBVIOUS
  <1>. QED
    BY <1>1, EmptySums DEF SumInv

LEMMA SumStep ==
    ASSUME TypeOK, QueueInv, SumInv, [Next]_vars
    PROVE  SumInv'
  <1>0. PICK f : Sums(f, queue) /\ queued = f[Len(queue)]
    BY DEF SumInv
  <1>1. queue \in Seq(Pending) /\ queued \in Int
    BY DEF TypeOK
  <1>2. CASE UNCHANGED <<queue, queued>>
    BY <1>2, <1>0 DEF SumInv
  <1>3. ASSUME NEW t \in Senders, Push(t) PROVE SumInv'
    <2>1. CASE UNCHANGED <<queue, queued>>
      BY <1>2, <2>1
    <2>2. CASE ~UNCHANGED <<queue, queued>>
      <3>. DEFINE p(size) == [msg |-> Len(accepted) + 1, size |-> size, offset |-> 0]
      <3>1. PICK size \in Nat :
               queue' = Append(queue, p(size)) /\ p(size) \in Pending /\ queued' = queued + size
        BY <1>3, <2>2, PushFacts
      <3>2. p(size).size = size /\ p(size).offset = 0
        OBVIOUS
      <3>. HIDE DEF p
      <3>3. PICK g : /\ Sums(g, Append(queue, p(size)))
                     /\ g[Len(queue) + 1] = f[Len(queue)] + Left(p(size))
        <4>1. p(size).offset <= p(size).size
          BY <3>2
        <4>. QED
          BY <1>0, <1>1, <3>1, <4>1, SumsAppend
      <3>4. Left(p(size)) = size
        BY <3>2 DEF Left
      <3>5. Len(queue') = Len(queue) + 1
        BY <1>1, <3>1
      <3>6. Sums(g, queue') /\ queued' = g[Len(queue')]
        BY <1>0, <3>1, <3>3, <3>4, <3>5
      <3>. QED
        BY <3>6 DEF SumInv
    <2>. QED
      BY <2>1, <2>2
  <1>4. ASSUME NEW t \in Threads, Take(t) PROVE SumInv'
    <2>1. CASE UNCHANGED <<queue, queued>>
      BY <1>2, <2>1
    <2>2. CASE ~UNCHANGED <<queue, queued>>
      <3>. DEFINE x == NextFrame.to
      <3>1. /\ queue # <<>> /\ queue[1] \in Pending
            /\ x \in Nat /\ queue[1].offset <= x /\ x <= queue[1].size
            /\ queued' = queued - (x - queue[1].offset)
            /\ \/ queue' = [queue EXCEPT ![1].offset = x]
               \/ x = queue[1].size /\ queue' = Tail(queue)
        BY <1>4, <2>2, TakeFacts
      <3>. HIDE DEF x
      <3>2. CASE queue' = [queue EXCEPT ![1].offset = x]
        <4>1. PICK g : /\ Sums(g, [queue EXCEPT ![1].offset = x])
                       /\ g[Len(queue)] = f[Len(queue)] - (x - queue[1].offset)
          BY <1>0, <1>1, <3>1, SumsAdvance
        <4>2. Len(queue') = Len(queue)
          BY <1>1, <3>1, <3>2, HeadAdvances
        <4>3. Sums(g, queue') /\ queued' = g[Len(queue')]
          BY <1>0, <3>1, <3>2, <4>1, <4>2
        <4>. QED
          BY <4>3 DEF SumInv
      <3>3. CASE x = queue[1].size /\ queue' = Tail(queue)
        <4>1. PICK g : /\ Sums(g, Tail(queue))
                       /\ g[Len(Tail(queue))] = f[Len(queue)] - Left(queue[1])
          BY <1>0, <1>1, <3>1, SumsTail
        <4>2. Left(queue[1]) = x - queue[1].offset
          BY <3>3 DEF Left
        <4>3. Sums(g, queue') /\ queued' = g[Len(queue')]
          BY <1>0, <3>1, <3>3, <4>1, <4>2
        <4>. QED
          BY <4>3 DEF SumInv
      <3>. QED
        BY <3>1, <3>2, <3>3
    <2>. QED
      BY <2>1, <2>2
  <1>5. ASSUME NEW t \in Threads, NativeSend(t) PROVE SumInv'
    BY <1>5, <1>2 DEF NativeSend, queueVars
  <1>6. ASSUME queue' = <<>>, queued' = 0 PROVE SumInv'
    <2>1. Len(<<>>) = 0 /\ [i \in 0 .. 0 |-> 0][0] = 0
      OBVIOUS
    <2>. QED
      BY <1>6, <2>1, EmptySums DEF SumInv
  <1>7. ASSUME NEW t \in Threads, Clear(t) PROVE SumInv'
    BY <1>6, <1>7 DEF Clear, ClearQueue
  <1>8. CASE OnClosed
    BY <1>6, <1>8 DEF OnClosed, ClearQueue
  <1>. QED
    BY <1>2, <1>3, <1>4, <1>5, <1>7, <1>8, DataSteps DEF DataKept

LEMMA PieceStep ==
    ASSUME TypeOK, QueueInv, PieceInv, [Next]_vars
    PROVE  PieceInv'
  <1>1. queue \in Seq(Pending)
    BY DEF TypeOK
  <1>2. CASE UNCHANGED queue
    BY <1>2 DEF PieceInv
  <1>3. ASSUME NEW t \in Senders, Push(t) PROVE PieceInv'
    <2>1. CASE UNCHANGED queue
      BY <1>2, <2>1
    <2>2. CASE ~UNCHANGED queue
      <3>. DEFINE p(size) == [msg |-> Len(accepted) + 1, size |-> size, offset |-> 0]
      <3>1. PICK size \in Nat : queue' = Append(queue, p(size)) /\ p(size) \in Pending
        BY <1>3, <2>2, PushFacts
      <3>2. p(size).size = 0 \/ p(size).offset < p(size).size
        OBVIOUS
      <3>. HIDE DEF p
      <3>3. ASSUME NEW i \in 1 .. Len(queue')
            PROVE  queue'[i].size = 0 \/ queue'[i].offset < queue'[i].size
        <4>1. Len(queue) \in Nat /\ Len(queue') = Len(queue) + 1
          BY <1>1, <3>1
        <4>2. CASE i = Len(queue) + 1
          <5>1. queue'[i] = p(size)
            BY <1>1, <3>1, <4>2
          <5>. QED
            BY <3>2, <5>1
        <4>3. CASE i \in 1 .. Len(queue)
          <5>1. queue'[i] = queue[i]
            BY <1>1, <3>1, <4>3
          <5>. QED
            BY <4>3, <5>1 DEF PieceInv
        <4>. QED
          BY <4>1, <4>2, <4>3, LastOrBefore
      <3>. QED
        BY <3>3 DEF PieceInv
    <2>. QED
      BY <2>1, <2>2
  <1>4. ASSUME NEW t \in Threads, Take(t) PROVE PieceInv'
    <2>1. CASE UNCHANGED queue
      BY <1>2, <2>1
    <2>2. CASE ~UNCHANGED queue
      <3>. DEFINE x == NextFrame.to
      <3>1. /\ queue # <<>> /\ queue[1] \in Pending /\ x \in Nat
            /\ \/ x < queue[1].size /\ queue' = [queue EXCEPT ![1].offset = x]
               \/ queue' = Tail(queue)
        BY <1>4, <2>2, TakeFacts
      <3>. HIDE DEF x
      <3>2. CASE x < queue[1].size /\ queue' = [queue EXCEPT ![1].offset = x]
        <4>1. /\ Len(queue') = Len(queue)
              /\ queue'[1] = [queue[1] EXCEPT !.offset = x]
              /\ \A i \in 2 .. Len(queue) : queue'[i] = queue[i]
          BY <1>1, <3>1, <3>2, HeadAdvances
        <4>2. queue'[1].offset < queue'[1].size
          BY <3>1, <3>2, <4>1, PendingAdvances
        <4>3. ASSUME NEW i \in 1 .. Len(queue')
              PROVE  queue'[i].size = 0 \/ queue'[i].offset < queue'[i].size
          <5>1. i \in 1 .. Len(queue)
            BY <4>1
          <5>2. Len(queue) \in Nat
            BY <1>1
          <5>3. CASE i = 1
            BY <4>2, <5>3
          <5>4. CASE i # 1
            <6>1. i \in 2 .. Len(queue)
              BY <5>1, <5>2, <5>4
            <6>. QED
              BY <4>1, <5>1, <6>1 DEF PieceInv
          <5>. QED
            BY <5>3, <5>4
        <4>. QED
          BY <4>3 DEF PieceInv
      <3>3. CASE queue' = Tail(queue)
        <4>1. /\ Len(queue) \in Nat /\ Len(queue') = Len(queue) - 1
              /\ \A i \in 1 .. Len(queue') : queue'[i] = queue[i + 1]
          BY <1>1, <3>1, <3>3
        <4>2. ASSUME NEW i \in 1 .. Len(queue')
              PROVE  queue'[i].size = 0 \/ queue'[i].offset < queue'[i].size
          <5>1. i + 1 \in 1 .. Len(queue) /\ queue'[i] = queue[i + 1]
            BY <4>1
          <5>. QED
            BY <5>1 DEF PieceInv
        <4>. QED
          BY <4>2 DEF PieceInv
      <3>. QED
        BY <3>1, <3>2, <3>3
    <2>. QED
      BY <2>1, <2>2
  <1>5. ASSUME NEW t \in Threads, NativeSend(t) PROVE PieceInv'
    BY <1>5, <1>2 DEF NativeSend, queueVars
  <1>6. ASSUME queue' = <<>> PROVE PieceInv'
    BY <1>6 DEF PieceInv
  <1>7. ASSUME NEW t \in Threads, Clear(t) PROVE PieceInv'
    BY <1>6, <1>7 DEF Clear, ClearQueue
  <1>8. CASE OnClosed
    BY <1>6, <1>8 DEF OnClosed, ClearQueue
  <1>. QED
    BY <1>2, <1>3, <1>4, <1>5, <1>7, <1>8, DataSteps DEF DataKept

\* What is on the wire stays on it.
LEMMA HandedKept ==
    ASSUME TypeOK, HandInv, [Next]_vars, NEW m, Handed(m)
    PROVE  Handed(m)'
  <1>1. PICK i \in 1 .. Len(wire) : wire[i].msg = m /\ ~wire[i].more
    BY DEF Handed
  <1>2. \/ UNCHANGED wire
        \/ \E f \in Frame : wire' = Append(wire, f)
    <2>1. ASSUME NEW t \in Threads, NativeSend(t)
          PROVE  UNCHANGED wire \/ \E f \in Frame : wire' = Append(wire, f)
      BY <2>1, NativeSendFacts
    <2>2. ASSUME NEW t \in Threads, Take(t) PROVE UNCHANGED wire
      BY <2>2 DEF Take, nativeVars
    <2>3. ASSUME NEW t \in Senders, Push(t) PROVE UNCHANGED wire
      BY <2>3 DEF Push, nativeVars
    <2>4. ASSUME NEW t \in Threads, Clear(t) PROVE UNCHANGED wire
      BY <2>4 DEF Clear, nativeVars
    <2>5. CASE OnClosed
      BY <2>5 DEF OnClosed
    <2>. QED
      BY <2>1, <2>2, <2>3, <2>4, <2>5, DataSteps DEF DataKept
  <1>3. wire \in Seq(Frame)
    BY DEF TypeOK
  <1>4. i \in 1 .. Len(wire') /\ wire'[i] = wire[i]
    BY <1>2, <1>3
  <1>. QED
    BY <1>1, <1>4 DEF Handed

LEMMA HandedStep ==
    ASSUME TypeOK, HandInv, JoinInv, HandedInv, [Next]_vars
    PROVE  HandedInv'
  <1>1. CASE UNCHANGED wire
    BY <1>1 DEF HandedInv, Handed, WireEnd, After
  <1>2. ASSUME NEW t \in Threads, NativeSend(t) PROVE HandedInv'
    <2>1. CASE UNCHANGED wire
      BY <1>1, <2>1
    <2>2. CASE ~UNCHANGED wire
      <3>. DEFINE f == hand[1]
      <3>1. /\ chan = "open" /\ hand # <<>> /\ f \in Frame
            /\ wire' = Append(wire, f) /\ wire \in Seq(Frame)
        BY <1>2, <2>2, NativeSendFacts DEF TypeOK
      <3>2. WireEnd = <<f.msg, f.from>>
        BY <3>1 DEF JoinInv
      <3>. HIDE DEF f
      <3>3. /\ Len(wire) \in Nat /\ Len(wire') = Len(wire) + 1
            /\ wire'[Len(wire) + 1] = f /\ wire' # <<>>
        BY <3>1
      <3>4. WireEnd' = IF f.more THEN <<f.msg, f.to>> ELSE <<f.msg + 1, 0>>
        BY <3>3 DEF WireEnd, After
      <3>5. f.msg \in Nat /\ f.more \in BOOLEAN
        BY <3>1 DEF Frame
      <3>6. \A m \in 1 .. f.msg - 1 : Handed(m)
        BY <3>2 DEF HandedInv
      <3>7. \A m \in 1 .. f.msg - 1 : Handed(m)'
        BY <3>6, HandedKept
      <3>8. CASE f.more
        <4>1. WireEnd'[1] = f.msg
          BY <3>4, <3>8
        <4>. QED
          BY <3>7, <4>1 DEF HandedInv
      <3>9. CASE ~f.more
        <4>1. WireEnd'[1] = f.msg + 1
          BY <3>4, <3>9
        <4>2. PICK n : n = f.msg
          OBVIOUS
        <4>3. Handed(n)'
          <5>1. Len(wire) + 1 \in 1 .. Len(wire')
            BY <3>3
          <5>2. \E i \in 1 .. Len(wire') : wire'[i].msg = n /\ ~wire'[i].more
            BY <3>3, <3>9, <4>2, <5>1
          <5>. QED
            BY <5>2 DEF Handed
        <4>4. \A m \in 1 .. WireEnd'[1] - 1 : m \in 1 .. f.msg - 1 \/ m = n
          BY <3>5, <4>1, <4>2
        <4>5. \A m \in 1 .. WireEnd'[1] - 1 : Handed(m)'
          BY <3>7, <4>3, <4>4
        <4>. QED
          BY <4>5 DEF HandedInv
      <3>. QED
        BY <3>8, <3>9
    <2>. QED
      BY <2>1, <2>2
  <1>3. ASSUME NEW t \in Threads, Take(t) PROVE UNCHANGED wire
    BY <1>3 DEF Take, nativeVars
  <1>4. ASSUME NEW t \in Senders, Push(t) PROVE UNCHANGED wire
    BY <1>4 DEF Push, nativeVars
  <1>5. ASSUME NEW t \in Threads, Clear(t) PROVE UNCHANGED wire
    BY <1>5 DEF Clear, nativeVars
  <1>6. CASE OnClosed
    BY <1>1, <1>6 DEF OnClosed
  <1>. QED
    BY <1>1, <1>2, <1>3, <1>4, <1>5, <1>6, DataSteps DEF DataKept

\* What send has accepted it does not take back.
LEMMA AcceptedKept ==
    ASSUME TypeOK, QueueInv, HandInv, [Next]_vars
    PROVE  /\ Len(accepted) <= Len(accepted')
           /\ \A m \in 1 .. Len(accepted) : accepted'[m] = accepted[m]
  <1>1. accepted \in Seq(Nat)
    BY DEF TypeOK
  <1>2. \/ UNCHANGED accepted
        \/ \E size \in Nat : accepted' = Append(accepted, size)
    <2>1. ASSUME NEW t \in Senders, Push(t)
          PROVE  UNCHANGED accepted \/ \E size \in Nat : accepted' = Append(accepted, size)
      BY <2>1, PushFacts
    <2>2. ASSUME NEW t \in Threads, Take(t) PROVE UNCHANGED accepted
      BY <2>2, TakeFacts
    <2>3. ASSUME NEW t \in Threads, NativeSend(t) PROVE UNCHANGED accepted
      BY <2>3, NativeSendFacts
    <2>4. ASSUME NEW t \in Threads, Clear(t) PROVE UNCHANGED accepted
      BY <2>4 DEF Clear
    <2>5. CASE OnClosed
      BY <2>5 DEF OnClosed
    <2>. QED
      BY <2>1, <2>2, <2>3, <2>4, <2>5, DataSteps DEF DataKept
  <1>. QED
    BY <1>1, <1>2

LEMMA VerdictStep ==
    ASSUME TypeOK, TypeOK', QueueInv, HandInv, VerdictInv, [Next]_vars
    PROVE  VerdictInv'
  <1>1. /\ Len(accepted) \in Nat /\ Len(accepted') \in Nat /\ Len(accepted) <= Len(accepted')
        /\ promised \in [Closers -> Nat] /\ pc \in [Threads -> PcLabels]
        /\ verdict \in [Closers -> {"none", "drained", "gaveUp"}]
    <2>1. Len(accepted) <= Len(accepted')
      BY AcceptedKept
    <2>2. accepted \in Seq(Nat) /\ accepted' \in Seq(Nat)
      BY DEF TypeOK
    <2>3. Len(accepted) \in Nat /\ Len(accepted') \in Nat
      BY <2>2
    <2>4. /\ promised \in [Closers -> Nat] /\ pc \in [Threads -> PcLabels]
          /\ verdict \in [Closers -> {"none", "drained", "gaveUp"}]
      BY DEF TypeOK
    <2>. QED
      BY <2>1, <2>3, <2>4
  <1>2. \A t \in Closers : promised[t] \in Nat /\ promised[t] <= Len(accepted')
    BY <1>1 DEF VerdictInv
  <1>3. CASE DrainedKept
    BY <1>2, <1>3 DEF VerdictInv, DrainedKept
  <1>4. ASSUME NEW t \in Closers, Close(t) PROVE VerdictInv'
    <2>1. /\ pc[t] = "idle" /\ pc' = [pc EXCEPT ![t] = "drain"]
          /\ UNCHANGED <<verdict, accepted>>
      BY <1>4 DEF Close, Goto, userVars, queueVars
    <2>2. \E n \in {Len(accepted), 0} : promised' = [promised EXCEPT ![t] = n]
      BY <1>4 DEF Close
    <2>3. verdict[t] = "none"
      BY <2>1 DEF VerdictInv
    <2>4. ASSUME NEW u \in Closers
          PROVE  /\ promised'[u] <= Len(accepted')
                 /\ verdict'[u] # "none" => pc'[u] \in {"close", "done"}
      <3>1. CASE u = t
        <4>1. promised'[u] \in {Len(accepted), 0}
          BY <1>1, <2>2, <3>1
        <4>. QED
          BY <1>1, <2>1, <2>3, <3>1, <4>1
      <3>2. CASE u # t
        <4>1. promised'[u] = promised[u] /\ pc'[u] = pc[u]
          BY <1>1, <2>1, <2>2, <3>2
        <4>. QED
          BY <1>2, <2>1, <4>1 DEF VerdictInv
      <3>. QED
        BY <3>1, <3>2
    <2>. QED
      BY <2>4 DEF VerdictInv
  <1>5. ASSUME NEW t \in Closers, DrainReadQueue(t) PROVE VerdictInv'
    <2>1. /\ UNCHANGED promised
          /\ pc[t] = "drainQueue"
          /\ \/ pc' = [pc EXCEPT ![t] = "close"]
                /\ \E v \in {"drained", "gaveUp"} : verdict' = [verdict EXCEPT ![t] = v]
             \/ pc' = [pc EXCEPT ![t] = "request"] /\ UNCHANGED verdict
      BY <1>5 DEF DrainReadQueue, Goto
    <2>2. verdict[t] = "none"
      BY <2>1 DEF VerdictInv
    <2>3. ASSUME NEW u \in Closers
          PROVE  verdict'[u] # "none" => pc'[u] \in {"close", "done"}
      <3>1. CASE u = t
        BY <1>1, <2>1, <2>2, <3>1
      <3>2. CASE u # t
        <4>1. verdict'[u] = verdict[u] /\ pc'[u] = pc[u]
          BY <1>1, <2>1, <3>2
        <4>. QED
          BY <4>1 DEF VerdictInv
      <3>. QED
        BY <3>1, <3>2
    <2>. QED
      BY <1>2, <2>1, <2>3 DEF VerdictInv
  <1>. QED
    BY <1>3, <1>4, <1>5, DrainedSteps

\* With nothing left to hand out, every message with payload accepted so far is
\* on the wire, or its last frame is in some pump's hand.
LEMMA NothingLeft ==
    ASSUME TypeOK, NumberInv, JoinInv, SumInv, PieceInv, HandedInv,
           chan = "open", queued = 0, NEW m \in 1 .. Len(accepted)
    PROVE  \/ accepted[m] = 0
           \/ Handed(m)
           \/ hand # <<>> /\ hand[1].msg = m /\ ~hand[1].more
  <1>1. /\ Len(queue) \in Nat /\ Len(accepted) \in Nat /\ Len(queue) <= Len(accepted)
        /\ queue \in Seq(Pending) /\ wire \in Seq(Frame) /\ hand \in Seq(Frame)
    BY DEF TypeOK, NumberInv
  <1>2. ASSUME NEW i \in 1 .. Len(queue) PROVE queue[i].size = 0
    <2>1. PICK f : Sums(f, queue) /\ f[Len(queue)] = 0
      BY DEF SumInv
    <2>2. /\ i \in 0 .. Len(queue) /\ i - 1 \in 0 .. Len(queue) /\ Len(queue) \in 0 .. Len(queue)
          /\ i <= Len(queue) /\ i - 1 <= Len(queue)
      BY <1>1
    <2>3. f[i] \in Nat /\ f[i - 1] \in Nat /\ f[i] <= 0 /\ f[i - 1] <= 0
      BY <2>1, <2>2 DEF Sums
    <2>4. f[i] = f[i - 1] + Left(queue[i])
      BY <2>1 DEF Sums
    <2>5. queue[i] \in Pending
      BY <1>1
    <2>6. queue[i].size \in Nat /\ queue[i].offset \in Nat
      BY <2>5 DEF Pending
    <2>7. queue[i].size = queue[i].offset
      BY <2>3, <2>4, <2>6 DEF Left
    <2>. QED
      BY <2>6, <2>7 DEF PieceInv
  <1>3. CASE m > Len(accepted) - Len(queue)
    <2>. DEFINE i == m - (Len(accepted) - Len(queue))
    <2>1. i \in 1 .. Len(queue) /\ Len(accepted) - Len(queue) + i = m
      BY <1>1, <1>3
    <2>. HIDE DEF i
    <2>2. queue[i].msg = m /\ queue[i].size = accepted[m]
      BY <2>1 DEF NumberInv
    <2>. QED
      BY <1>2, <2>1, <2>2
  <1>4. CASE m <= Len(accepted) - Len(queue)
    <2>1. QueueAt[1] = Len(accepted) - Len(queue) + 1
      <3>1. CASE queue = <<>>
        BY <1>1, <3>1 DEF QueueAt
      <3>2. CASE queue # <<>>
        <4>1. 1 \in 1 .. Len(queue)
          BY <1>1, <3>2
        <4>2. queue[1].msg = Len(accepted) - Len(queue) + 1
          BY <4>1 DEF NumberInv
        <4>. QED
          BY <3>2, <4>2 DEF QueueAt
      <3>. QED
        BY <3>1, <3>2
    <2>2. m < QueueAt[1]
      BY <1>1, <1>4, <2>1
    <2>3. CASE hand = <<>>
      <3>1. WireEnd[1] = QueueAt[1]
        BY <2>3 DEF JoinInv
      <3>2. m \in 1 .. WireEnd[1] - 1
        BY <1>1, <2>1, <2>2, <3>1
      <3>. QED
        BY <3>2 DEF HandedInv
    <2>4. CASE hand # <<>>
      <3>. DEFINE f == hand[1]
      <3>1. f \in Frame
        BY <1>1, <2>4
      <3>2. WireEnd = <<f.msg, f.from>> /\ After(f) = QueueAt
        BY <2>4 DEF JoinInv
      <3>. HIDE DEF f
      <3>3. f.msg \in Nat /\ f.more \in BOOLEAN
        BY <3>1 DEF Frame
      <3>4. CASE m < f.msg
        <4>1. m \in 1 .. WireEnd[1] - 1
          BY <3>2, <3>3, <3>4
        <4>. QED
          BY <4>1 DEF HandedInv
      <3>5. CASE ~(m < f.msg)
        <4>1. ~f.more
          <5>1. f.more => QueueAt[1] = f.msg
            BY <3>2 DEF After
          <5>. QED
            BY <2>2, <3>5, <5>1
        <4>2. QueueAt[1] = f.msg + 1
          BY <3>2, <4>1 DEF After
        <4>3. m = f.msg
          BY <2>2, <3>3, <3>5, <4>2
        <4>. QED
          BY <2>4, <4>1, <4>3 DEF f
      <3>. QED
        BY <3>4, <3>5
    <2>. QED
      BY <2>3, <2>4
  <1>. QED
    BY <1>1, <1>3, <1>4

\* The frame in hand stays there until it is on the wire, or the channel is
\* no longer open.
LEMMA HandKept ==
    ASSUME TypeOK, QueueInv, LockInv, HandInv, [Next]_vars, chan' = "open",
           NEW m, hand # <<>>, hand[1].msg = m, ~hand[1].more
    PROVE  \/ UNCHANGED hand
           \/ Handed(m)'
  <1>1. ASSUME NEW t \in Senders, Push(t) PROVE UNCHANGED hand
    BY <1>1, PushFacts
  <1>2. ASSUME NEW t \in Threads, Take(t) PROVE UNCHANGED hand
    <2>1. PICK u \in Threads : pc[u] = "native"
      BY DEF HandInv
    <2>2. pc[t] = "take"
      BY <1>2, TakeFacts
    <2>3. pump = u /\ pump = t
      BY <2>1, <2>2 DEF LockInv, Holding
    <2>. QED
      BY <2>1, <2>2, <2>3
  <1>3. ASSUME NEW t \in Threads, NativeSend(t) PROVE Handed(m)'
    <2>1. wire' = Append(wire, hand[1]) /\ wire \in Seq(Frame) /\ hand[1] \in Frame
      BY <1>3, NativeSendFacts DEF TypeOK
    <2>2. Len(wire) + 1 \in 1 .. Len(wire') /\ wire'[Len(wire) + 1] = hand[1]
      BY <2>1
    <2>3. \E i \in 1 .. Len(wire') : wire'[i].msg = m /\ ~wire'[i].more
      BY <2>2
    <2>. QED
      BY <2>3 DEF Handed
  <1>4. ASSUME NEW t \in Threads, Clear(t) PROVE UNCHANGED hand
    BY <1>4 DEF Clear, pumpVars
  <1>5. CASE OnClosed
    BY <1>5 DEF OnClosed, pumpVars
  <1>. QED
    BY <1>1, <1>2, <1>3, <1>4, <1>5, DataSteps DEF DataKept

DrainInv == IInv /\ SumInv /\ PieceInv /\ HandedInv /\ VerdictInv

LEMMA DrainedStep ==
    ASSUME DrainInv, DrainedUpToHand, [Next]_vars
    PROVE  DrainedUpToHand'
  <1>1. /\ TypeOK /\ QueueInv /\ LockInv /\ HandInv /\ NumberInv /\ JoinInv
        /\ SumInv /\ PieceInv /\ HandedInv /\ VerdictInv
    BY DEF DrainInv, IInv
  <1>2. /\ promised \in [Closers -> Nat] /\ Len(accepted) \in Nat
        /\ verdict \in [Closers -> {"none", "drained", "gaveUp"}]
    BY <1>1 DEF TypeOK
  <1>. SUFFICES ASSUME NEW t \in Closers, chan' = "open", verdict'[t] = "drained",
                       NEW m \in 1 .. promised'[t]
                PROVE  \/ accepted'[m] = 0
                       \/ Handed(m)'
                       \/ hand' # <<>> /\ hand'[1].msg = m /\ ~hand'[1].more
    BY DEF DrainedUpToHand
  <1>3. chan = "open"
    BY NeverReopens
  \* What held of an earlier verdict still does.
  <1>4. CASE promised'[t] = promised[t] /\ verdict[t] = "drained"
    <2>1. m \in 1 .. promised[t] /\ m \in 1 .. Len(accepted)
      BY <1>1, <1>2, <1>4 DEF VerdictInv
    <2>2. accepted'[m] = accepted[m]
      BY <1>1, <2>1, AcceptedKept
    <2>3. \/ accepted[m] = 0
          \/ Handed(m)
          \/ hand # <<>> /\ hand[1].msg = m /\ ~hand[1].more
      BY <1>3, <1>4, <2>1 DEF DrainedUpToHand
    <2>4. CASE accepted[m] = 0
      BY <2>2, <2>4
    <2>5. CASE Handed(m)
      BY <1>1, <2>5, HandedKept
    <2>6. CASE hand # <<>> /\ hand[1].msg = m /\ ~hand[1].more
      <3>1. UNCHANGED hand \/ Handed(m)'
        BY <1>1, <2>6, HandKept
      <3>. QED
        BY <2>6, <3>1
    <2>. QED
      BY <2>3, <2>4, <2>5, <2>6
  <1>5. CASE DrainedKept
    BY <1>4, <1>5 DEF DrainedKept
  <1>6. ASSUME NEW u \in Closers, Close(u)
        PROVE  promised'[t] = promised[t] /\ verdict[t] = "drained"
    <2>1. verdict[t] = "drained"
      BY <1>6 DEF Close, userVars
    <2>2. pc[t] # "idle" /\ pc[u] = "idle"
      BY <1>1, <1>6, <2>1 DEF VerdictInv, Close
    <2>3. \E n \in Nat : promised' = [promised EXCEPT ![u] = n]
      BY <1>2, <1>6 DEF Close
    <2>. QED
      BY <1>2, <2>1, <2>2, <2>3
  <1>7. ASSUME NEW u \in Closers, DrainReadQueue(u), verdict[t] # "drained"
        PROVE  \/ accepted'[m] = 0
               \/ Handed(m)'
               \/ hand' # <<>> /\ hand'[1].msg = m /\ ~hand'[1].more
    <2>1. UNCHANGED <<promised, accepted, wire, hand>>
      BY <1>7 DEF DrainReadQueue, nativeVars, queueVars, pumpVars
    <2>2. u = t /\ Buffered(t) = 0
      BY <1>2, <1>7 DEF DrainReadQueue
    <2>3. queued \in Nat
      <3>1. PICK f : Sums(f, queue) /\ queued = f[Len(queue)]
        BY <1>1 DEF SumInv
      <3>2. Len(queue) \in 0 .. Len(queue)
        BY <1>1 DEF TypeOK
      <3>. QED
        BY <3>1, <3>2 DEF Sums
    <2>4. seen[t] \in Nat /\ seen[t] + queued = 0
      BY <1>1, <2>2 DEF TypeOK
    <2>5. queued = 0
      BY <2>3, <2>4
    <2>6. m \in 1 .. Len(accepted)
      BY <1>1, <1>2, <2>1 DEF VerdictInv
    <2>7. \/ accepted[m] = 0
          \/ Handed(m)
          \/ hand # <<>> /\ hand[1].msg = m /\ ~hand[1].more
      BY <1>1, <1>3, <2>5, <2>6, NothingLeft
    <2>. QED
      BY <2>1, <2>7 DEF Handed
  <1>8. ASSUME NEW u \in Closers, DrainReadQueue(u) PROVE promised'[t] = promised[t]
    BY <1>8 DEF DrainReadQueue
  <1>. QED
    BY <1>1, <1>4, <1>5, <1>6, <1>7, <1>8, DrainedSteps

-----------------------------------------------------------------------------
(* Every byte is in one place, and every message leaves whole.              *)

LEMMA PayloadEmpty == Payload(<<>>) = 0
  <1>1. [i \in DOMAIN <<>> |-> <<>>[i].to - <<>>[i].from] = <<>>
    OBVIOUS
  <1>. QED
    BY <1>1, TotalEmpty DEF Payload

LEMMA PayloadAppend ==
    ASSUME NEW w \in Seq(Frame), NEW f \in Frame
    PROVE  /\ Payload(w) \in Int
           /\ Payload(Append(w, f)) = Payload(w) + (f.to - f.from)
  <1>. DEFINE n == Len(w)
              v == Append(w, f)
              P(u) == [i \in DOMAIN u |-> u[i].to - u[i].from]
  <1>1. /\ n \in Nat /\ v \in Seq(Frame) /\ Len(v) = n + 1 /\ v[n + 1] = f
        /\ \A i \in 1 .. n : w[i] = v[i]
        /\ DOMAIN w = 1 .. n /\ DOMAIN v = 1 .. n + 1
    OBVIOUS
  <1>2. \A g \in Frame : g.to - g.from \in Int
    BY DEF Frame
  <1>. HIDE DEF v
  <1>3. /\ \A i \in 1 .. n : w[i] \in Frame
        /\ \A i \in 1 .. n + 1 : v[i] \in Frame
    BY <1>1
  <1>4. P(w) \in [1 .. n -> Int] /\ P(v) \in [1 .. n + 1 -> Int]
    BY <1>1, <1>2, <1>3
  <1>5. P(w) \in Seq(Int) /\ P(v) \in Seq(Int) /\ Len(P(w)) = n /\ Len(P(v)) = n + 1
    BY <1>1, <1>4
  <1>6. /\ P(v)[n + 1] = f.to - f.from
        /\ \A i \in 1 .. n : P(w)[i] = P(v)[i]
    BY <1>1
  <1>. HIDE DEF P, n
  <1>7. Total(P(w)) \in Int /\ Total(P(v)) = Total(P(w)) + (f.to - f.from)
    BY <1>1, <1>5, <1>6, TotalExtends
  <1>. QED
    BY <1>7 DEF Payload, P, v

LEMMA OneElement ==
    ASSUME NEW S, NEW s \in Seq(S), Len(s) = 1
    PROVE  s = <<s[1]>> /\ s[1] \in S
  <1>1. s[1] \in S
    OBVIOUS
  <1>2. <<s[1]>> \in Seq(S) /\ Len(<<s[1]>>) = 1 /\ <<s[1]>>[1] = s[1]
    BY <1>1
  <1>3. \A i \in 1 .. Len(s) : s[i] = <<s[1]>>[i]
    BY <1>2
  <1>. QED
    BY <1>1, <1>2, <1>3, SeqEqual

LEMMA PayloadOne ==
    ASSUME NEW f \in Frame
    PROVE  Payload(<<f>>) = f.to - f.from
  <1>1. <<>> \in Seq(Frame) /\ Append(<<>>, f) = <<f>>
    OBVIOUS
  <1>2. f.to - f.from \in Int
    BY DEF Frame
  <1>3. Payload(Append(<<>>, f)) = Payload(<<>>) + (f.to - f.from)
    BY <1>1, PayloadAppend
  <1>. QED
    BY <1>1, <1>2, <1>3, PayloadEmpty

\* The count is the sum the model's Remaining computes.
LEMMA CountIsRemaining ==
    ASSUME TypeOK, SumInv
    PROVE  queued = Remaining /\ queued \in Nat
  <1>. DEFINE s == [i \in DOMAIN queue |-> queue[i].size - queue[i].offset]
  <1>1. PICK f : Sums(f, queue) /\ queued = f[Len(queue)]
    BY DEF SumInv
  <1>2. /\ Len(queue) \in Nat /\ DOMAIN queue = 1 .. Len(queue)
        /\ \A i \in 1 .. Len(queue) : queue[i] \in Pending
    BY DEF TypeOK
  <1>3. \A p \in Pending : p.size - p.offset \in Int
    BY DEF Pending
  <1>4. s \in [1 .. Len(queue) -> Int]
    BY <1>2, <1>3
  <1>5. s \in Seq(Int) /\ Len(s) = Len(queue)
    BY <1>2, <1>4
  <1>6. \A i \in 1 .. Len(queue) : s[i] = Left(queue[i])
    BY <1>2 DEF Left
  <1>. HIDE DEF s
  <1>7. /\ f \in [0 .. Len(queue) -> Nat] /\ f[0] = 0
        /\ \A i \in 1 .. Len(queue) : f[i] = f[i - 1] + s[i]
    BY <1>1, <1>6 DEF Sums
  <1>8. f = [i \in 0 .. Len(s) |-> IF i = 0 THEN 0 ELSE f[i - 1] + s[i]]
    <2>1. f = [i \in 0 .. Len(s) |-> f[i]]
      BY <1>5, <1>7
    <2>2. \A i \in 0 .. Len(s) : i # 0 => i \in 1 .. Len(queue)
      BY <1>2, <1>5
    <2>3. \A i \in 0 .. Len(s) : f[i] = IF i = 0 THEN 0 ELSE f[i - 1] + s[i]
      BY <1>7, <2>2
    <2>. QED
      BY <2>1, <2>3
  <1>9. Total(s) = f[Len(queue)]
    BY <1>5, <1>8, TotalIs DEF SumsUp
  <1>10. f[Len(queue)] \in Nat
    BY <1>2, <1>7
  <1>. QED
    BY <1>1, <1>9, <1>10 DEF Remaining, s

\* A pump takes a frame with its hand empty.
LEMMA EmptyHanded ==
    ASSUME TypeOK, LockInv, HandInv, NEW t \in Threads, Take(t)
    PROVE  hand = <<>>
  <1>1. pc[t] = "take"
    BY DEF Take
  <1>2. ASSUME hand # <<>> PROVE FALSE
    <2>1. PICK u \in Threads : pc[u] = "native"
      BY <1>2 DEF HandInv
    <2>2. pump = u /\ pump = t
      BY <1>1, <2>1 DEF LockInv, Holding
    <2>. QED
      BY <1>1, <2>1, <2>2
  <1>. QED
    BY <1>2

\* Until the channel stops being open nothing accepted is lost or doubled.
BytesInv == chan = "open" => Payload(wire) + Payload(hand) + queued = Total(accepted)

LEMMA BytesStep ==
    ASSUME TypeOK, QueueInv, LockInv, HandInv, RefusedInv, BytesInv, [Next]_vars
    PROVE  BytesInv'
  <1>. SUFFICES ASSUME chan' = "open"
                PROVE  Payload(wire') + Payload(hand') + queued' = Total(accepted')
    BY DEF BytesInv
  <1>1. chan = "open"
    BY NeverReopens
  <1>2. /\ wire \in Seq(Frame) /\ hand \in Seq(Frame) /\ Len(hand) <= 1
        /\ accepted \in Seq(Int) /\ queued \in Int
    BY DEF TypeOK
  <1>3. Payload(wire) + Payload(hand) + queued = Total(accepted)
    BY <1>1 DEF BytesInv
  <1>4. CASE UNCHANGED <<queued, accepted, wire, hand>>
    BY <1>3, <1>4
  <1>5. Total(accepted) \in Int
    BY <1>2, TotalAppend
  <1>6. hand = <<>> \/ \E f \in Frame : hand = <<f>>
    <2>1. CASE Len(hand) = 0
      BY <1>2, <2>1
    <2>2. CASE Len(hand) = 1
      <3>1. hand = <<hand[1]>> /\ hand[1] \in Frame
        BY <1>2, <2>2, OneElement
      <3>. QED
        BY <3>1
    <2>3. Len(hand) = 0 \/ Len(hand) = 1
      <3>1. Len(hand) \in Nat /\ Len(hand) <= 1
        BY <1>2
      <3>2. \A n \in Nat : n <= 1 => n = 0 \/ n = 1
        OBVIOUS
      <3>. QED
        BY <3>1, <3>2
    <2>. QED
      BY <2>1, <2>2, <2>3
  <1>7. Payload(wire) \in Int /\ Payload(hand) \in Int
    <2>1. \A f \in Frame : f.to - f.from \in Int
      BY DEF Frame
    <2>2. PICK f : f \in Frame
      <3>1. [msg |-> 1, from |-> 0, to |-> 0, more |-> FALSE] \in Frame
        BY DEF Frame
      <3>. QED
        BY <3>1
    <2>. QED
      BY <1>2, <2>2, PayloadAppend
  <1>8. ASSUME NEW t \in Senders, Push(t)
        PROVE  Payload(wire') + Payload(hand') + queued' = Total(accepted')
    <2>1. CASE UNCHANGED <<queued, accepted, wire, hand>>
      BY <1>4, <2>1
    <2>2. CASE ~UNCHANGED <<queued, accepted, wire, hand>>
      <3>1. PICK size \in Nat :
               accepted' = Append(accepted, size) /\ queued' = queued + size
               /\ UNCHANGED <<wire, hand>>
        BY <1>8, <2>2, PushFacts
      <3>2. Total(accepted') = Total(accepted) + size
        BY <1>2, <3>1, TotalAppend
      <3>. QED
        BY <1>2, <1>3, <1>5, <1>7, <3>1, <3>2
    <2>. QED
      BY <2>1, <2>2
  <1>9. ASSUME NEW t \in Threads, Take(t)
        PROVE  Payload(wire') + Payload(hand') + queued' = Total(accepted')
    <2>1. CASE UNCHANGED <<queued, accepted, wire, hand>>
      BY <1>4, <2>1
    <2>2. CASE ~UNCHANGED <<queued, accepted, wire, hand>>
      <3>. DEFINE f == NextFrame
      <3>1. /\ queue # <<>> /\ hand' = <<f>> /\ UNCHANGED <<accepted, wire>>
            /\ queued' = queued - (f.to - queue[1].offset) /\ f.from = queue[1].offset
        BY <1>9, <2>2, TakeFacts
      <3>2. f \in Frame
        BY <3>1, NextFrameFacts
      <3>. HIDE DEF f
      <3>3. Payload(hand') = f.to - f.from /\ f.to - f.from \in Int
        BY <3>1, <3>2, PayloadOne DEF Frame
      <3>4. Payload(hand) = 0
        BY <1>9, EmptyHanded, PayloadEmpty
      <3>. QED
        BY <1>2, <1>3, <1>7, <3>1, <3>3, <3>4
    <2>. QED
      BY <2>1, <2>2
  <1>10. ASSUME NEW t \in Threads, NativeSend(t)
         PROVE  Payload(wire') + Payload(hand') + queued' = Total(accepted')
    <2>1. /\ hand # <<>> /\ hand[1] \in Frame /\ wire' = Append(wire, hand[1])
          /\ UNCHANGED <<queued, accepted>>
      BY <1>10, NativeSendFacts
    <2>2. hand' = <<>>
      BY <1>10 DEF NativeSend
    <2>3. PICK f \in Frame : hand = <<f>>
      BY <1>6, <2>1
    <2>4. wire' = Append(wire, f)
      BY <2>1, <2>3
    <2>5. /\ Payload(wire') = Payload(wire) + (f.to - f.from)
          /\ Payload(hand) = f.to - f.from
          /\ Payload(hand') = 0
      BY <1>2, <2>2, <2>3, <2>4, PayloadAppend, PayloadOne, PayloadEmpty
    <2>. QED
      BY <1>2, <1>3, <1>7, <2>1, <2>5
  <1>11. ASSUME NEW t \in Threads, Clear(t) PROVE FALSE
    BY <1>1, <1>11 DEF Clear, RefusedInv
  <1>12. CASE OnClosed
    BY <1>1, <1>12 DEF OnClosed, RefusedInv
  <1>. QED
    BY <1>4, <1>8, <1>9, <1>10, <1>11, <1>12, DataSteps DEF DataKept

\* As many messages are whole on the wire as it has passed.
WholesInv == Len(Wholes(wire)) = WireEnd[1] - 1

\* What the wire and the count of what is whole on it do in a step.
LEMMA WireSteps ==
    ASSUME TypeOK, HandInv, [Next]_vars
    PROVE  \/ UNCHANGED wire
           \/ \E t \in Threads : NativeSend(t) /\ chan = "open" /\ wire' = Append(wire, hand[1])
  <1>1. ASSUME NEW t \in Threads, NativeSend(t)
        PROVE  \/ UNCHANGED wire
               \/ chan = "open" /\ wire' = Append(wire, hand[1])
    BY <1>1, NativeSendFacts
  <1>2. ASSUME NEW t \in Threads, Take(t) PROVE UNCHANGED wire
    BY <1>2 DEF Take, nativeVars
  <1>3. ASSUME NEW t \in Senders, Push(t) PROVE UNCHANGED wire
    BY <1>3 DEF Push, nativeVars
  <1>4. ASSUME NEW t \in Threads, Clear(t) PROVE UNCHANGED wire
    BY <1>4 DEF Clear, nativeVars
  <1>5. CASE OnClosed
    BY <1>5 DEF OnClosed
  <1>. QED
    BY <1>1, <1>2, <1>3, <1>4, <1>5, DataSteps DEF DataKept

LEMMA WholesStep ==
    ASSUME TypeOK, HandInv, JoinInv, WholesInv, [Next]_vars
    PROVE  WholesInv'
  <1>1. CASE UNCHANGED wire
    BY <1>1 DEF WholesInv, WireEnd, After
  <1>2. ASSUME NEW t \in Threads, NativeSend(t), chan = "open", wire' = Append(wire, hand[1])
        PROVE  WholesInv'
    <2>. DEFINE f == hand[1]
    <2>1. hand # <<>> /\ f \in Frame /\ wire \in Seq(Frame)
      BY <1>2, NativeSendFacts DEF TypeOK
    <2>2. WireEnd = <<f.msg, f.from>>
      BY <1>2, <2>1 DEF JoinInv
    <2>3. wire' = Append(wire, f)
      BY <1>2
    <2>. HIDE DEF f
    <2>4. wire' # <<>> /\ wire'[Len(wire')] = f
      BY <2>1, <2>3
    <2>5. WireEnd' = IF f.more THEN <<f.msg, f.to>> ELSE <<f.msg + 1, 0>>
      BY <2>4 DEF WireEnd, After
    <2>6. /\ Wholes(wire) \in Seq(Nat)
          /\ Wholes(wire') = IF f.more THEN Wholes(wire) ELSE Append(Wholes(wire), f.to)
      BY <2>1, <2>3, WholesAppend
    <2>7. f.msg \in Nat /\ f.to \in Nat
      BY <2>1 DEF Frame
    <2>8. Len(Wholes(wire)) = f.msg - 1
      BY <2>2 DEF WholesInv
    <2>9. CASE f.more
      BY <2>5, <2>6, <2>8, <2>9 DEF WholesInv
    <2>10. CASE ~f.more
      <3>1. WireEnd'[1] = f.msg + 1
        BY <2>5, <2>10
      <3>2. Len(Wholes(wire')) = Len(Wholes(wire)) + 1
        BY <2>6, <2>7, <2>10
      <3>. QED
        BY <2>7, <2>8, <3>1, <3>2 DEF WholesInv
    <2>. QED
      BY <2>9, <2>10
  <1>. QED
    BY <1>1, <1>2, WireSteps

\* Every step of the pump, of its callers and of libwebrtc is a step of the
\* stream, or leaves it alone.
LEMMA StreamStep ==
    ASSUME IInv, WholesInv, [Next]_vars
    PROVE  [Stream!StreamNext]_(Stream!streamVars)
  <1>. USE DEF Stream!StreamNext, Stream!streamVars
  <1>1. TypeOK /\ QueueInv /\ HandInv /\ JoinInv
    BY DEF IInv
  <1>2. CASE UNCHANGED <<accepted, wire>>
    <2>1. UNCHANGED Wholes(wire)
      BY <1>2
    <2>2. CASE UNCHANGED (chan = "open")
      BY <1>2, <2>1, <2>2
    <2>3. CASE ~UNCHANGED (chan = "open")
      <3>1. (chan = "open") = TRUE /\ (chan = "open")' = FALSE
        BY <2>3, NeverReopens
      <3>2. Stream!End
        BY <1>2, <2>1, <3>1 DEF Stream!End
      <3>. QED
        BY <3>2
    <2>. QED
      BY <2>2, <2>3
  <1>3. ASSUME NEW t \in Senders, Push(t) PROVE [Stream!StreamNext]_(Stream!streamVars)
    <2>1. UNCHANGED <<chan, wire>>
      BY <1>3 DEF Push, nativeVars
    <2>2. PICK size \in Sizes : UNCHANGED accepted \/ accepted' = Append(accepted, size)
      BY <1>3 DEF Push, queueVars
    <2>3. CASE UNCHANGED accepted
      BY <1>2, <2>1, <2>3
    <2>4. CASE accepted' = Append(accepted, size)
      <3>1. Stream!Accept
        BY <2>1, <2>4 DEF Stream!Accept
      <3>. QED
        BY <3>1
    <2>. QED
      BY <2>2, <2>3, <2>4
  <1>4. ASSUME NEW t \in Threads, NativeSend(t) PROVE [Stream!StreamNext]_(Stream!streamVars)
    <2>1. UNCHANGED accepted /\ hand # <<>> /\ hand[1] \in Frame
      BY <1>1, <1>4, NativeSendFacts
    <2>2. CASE UNCHANGED wire
      BY <1>2, <2>1, <2>2
    <2>3. CASE ~UNCHANGED wire
      <3>. DEFINE f == hand[1]
      <3>1. /\ chan = "open" /\ chan' = "open" /\ wire' = Append(wire, f)
            /\ f \in Frame /\ wire \in Seq(Frame)
        BY <1>1, <1>4, <2>1, <2>3 DEF NativeSend, TypeOK
      <3>2. WireEnd = <<f.msg, f.from>> /\ Ends(f)
        BY <1>1, <2>1, <3>1 DEF JoinInv
      <3>. HIDE DEF f
      <3>3. /\ Wholes(wire) \in Seq(Nat)
            /\ Wholes(wire)' = IF f.more THEN Wholes(wire) ELSE Append(Wholes(wire), f.to)
        BY <3>1, WholesAppend
      <3>4. CASE f.more
        BY <2>1, <3>1, <3>3, <3>4
      <3>5. CASE ~f.more
        <4>1. /\ f.msg \in Nat /\ Len(Wholes(wire)) = f.msg - 1
              /\ f.msg <= Len(accepted) /\ f.to = accepted[f.msg]
          BY <3>1, <3>2, <3>5 DEF WholesInv, Ends, Frame
        <4>2. Len(accepted) \in Nat
          BY <1>1 DEF TypeOK
        <4>3. /\ Len(Wholes(wire)) < Len(accepted)
              /\ f.to = accepted[Len(Wholes(wire)) + 1]
          BY <4>1, <4>2
        <4>4. Stream!HandOver
          BY <2>1, <3>1, <3>3, <3>5, <4>3 DEF Stream!HandOver
        <4>. QED
          BY <4>4
      <3>. QED
        BY <3>4, <3>5
    <2>. QED
      BY <2>2, <2>3
  <1>5. ASSUME NEW t \in Threads, Take(t) PROVE UNCHANGED <<accepted, wire>>
    BY <1>1, <1>5, TakeFacts
  <1>6. ASSUME NEW t \in Threads, Clear(t) PROVE UNCHANGED <<accepted, wire>>
    BY <1>6 DEF Clear, nativeVars
  <1>7. CASE OnClosed
    <2>1. UNCHANGED <<accepted, wire>>
      BY <1>7 DEF OnClosed
    <2>. QED
      BY <1>2, <2>1
  <1>. QED
    BY <1>2, <1>3, <1>4, <1>5, <1>6, <1>7, DataSteps DEF DataKept

-----------------------------------------------------------------------------
(* The theorems.                                                           *)

\* A drain that reports success, on a channel still open, has left no message
\* with payload accepted before it behind: it counts the bytes of the whole
\* queue (buffered_amount, close), and what is not queued is on the wire, but
\* for the frame another pump is holding.
THEOREM DrainSaysSo == Spec => []DrainedUpToHand
  <1>1. Init => DrainInv /\ DrainedUpToHand
    <2>. SUFFICES ASSUME Init PROVE DrainInv /\ DrainedUpToHand
      OBVIOUS
    <2>1. IInv
      BY InvInit
    <2>2. queue = <<>> /\ queued = 0 /\ wire = <<>>
      BY DEF Init
    <2>3. SumInv /\ PieceInv
      BY <2>2, NothingQueued DEF PieceInv
    <2>4. HandedInv
      BY <2>2 DEF HandedInv, WireEnd
    <2>5. \A t \in Closers : promised[t] = 0 /\ verdict[t] = "none"
      BY DEF Init
    <2>6. Len(accepted) = 0
      BY DEF Init
    <2>7. VerdictInv
      BY <2>5, <2>6 DEF VerdictInv
    <2>8. DrainedUpToHand
      BY <2>5 DEF DrainedUpToHand
    <2>. QED
      BY <2>1, <2>3, <2>4, <2>7, <2>8 DEF DrainInv
  <1>2. DrainInv /\ DrainedUpToHand /\ [Next]_vars => (DrainInv /\ DrainedUpToHand)'
    <2>. SUFFICES ASSUME DrainInv, DrainedUpToHand, [Next]_vars
                  PROVE  DrainInv' /\ DrainedUpToHand'
      OBVIOUS
    <2>1. IInv'
      BY InvStep DEF DrainInv
    <2>2. /\ TypeOK /\ TypeOK' /\ QueueInv /\ HandInv /\ JoinInv
          /\ SumInv /\ PieceInv /\ HandedInv /\ VerdictInv
      BY <2>1 DEF DrainInv, IInv
    <2>3. SumInv' /\ PieceInv'
      BY <2>2, SumStep, PieceStep
    <2>4. HandedInv' /\ VerdictInv'
      BY <2>2, HandedStep, VerdictStep
    <2>5. DrainedUpToHand'
      BY DrainedStep
    <2>. QED
      BY <2>1, <2>3, <2>4, <2>5 DEF DrainInv
  <1>. QED
    BY <1>1, <1>2, PTL DEF Spec

\* SendQueue::queued is what the queue still holds, so it never wraps, and
\* every byte accepted is on the wire, in a pump's hand or in the queue, and in
\* one of them only, for as long as the channel is open (push, next_frame, clear).
THEOREM BytesCounted == Spec => []BytesAccounted
  <1>. DEFINE Inv == IInv /\ SumInv /\ BytesInv
  <1>1. Init => Inv
    <2>. SUFFICES ASSUME Init PROVE Inv
      OBVIOUS
    <2>1. IInv
      BY InvInit
    <2>2. /\ queue = <<>> /\ queued = 0 /\ wire = <<>> /\ hand = <<>> /\ accepted = <<>>
      BY DEF Init
    <2>3. SumInv
      BY <2>2, NothingQueued
    <2>4. BytesInv
      BY <2>2, PayloadEmpty, TotalEmpty DEF BytesInv
    <2>. QED
      BY <2>1, <2>3, <2>4
  <1>2. Inv /\ [Next]_vars => Inv'
    <2>. SUFFICES ASSUME Inv, [Next]_vars PROVE Inv'
      OBVIOUS
    <2>1. IInv'
      BY InvStep
    <2>2. TypeOK /\ QueueInv /\ LockInv /\ HandInv /\ RefusedInv /\ SumInv /\ BytesInv
      BY DEF IInv
    <2>3. SumInv' /\ BytesInv'
      BY <2>2, SumStep, BytesStep
    <2>. QED
      BY <2>1, <2>3
  <1>3. Inv => BytesAccounted
    <2>. SUFFICES ASSUME Inv PROVE BytesAccounted
      OBVIOUS
    <2>1. queued = Remaining
      BY CountIsRemaining DEF IInv
    <2>. QED
      BY <2>1 DEF BytesAccounted, BytesInv
  <1>. QED
    BY <1>1, <1>2, <1>3, PTL DEF Spec

\* The sending half implements the stream its callers are promised: the messages
\* accepted are handed to SCTP whole, once each, in order, while the channel is
\* open (send, pump, next_frame).
THEOREM ImplementsStream == Spec => StreamSpec
  <1>1. Init => IInv /\ WholesInv /\ Stream!StreamInit
    <2>. SUFFICES ASSUME Init PROVE IInv /\ WholesInv /\ Stream!StreamInit
      OBVIOUS
    <2>1. IInv
      BY InvInit
    <2>2. wire = <<>> /\ accepted = <<>> /\ chan = "open"
      BY DEF Init
    <2>3. Wholes(wire) = <<>>
      BY <2>2, WholesEmpty
    <2>4. WholesInv
      BY <2>2, <2>3 DEF WholesInv, WireEnd
    <2>. QED
      BY <2>1, <2>2, <2>3, <2>4 DEF Stream!StreamInit
  <1>2. IInv /\ WholesInv /\ [Next]_vars
        => IInv' /\ WholesInv' /\ [Stream!StreamNext]_(Stream!streamVars)
    BY InvStep, WholesStep, StreamStep DEF IInv
  <1>. QED
    BY <1>1, <1>2, PTL DEF Spec, StreamSpec, Stream!StreamSpec

=============================================================================
