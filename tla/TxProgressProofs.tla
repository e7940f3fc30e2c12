--------------------------- MODULE TxProgressProofs ---------------------------
(***************************************************************************)
(* Proofs about TxProgress, for rings, pools, batches and packets of any   *)
(* size: the device only ever finds whole packets on the tx ring.  What is *)
(* queued is whole because Fit stops between packets, and because a ring   *)
(* from which the device took some descriptors still ends with a packet's  *)
(* last one.                                                               *)
(***************************************************************************)
EXTENDS TxProgress, Integers, SequenceTheorems, WellFoundedInduction, TLAPS

(***************************************************************************)
(* Induction, with the property as the set of the numbers that have it.    *)
(***************************************************************************)
LEMMA LeastNumber ==
    ASSUME NEW T, T \subseteq Nat, T # {}
    PROVE  \E m \in T : \A k \in T : m <= k
<1> DEFINE R == OpToRel(<, Nat)
<1>1. IsWellFoundedOn(R, Nat)
    BY NatLessThanWellFounded
<1>2. \A x, y \in Nat : <<x, y>> \in R <=> x < y
    BY DEF OpToRel
<1> HIDE DEF R
<1>3. PICK m \in T : \A k \in T : ~(<<k, m>> \in R)
    BY <1>1, WFMin, Zenon
<1>4. ASSUME NEW k \in T PROVE m <= k
    <2>1. m \in Nat /\ k \in Nat /\ ~(<<k, m>> \in R)
        BY <1>3
    <2>2. ~(k < m)
        BY <1>2, <2>1, Zenon
    <2> QED BY <2>1, <2>2
<1> QED BY <1>4

LEMMA Induction ==
    ASSUME NEW S, 0 \in S, \A n \in Nat : n \in S => n + 1 \in S
    PROVE  Nat \subseteq S
<1> SUFFICES ASSUME Nat \ S # {} PROVE FALSE
    OBVIOUS
<1>1. PICK m \in Nat \ S : \A k \in Nat \ S : m <= k
    BY LeastNumber
<1>2. m # 0 /\ m - 1 \in Nat /\ m - 1 \in S
    BY <1>1
<1> QED BY <1>1, <1>2

(***************************************************************************)
(* A sequence of sequences, one after the other: FlattenSeq verbatim.      *)
(***************************************************************************)
Flat(seqs) ==
    IF Len(seqs) = 0 THEN seqs ELSE
    LET flatten[i \in 1..Len(seqs)] ==
        IF i = 1 THEN seqs[i] ELSE flatten[i-1] \o seqs[i]
    IN flatten[Len(seqs)]

\* The flattened prefixes, each from the one before.
LEMMA FlatByPrefix ==
    ASSUME NEW S, NEW s \in Seq(Seq(S))
    PROVE  \E f \in [0..Len(s) -> Seq(S)] :
               /\ f[0] = <<>> /\ f[Len(s)] = Flat(s)
               /\ \A i \in 1..Len(s) : f[i] = f[i - 1] \o s[i]
<1> DEFINE Body(f, n) == [i \in 1..n |-> IF i = 1 THEN s[i] ELSE f[i - 1] \o s[i]]
<1> DEFINE T == {n \in Nat : \E f : f = Body(f, n)}
<1>1. Len(s) \in Nat /\ \A i \in 1..Len(s) : s[i] \in Seq(S)
    OBVIOUS
<1>2. 0 \in T
    <2> DEFINE f == [i \in 1..0 |-> <<>>]
    <2>1. f = Body(f, 0)
        OBVIOUS
    <2> QED BY <2>1
<1>3. ASSUME NEW n \in Nat, n \in T PROVE n + 1 \in T
    <2>1. PICK f : f = Body(f, n)
        BY <1>3
    <2> DEFINE g == [i \in 1..(n + 1) |-> IF i # n + 1 THEN f[i]
                                          ELSE IF i = 1 THEN s[i] ELSE f[n] \o s[i]]
    <2>2. \A i \in 1..(n + 1) : g[i] = IF i = 1 THEN s[i] ELSE g[i - 1] \o s[i]
        <3> SUFFICES ASSUME NEW i \in 1..(n + 1) PROVE g[i] = IF i = 1 THEN s[i] ELSE g[i - 1] \o s[i]
            OBVIOUS
        <3>1. CASE i = n + 1
            <4>1. i # 1 => i - 1 = n /\ n \in 1..(n + 1) /\ n # n + 1
                BY <3>1
            <4>2. i # 1 => g[i - 1] = f[n]
                BY <4>1
            <4> QED BY <3>1, <4>2
        <3>2. CASE i # n + 1
            <4>1. i \in 1..n /\ g[i] = f[i]
                BY <3>2
            <4>2. f[i] = IF i = 1 THEN s[i] ELSE f[i - 1] \o s[i]
                BY <2>1, <4>1
            <4>3. i # 1 => g[i - 1] = f[i - 1]
                BY <4>1
            <4> QED BY <4>1, <4>2, <4>3
        <3> QED BY <3>1, <3>2
    <2>3. g = Body(g, n + 1)
        BY <2>2
    <2> HIDE DEF g
    <2> HIDE DEF Body
    <2>4. n + 1 \in Nat /\ \E h : h = Body(h, n + 1)
        BY <2>3
    <2> QED BY <2>4
<1>4. \E f : f = Body(f, Len(s))
    BY <1>1, <1>2, <1>3, Induction
<1> DEFINE flatten == CHOOSE f : f = Body(f, Len(s))
<1>5. flatten = Body(flatten, Len(s))
    BY <1>4
<1>6. Flat(s) = IF Len(s) = 0 THEN s ELSE flatten[Len(s)]
    BY DEF Flat
<1> HIDE DEF flatten
<1> DEFINE f == [i \in 0..Len(s) |-> IF i = 0 THEN <<>> ELSE flatten[i]]
<1>7. f[0] = <<>> /\ f[Len(s)] = Flat(s) /\ DOMAIN f = 0..Len(s)
    BY <1>1, <1>6, EmptySeq
<1>8. \A i \in 1..Len(s) : f[i] = f[i - 1] \o s[i]
    <2> SUFFICES ASSUME NEW i \in 1..Len(s) PROVE f[i] = f[i - 1] \o s[i]
        OBVIOUS
    <2>1. flatten[i] = IF i = 1 THEN s[i] ELSE flatten[i - 1] \o s[i]
        BY <1>5
    <2>2. f[i] = flatten[i] /\ f[i - 1] = IF i = 1 THEN <<>> ELSE flatten[i - 1]
        BY <1>1
    <2>3. <<>> \o s[i] = s[i]
        BY <1>1, ConcatEmptySeq
    <2> HIDE DEF f
    <2> QED BY <2>1, <2>2, <2>3
<1> HIDE DEF f
<1>9. \A i \in 0..Len(s) : f[i] \in Seq(S)
    <2> DEFINE U == {n \in Nat : n <= Len(s) => f[n] \in Seq(S)}
    <2>1. 0 \in U
        <3>1. <<>> \in Seq(S)
            BY EmptySeq
        <3> QED BY <1>7, <3>1
    <2>2. ASSUME NEW n \in Nat, n \in U PROVE n + 1 \in U
        <3> SUFFICES ASSUME n + 1 <= Len(s) PROVE f[n + 1] \in Seq(S)
            OBVIOUS
        <3>1. n + 1 \in 1..Len(s) /\ f[n] \in Seq(S) /\ (n + 1) - 1 = n
            BY <1>1, <2>2
        <3>2. f[n + 1] = f[n] \o s[n + 1] /\ s[n + 1] \in Seq(S)
            BY <1>1, <1>8, <3>1
        <3> QED BY <3>1, <3>2, ConcatProperties
    <2>3. Nat \subseteq U
        <3> HIDE DEF U
        <3> QED BY <2>1, <2>2, Induction
    <2> QED BY <1>1, <2>3
<1>10. f \in [0..Len(s) -> Seq(S)]
    BY <1>7, <1>9 DEF f
<1> QED BY <1>7, <1>8, <1>10

LEMMA FlatEmpty == Flat(<<>>) = <<>>
BY EmptySeq DEF Flat

LEMMA FlattenIsFlat == \A s : FlattenSeq(s) = Flat(s)
BY DEF FlattenSeq, Flat

(***************************************************************************)
(* Runs of descriptors in which every packet ends.                         *)
(***************************************************************************)
\* Within MaxTxSegs of each descriptor one ends a packet.
Closed(s) ==
    \A i \in 1..Len(s) : \E j \in i..Clamp(i + MaxTxSegs - 1, Len(s)) : ~s[j]

LEMMA ChainClosed ==
    ASSUME NEW size \in 1..MaxTxSegs
    PROVE  Chain(size) \in Seq(BOOLEAN) /\ Closed(Chain(size))
<1> DEFINE s == Chain(size)
<1>1. MaxTxSegs \in Nat
    BY TxAssumption
<1>2. s \in Seq(BOOLEAN) /\ Len(s) = size /\ ~s[size]
    <2>1. size \in Nat /\ \A j \in 1..size : (j < size) \in BOOLEAN
        BY <1>1
    <2>2. s \in [1..size -> BOOLEAN]
        BY <2>1, Zenon DEF Chain
    <2>3. s \in Seq(BOOLEAN) /\ Len(s) = size
        BY <2>1, <2>2
    <2>4. size \in 1..size /\ ~(size < size)
        BY <1>1
    <2>5. s[size] = (size < size)
        BY <2>4, Zenon DEF Chain
    <2> QED BY <2>3, <2>4, <2>5, Zenon
<1> HIDE DEF s
<1>3. ASSUME NEW i \in 1..Len(s) PROVE \E j \in i..Clamp(i + MaxTxSegs - 1, Len(s)) : ~s[j]
    <2>1. size \in i..Clamp(i + MaxTxSegs - 1, Len(s))
        BY <1>1, <1>2 DEF Clamp
    <2> QED BY <1>2, <2>1
<1> QED BY <1>2, <1>3 DEF Closed, s

LEMMA ClosedJoined ==
    ASSUME NEW s \in Seq(BOOLEAN), NEW t \in Seq(BOOLEAN), Closed(s), Closed(t)
    PROVE  s \o t \in Seq(BOOLEAN) /\ Len(s \o t) = Len(s) + Len(t) /\ Closed(s \o t)
<1> DEFINE u == s \o t
<1> DEFINE m == Len(s)
<1>1. /\ u \in Seq(BOOLEAN) /\ m \in Nat /\ Len(t) \in Nat /\ Len(u) = m + Len(t)
      /\ \A i \in 1..m : u[i] = s[i]
      /\ \A i \in 1..Len(t) : u[m + i] = t[i]
    OBVIOUS
<1>2. MaxTxSegs \in Nat \ {0}
    BY TxAssumption
<1> HIDE DEF u
<1>3. ASSUME NEW i \in 1..Len(u) PROVE \E j \in i..Clamp(i + MaxTxSegs - 1, Len(u)) : ~u[j]
    <2>1. CASE i <= m
        <3>1. PICK j \in i..Clamp(i + MaxTxSegs - 1, m) : ~s[j]
            BY <1>1, <2>1 DEF Closed
        <3>2. j \in 1..m /\ j \in i..Clamp(i + MaxTxSegs - 1, Len(u))
            BY <1>1, <1>2, <2>1, <3>1 DEF Clamp
        <3>3. ~u[j]
            BY <1>1, <3>1, <3>2
        <3> QED BY <3>2, <3>3
    <2>2. CASE i > m
        <3> DEFINE k == i - m
        <3>1. k \in 1..Len(t) /\ k \in Nat
            BY <1>1, <2>2
        <3>2. PICK j \in k..Clamp(k + MaxTxSegs - 1, Len(t)) : ~t[j]
            BY <3>1 DEF Closed
        <3>3. j \in 1..Len(t) /\ m + j \in i..Clamp(i + MaxTxSegs - 1, Len(u))
            BY <1>1, <1>2, <2>2, <3>1, <3>2 DEF Clamp
        <3>4. ~u[m + j]
            BY <1>1, <3>2, <3>3
        <3> QED BY <3>3, <3>4
    <2> QED BY <1>1, <2>1, <2>2
<1>4. Closed(u)
    BY <1>3 DEF Closed
<1> QED BY <1>1, <1>4 DEF u

\* What the device leaves of a ring, having taken the first n.
LEMMA ClosedSuffix ==
    ASSUME NEW s \in Seq(BOOLEAN), NEW n \in 0..Len(s), Closed(s)
    PROVE  /\ SubSeq(s, n + 1, Len(s)) \in Seq(BOOLEAN)
           /\ Len(SubSeq(s, n + 1, Len(s))) = Len(s) - n
           /\ Closed(SubSeq(s, n + 1, Len(s)))
<1> DEFINE u == SubSeq(s, n + 1, Len(s))
<1>1. Len(s) \in Nat /\ MaxTxSegs \in Nat \ {0} /\ n \in Nat /\ n <= Len(s)
    BY TxAssumption
<1>2. /\ u \in Seq(BOOLEAN) /\ Len(u) = IF n + 1 <= Len(s) THEN Len(s) - (n + 1) + 1 ELSE 0
      /\ \A i \in 1..(Len(s) - (n + 1) + 1) : u[i] = s[(n + 1) + i - 1]
    <2>1. n + 1 \in Int /\ Len(s) \in Int /\ \A i \in (n + 1)..Len(s) : s[i] \in BOOLEAN
        BY <1>1
    <2> QED BY <2>1, SubSeqProperties
<1> HIDE DEF u
<1>3. Len(u) = Len(s) - n
    BY <1>1, <1>2
<1>4. \A i \in 1..Len(u) : u[i] = s[n + i]
    BY <1>1, <1>2, <1>3
<1>5. ASSUME NEW i \in 1..Len(u) PROVE \E j \in i..Clamp(i + MaxTxSegs - 1, Len(u)) : ~u[j]
    <2> DEFINE k == n + i
    <2>1. k \in 1..Len(s)
        BY <1>1, <1>3
    <2>2. PICK j \in k..Clamp(k + MaxTxSegs - 1, Len(s)) : ~s[j]
        BY <2>1 DEF Closed
    <2> DEFINE l == j - n
    <2>3. l \in i..Clamp(i + MaxTxSegs - 1, Len(u)) /\ l \in 1..Len(u) /\ n + l = j
        BY <1>1, <1>3, <2>1, <2>2 DEF Clamp
    <2> HIDE DEF l
    <2>4. ~u[l]
        BY <1>4, <2>2, <2>3
    <2> QED BY <2>3, <2>4
<1>6. Closed(u)
    BY <1>5 DEF Closed
<1> QED BY <1>2, <1>3, <1>6 DEF u

LEMMA ClosedFlat ==
    ASSUME NEW ss \in Seq(Seq(BOOLEAN)), \A i \in 1..Len(ss) : Closed(ss[i])
    PROVE  Flat(ss) \in Seq(BOOLEAN) /\ Closed(Flat(ss))
<1>1. PICK f \in [0..Len(ss) -> Seq(BOOLEAN)] :
          /\ f[0] = <<>> /\ f[Len(ss)] = Flat(ss)
          /\ \A i \in 1..Len(ss) : f[i] = f[i - 1] \o ss[i]
    BY FlatByPrefix
<1>2. Len(ss) \in Nat
    OBVIOUS
<1> DEFINE T == {n \in Nat : n <= Len(ss) => Closed(f[n])}
<1>3. 0 \in T
    <2>1. Len(<<>>) = 0
        OBVIOUS
    <2>2. Closed(<<>>)
        BY <2>1 DEF Closed
    <2> QED BY <1>1, <2>2
<1>4. ASSUME NEW n \in Nat, n \in T PROVE n + 1 \in T
    <2> SUFFICES ASSUME n + 1 <= Len(ss) PROVE Closed(f[n + 1])
        OBVIOUS
    <2>1. /\ n + 1 \in 1..Len(ss) /\ (n + 1) - 1 = n /\ Closed(f[n]) /\ f[n] \in Seq(BOOLEAN)
          /\ ss[n + 1] \in Seq(BOOLEAN) /\ Closed(ss[n + 1])
        <3>1. n + 1 \in 1..Len(ss) /\ (n + 1) - 1 = n /\ n \in 0..Len(ss) /\ Closed(f[n])
            BY <1>2, <1>4
        <3>2. f[n] \in Seq(BOOLEAN)
            BY <3>1
        <3>3. ss[n + 1] \in Seq(BOOLEAN) /\ Closed(ss[n + 1])
            BY <3>1
        <3> QED BY <3>1, <3>2, <3>3
    <2>2. f[n + 1] = f[n] \o ss[n + 1]
        BY <1>1, <2>1
    <2>3. Closed(f[n] \o ss[n + 1])
        BY <2>1, ClosedJoined
    <2> QED BY <2>2, <2>3
<1>5. Len(ss) \in T
    <2> HIDE DEF T
    <2> QED BY <1>2, <1>3, <1>4, Induction
<1>6. Closed(Flat(ss))
    BY <1>1, <1>2, <1>5
<1>7. f[Len(ss)] \in Seq(BOOLEAN)
    <2>1. Len(ss) \in 0..Len(ss)
        BY <1>2
    <2> QED BY <2>1
<1> QED BY <1>1, <1>6, <1>7, Zenon

(***************************************************************************)
(* What is queued of a batch.                                              *)
(***************************************************************************)
\* The batches that are not refused.
Accepted == Seq(1..MaxTxSegs)

LEMMA ChainsClosed ==
    ASSUME NEW batch \in Accepted, NEW n \in 0..Len(batch)
    PROVE  /\ Chains(batch, n) \in Seq(BOOLEAN) /\ Len(Chains(batch, n)) \in Nat
           /\ Closed(Chains(batch, n))
           /\ n = 0 => Len(Chains(batch, n)) = 0
<1> DEFINE ss == [i \in 1..n |-> Chain(batch[i])]
<1>1. n \in Nat /\ \A i \in 1..n : batch[i] \in 1..MaxTxSegs
    <2> DEFINE S == 1..MaxTxSegs
    <2> HIDE DEF S
    <2>1. batch \in Seq(S)
        BY DEF Accepted, S
    <2>2. Len(batch) \in Nat /\ \A i \in 1..Len(batch) : batch[i] \in S
        BY <2>1
    <2>3. n \in Nat /\ \A i \in 1..n : i \in 1..Len(batch)
        BY <2>2
    <2> QED BY <2>2, <2>3 DEF S
<1>2. \A i \in 1..n : Chain(batch[i]) \in Seq(BOOLEAN) /\ Closed(Chain(batch[i]))
    BY <1>1, ChainClosed, Zenon
<1>3. ss \in Seq(Seq(BOOLEAN)) /\ Len(ss) = n /\ \A i \in 1..n : ss[i] = Chain(batch[i])
    BY <1>1, <1>2
<1>4. Chains(batch, n) = Flat(ss)
    BY FlattenIsFlat, Zenon DEF Chains
<1> HIDE DEF ss
<1>5. Flat(ss) \in Seq(BOOLEAN) /\ Closed(Flat(ss))
    BY <1>2, <1>3, ClosedFlat
<1>6. ASSUME n = 0 PROVE Len(Flat(ss)) = 0
    <2>1. ss = <<>>
        BY <1>3, <1>6
    <2>2. Len(<<>>) = 0
        OBVIOUS
    <2> QED BY <2>1, <2>2, FlatEmpty, Zenon
<1>7. Len(Flat(ss)) \in Nat
    BY <1>5
<1> QED BY <1>4, <1>5, <1>6, <1>7

\* The frames of a batch's first packets stay within the budget up to some
\* packet, and with the next one they no longer do.
LEMMA FitExists ==
    ASSUME NEW batch \in Accepted, NEW budget \in Nat
    PROVE  /\ Fit(batch, budget) \in 0..Len(batch)
           /\ Len(Chains(batch, Fit(batch, budget))) <= budget
<1> DEFINE l(n) == Len(Chains(batch, n))
<1>1. Len(batch) \in Nat
    BY DEF Accepted
<1>2. /\ \A n \in 0..Len(batch) : l(n) \in Nat
      /\ l(0) = 0
    <2>1. 0 \in 0..Len(batch)
        BY <1>1
    <2> QED BY <2>1, ChainsClosed, Zenon
<1> HIDE DEF l
<1>3. \E n \in 0..Len(batch) : l(n) <= budget /\ (n = Len(batch) \/ l(n + 1) > budget)
    <2> DEFINE T == {n \in 0..Len(batch) : l(n) > budget}
    <2>1. CASE T = {}
        <3>1. Len(batch) \in 0..Len(batch)
            BY <1>1
        <3>2. l(Len(batch)) <= budget
            BY <1>2, <2>1, <3>1
        <3> QED BY <3>1, <3>2
    <2>2. CASE T # {}
        <3>1. PICK m \in T : \A k \in T : m <= k
            <4>1. T \subseteq Nat
                BY <1>1
            <4> HIDE DEF T
            <4> QED BY <2>2, <4>1, LeastNumber
        <3>2. m # 0 /\ m \in 1..Len(batch)
            BY <1>1, <1>2, <3>1
        <3>3. m - 1 \in 0..Len(batch) /\ ~(m - 1 \in T) /\ (m - 1) + 1 = m
            <4>1. m - 1 \in 0..Len(batch) /\ ~(m <= m - 1) /\ (m - 1) + 1 = m
                BY <1>1, <3>2
            <4> HIDE DEF T
            <4> QED BY <3>1, <4>1
        <3>4. l(m - 1) <= budget /\ l((m - 1) + 1) > budget
            BY <1>2, <3>1, <3>3
        <3> QED BY <3>3, <3>4
    <2> QED BY <2>1, <2>2
<1>4. LET n == Fit(batch, budget)
      IN  n \in 0..Len(batch) /\ l(n) <= budget
    BY <1>3, Zenon DEF Fit, l
<1> QED BY <1>4 DEF l

LEMMA AcceptedBatch ==
    ASSUME binding \in Bindings, NEW batch \in Batches, ~TooLong(batch)
    PROVE  batch \in Accepted
<1>1. PICK n \in 1..MaxCount : batch \in [1..n -> binding.sizes]
    BY DEF Batches
<1>2. n \in Nat /\ MaxTxSegs \in Nat
    BY TxAssumption
<1>3. binding.sizes \subseteq 1..(MaxTxSegs + 1)
    BY TxAssumption
<1> DEFINE sizes == binding.sizes
<1> HIDE DEF sizes
<1>4. DOMAIN batch = 1..n /\ batch = [i \in 1..n |-> batch[i]] /\ \A i \in 1..n : batch[i] \in sizes
    BY <1>1 DEF sizes
<1>5. Len(batch) = n
    BY <1>2, <1>4
<1>6. \A i \in 1..n : batch[i] \in 1..MaxTxSegs
    <2> SUFFICES ASSUME NEW i \in 1..n PROVE batch[i] \in 1..MaxTxSegs
        OBVIOUS
    <2>1. batch[i] \in 1..(MaxTxSegs + 1)
        BY <1>3, <1>4 DEF sizes
    <2>2. ~(batch[i] > MaxTxSegs)
        BY <1>5 DEF TooLong
    <2> QED BY <1>2, <2>1, <2>2
<1>7. batch \in [1..n -> 1..MaxTxSegs]
    <2> DEFINE S == 1..MaxTxSegs
    <2> HIDE DEF S
    <2>1. \A i \in 1..n : batch[i] \in S
        BY <1>6 DEF S
    <2>2. batch \in [1..n -> S]
        BY <1>4, <2>1
    <2> QED BY <2>2 DEF S
<1> QED BY <1>2, <1>7 DEF Accepted

(***************************************************************************)
(* The inductive invariant.                                                *)
(***************************************************************************)
Typed ==
    /\ binding \in Bindings
    /\ pool \in Nat /\ inFlight \in Nat /\ completed \in Nat
    /\ held \in Seq(BOOLEAN) /\ ring \in Seq(BOOLEAN)
    /\ pc \in {"ready", "alloc", "publish", "decide", "kick"}
    /\ retries \in 0..KickBudget
    /\ parked \in BOOLEAN /\ flagged \in BOOLEAN /\ stopped \in BOOLEAN

\* Every frame is in one place, what was allocated fits the ring, and what
\* the device took fits the completion ring.
Counted ==
    /\ pool + Len(held) + Len(ring) + inFlight + completed = TxFrames
    /\ Len(held) + Len(ring) <= TxRingNumDescs
    /\ inFlight + completed <= CompletionRingNumDescs

\* What is about to be queued is whole too, and it is only held meanwhile.
Chained ==
    /\ Closed(held) /\ Closed(ring)
    /\ pc # "publish" => held = <<>>

IInv == Typed /\ Counted /\ Chained

LEMMA Constants ==
    /\ TxFrames \in Nat \ {0} /\ TxRingNumDescs \in Nat \ {0} /\ CompletionRingNumDescs \in Nat \ {0}
    /\ KickBudget \in Nat \ {0} /\ MaxTxSegs \in Nat \ {0}
BY TxAssumption

LEMMA ClosedNone == <<>> \in Seq(BOOLEAN) /\ Len(<<>>) = 0 /\ Closed(<<>>)
<1>1. Len(<<>>) = 0 /\ <<>> \in Seq(BOOLEAN)
    OBVIOUS
<1> QED BY <1>1 DEF Closed

LEMMA InitInvariant == Init => IInv
<1> SUFFICES ASSUME Init PROVE IInv
    OBVIOUS
<1>1. /\ binding \in Bindings /\ pool = TxFrames /\ held = <<>> /\ ring = <<>> /\ inFlight = 0
      /\ completed = 0 /\ pc = "ready" /\ retries = 0 /\ stopped = FALSE
    BY DEF Init
<1>2. /\ held \in Seq(BOOLEAN) /\ ring \in Seq(BOOLEAN) /\ Len(held) = 0 /\ Len(ring) = 0
      /\ Closed(held) /\ Closed(ring)
    BY <1>1, ClosedNone, Zenon
<1>3. parked \in BOOLEAN /\ flagged \in BOOLEAN
    <2>1. parked = binding.zeroCopy /\ flagged = binding.needWakeup
        BY DEF Init, ZeroCopy, NeedWakeup
    <2>2. binding \in [zeroCopy : BOOLEAN, needWakeup : BOOLEAN, sizes : SUBSET (1..(MaxTxSegs + 1))]
        BY <1>1, TxAssumption
    <2> QED BY <2>1, <2>2, Zenon
<1>4. stopped \in BOOLEAN
    BY <1>1
<1>5. Typed
    BY <1>1, <1>2, <1>3, <1>4, Constants DEF Typed
<1>6. Counted
    BY <1>1, <1>2, Constants DEF Counted
<1>7. Chained
    BY <1>1, <1>2 DEF Chained
<1> QED BY <1>5, <1>6, <1>7 DEF IInv

\* A step that leaves every frame where it was.
LEMMA FramesKept ==
    ASSUME IInv, UNCHANGED <<frames, binding>>, pc' = "publish" <=> pc = "publish"
    PROVE  Counted' /\ Chained' /\ UNCHANGED <<pool, held, ring, inFlight, completed>>
<1>1. UNCHANGED <<pool, held, ring, inFlight, completed>>
    BY DEF frames
<1> QED BY <1>1 DEF IInv, Counted, Chained, Closed

\* The two ways a step ends in a decision to kick.
LEMMA KickDecided ==
    ASSUME Typed, KickIfNeeded
    PROVE  pc' \in {"kick", "ready"} /\ retries' \in 0..KickBudget
BY Constants DEF Typed, KickIfNeeded

LEMMA KickGoesOn ==
    ASSUME Typed, KickAgain
    PROVE  pc' \in {"kick", "ready"} /\ retries' \in 0..KickBudget
BY Constants DEF Typed, KickAgain

\* Steps that only move the caller, the driver or the kick.
LEMMA ControlKeeps ==
    ASSUME IInv,
           \/ SendRingFull \/ TransmitKick \/ CallerStops \/ SendtoBusy \/ SendtoWakes
           \/ DriverAdvertises \/ DriverParks
           \/ \E batch \in Batches : SendRejects(batch)
    PROVE  IInv'
<1>1. UNCHANGED <<frames, binding>>
    BY DEF SendRingFull, TransmitKick, CallerStops, SendtoBusy, SendtoWakes,
           DriverAdvertises, DriverParks, SendRejects, caller
<1>2. /\ pc' = "publish" <=> pc = "publish"
      /\ pc' \in {"ready", "alloc", "publish", "decide", "kick"}
      /\ retries' \in 0..KickBudget
    <2>1. Typed
        BY DEF IInv
    <2>2. CASE SendRingFull \/ TransmitKick
        BY <2>1, <2>2, KickDecided DEF SendRingFull, TransmitKick
    <2>3. CASE SendtoBusy
        BY <2>1, <2>3, KickGoesOn DEF SendtoBusy
    <2>4. CASE \/ CallerStops \/ SendtoWakes \/ DriverAdvertises \/ DriverParks
               \/ \E batch \in Batches : SendRejects(batch)
        BY <2>1, <2>4, Constants DEF CallerStops, SendtoWakes, DriverAdvertises, DriverParks, SendRejects, Typed
    <2> QED BY <2>2, <2>3, <2>4
<1>3. parked' \in BOOLEAN /\ flagged' \in BOOLEAN /\ stopped' \in BOOLEAN
    <2>1. parked \in BOOLEAN /\ flagged \in BOOLEAN /\ stopped \in BOOLEAN
        BY DEF IInv, Typed
    <2>2. /\ parked' = parked \/ parked' = TRUE \/ parked' = FALSE
          /\ flagged' = flagged \/ flagged' = TRUE \/ flagged' = FALSE
          /\ stopped' = stopped \/ stopped' = TRUE
        BY DEF SendRingFull, TransmitKick, CallerStops, SendtoBusy, SendtoWakes,
               DriverAdvertises, DriverParks, SendRejects, caller, driver
    <2> QED BY <2>1, <2>2, Zenon
<1>4. Counted' /\ Chained' /\ UNCHANGED <<pool, held, ring, inFlight, completed>>
    BY <1>1, <1>2, FramesKept
<1>5. Typed'
    BY <1>1, <1>2, <1>3, <1>4 DEF IInv, Typed
<1> QED BY <1>4, <1>5 DEF IInv

\* Completed frames come home.
LEMMA SendBeginKeeps ==
    ASSUME IInv, SendBegin
    PROVE  IInv'
<1>1. /\ pc = "ready" /\ pool' = pool + completed /\ completed' = 0 /\ pc' = "alloc"
      /\ UNCHANGED <<held, ring, inFlight, retries, parked, flagged, stopped, binding>>
    BY DEF SendBegin, driver, caller
<1>2. Len(held) \in Nat /\ Len(ring) \in Nat
    BY DEF IInv, Typed
<1>3. Typed'
    BY <1>1 DEF IInv, Typed
<1>4. Counted'
    BY <1>1, <1>2, Constants DEF IInv, Typed, Counted
<1>5. Chained'
    BY <1>1 DEF IInv, Chained, Closed
<1> QED BY <1>3, <1>4, <1>5 DEF IInv

\* What is allocated is what whole packets need, of the ring and of the pool.
LEMMA SendAllocKeeps ==
    ASSUME IInv, NEW batch \in Batches, SendAlloc(batch)
    PROVE  IInv'
<1> DEFINE wanted    == Len(Chains(batch, Fit(batch, FreeTxSlots)))
<1> DEFINE allocated == Clamp(wanted, pool)
<1> DEFINE got       == Chains(batch, Fit(batch, allocated))
<1>1. /\ pc = "alloc" /\ ~TooLong(batch) /\ held' = got /\ pool' = pool - Len(got)
      /\ pc' = IF got = <<>> THEN "ready" ELSE "publish"
      /\ UNCHANGED <<ring, inFlight, completed, retries, parked, flagged, stopped, binding>>
    BY DEF SendAlloc, driver, caller
<1>2. Typed /\ held = <<>> /\ batch \in Accepted
    BY <1>1, AcceptedBatch DEF IInv, Typed, Chained
<1>3. FreeTxSlots \in Nat /\ Len(held) = 0 /\ Len(ring) \in Nat /\ pool \in Nat
      /\ FreeTxSlots = TxRingNumDescs - Len(ring)
    <2>1. Len(ring) \in Nat /\ Len(held) = 0 /\ pool \in Nat
        BY <1>2, ClosedNone DEF Typed
    <2>2. Len(ring) <= TxRingNumDescs
        BY <2>1, Constants DEF IInv, Counted
    <2> QED BY <2>1, <2>2, Constants DEF FreeTxSlots
<1>4. wanted \in Nat /\ wanted <= FreeTxSlots
    <2> DEFINE n == Fit(batch, FreeTxSlots)
    <2>1. n \in 0..Len(batch) /\ wanted <= FreeTxSlots
        BY <1>2, <1>3, FitExists, Zenon
    <2> HIDE DEF n
    <2>2. Len(Chains(batch, n)) \in Nat
        BY <1>2, <2>1, ChainsClosed
    <2> QED BY <2>1, <2>2 DEF n
<1> HIDE DEF wanted
<1>5. allocated \in Nat /\ allocated <= wanted /\ allocated <= pool
    BY <1>3, <1>4 DEF Clamp
<1> HIDE DEF allocated
<1>6. got \in Seq(BOOLEAN) /\ Len(got) \in Nat /\ Len(got) <= allocated /\ Closed(got)
    <2> DEFINE n == Fit(batch, allocated)
    <2>1. n \in 0..Len(batch) /\ Len(got) <= allocated
        BY <1>2, <1>5, FitExists, Zenon
    <2> HIDE DEF n
    <2>2. /\ Chains(batch, n) \in Seq(BOOLEAN) /\ Len(Chains(batch, n)) \in Nat
          /\ Closed(Chains(batch, n))
        BY <1>2, <2>1, ChainsClosed
    <2> QED BY <2>1, <2>2 DEF n
<1> HIDE DEF got
<1>7. pool - Len(got) \in Nat /\ Len(got) + Len(ring) <= TxRingNumDescs
    BY <1>3, <1>4, <1>5, <1>6, Constants
<1>8. Typed'
    BY <1>1, <1>2, <1>6, <1>7 DEF Typed
<1>9. Counted'
    <2>1. Len(held') = Len(got)
        BY <1>1
    <2> QED BY <1>1, <1>2, <1>3, <1>6, <1>7, <2>1, Constants DEF IInv, Typed, Counted
<1>10. Chained'
    <2>1. Closed(held)' /\ Closed(ring)'
        BY <1>1, <1>6 DEF IInv, Chained, Closed
    <2>2. pc' # "publish" => held' = <<>>
        BY <1>1
    <2> QED BY <2>1, <2>2 DEF Chained
<1> QED BY <1>8, <1>9, <1>10 DEF IInv

LEMMA TransmitPublishKeeps ==
    ASSUME IInv, TransmitPublish
    PROVE  IInv'
<1>1. /\ ring' = ring \o held /\ held' = <<>> /\ pc' = "decide"
      /\ UNCHANGED <<pool, inFlight, completed, retries, parked, flagged, stopped, binding>>
    BY DEF TransmitPublish, driver, caller
<1>2. /\ ring \in Seq(BOOLEAN) /\ held \in Seq(BOOLEAN) /\ Closed(ring) /\ Closed(held)
      /\ Len(ring) \in Nat /\ Len(held) \in Nat
    BY DEF IInv, Typed, Chained
<1>3. ring' \in Seq(BOOLEAN) /\ Len(ring') = Len(ring) + Len(held) /\ Closed(ring')
    <2>1. /\ ring \o held \in Seq(BOOLEAN) /\ Len(ring \o held) = Len(ring) + Len(held)
          /\ Closed(ring \o held)
        BY <1>2, ClosedJoined
    <2> QED BY <1>1, <2>1
<1>4. held' \in Seq(BOOLEAN) /\ Len(held') = 0 /\ Closed(held')
    BY <1>1, ClosedNone
<1>5. Typed'
    BY <1>1, <1>3, <1>4 DEF IInv, Typed
<1>6. Counted'
    BY <1>1, <1>2, <1>3, <1>4, Constants DEF IInv, Typed, Counted
<1>7. Chained'
    BY <1>1, <1>3, <1>4 DEF Chained
<1> QED BY <1>5, <1>6, <1>7 DEF IInv

\* The device takes from the front, by a sendto or on its own.
LEMMA DeviceTakes ==
    ASSUME IInv, NEW n \in Nat, n <= Len(ring), n <= CompletionSpace, Takes(n),
           UNCHANGED <<pool, held, completed, stopped, binding>>,
           parked' \in BOOLEAN, flagged' \in BOOLEAN,
           pc' \in {"ready", "alloc", "publish", "decide", "kick"}, retries' \in 0..KickBudget,
           pc' = "publish" <=> pc = "publish"
    PROVE  IInv'
<1>1. Len(ring) \in Nat /\ Len(held) \in Nat /\ n \in 0..Len(ring) /\ ring \in Seq(BOOLEAN) /\ Closed(ring)
    BY DEF IInv, Typed, Chained
<1>2. ring' \in Seq(BOOLEAN) /\ Len(ring') = Len(ring) - n /\ Closed(ring') /\ inFlight' = inFlight + n
    <2>1. ring' = SubSeq(ring, n + 1, Len(ring)) /\ inFlight' = inFlight + n
        BY DEF Takes
    <2>2. /\ SubSeq(ring, n + 1, Len(ring)) \in Seq(BOOLEAN)
          /\ Len(SubSeq(ring, n + 1, Len(ring))) = Len(ring) - n
          /\ Closed(SubSeq(ring, n + 1, Len(ring)))
        BY <1>1, ClosedSuffix
    <2> QED BY <2>1, <2>2, Zenon
<1>3. Typed'
    BY <1>2 DEF IInv, Typed
<1>4. Counted'
    <2>1. n <= CompletionRingNumDescs - completed - inFlight
        BY DEF CompletionSpace
    <2>2. Len(held') = Len(held) /\ pool' = pool /\ completed' = completed
        OBVIOUS
    <2> QED BY <1>1, <1>2, <2>1, <2>2, Constants, SMTT(60) DEF IInv, Typed, Counted
<1>5. Chained'
    <2>1. Closed(held') /\ (pc' # "publish" => held' = <<>>)
        BY DEF IInv, Chained
    <2> QED BY <1>2, <2>1 DEF Chained
<1> QED BY <1>3, <1>4, <1>5 DEF IInv

LEMMA DrainKeeps ==
    ASSUME IInv, \/ \E n \in 1..TxRingNumDescs : SendtoDrains(n)
                 \/ SendtoDropped \/ DriverSends
    PROVE  IInv'
<1>1. Typed /\ Len(ring) \in Nat /\ CompletionSpace \in Int
    BY Constants DEF IInv, Typed, CompletionSpace
<1>2. parked \in BOOLEAN /\ flagged \in BOOLEAN
    BY DEF IInv, Typed
<1>3. ASSUME NEW n \in 1..TxRingNumDescs, SendtoDrains(n) PROVE IInv'
    <2>1. n \in Nat /\ n <= Clamp(Len(ring), CompletionSpace) /\ Takes(n)
        BY <1>3, Constants DEF SendtoDrains
    <2>2. n <= Len(ring) /\ n <= CompletionSpace
        BY <1>1, <2>1 DEF Clamp
    <2>3. /\ UNCHANGED <<pool, held, completed, parked, flagged, stopped, binding>> /\ pc = "kick"
          /\ parked' \in BOOLEAN /\ flagged' \in BOOLEAN
        BY <1>2, <1>3 DEF SendtoDrains, driver, caller
    <2>4. pc' \in {"ready", "kick"} /\ retries' \in 0..KickBudget
        <3>1. CASE Len(ring) = n
            BY <1>3, <3>1, Constants DEF SendtoDrains
        <3>2. CASE Len(ring) # n
            BY <1>1, <1>3, <3>2, KickGoesOn DEF SendtoDrains
        <3> QED BY <3>1, <3>2
    <2> QED BY <2>1, <2>2, <2>3, <2>4, DeviceTakes
<1>4. CASE SendtoDropped
    <2>1. /\ Takes(1) /\ ring # <<>> /\ CompletionSpace > 0 /\ pc = "kick" /\ pc' = "ready" /\ retries' = 0
          /\ UNCHANGED <<pool, held, completed, parked, flagged, stopped, binding>>
        BY <1>4 DEF SendtoDropped, driver, caller
    <2>2. 1 \in Nat /\ 1 <= Len(ring) /\ 1 <= CompletionSpace /\ retries' \in 0..KickBudget
        BY <1>1, <2>1, Constants DEF Typed
    <2>3. parked' \in BOOLEAN /\ flagged' \in BOOLEAN
        BY <1>2, <2>1
    <2> QED BY <2>1, <2>2, <2>3, DeviceTakes
<1>5. CASE DriverSends
    <2>1. /\ Takes(1) /\ ring # <<>> /\ CompletionSpace > 0
          /\ UNCHANGED <<pool, held, completed, pc, retries, parked, flagged, stopped, binding>>
        BY <1>5 DEF DriverSends, driver, caller
    <2>2. 1 \in Nat /\ 1 <= Len(ring) /\ 1 <= CompletionSpace
        BY <1>1, <2>1 DEF Typed
    <2>3. parked' \in BOOLEAN /\ flagged' \in BOOLEAN
        BY <1>2, <2>1
    <2>4. pc' \in {"ready", "alloc", "publish", "decide", "kick"} /\ retries' \in 0..KickBudget
        BY <1>1, <2>1 DEF Typed
    <2> QED BY <2>1, <2>2, <2>3, <2>4, DeviceTakes
<1> QED BY <1>3, <1>4, <1>5

LEMMA DeviceCompletesKeeps ==
    ASSUME IInv, DeviceCompletes
    PROVE  IInv'
<1>1. /\ inFlight > 0 /\ inFlight' = inFlight - 1 /\ completed' = completed + 1
      /\ UNCHANGED <<pool, held, ring, pc, retries, parked, flagged, stopped, binding>>
    BY DEF DeviceCompletes, driver, caller
<1>2. Typed'
    BY <1>1 DEF IInv, Typed
<1>3. Counted'
    <2>1. Len(held) \in Nat /\ Len(ring) \in Nat
        BY DEF IInv, Typed
    <2> QED BY <1>1, <2>1, Constants DEF IInv, Typed, Counted
<1>4. Chained'
    BY <1>1 DEF IInv, Chained, Closed
<1> QED BY <1>2, <1>3, <1>4 DEF IInv

LEMMA NextInvariant == IInv /\ [Next]_vars => IInv'
<1> SUFFICES ASSUME IInv, [Next]_vars PROVE IInv'
    OBVIOUS
<1>1. CASE SendBegin
    BY <1>1, SendBeginKeeps
<1>2. CASE \E batch \in Batches : SendAlloc(batch)
    BY <1>2, SendAllocKeeps
<1>3. CASE TransmitPublish
    BY <1>3, TransmitPublishKeeps
<1>4. CASE \/ SendRingFull \/ TransmitKick \/ CallerStops \/ SendtoBusy \/ SendtoWakes
           \/ DriverAdvertises \/ DriverParks
           \/ \E batch \in Batches : SendRejects(batch)
    BY <1>4, ControlKeeps
<1>5. CASE (\E n \in 1..TxRingNumDescs : SendtoDrains(n)) \/ SendtoDropped \/ DriverSends
    BY <1>5, DrainKeeps
<1>6. CASE DeviceCompletes
    BY <1>6, DeviceCompletesKeeps
<1>7. CASE UNCHANGED vars
    <2>1. UNCHANGED <<pool, held, ring, inFlight, completed, pc, retries, parked, flagged, stopped, binding>>
        BY <1>7 DEF vars, frames, driver, caller
    <2> QED BY <2>1 DEF IInv, Typed, Counted, Chained, Closed
<1> QED BY <1>1, <1>2, <1>3, <1>4, <1>5, <1>6, <1>7 DEF Next, Send, Kick, Device

\* No frame of the transmit side is lost or counted twice, and neither ring is
\* overfilled, whatever is sent, refused or left over (multibuffer.go:
\* sendBatchSG; socket.go: SendFunc, Transmit, Kick, Complete).
THEOREM Invariant == Spec => []IInv
BY InitInvariant, NextInvariant, PTL DEF Spec

\* The types of TxProgress hold in every reachable state; the bounds on its
\* counters follow from the count of the frames.
THEOREM TypeCorrect == Spec => []TypeOK
<1>1. IInv => TypeOK
    <2> SUFFICES ASSUME IInv PROVE TypeOK
        OBVIOUS
    <2>1. Len(held) \in Nat /\ Len(ring) \in Nat
        BY DEF IInv, Typed
    <2>2. /\ pool \in 0..TxFrames /\ Len(held) <= TxFrames /\ Len(ring) <= TxRingNumDescs
          /\ inFlight \in 0..CompletionRingNumDescs /\ completed \in 0..CompletionRingNumDescs
        BY <2>1, Constants DEF IInv, Typed, Counted
    <2> QED BY <2>2 DEF TypeOK, IInv, Typed
<1> QED BY <1>1, Invariant, PTL

\* The device never finds the tail of a packet missing on the tx ring, nor a
\* packet of more frames than it accepts, however ring, pool and batch cut the
\* call short (multibuffer.go: sendBatchSG).
THEOREM ChainsAreWhole == Spec => []ChainsWhole
<1>1. IInv => ChainsWhole
    BY DEF IInv, Chained, Closed, ChainsWhole
<1> QED BY <1>1, Invariant, PTL
=============================================================================
