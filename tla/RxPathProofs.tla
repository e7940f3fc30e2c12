------------------------------ MODULE RxPathProofs ------------------------------
(***************************************************************************)
(* Proofs about RxPath, for rings, packets and budgets of any size.        *)
(*                                                                         *)
(* What ReceivePackets cuts out of a run of fragments is found by          *)
(* induction over the run.  That it starts where a packet starts, however  *)
(* the budgets fall, is a fact about the whole line of fragments from the  *)
(* application's hands to the one the driver receives next.                *)
(***************************************************************************)
EXTENDS RxPath, Integers, SequenceTheorems, WellFoundedInduction, TLAPS

(***************************************************************************)
(* Induction, with the property as the set of the numbers that have it.    *)
(***************************************************************************)
LEMMA LeastNumber ==
    ASSUME NEW T, T \subseteq Nat, T # {}
    PROVE  \E m \in T : \A k \in T : m <= k
<1> DEFINE R == OpToRel(<, Nat)
<1>1. IsWellFoundedOn(R, Nat)
    BY NatLessThanWellFounded
<1>2. \A x, y \in Nat : <<x, y>> \in R <=> x < y
    BY DEF OpToRel
<1> HIDE DEF R
<1>3. PICK m \in T : \A k \in T : ~(<<k, m>> \in R)
    BY <1>1, WFMin, Zenon
<1>4. ASSUME NEW k \in T PROVE m <= k
    <2>1. m \in Nat /\ k \in Nat /\ ~(<<k, m>> \in R)
        BY <1>3
    <2>2. ~(k < m)
        BY <1>2, <2>1, Zenon
    <2> QED BY <2>1, <2>2
<1> QED BY <1>4

LEMMA Induction ==
    ASSUME NEW S, 0 \in S, \A n \in Nat : n \in S => n + 1 \in S
    PROVE  Nat \subseteq S
<1> SUFFICES ASSUME Nat \ S # {} PROVE FALSE
    OBVIOUS
<1>1. PICK m \in Nat \ S : \A k \in Nat \ S : m <= k
    BY LeastNumber
<1>2. m # 0 /\ m - 1 \in Nat /\ m - 1 \in S
    BY <1>1
<1> QED BY <1>1, <1>2

(***************************************************************************)
(* A sequence of sequences, one after the other: FlattenSeq verbatim.      *)
(***************************************************************************)
Flat(seqs) ==
    IF Len(seqs) = 0 THEN seqs ELSE
    LET flatten[i \in 1..Len(seqs)] ==
        IF i = 1 THEN seqs[i] ELSE flatten[i-1] \o seqs[i]
    IN flatten[Len(seqs)]

\* The flattened prefixes, each from the one before.
LEMMA FlatByPrefix ==
    ASSUME NEW S, NEW s \in Seq(Seq(S))
    PROVE  \E f \in [0..Len(s) -> Seq(S)] :
               /\ f[0] = <<>> /\ f[Len(s)] = Flat(s)
               /\ \A i \in 1..Len(s) : f[i] = f[i - 1] \o s[i]
<1> DEFINE Body(f, n) == [i \in 1..n |-> IF i = 1 THEN s[i] ELSE f[i - 1] \o s[i]]
<1> DEFINE T == {n \in Nat : \E f : f = Body(f, n)}
<1>1. Len(s) \in Nat /\ \A i \in 1..Len(s) : s[i] \in Seq(S)
    OBVIOUS
<1>2. 0 \in T
    <2> DEFINE f == [i \in 1..0 |-> <<>>]
    <2>1. f = Body(f, 0)
        OBVIOUS
    <2> QED BY <2>1
<1>3. ASSUME NEW n \in Nat, n \in T PROVE n + 1 \in T
    <2>1. PICK f : f = Body(f, n)
        BY <1>3
    <2> DEFINE g == [i \in 1..(n + 1) |-> IF i # n + 1 THEN f[i]
                                          ELSE IF i = 1 THEN s[i] ELSE f[n] \o s[i]]
    <2>2. \A i \in 1..(n + 1) : g[i] = IF i = 1 THEN s[i] ELSE g[i - 1] \o s[i]
        <3> SUFFICES ASSUME NEW i \in 1..(n + 1) PROVE g[i] = IF i = 1 THEN s[i] ELSE g[i - 1] \o s[i]
            OBVIOUS
        <3>1. CASE i = n + 1
            <4>1. i # 1 => i - 1 = n /\ n \in 1..(n + 1) /\ n # n + 1
                BY <3>1
            <4>2. i # 1 => g[i - 1] = f[n]
                BY <4>1
            <4> QED BY <3>1, <4>2
        <3>2. CASE i # n + 1
            <4>1. i \in 1..n /\ g[i] = f[i]
                BY <3>2
            <4>2. f[i] = IF i = 1 THEN s[i] ELSE f[i - 1] \o s[i]
                BY <2>1, <4>1
            <4>3. i # 1 => g[i - 1] = f[i - 1]
                BY <4>1
            <4> QED BY <4>1, <4>2, <4>3
        <3> QED BY <3>1, <3>2
    <2>3. g = Body(g, n + 1)
        BY <2>2
    <2> HIDE DEF g
    <2> HIDE DEF Body
    <2>4. n + 1 \in Nat /\ \E h : h = Body(h, n + 1)
        BY <2>3
    <2> QED BY <2>4
<1>4. \E f : f = Body(f, Len(s))
    BY <1>1, <1>2, <1>3, Induction
<1> DEFINE flatten == CHOOSE f : f = Body(f, Len(s))
<1>5. flatten = Body(flatten, Len(s))
    BY <1>4
<1>6. Flat(s) = IF Len(s) = 0 THEN s ELSE flatten[Len(s)]
    BY DEF Flat
<1> HIDE DEF flatten
<1> DEFINE f == [i \in 0..Len(s) |-> IF i = 0 THEN <<>> ELSE flatten[i]]
<1>7. f[0] = <<>> /\ f[Len(s)] = Flat(s) /\ DOMAIN f = 0..Len(s)
    BY <1>1, <1>6, EmptySeq
<1>8. \A i \in 1..Len(s) : f[i] = f[i - 1] \o s[i]
    <2> SUFFICES ASSUME NEW i \in 1..Len(s) PROVE f[i] = f[i - 1] \o s[i]
        OBVIOUS
    <2>1. flatten[i] = IF i = 1 THEN s[i] ELSE flatten[i - 1] \o s[i]
        BY <1>5
    <2>2. f[i] = flatten[i] /\ f[i - 1] = IF i = 1 THEN <<>> ELSE flatten[i - 1]
        BY <1>1
    <2>3. <<>> \o s[i] = s[i]
        BY <1>1, ConcatEmptySeq
    <2> HIDE DEF f
    <2> QED BY <2>1, <2>2, <2>3
<1> HIDE DEF f
<1>9. \A i \in 0..Len(s) : f[i] \in Seq(S)
    <2> DEFINE U == {n \in Nat : n <= Len(s) => f[n] \in Seq(S)}
    <2>1. 0 \in U
        <3>1. <<>> \in Seq(S)
            BY EmptySeq
        <3> QED BY <1>7, <3>1
    <2>2. ASSUME NEW n \in Nat, n \in U PROVE n + 1 \in U
        <3> SUFFICES ASSUME n + 1 <= Len(s) PROVE f[n + 1] \in Seq(S)
            OBVIOUS
        <3>1. n + 1 \in 1..Len(s) /\ f[n] \in Seq(S) /\ (n + 1) - 1 = n
            BY <1>1, <2>2
        <3>2. f[n + 1] = f[n] \o s[n + 1] /\ s[n + 1] \in Seq(S)
            BY <1>1, <1>8, <3>1
        <3> QED BY <3>1, <3>2, ConcatProperties
    <2>3. Nat \subseteq U
        <3> HIDE DEF U
        <3> QED BY <2>1, <2>2, Induction
    <2> QED BY <1>1, <2>3
<1>10. f \in [0..Len(s) -> Seq(S)]
    BY <1>7, <1>9 DEF f
<1> QED BY <1>7, <1>8, <1>10

LEMMA FlatEmpty == Flat(<<>>) = <<>>
BY EmptySeq DEF Flat

LEMMA FlatAppend ==
    ASSUME NEW S, NEW s \in Seq(Seq(S)), NEW t \in Seq(S)
    PROVE  /\ Flat(s) \in Seq(S) /\ Append(s, t) \in Seq(Seq(S))
           /\ Flat(Append(s, t)) = Flat(s) \o t
<1> DEFINE a == Append(s, t)
<1>1. /\ a \in Seq(Seq(S)) /\ Len(a) = Len(s) + 1 /\ Len(s) \in Nat
      /\ (\A i \in 1..Len(s) : a[i] = s[i]) /\ a[Len(s) + 1] = t
    BY AppendProperties
<1> HIDE DEF a
<1>2. PICK f \in [0..Len(s) -> Seq(S)] :
          f[0] = <<>> /\ f[Len(s)] = Flat(s) /\ \A i \in 1..Len(s) : f[i] = f[i - 1] \o s[i]
    BY FlatByPrefix
<1>3. PICK g \in [0..Len(a) -> Seq(S)] :
          g[0] = <<>> /\ g[Len(a)] = Flat(a) /\ \A i \in 1..Len(a) : g[i] = g[i - 1] \o a[i]
    BY <1>1, FlatByPrefix
<1> DEFINE T == {n \in Nat : n <= Len(s) => g[n] = f[n]}
<1>4. 0 \in T
    BY <1>2, <1>3
<1>5. ASSUME NEW n \in Nat, n \in T PROVE n + 1 \in T
    <2> SUFFICES ASSUME n + 1 <= Len(s) PROVE g[n + 1] = f[n + 1]
        OBVIOUS
    <2>1. /\ n + 1 \in 1..Len(s) /\ n + 1 \in 1..Len(a) /\ (n + 1) - 1 = n
          /\ g[n] = f[n] /\ a[n + 1] = s[n + 1]
        BY <1>1, <1>5
    <2>2. f[n + 1] = f[n] \o s[n + 1] /\ g[n + 1] = g[n] \o a[n + 1]
        BY <1>2, <1>3, <2>1
    <2> QED BY <2>1, <2>2
<1>6. g[Len(s)] = f[Len(s)]
    <2>1. Nat \subseteq T
        <3> HIDE DEF T
        <3> QED BY <1>4, <1>5, Induction
    <2>2. Len(s) \in T
        BY <1>1, <2>1
    <2> QED BY <1>1, <2>2
<1>7. g[Len(s) + 1] = g[Len(s)] \o t
    <2>1. Len(s) + 1 \in 1..Len(a) /\ (Len(s) + 1) - 1 = Len(s)
        BY <1>1
    <2>2. g[Len(s) + 1] = g[(Len(s) + 1) - 1] \o a[Len(s) + 1]
        BY <1>3, <2>1
    <2> QED BY <1>1, <2>1, <2>2
<1>8. Flat(s) \in Seq(S)
    <2>1. Len(s) \in 0..Len(s)
        BY <1>1
    <2>2. f[Len(s)] \in Seq(S)
        BY <2>1
    <2> QED BY <1>2, <2>2, Zenon
<1> QED BY <1>1, <1>2, <1>3, <1>6, <1>7, <1>8 DEF a

LEMMA FlattenIsFlat == \A s : FlattenSeq(s) = Flat(s)
BY DEF FlattenSeq, Flat

(***************************************************************************)
(* The loop of ReceivePackets.                                             *)
(***************************************************************************)
\* Its state after each fragment.
LEMMA CutByFragment ==
    ASSUME NEW s, Len(s) \in Nat
    PROVE  \E after :
               /\ after[0] = [pkts |-> <<>>, start |-> 1] /\ Cut(s) = after[Len(s)]
               /\ \A n \in 1..Len(s) :
                      /\ s[n].contd => after[n] = after[n - 1]
                      /\ ~s[n].contd => after[n] = [pkts |-> Append(after[n - 1].pkts,
                                                                    SubSeq(s, after[n - 1].start, n)),
                                                    start |-> n + 1]
<1> DEFINE Step(c, n) == IF s[n].contd THEN c
                         ELSE [pkts |-> Append(c.pkts, SubSeq(s, c.start, n)), start |-> n + 1]
<1> DEFINE Body(f, n) == [k \in 0..n |-> IF k = 0 THEN [pkts |-> <<>>, start |-> 1] ELSE Step(f[k - 1], k)]
<1> DEFINE T == {n \in Nat : \E f : f = Body(f, n)}
<1>1. 0 \in T
    <2> DEFINE f == [k \in 0..0 |-> [pkts |-> <<>>, start |-> 1]]
    <2>1. f = Body(f, 0)
        OBVIOUS
    <2> QED BY <2>1
<1>2. ASSUME NEW n \in Nat, n \in T PROVE n + 1 \in T
    <2>1. PICK f : f = Body(f, n)
        BY <1>2
    <2> DEFINE g == [k \in 0..(n + 1) |-> IF k = n + 1 THEN Step(f[n], n + 1) ELSE f[k]]
    <2> HIDE DEF Step
    <2>2. \A k \in 0..(n + 1) : g[k] = IF k = 0 THEN [pkts |-> <<>>, start |-> 1] ELSE Step(g[k - 1], k)
        <3> SUFFICES ASSUME NEW k \in 0..(n + 1)
                     PROVE  g[k] = IF k = 0 THEN [pkts |-> <<>>, start |-> 1] ELSE Step(g[k - 1], k)
            OBVIOUS
        <3>1. CASE k = n + 1
            BY <3>1
        <3>2. CASE k # n + 1
            BY <2>1, <3>2
        <3> QED BY <3>1, <3>2
    <2>3. g = Body(g, n + 1)
        BY <2>2
    <2> HIDE DEF g, Body
    <2>4. n + 1 \in Nat /\ \E h : h = Body(h, n + 1)
        BY <2>3
    <2> QED BY <2>4
<1>3. \E f : f = Body(f, Len(s))
    BY <1>1, <1>2, Induction
<1> DEFINE after == CHOOSE f : f = Body(f, Len(s))
<1>4. after = Body(after, Len(s))
    BY <1>3
<1>5. Cut(s) = after[Len(s)]
    BY DEF Cut
<1> HIDE DEF after
<1>6. \A n \in 1..Len(s) : after[n] = Step(after[n - 1], n)
    <2> HIDE DEF Step
    <2> QED BY <1>4
<1>7. after[0] = [pkts |-> <<>>, start |-> 1]
    BY <1>4
<1> QED BY <1>5, <1>6, <1>7

Linked(s) == \A i \in 1..(Len(s) - 1) : Follows(s[i], s[i + 1])

\* One packet: it starts with its first fragment and ends with its last.
Whole(p) == p[1].idx = 1 /\ Ends(p) = {Len(p)}

\* What a part of the loop has cut off: whole packets, up to where the next
\* one starts.
CutUpTo(s, ps, start, n) ==
    /\ ps \in Seq(Seq(Fragments)) /\ start \in 1..(n + 1)
    /\ Flat(ps) = SubSeq(s, 1, start - 1)
    /\ \A i \in start..n : s[i].contd
    /\ start <= Len(s) => s[start].idx = 1
    /\ start > 1 => ~s[start - 1].contd
    /\ \A k \in 1..Len(ps) : Whole(ps[k])

\* The packet that ends with the n-th fragment.
LEMMA CutOne ==
    ASSUME NEW s \in Seq(Fragments), NEW n \in 1..Len(s), NEW start \in 1..n,
           s[start].idx = 1, \A i \in start..(n - 1) : s[i].contd, ~s[n].contd,
           NEW p, p = SubSeq(s, start, n)
    PROVE  p \in Seq(Fragments) /\ Whole(p)
<1>1. Len(s) \in Nat /\ \A i \in start..n : s[i] \in Fragments
    OBVIOUS
<1> HIDE DEF Fragments
<1>2. p \in Seq(Fragments) /\ Len(p) = n - start + 1 /\ \A i \in 1..(n - start + 1) : p[i] = s[start + i - 1]
    <2>1. start \in Int /\ n \in Int /\ start <= n
        BY <1>1
    <2> QED BY <1>1, <2>1, SubSeqProperties
<1>3. p[1] = s[start] /\ p[Len(p)] = s[n] /\ Len(p) \in 1..Len(p)
    <2>1. /\ n - start + 1 \in Nat /\ 1 \in 1..(n - start + 1) /\ n - start + 1 \in 1..(n - start + 1)
          /\ start + 1 - 1 = start /\ start + (n - start + 1) - 1 = n
        BY <1>1
    <2>2. p[1] = s[start + 1 - 1] /\ p[n - start + 1] = s[start + (n - start + 1) - 1]
        BY <1>2, <2>1, Zenon
    <2> QED BY <1>2, <2>1, <2>2
<1>4. ASSUME NEW i \in 1..Len(p), i # Len(p) PROVE p[i].contd
    <2>1. start + i - 1 \in start..(n - 1) /\ p[i] = s[start + i - 1]
        BY <1>1, <1>2, <1>4
    <2> QED BY <2>1
<1>5. Ends(p) = {Len(p)}
    BY <1>3, <1>4 DEF Ends
<1> QED BY <1>2, <1>3, <1>5 DEF Whole

LEMMA CutStep ==
    ASSUME NEW s \in Seq(Fragments), Linked(s), NEW n \in Nat, n + 1 <= Len(s),
           NEW ps, NEW start, CutUpTo(s, ps, start, n), ~s[n + 1].contd
    PROVE  CutUpTo(s, Append(ps, SubSeq(s, start, n + 1)), n + 2, n + 1)
<1> DEFINE p == SubSeq(s, start, n + 1)
<1> DEFINE qs == Append(ps, p)
<1>1. /\ start \in 1..(n + 1) /\ ps \in Seq(Seq(Fragments)) /\ Len(s) \in Nat
      /\ Flat(ps) = SubSeq(s, 1, start - 1) /\ \A k \in 1..Len(ps) : Whole(ps[k])
      /\ s[start].idx = 1 /\ \A i \in start..n : s[i].contd
    BY DEF CutUpTo
<1>2. p \in Seq(Fragments) /\ Whole(p)
    <2>1. n + 1 \in 1..Len(s) /\ (n + 1) - 1 = n
        BY <1>1
    <2> HIDE DEF Fragments
    <2> QED BY <1>1, <2>1, CutOne
<1>3. SubSeq(s, 1, start - 1) \o p = SubSeq(s, 1, n + 1)
    <2> DEFINE k == start - 1
    <2>1. 1 \in 1..(Len(s) + 1) /\ k \in (1 - 1)..Len(s) /\ n + 1 \in k..Len(s) /\ k + 1 = start
        BY <1>1
    <2> HIDE DEF k
    <2>2. SubSeq(s, 1, k) \o SubSeq(s, k + 1, n + 1) = SubSeq(s, 1, n + 1)
        BY <2>1, ConcatAdjacentSubSeq
    <2> QED BY <2>1, <2>2 DEF k
<1> HIDE DEF p
<1>4. qs \in Seq(Seq(Fragments)) /\ Flat(qs) = SubSeq(s, 1, n + 1)
    BY <1>1, <1>2, <1>3, FlatAppend
<1>5. \A j \in 1..Len(qs) : Whole(qs[j])
    <2>1. /\ Len(qs) = Len(ps) + 1 /\ (\A j \in 1..Len(ps) : qs[j] = ps[j])
          /\ qs[Len(ps) + 1] = p /\ Len(ps) \in Nat
        BY <1>1, <1>2, AppendProperties
    <2> SUFFICES ASSUME NEW j \in 1..Len(qs) PROVE Whole(qs[j])
        OBVIOUS
    <2> HIDE DEF qs
    <2>2. CASE j = Len(ps) + 1
        BY <1>2, <2>1, <2>2, Zenon
    <2>3. CASE j # Len(ps) + 1
        <3>1. j \in 1..Len(ps)
            BY <2>1, <2>3
        <3> QED BY <1>1, <2>1, <3>1, Zenon
    <2> QED BY <2>2, <2>3
<1>6. n + 2 <= Len(s) => s[n + 2].idx = 1
    <2> SUFFICES ASSUME n + 2 <= Len(s) PROVE s[n + 2].idx = 1
        OBVIOUS
    <2>1. n + 1 \in 1..(Len(s) - 1) /\ (n + 1) + 1 = n + 2
        BY <1>1
    <2>2. Follows(s[n + 1], s[n + 2])
        BY <2>1 DEF Linked
    <2> QED BY <2>2 DEF Follows
<1>7. /\ (n + 2) - 1 = n + 1 /\ n + 2 \in 1..((n + 1) + 1)
      /\ \A i \in (n + 2)..(n + 1) : s[i].contd
    OBVIOUS
<1> HIDE DEF qs
<1>8. CutUpTo(s, qs, n + 2, n + 1)
    BY <1>4, <1>5, <1>6, <1>7 DEF CutUpTo
<1> QED BY <1>8 DEF qs, p

\* What ReceivePackets hands out and what it holds back make up what it had,
\* in its order.
LEMMA CutIsWhole ==
    ASSUME NEW s \in Seq(Fragments), Linked(s), s # <<>> => s[1].idx = 1
    PROVE  CutUpTo(s, Cut(s).pkts, Cut(s).start, Len(s))
<1>1. Len(s) \in Nat
    OBVIOUS
<1>2. PICK after :
          /\ after[0] = [pkts |-> <<>>, start |-> 1] /\ Cut(s) = after[Len(s)]
          /\ \A n \in 1..Len(s) :
                 /\ s[n].contd => after[n] = after[n - 1]
                 /\ ~s[n].contd => after[n] = [pkts |-> Append(after[n - 1].pkts,
                                                               SubSeq(s, after[n - 1].start, n)),
                                               start |-> n + 1]
    BY <1>1, CutByFragment
<1> DEFINE T == {n \in Nat : n <= Len(s) => CutUpTo(s, after[n].pkts, after[n].start, n)}
<1>3. 0 \in T
    <2>1. after[0].pkts = <<>> /\ after[0].start = 1
        BY <1>2
    <2>2. <<>> \in Seq(Seq(Fragments)) /\ Len(<<>>) = 0
        OBVIOUS
    <2>3. Flat(<<>>) = SubSeq(s, 1, 1 - 1)
        <3>1. SubSeq(s, 1, 0) = <<>>
            BY SubSeqEmpty
        <3>2. Flat(<<>>) = SubSeq(s, 1, 0)
            BY <3>1, FlatEmpty, Zenon
        <3> QED BY <3>2
    <2>4. 1 <= Len(s) => s[1].idx = 1
        OBVIOUS
    <2>5. CutUpTo(s, <<>>, 1, 0)
        BY <2>2, <2>3, <2>4 DEF CutUpTo
    <2> QED BY <2>1, <2>5
<1>4. ASSUME NEW n \in Nat, n \in T PROVE n + 1 \in T
    <2> SUFFICES ASSUME n + 1 <= Len(s) PROVE CutUpTo(s, after[n + 1].pkts, after[n + 1].start, n + 1)
        OBVIOUS
    <2> DEFINE ps == after[n].pkts
    <2> DEFINE start == after[n].start
    <2>1. n + 1 \in 1..Len(s) /\ (n + 1) - 1 = n /\ CutUpTo(s, ps, start, n)
        BY <1>1, <1>4
    <2>2. CASE s[n + 1].contd
        <3>1. after[n + 1].pkts = ps /\ after[n + 1].start = start
            BY <1>2, <2>1, <2>2
        <3> HIDE DEF ps, start
        <3>2. CutUpTo(s, ps, start, n + 1)
            <4>1. /\ start \in 1..((n + 1) + 1) /\ \A i \in start..(n + 1) : s[i].contd
                BY <2>1, <2>2 DEF CutUpTo
            <4> QED BY <2>1, <4>1 DEF CutUpTo
        <3> QED BY <3>1, <3>2
    <2>3. CASE ~s[n + 1].contd
        <3>1. after[n + 1] = [pkts |-> Append(ps, SubSeq(s, start, n + 1)), start |-> (n + 1) + 1]
            BY <1>2, <2>1, <2>3
        <3> HIDE DEF ps, start
        <3>2. after[n + 1].pkts = Append(ps, SubSeq(s, start, n + 1)) /\ after[n + 1].start = n + 2
            <4> DEFINE qs == Append(ps, SubSeq(s, start, n + 1))
            <4> HIDE DEF qs
            <4>1. after[n + 1] = [pkts |-> qs, start |-> n + 2]
                BY <3>1 DEF qs
            <4>2. after[n + 1].pkts = qs /\ after[n + 1].start = n + 2
                BY <4>1
            <4> QED BY <4>2 DEF qs
        <3>3. CutUpTo(s, Append(ps, SubSeq(s, start, n + 1)), n + 2, n + 1)
            BY <2>1, <2>3, CutStep
        <3> QED BY <3>2, <3>3
    <2> QED BY <2>2, <2>3
<1>5. Len(s) \in T
    <2> HIDE DEF T
    <2> QED BY <1>1, <1>3, <1>4, Induction
<1> QED BY <1>1, <1>2, <1>5

(***************************************************************************)
(* Runs of fragments in which each follows the one before.                 *)
(***************************************************************************)
LEMMA JoinedByElement ==
    ASSUME NEW S, NEW s \in Seq(S), NEW t \in Seq(S)
    PROVE  /\ s \o t \in Seq(S) /\ Len(s \o t) = Len(s) + Len(t)
           /\ \A i \in 1..Len(s) : (s \o t)[i] = s[i]
           /\ \A i \in 1..Len(t) : (s \o t)[Len(s) + i] = t[i]
OBVIOUS

LEMMA AppendJoined ==
    ASSUME NEW S, NEW s \in Seq(S), NEW t \in Seq(S), NEW g \in S
    PROVE  s \o Append(t, g) = Append(s \o t, g)
<1> DEFINE w == <<g>>
<1>1. w \in Seq(S) /\ s \o t \in Seq(S)
    OBVIOUS
<1>2. Append(t, g) = t \o w /\ Append(s \o t, g) = (s \o t) \o w
    BY <1>1, AppendIsConcat
<1> HIDE DEF w
<1>3. (s \o t) \o w = s \o (t \o w)
    BY <1>1, ConcatAssociative
<1> QED BY <1>2, <1>3

LEMMA LinkedParts ==
    ASSUME NEW s \in Seq(Fragments), NEW t \in Seq(Fragments), Linked(s \o t)
    PROVE  /\ Linked(s) /\ Linked(t)
           /\ Len(s) > 0 /\ Len(t) > 0 => Follows(s[Len(s)], t[1])
<1> DEFINE u == s \o t
<1> DEFINE m == Len(s)
<1>1. /\ m \in Nat /\ Len(t) \in Nat /\ Len(u) = m + Len(t)
      /\ \A i \in 1..m : u[i] = s[i]
      /\ \A i \in 1..Len(t) : u[m + i] = t[i]
    BY JoinedByElement
<1>2. \A i \in 1..(Len(u) - 1) : Follows(u[i], u[i + 1])
    BY DEF Linked
<1> HIDE DEF u
<1>3. Linked(s)
    <2> SUFFICES ASSUME NEW i \in 1..(m - 1) PROVE Follows(s[i], s[i + 1])
        BY DEF Linked
    <2>1. i \in 1..(Len(u) - 1) /\ i \in 1..m /\ i + 1 \in 1..m
        BY <1>1
    <2> QED BY <1>1, <1>2, <2>1
<1>4. Linked(t)
    <2> SUFFICES ASSUME NEW i \in 1..(Len(t) - 1) PROVE Follows(t[i], t[i + 1])
        BY DEF Linked
    <2>1. m + i \in 1..(Len(u) - 1) /\ i \in 1..Len(t) /\ i + 1 \in 1..Len(t) /\ (m + i) + 1 = m + (i + 1)
        BY <1>1
    <2> HIDE DEF m
    <2>2. Follows(u[m + i], u[m + (i + 1)]) /\ u[m + i] = t[i] /\ u[m + (i + 1)] = t[i + 1]
        BY <1>1, <1>2, <2>1
    <2> QED BY <2>2
<1>5. ASSUME m > 0, Len(t) > 0 PROVE Follows(s[m], t[1])
    <2>1. m \in 1..(Len(u) - 1) /\ m \in 1..m /\ 1 \in 1..Len(t)
        BY <1>1, <1>5
    <2> HIDE DEF m
    <2> QED BY <1>1, <1>2, <2>1
<1> QED BY <1>3, <1>4, <1>5

LEMMA LinkedAppend ==
    ASSUME NEW s \in Seq(Fragments), NEW g \in Fragments, Linked(s),
           Len(s) > 0 => Follows(s[Len(s)], g)
    PROVE  Linked(Append(s, g))
<1> DEFINE a == Append(s, g)
<1>1. /\ Len(s) \in Nat /\ Len(a) = Len(s) + 1 /\ (\A i \in 1..Len(s) : a[i] = s[i]) /\ a[Len(s) + 1] = g
    BY AppendProperties
<1> HIDE DEF a
<1>2. ASSUME NEW i \in 1..Len(s) PROVE Follows(a[i], a[i + 1])
    <2>1. CASE i = Len(s)
        BY <1>1, <2>1
    <2>2. CASE i # Len(s)
        <3>1. i \in 1..(Len(s) - 1) /\ i + 1 \in 1..Len(s)
            BY <1>1, <2>2
        <3> QED BY <1>1, <3>1 DEF Linked
    <2> QED BY <2>1, <2>2
<1>3. Len(a) - 1 = Len(s)
    BY <1>1
<1>4. Linked(a)
    BY <1>2, <1>3 DEF Linked
<1> QED BY <1>4 DEF a

(***************************************************************************)
(* The inductive invariant.                                                *)
(***************************************************************************)
Typed ==
    /\ binding \in Bindings
    /\ pool \in Nat /\ posted \in 0..FillRingNumDescs /\ lent \in 0..TxSlots /\ sent \in Nat
    /\ rxRing \in Seq(Fragments) /\ Len(rxRing) <= RxRingNumDescs
    /\ pktPartial \in Seq(Fragments) /\ pkts \in Seq(Seq(Fragments))
    /\ pc \in {"complete", "fill", "poll", "syscall", "blocked", "wakeup", "receive", "work"}
    /\ parked \in BOOLEAN /\ flagged \in BOOLEAN
    /\ next \in Fragments

\* Every frame is somewhere, once.
Counted ==
    /\ numFilled = posted + Len(rxRing)
    /\ pool + numFilled + Len(pktPartial) + Len(Flat(pkts)) + lent + sent = RxFrames
    /\ pc # "work" => pkts = <<>>

\* From what is held back to the fragment the driver receives next; and with
\* the packets in the application's hands in front.
Rest == Append(pktPartial \o rxRing, next)
Line == Flat(pkts) \o Rest

Ordered ==
    /\ Linked(Line) /\ Rest[1].idx = 1
    /\ \A k \in 1..Len(pkts) : Whole(pkts[k])
    /\ \A i \in 1..Len(pktPartial) : pktPartial[i].contd

IInv == Typed /\ Counted /\ Ordered

LEMMA FlatType ==
    ASSUME NEW ps \in Seq(Seq(Fragments))
    PROVE  Flat(ps) \in Seq(Fragments) /\ Len(Flat(ps)) \in Nat
<1>1. <<>> \in Seq(Fragments)
    OBVIOUS
<1> HIDE DEF Fragments
<1>2. Flat(ps) \in Seq(Fragments)
    BY <1>1, FlatAppend
<1> QED BY <1>2

LEMMA NoneFlat == Flat(<<>>) = <<>> /\ Len(Flat(<<>>)) = 0 /\ \A s \in Seq(Fragments) : Flat(<<>>) \o s = s
BY FlatEmpty, ConcatEmptySeq

LEMMA LineByPart ==
    ASSUME Typed
    PROVE  /\ Rest \in Seq(Fragments) /\ Line \in Seq(Fragments) /\ Flat(pkts) \in Seq(Fragments)
           /\ pktPartial \o rxRing \in Seq(Fragments)
           /\ Len(Rest) = Len(pktPartial) + Len(rxRing) + 1
           /\ Rest[Len(Rest)] = next
           /\ Len(Line) = Len(Flat(pkts)) + Len(Rest) /\ Line[Len(Line)] = next
<1>1. /\ rxRing \in Seq(Fragments) /\ pktPartial \in Seq(Fragments) /\ next \in Fragments
      /\ Flat(pkts) \in Seq(Fragments) /\ Len(Flat(pkts)) \in Nat
    BY FlatType DEF Typed
<1> DEFINE b == pktPartial \o rxRing
<1>2. b \in Seq(Fragments) /\ Len(b) = Len(pktPartial) + Len(rxRing)
    BY <1>1
<1> HIDE DEF b, Fragments
<1> DEFINE r == Append(b, next)
<1>3. r \in Seq(Fragments) /\ Len(r) = Len(b) + 1 /\ r[Len(b) + 1] = next
    BY <1>1, <1>2, AppendProperties
<1> HIDE DEF r
<1> DEFINE l == Flat(pkts) \o r
<1>4. l \in Seq(Fragments) /\ Len(l) = Len(Flat(pkts)) + Len(r) /\ \A i \in 1..Len(r) : l[Len(Flat(pkts)) + i] = r[i]
    <2> DEFINE f == Flat(pkts)
    <2>1. f \in Seq(Fragments)
        BY <1>1
    <2> HIDE DEF f
    <2>2. /\ f \o r \in Seq(Fragments) /\ Len(f \o r) = Len(f) + Len(r)
          /\ \A i \in 1..Len(r) : (f \o r)[Len(f) + i] = r[i]
        BY <1>3, <2>1
    <2> QED BY <2>2 DEF f
<1> HIDE DEF l
<1>5. Len(r) \in 1..Len(r) /\ Len(r) = Len(pktPartial) + Len(rxRing) + 1
    BY <1>1, <1>2, <1>3
<1>6. l[Len(l)] = next /\ r[Len(r)] = next
    BY <1>3, <1>4, <1>5
<1>7. Rest = r /\ Line = l
    BY DEF Rest, Line, r, l, b
<1> QED BY <1>1, <1>2, <1>3, <1>4, <1>5, <1>6, <1>7 DEF b

LEMMA InitInvariant == Init => IInv
<1> SUFFICES ASSUME Init PROVE IInv
    OBVIOUS
<1>1. /\ rxRing = <<>> /\ pktPartial = <<>> /\ pkts = <<>> /\ next \in Fragments /\ next.idx = 1
      /\ numFilled = FillRingNumDescs /\ posted = FillRingNumDescs /\ lent = 0 /\ sent = 0
      /\ pool = RxFrames - FillRingNumDescs /\ pc = "complete"
    BY DEF Init
<1>2. /\ RxFrames \in Nat /\ FillRingNumDescs \in 1..RxFrames /\ TxSlots \in Nat /\ RxRingNumDescs \in Nat
    BY RxAssumption
<1>3. /\ <<>> \in Seq(Fragments) /\ <<>> \in Seq(Seq(Fragments)) /\ Len(<<>>) = 0
    OBVIOUS
<1>4. Typed
    <2>1. parked \in BOOLEAN /\ flagged \in BOOLEAN
        BY Zenon DEF Init
    <2>2. binding \in Bindings
        BY DEF Init
    <2>3. rxRing \in Seq(Fragments) /\ Len(rxRing) = 0 /\ pktPartial \in Seq(Fragments) /\ pkts \in Seq(Seq(Fragments))
        BY <1>1, <1>3
    <2> QED BY <1>1, <1>2, <2>1, <2>2, <2>3 DEF Typed
<1>5. Counted
    BY <1>1, <1>2, <1>3, NoneFlat DEF Counted
<1>6. Rest = <<next>>
    <2>1. <<>> \o <<>> = <<>> /\ Append(<<>>, next) = <<next>>
        OBVIOUS
    <2> QED BY <1>1, <2>1 DEF Rest
<1>7. Line = <<next>>
    <2>1. <<next>> \in Seq(Fragments)
        BY <1>1
    <2> QED BY <1>1, <1>6, <2>1, NoneFlat DEF Line
<1>8. Linked(Line)
    <2>1. Len(<<next>>) = 1
        OBVIOUS
    <2> QED BY <1>7, <2>1 DEF Linked
<1>9. Rest[1].idx = 1
    BY <1>1, <1>6
<1>10. Ordered
    BY <1>1, <1>3, <1>8, <1>9 DEF Ordered
<1> QED BY <1>4, <1>5, <1>10 DEF IInv

\* A step that moves no fragment.
LEMMA OrderKept ==
    ASSUME Ordered, UNCHANGED <<rxRing, held, next>>
    PROVE  Ordered'
BY DEF held, Ordered, Line, Rest

LEMMA BufferKeeps ==
    ASSUME IInv, Complete \/ Fill \/ DeviceCompletes
    PROVE  IInv'
<1>1. /\ Typed /\ Len(rxRing) \in Nat /\ Len(pktPartial) \in Nat /\ Len(Flat(pkts)) \in Nat
      /\ RxFrames \in Nat /\ FillRingNumDescs \in Nat /\ TxSlots \in Nat
    BY RxAssumption, FlatType DEF IInv, Typed
<1>2. UNCHANGED <<binding, rxRing, held, next, parked, flagged>> /\ Ordered'
    BY OrderKept DEF IInv, Complete, Fill, DeviceCompletes, driver
<1>3. Len(Flat(pkts))' = Len(Flat(pkts)) /\ pktPartial' = pktPartial /\ pkts' = pkts
    BY <1>2 DEF held
<1>4. CASE Complete
    <2>1. Typed'
        BY <1>1, <1>2, <1>4 DEF Complete, Typed, held, driver
    <2>2. Counted'
        BY <1>1, <1>2, <1>3, <1>4 DEF Complete, IInv, Typed, Counted
    <2> QED BY <1>2, <2>1, <2>2 DEF IInv
<1>5. CASE Fill
    <2> DEFINE n == Clamp(pool, FillRingNumDescs - posted)
    <2>1. n \in Nat /\ n <= pool /\ posted + n <= FillRingNumDescs
        BY <1>1 DEF Typed, Clamp
    <2>2. /\ pool' = pool - n /\ posted' = posted + n /\ numFilled' = numFilled + n
          /\ lent' = lent /\ sent' = sent /\ pc' \in {"poll", "wakeup"} /\ pc = "fill"
        BY <1>5 DEF Fill, lending
    <2> HIDE DEF n
    <2>3. Typed'
        BY <1>1, <1>2, <2>1, <2>2 DEF Typed, held
    <2>4. Counted'
        BY <1>1, <1>2, <1>3, <2>1, <2>2 DEF IInv, Typed, Counted
    <2> QED BY <1>2, <2>3, <2>4 DEF IInv
<1>6. CASE DeviceCompletes
    <2>1. Typed'
        BY <1>1, <1>2, <1>6 DEF DeviceCompletes, Typed, held, buffers
    <2>2. Counted'
        <3>1. /\ pool' = pool /\ numFilled' = numFilled /\ posted' = posted /\ rxRing' = rxRing
              /\ lent' = lent - 1 /\ sent' = sent + 1 /\ pc' = pc /\ lent \in Nat /\ sent \in Nat
              /\ pool \in Nat /\ posted \in Nat /\ Counted
            BY <1>1, <1>2, <1>6 DEF DeviceCompletes, buffers, IInv, Typed
        <3>2. numFilled' = posted' + Len(rxRing')
            BY <3>1 DEF Counted
        <3>3. (pool + numFilled + Len(pktPartial) + Len(Flat(pkts)) + lent + sent = RxFrames)'
            <4> DEFINE l == Len(Flat(pkts))
            <4> DEFINE q == Len(pktPartial)
            <4>1. l' = l /\ q' = q /\ l \in Nat /\ q \in Nat /\ pool + numFilled + q + l + lent + sent = RxFrames
                BY <1>1, <1>3, <3>1 DEF Counted
            <4> HIDE DEF l, q
            <4>2. numFilled \in Nat
                BY <1>1, <3>1 DEF Counted
            <4>3. pool' + numFilled' + q' + l' + lent' + sent' = RxFrames
                BY <3>1, <4>1, <4>2
            <4> QED BY <4>3 DEF l, q
        <3>4. pc' # "work" => pkts' = <<>>
            BY <1>3, <3>1 DEF Counted
        <3> QED BY <3>2, <3>3, <3>4 DEF Counted
    <2> QED BY <1>2, <2>1, <2>2 DEF IInv
<1> QED BY <1>4, <1>5, <1>6

\* Poll, the wakeup, and the driver's sleep move no frame.
LEMMA WaitKeeps ==
    ASSUME IInv,
           \/ PollCheck \/ PollSyscall \/ PollReturns \/ PollTimesOut \/ WakeupRx
           \/ DriverAdvertises \/ DriverParks \/ DriverRefills
    PROVE  IInv'
<1>1. UNCHANGED <<binding, buffers, rxRing, held, lending, next>>
    BY DEF PollCheck, PollSyscall, PollReturns, PollTimesOut, WakeupRx,
           DriverAdvertises, DriverParks, DriverRefills, driver
<1>2. /\ pc' \in {"receive", "syscall", "blocked"} \/ pc' = pc
      /\ pc = "work" => pc' = "work"
    BY DEF PollCheck, PollSyscall, PollReturns, PollTimesOut, WakeupRx,
           DriverAdvertises, DriverParks, DriverRefills
<1>3. parked' \in BOOLEAN /\ flagged' \in BOOLEAN
    <2>1. parked \in BOOLEAN /\ flagged \in BOOLEAN
        BY DEF IInv, Typed
    <2>2. /\ parked' = parked \/ parked' = (parked /\ ~flagged) \/ parked' = TRUE
          /\ flagged' = flagged \/ flagged' = TRUE \/ flagged' = FALSE
        BY DEF PollCheck, PollSyscall, PollReturns, PollTimesOut, WakeupRx,
               DriverAdvertises, DriverParks, DriverRefills, driver
    <2> QED BY <2>1, <2>2, Zenon
<1>4. Typed'
    BY <1>1, <1>2, <1>3 DEF IInv, Typed, buffers, held, lending
<1>5. Counted'
    <2>1. /\ pool' = pool /\ numFilled' = numFilled /\ posted' = posted /\ rxRing' = rxRing
          /\ lent' = lent /\ sent' = sent /\ pktPartial' = pktPartial /\ pkts' = pkts
        BY <1>1 DEF buffers, held, lending
    <2>2. numFilled' = posted' + Len(rxRing')
        BY <2>1 DEF IInv, Counted
    <2>3. (pool + numFilled + Len(pktPartial) + Len(Flat(pkts)) + lent + sent = RxFrames)'
        BY <2>1 DEF IInv, Counted
    <2>4. pc' # "work" => pkts' = <<>>
        BY <1>2, <2>1 DEF IInv, Counted
    <2> QED BY <2>2, <2>3, <2>4 DEF Counted
<1>6. Ordered'
    BY <1>1, OrderKept DEF IInv
<1> QED BY <1>4, <1>5, <1>6 DEF IInv

LEMMA AppendTo ==
    ASSUME NEW s \in Seq(Fragments), NEW t \in Seq(Fragments), NEW g \in Fragments
    PROVE  s \o Append(t, g) = Append(s \o t, g)
<1> HIDE DEF Fragments
<1> QED BY AppendJoined

\* The driver's fragment goes to the end of the line.
LEMMA DriverReceivesKeeps ==
    ASSUME IInv, DriverReceives
    PROVE  IInv'
<1>1. /\ posted > 0 /\ Len(rxRing) < RxRingNumDescs /\ posted' = posted - 1
      /\ rxRing' = Append(rxRing, next) /\ next' \in Fragments /\ Follows(next, next')
      /\ UNCHANGED <<binding, pool, numFilled, held, lending, pc, driver>>
    BY DEF DriverReceives, Follows
<1>2. /\ Typed /\ Len(rxRing) \in Nat /\ Len(pktPartial) \in Nat /\ Len(Flat(pkts)) \in Nat
      /\ FillRingNumDescs \in Nat /\ RxRingNumDescs \in Nat
    BY RxAssumption, FlatType DEF IInv, Typed
<1>3. rxRing' \in Seq(Fragments) /\ Len(rxRing') = Len(rxRing) + 1
    BY <1>1, <1>2, AppendProperties DEF Typed
<1>4. Typed'
    BY <1>1, <1>2, <1>3 DEF Typed, held, lending, driver
<1>5. Counted'
    <2>1. Len(Flat(pkts))' = Len(Flat(pkts)) /\ pktPartial' = pktPartial /\ pkts' = pkts
        BY <1>1 DEF held
    <2> QED BY <1>1, <1>2, <1>3, <2>1 DEF IInv, Typed, Counted, lending
<1>6. Ordered'
    <2> DEFINE b == pktPartial \o rxRing
    <2> DEFINE r == Append(b, next)
    <2> DEFINE f == Flat(pkts)
    <2>1. /\ b \in Seq(Fragments) /\ r = Rest /\ f \o r = Line /\ f \in Seq(Fragments) /\ r \in Seq(Fragments)
          /\ Len(Line) \in Nat \ {0} /\ Line[Len(Line)] = next /\ Line \in Seq(Fragments)
          /\ next \in Fragments /\ rxRing \in Seq(Fragments) /\ pktPartial \in Seq(Fragments)
        BY <1>2, LineByPart DEF Rest, Line, Typed
    <2>2. Rest' = Append(r, next')
        <3>1. pktPartial \o Append(rxRing, next) = Append(b, next)
            <4>1. /\ rxRing \in Seq(Fragments) /\ pktPartial \in Seq(Fragments) /\ next \in Fragments
                BY <2>1
            <4> QED BY <4>1, AppendTo
        <3>2. Rest' = Append(pktPartial \o Append(rxRing, next), next')
            BY <1>1 DEF Rest, held
        <3> QED BY <3>1, <3>2
    <2> HIDE DEF b, r, Fragments
    <2>3. Line' = Append(Line, next')
        <3>1. Line' = f \o Append(r, next')
            BY <1>1, <2>2 DEF Line, held
        <3> HIDE DEF f
        <3>2. f \o Append(r, next') = Append(f \o r, next')
            BY <1>1, <2>1, AppendJoined, SMTT(60)
        <3> QED BY <2>1, <3>1, <3>2
    <2>4. Linked(Line')
        BY <1>1, <2>1, <2>3, LinkedAppend DEF IInv, Ordered
    <2>5. Rest'[1].idx = 1
        <3>1. Len(r) \in Nat /\ Len(r) >= 1
            BY <1>2, <2>1, LineByPart
        <3>2. Append(r, next')[1] = r[1]
            BY <1>1, <2>1, <3>1, AppendProperties
        <3> QED BY <2>1, <2>2, <3>2 DEF IInv, Ordered
    <2> QED BY <1>1, <2>4, <2>5 DEF IInv, Ordered, held
<1> QED BY <1>4, <1>5, <1>6 DEF IInv

(***************************************************************************)
(* A call of ReceivePackets, on the line of fragments.                     *)
(***************************************************************************)
LEMMA SplitAt ==
    ASSUME NEW S, NEW s \in Seq(S), NEW n \in 0..Len(s)
    PROVE  /\ SubSeq(s, 1, n) \in Seq(S) /\ Len(SubSeq(s, 1, n)) = n
           /\ SubSeq(s, n + 1, Len(s)) \in Seq(S) /\ Len(SubSeq(s, n + 1, Len(s))) = Len(s) - n
           /\ SubSeq(s, 1, n) \o SubSeq(s, n + 1, Len(s)) = s
<1>1. Len(s) \in Nat /\ \A i \in 1..Len(s) : s[i] \in S
    OBVIOUS
<1>2. SubSeq(s, 1, n) \in Seq(S) /\ Len(SubSeq(s, 1, n)) = IF 1 <= n THEN n - 1 + 1 ELSE 0
    <2>1. 1 \in Int /\ n \in Int /\ \A i \in 1..n : s[i] \in S
        BY <1>1
    <2> QED BY <2>1, SubSeqProperties
<1>3. /\ SubSeq(s, n + 1, Len(s)) \in Seq(S)
      /\ Len(SubSeq(s, n + 1, Len(s))) = IF n + 1 <= Len(s) THEN Len(s) - (n + 1) + 1 ELSE 0
    <2>1. n + 1 \in Int /\ Len(s) \in Int /\ \A i \in (n + 1)..Len(s) : s[i] \in S
        BY <1>1
    <2> QED BY <2>1, SubSeqProperties
<1>4. SubSeq(s, 1, n) \o SubSeq(s, n + 1, Len(s)) = SubSeq(s, 1, Len(s))
    <2>1. 1 \in 1..(Len(s) + 1) /\ n \in (1 - 1)..Len(s) /\ Len(s) \in n..Len(s)
        BY <1>1
    <2> QED BY <2>1, ConcatAdjacentSubSeq
<1>5. SubSeq(s, 1, Len(s)) = s
    BY SubSeqFull
<1> DEFINE a == SubSeq(s, 1, n)
<1> DEFINE b == SubSeq(s, n + 1, Len(s))
<1>6. a \in Seq(S) /\ b \in Seq(S) /\ a \o b = s
    BY <1>2, <1>3, <1>4, <1>5
<1>7. Len(a) = IF 1 <= n THEN n - 1 + 1 ELSE 0
    BY <1>2
<1>8. Len(b) = IF n + 1 <= Len(s) THEN Len(s) - (n + 1) + 1 ELSE 0
    BY <1>3
<1> HIDE DEF a, b
<1>9. Len(a) = n /\ Len(b) = Len(s) - n
    BY <1>1, <1>7, <1>8
<1> QED BY <1>6, <1>9 DEF a, b

\* What is received goes behind what was held back; the rest of the ring and
\* the driver's fragment come after it.
LEMMA TakenOff ==
    ASSUME NEW p \in Seq(Fragments), NEW r1 \in Seq(Fragments), NEW rest \in Seq(Fragments),
           NEW g \in Fragments
    PROVE  /\ p \o r1 \in Seq(Fragments) /\ Append(rest, g) \in Seq(Fragments)
           /\ Len(p \o r1) = Len(p) + Len(r1) /\ Len(Append(rest, g)) = Len(rest) + 1
           /\ (p \o r1) \o Append(rest, g) = Append(p \o (r1 \o rest), g)
<1> HIDE DEF Fragments
<1>1. p \o r1 \in Seq(Fragments) /\ Len(p \o r1) = Len(p) + Len(r1)
    BY ConcatProperties
<1>2. Append(rest, g) \in Seq(Fragments) /\ Len(Append(rest, g)) = Len(rest) + 1
    BY AppendProperties
<1>3. (p \o r1) \o rest = p \o (r1 \o rest)
    BY ConcatAssociative
<1>4. (p \o r1) \o Append(rest, g) = Append((p \o r1) \o rest, g)
    BY <1>1, AppendTo
<1> QED BY <1>1, <1>2, <1>3, <1>4

LEMMA Regrouped ==
    ASSUME NEW x \in Seq(Fragments), NEW y \in Seq(Fragments), NEW z \in Seq(Fragments)
    PROVE  (x \o y) \o z = x \o (y \o z)
BY ConcatAssociative

LEMMA CutOff ==
    ASSUME NEW buf \in Seq(Fragments), NEW tail \in Seq(Fragments), Len(tail) > 0,
           Linked(buf \o tail), (buf \o tail)[1].idx = 1,
           NEW ps, NEW start, CutUpTo(buf, ps, start, Len(buf)),
           NEW u \in Seq(Fragments), Len(Flat(ps)) = start - 1, Flat(ps) \o u = buf
    PROVE  /\ Len(Flat(ps)) + Len(u) = Len(buf)
           /\ \A i \in 1..Len(u) : u[i].contd
           /\ Flat(ps) \o (u \o tail) = buf \o tail /\ (u \o tail)[1].idx = 1
<1> DEFINE f == Flat(ps)
<1>1. /\ start \in 1..(Len(buf) + 1) /\ ps \in Seq(Seq(Fragments)) /\ Len(buf) \in Nat
      /\ \A i \in start..Len(buf) : buf[i].contd
      /\ start <= Len(buf) => buf[start].idx = 1
      /\ start > 1 => ~buf[start - 1].contd
    BY DEF CutUpTo
<1>2. f \in Seq(Fragments) /\ Len(f) \in Nat /\ f \o u = buf /\ Len(u) \in Nat
    BY <1>1, FlatType
<1>3. Len(f) = start - 1
    OBVIOUS
<1> HIDE DEF f
<1>4. /\ Len(buf) = Len(f) + Len(u)
      /\ \A i \in 1..Len(u) : buf[Len(f) + i] = u[i]
    BY <1>2, JoinedByElement
<1>5. f \o (u \o tail) = buf \o tail
    <2>1. f \in Seq(Fragments) /\ u \in Seq(Fragments) /\ tail \in Seq(Fragments)
        BY <1>2
    <2>2. (f \o u) \o tail = f \o (u \o tail)
        BY <2>1, Regrouped, ZenonT(60)
    <2> QED BY <1>2, <2>2
<1>6. ASSUME NEW i \in 1..Len(u) PROVE u[i].contd
    <2>1. Len(f) + i \in start..Len(buf) /\ u[i] = buf[Len(f) + i]
        BY <1>1, <1>2, <1>3, <1>4
    <2> QED BY <1>1, <2>1
<1>7. (u \o tail)[1].idx = 1
    <2>1. CASE start <= Len(buf)
        <3>1. 1 \in 1..Len(u) /\ Len(f) + 1 = start
            BY <1>1, <1>2, <1>3, <1>4, <2>1
        <3>2. (u \o tail)[1] = u[1] /\ u[1] = buf[start]
            BY <1>4, <3>1, JoinedByElement
        <3> QED BY <1>1, <2>1, <3>2
    <2>2. CASE start > Len(buf)
        <3>1. u \o tail = tail
            <4>1. Len(u) = 0
                BY <1>1, <1>2, <1>3, <1>4, <2>2
            <4>2. u = <<>>
                BY <4>1
            <4> QED BY <4>2, ConcatEmptySeq
        <3>2. CASE Len(buf) = 0
            <4>1. buf = <<>>
                BY <3>2
            <4>2. buf \o tail = tail
                BY <4>1, ConcatEmptySeq
            <4> QED BY <3>1, <4>2
        <3>3. CASE Len(buf) > 0
            <4>1. Follows(buf[Len(buf)], tail[1])
                <5> HIDE DEF Fragments
                <5> QED BY <3>3, LinkedParts
            <4>2. start - 1 = Len(buf) /\ ~buf[start - 1].contd
                BY <1>1, <2>2, <3>3
            <4> QED BY <3>1, <4>1, <4>2 DEF Follows
        <3> QED BY <1>1, <3>2, <3>3
    <2> QED BY <1>1, <2>1, <2>2, SMTT(60)
<1> QED BY <1>2, <1>4, <1>5, <1>6, <1>7 DEF f

LEMMA ReceivePacketsKeeps ==
    ASSUME IInv, NEW maxFrames \in 1..RxRingNumDescs, ReceivePackets(maxFrames)
    PROVE  IInv'
<1> DEFINE n == Clamp(maxFrames, Len(rxRing))
<1> DEFINE r1 == SubSeq(rxRing, 1, n)
<1> DEFINE rest == SubSeq(rxRing, n + 1, Len(rxRing))
<1> DEFINE buf == pktPartial \o r1
<1> DEFINE ps == Cut(buf).pkts
<1> DEFINE start == Cut(buf).start
<1> DEFINE u == SubSeq(buf, start, Len(buf))
<1> DEFINE tail == Append(rest, next)
<1>1. /\ pc = "receive" /\ rxRing' = rest /\ numFilled' = numFilled - n /\ pkts' = ps
      /\ pktPartial' = u /\ pc' = "work" /\ UNCHANGED <<binding, pool, posted, lending, driver, next>>
    BY DEF ReceivePackets, Packets, Unfinished
<1>2. /\ rxRing \in Seq(Fragments) /\ pktPartial \in Seq(Fragments) /\ next \in Fragments
      /\ Len(rxRing) \in Nat /\ Len(pktPartial) \in Nat /\ Len(rxRing) <= RxRingNumDescs
      /\ RxRingNumDescs \in Nat
    BY RxAssumption DEF IInv, Typed
<1>3. n \in 0..Len(rxRing)
    BY <1>2 DEF Clamp
<1> HIDE DEF n
<1>4. /\ r1 \in Seq(Fragments) /\ Len(r1) = n /\ rest \in Seq(Fragments) /\ Len(rest) = Len(rxRing) - n
      /\ r1 \o rest = rxRing
    BY <1>2, <1>3, SplitAt
<1> HIDE DEF r1, rest
<1>5. /\ buf \in Seq(Fragments) /\ tail \in Seq(Fragments) /\ Len(buf) = Len(pktPartial) + n
      /\ Len(tail) = Len(rest) + 1 /\ buf \o tail = Append(pktPartial \o rxRing, next)
    <2>1. /\ pktPartial \o r1 \in Seq(Fragments) /\ Append(rest, next) \in Seq(Fragments)
          /\ Len(pktPartial \o r1) = Len(pktPartial) + Len(r1) /\ Len(Append(rest, next)) = Len(rest) + 1
          /\ (pktPartial \o r1) \o Append(rest, next) = Append(pktPartial \o (r1 \o rest), next)
        <3>1. /\ pktPartial \in Seq(Fragments) /\ r1 \in Seq(Fragments) /\ rest \in Seq(Fragments)
              /\ next \in Fragments
            BY <1>2, <1>4
        <3> QED BY <3>1, TakenOff, SMTT(60)
    <2> QED BY <1>4, <2>1, Zenon
<1> HIDE DEF buf, tail
<1>6. /\ pkts = <<>> /\ Flat(pkts) = <<>> /\ Line = Rest /\ Rest = buf \o tail /\ Len(Flat(pkts)) = 0
      /\ Rest \in Seq(Fragments)
    <2>1. pkts = <<>>
        BY <1>1 DEF IInv, Counted
    <2>2. Rest \in Seq(Fragments)
        BY LineByPart DEF IInv
    <2>3. Line = Rest
        BY <2>1, <2>2, NoneFlat DEF Line
    <2> QED BY <1>5, <2>1, <2>2, <2>3, NoneFlat DEF Rest
<1>7. Linked(buf \o tail) /\ (buf \o tail)[1].idx = 1
    BY <1>6 DEF IInv, Ordered
<1>8. Len(buf) \in Nat /\ Len(rest) \in Nat /\ Len(tail) > 0
    BY <1>2, <1>3, <1>4, <1>5
<1>9. Linked(buf)
    BY <1>5, <1>7, LinkedParts
<1>10. ASSUME buf # <<>> PROVE buf[1].idx = 1
    <2>1. 1 \in 1..Len(buf)
        BY <1>5, <1>8, <1>10
    <2>2. (buf \o tail)[1] = buf[1]
        <3>1. \A i \in 1..Len(buf) : (buf \o tail)[i] = buf[i]
            BY <1>5, JoinedByElement, Zenon
        <3> QED BY <2>1, <3>1, Zenon
    <2> QED BY <1>7, <2>2
<1>11. CutUpTo(buf, ps, start, Len(buf))
    BY <1>5, <1>9, <1>10, CutIsWhole
<1> HIDE DEF ps, start
<1> DEFINE m == start - 1
<1>12. /\ m \in 0..Len(buf) /\ m + 1 = start /\ Flat(ps) = SubSeq(buf, 1, m) /\ ps \in Seq(Seq(Fragments))
       /\ \A k \in 1..Len(ps) : Whole(ps[k])
    BY <1>8, <1>11 DEF CutUpTo
<1>13. /\ Flat(ps) \in Seq(Fragments) /\ Len(Flat(ps)) = m /\ u \in Seq(Fragments) /\ Flat(ps) \o u = buf
    <2> DEFINE v == SubSeq(buf, m + 1, Len(buf))
    <2>1. v = u
        BY <1>12
    <2> HIDE DEF m, v
    <2>2. /\ SubSeq(buf, 1, m) \in Seq(Fragments) /\ Len(SubSeq(buf, 1, m)) = m
          /\ v \in Seq(Fragments) /\ SubSeq(buf, 1, m) \o v = buf
        BY <1>5, <1>12, SplitAt DEF v
    <2> QED BY <1>12, <2>1, <2>2
<1> HIDE DEF u
<1>14. /\ Len(Flat(ps)) + Len(u) = Len(buf)
       /\ \A i \in 1..Len(u) : u[i].contd
       /\ Flat(ps) \o (u \o tail) = buf \o tail /\ (u \o tail)[1].idx = 1
    <2>1. Len(Flat(ps)) = start - 1
        BY <1>13
    <2>2. buf \in Seq(Fragments) /\ tail \in Seq(Fragments) /\ u \in Seq(Fragments)
        BY <1>5, <1>13
    <2>3. Flat(ps) \o u = buf /\ Len(tail) > 0 /\ CutUpTo(buf, ps, start, Len(buf))
        BY <1>8, <1>11, <1>13
    <2> QED BY <1>7, <2>1, <2>2, <2>3, CutOff, ZenonT(60)
<1>15. Rest' = u \o tail
    <2>1. Rest' = Append(u \o rest, next)
        BY <1>1 DEF Rest
    <2>2. u \o Append(rest, next) = Append(u \o rest, next)
        BY <1>2, <1>4, <1>13, AppendTo
    <2> QED BY <2>1, <2>2 DEF tail
<1>16. Line' = Line
    BY <1>1, <1>6, <1>14, <1>15 DEF Line
<1>17. Typed'
    <2>1. Len(rxRing') <= RxRingNumDescs
        BY <1>1, <1>2, <1>3, <1>4
    <2>2. rxRing' \in Seq(Fragments) /\ pktPartial' \in Seq(Fragments) /\ pkts' \in Seq(Seq(Fragments))
        BY <1>1, <1>4, <1>12, <1>13
    <2> QED BY <1>1, <2>1, <2>2 DEF IInv, Typed, lending, driver
<1>18. Counted'
    <2>1. /\ numFilled = posted + Len(rxRing) /\ posted \in Nat /\ numFilled \in Nat /\ pool \in Nat
          /\ lent \in Nat /\ sent \in Nat
          /\ pool + numFilled + Len(pktPartial) + Len(Flat(pkts)) + lent + sent = RxFrames
        BY <1>2, RxAssumption DEF IInv, Typed, Counted
    <2>2. numFilled' = posted' + Len(rxRing')
        BY <1>1, <1>2, <1>3, <1>4, <2>1
    <2>3. (pool + numFilled + Len(pktPartial) + Len(Flat(pkts)) + lent + sent = RxFrames)'
        <3> DEFINE a == Len(Flat(ps))
        <3> DEFINE q == Len(u)
        <3> DEFINE z == Len(pktPartial)
        <3>1. a + q = z + n /\ a \in Nat /\ q \in Nat /\ z \in Nat /\ n \in Nat
              /\ pool + numFilled + z + 0 + lent + sent = RxFrames
            <4>1. a + q = z + n
                BY <1>5, <1>14, Zenon
            <4>2. a \in Nat /\ q \in Nat
                BY <1>13
            <4>3. z \in Nat /\ n \in Nat
                BY <1>2, <1>3
            <4>4. pool + numFilled + z + 0 + lent + sent = RxFrames
                BY <1>6, <2>1
            <4> QED BY <4>1, <4>2, <4>3, <4>4
        <3>2. /\ numFilled' = numFilled - n /\ Len(pktPartial') = q /\ Len(Flat(pkts))' = a
              /\ pool' = pool /\ lent' = lent /\ sent' = sent
            BY <1>1 DEF lending
        <3> HIDE DEF a, q, z
        <3>3. pool + (numFilled - n) + q + a + lent + sent = RxFrames
            BY <2>1, <3>1
        <3> QED BY <3>2, <3>3
    <2> QED BY <1>1, <2>2, <2>3 DEF Counted
<1>19. Ordered'
    BY <1>1, <1>12, <1>14, <1>15, <1>16 DEF IInv, Ordered
<1> QED BY <1>17, <1>18, <1>19 DEF IInv

\* The application is done with its packets.
LEMMA WorkKeeps ==
    ASSUME IInv, RecyclePackets \/ Forward
    PROVE  IInv'
<1> DEFINE l == Len(Flat(pkts))
<1>1. /\ Typed /\ l \in Nat /\ TxSlots \in Nat /\ FillRingNumDescs \in Nat /\ Len(rxRing) \in Nat
      /\ Len(pktPartial) \in Nat /\ Flat(pkts) \in Seq(Fragments)
    BY RxAssumption, FlatType DEF IInv, Typed
<1>2. PICK n \in 0..l : /\ pool' = pool + (l - n) /\ lent' = lent + n /\ lent' <= TxSlots
    <2>1. CASE RecyclePackets
        <3>1. pool' = pool + l /\ lent' = lent
            BY <2>1, FlattenIsFlat, Zenon DEF RecyclePackets, lending
        <3>2. 0 \in 0..l /\ l - 0 = l /\ lent + 0 = lent /\ lent <= TxSlots
            <4> HIDE DEF l
            <4> QED BY <1>1 DEF Typed
        <3> QED BY <3>1, <3>2
    <2>2. CASE Forward
        <3> DEFINE n == Clamp(l, TxSlots - lent)
        <3>1. pool' = pool + (l - n) /\ lent' = lent + n
            BY <2>2, FlattenIsFlat, Zenon DEF Forward
        <3>2. n \in 0..l /\ lent + n <= TxSlots
            <4> HIDE DEF l
            <4> QED BY <1>1 DEF Typed, Clamp
        <3> QED BY <3>1, <3>2
    <2> QED BY <2>1, <2>2
<1>3. /\ pkts' = <<>> /\ pc' = "complete"
      /\ UNCHANGED <<binding, posted, numFilled, rxRing, pktPartial, sent, driver, next>>
    BY DEF RecyclePackets, Forward, lending
<1>4. Typed'
    <2>1. pool' \in Nat /\ lent' \in 0..TxSlots
        <3> HIDE DEF l
        <3> QED BY <1>1, <1>2 DEF Typed
    <2>2. pkts' \in Seq(Seq(Fragments))
        BY <1>3
    <2> QED BY <1>1, <1>3, <2>1, <2>2 DEF Typed, driver
<1>5. Counted'
    <2>1. Len(Flat(pkts'))  = 0
        BY <1>3, NoneFlat, Zenon
    <2>2. numFilled' = posted' + Len(rxRing')
        BY <1>3 DEF IInv, Counted
    <2>3. (pool + numFilled + Len(pktPartial) + Len(Flat(pkts)) + lent + sent = RxFrames)'
        <3> DEFINE q == Len(pktPartial)
        <3>1. /\ pool + numFilled + q + l + lent + sent = RxFrames /\ q \in Nat
              /\ pool \in Nat /\ numFilled \in Nat /\ lent \in Nat /\ sent \in Nat
            BY <1>1 DEF IInv, Typed, Counted
        <3>2. numFilled' = numFilled /\ q' = q /\ sent' = sent
            BY <1>3
        <3> HIDE DEF q, l
        <3>3. pool' + numFilled' + q' + 0 + lent' + sent' = RxFrames
            BY <1>1, <1>2, <3>1, <3>2
        <3> QED BY <2>1, <3>3 DEF q
    <2> QED BY <1>3, <2>2, <2>3 DEF Counted
<1>6. Ordered'
    <2>1. Rest' = Rest /\ Rest \in Seq(Fragments)
        BY <1>1, <1>3, LineByPart DEF Rest
    <2>2. Line' = Rest
        BY <1>3, <2>1, NoneFlat DEF Line
    <2>3. Linked(Rest)
        BY <1>1, <2>1, LinkedParts DEF IInv, Ordered, Line
    <2>4. \A k \in 1..Len(pkts') : Whole(pkts'[k])
        BY <1>3
    <2> QED BY <1>3, <2>1, <2>2, <2>3, <2>4 DEF IInv, Ordered
<1> QED BY <1>4, <1>5, <1>6 DEF IInv

LEMMA NextInvariant == IInv /\ [Next]_vars => IInv'
<1> SUFFICES ASSUME IInv, [Next]_vars PROVE IInv'
    OBVIOUS
<1>1. CASE Complete \/ Fill \/ DeviceCompletes
    BY <1>1, BufferKeeps
<1>2. CASE \/ PollCheck \/ PollSyscall \/ PollReturns \/ PollTimesOut \/ WakeupRx
           \/ DriverAdvertises \/ DriverParks \/ DriverRefills
    BY <1>2, WaitKeeps
<1>3. CASE \E maxFrames \in 1..RxRingNumDescs : ReceivePackets(maxFrames)
    BY <1>3, ReceivePacketsKeeps
<1>4. CASE RecyclePackets \/ Forward
    BY <1>4, WorkKeeps
<1>5. CASE DriverReceives
    BY <1>5, DriverReceivesKeeps
<1>6. CASE UNCHANGED vars
    <2>1. UNCHANGED <<binding, pool, posted, numFilled, rxRing, pktPartial, pkts, lent, sent, pc, parked, flagged, next>>
        BY <1>6 DEF vars, buffers, held, lending, driver
    <2>2. Ordered'
        BY <2>1, OrderKept DEF IInv, held
    <2>3. Typed' /\ Counted'
        BY <2>1 DEF IInv, Typed, Counted
    <2> QED BY <2>2, <2>3 DEF IInv
<1> QED BY <1>1, <1>2, <1>3, <1>4, <1>5, <1>6 DEF Next, Receiver

\* Every frame of the receive side is counted once, and the line of fragments
\* is unbroken, in every reachable state.
THEOREM Invariant == Spec => []IInv
BY InitInvariant, NextInvariant, PTL DEF Spec

\* numFilled is what the kernel holds (socket.go: Fill, Receive), and no frame
\* is lost or counted twice however packets are split, recycled or forwarded.
THEOREM TypeCorrect == Spec => []TypeOK
<1>1. IInv => TypeOK
    <2> SUFFICES ASSUME IInv PROVE TypeOK
        OBVIOUS
    <2> DEFINE l == Len(Flat(pkts))
    <2> DEFINE q == Len(pktPartial)
    <2> DEFINE r == Len(rxRing)
    <2>1. l \in Nat /\ q \in Nat /\ r \in Nat /\ RxFrames \in Nat /\ FillRingNumDescs \in Nat
        BY FlatType, RxAssumption DEF IInv, Typed
    <2>2. /\ numFilled = posted + r /\ pool + numFilled + q + l + lent + sent = RxFrames
          /\ pool \in Nat /\ posted \in 0..FillRingNumDescs /\ lent \in 0..TxSlots /\ sent \in Nat
          /\ TxSlots \in Nat
        BY RxAssumption DEF IInv, Typed, Counted
    <2> HIDE DEF l, q, r
    <2>3. pool \in 0..RxFrames
        BY <2>1, <2>2
    <2>4. pool + numFilled + Len(pktPartial) + Len(FlattenSeq(pkts)) + lent + sent = RxFrames
        BY <2>2, FlattenIsFlat, Zenon DEF l, q
    <2> QED BY <2>2, <2>3, <2>4 DEF TypeOK, IInv, Typed, r
<1> QED BY <1>1, Invariant, PTL

\* ReceivePackets (multibuffer.go) hands out whole packets in the order they
\* arrived, for every length of packet, ring and budget.
THEOREM PacketsAreWhole == Spec => []PacketsWhole
<1>1. IInv => PacketsWhole
    <2> SUFFICES ASSUME IInv PROVE PacketsWhole
        OBVIOUS
    <2> DEFINE b == pktPartial \o rxRing
    <2>1. /\ rxRing \in Seq(Fragments) /\ pktPartial \in Seq(Fragments) /\ next \in Fragments
          /\ Flat(pkts) \in Seq(Fragments) /\ b \in Seq(Fragments)
        BY LineByPart DEF IInv, Typed
    <2>2. /\ Linked(Line) /\ Rest[1].idx = 1 /\ (\A k \in 1..Len(pkts) : Whole(pkts[k]))
          /\ \A i \in 1..Len(pktPartial) : pktPartial[i].contd
        BY DEF IInv, Ordered
    <2>3. \A k \in 1..Len(pkts) : pkts[k][1].idx = 1 /\ Ends(pkts[k]) = {Len(pkts[k])}
        BY <2>2 DEF Whole
    <2>4. Ends(pktPartial) = {}
        BY <2>2 DEF Ends
    <2>5. ASSUME pktPartial # <<>> PROVE pktPartial[1].idx = 1
        <3>1. 1 \in 1..Len(pktPartial) /\ Len(pktPartial) \in Nat /\ Len(rxRing) \in Nat
            BY <2>1, <2>5
        <3>2. b[1] = pktPartial[1] /\ Len(b) = Len(pktPartial) + Len(rxRing)
            BY <2>1, <3>1, JoinedByElement
        <3> HIDE DEF b
        <3>3. 1 \in 1..Len(b)
            BY <3>1, <3>2
        <3>4. Append(b, next)[1] = b[1]
            BY <2>1, <3>3, AppendProperties
        <3> QED BY <2>2, <3>2, <3>4 DEF Rest, b
    <2> DEFINE s == Stream
    <2>6. s \in Seq(Fragments) /\ Append(s, next) = Line
        <3>1. s = (Flat(pkts) \o pktPartial) \o rxRing
            BY FlattenIsFlat, Zenon DEF Stream
        <3>2. (Flat(pkts) \o pktPartial) \o rxRing = Flat(pkts) \o b
            BY <2>1, Regrouped
        <3> HIDE DEF b, s
        <3>3. Flat(pkts) \o b \in Seq(Fragments)
            BY <2>1, ConcatProperties
        <3>4. Flat(pkts) \o Append(b, next) = Append(Flat(pkts) \o b, next)
            BY <2>1, AppendTo
        <3> QED BY <3>1, <3>2, <3>3, <3>4 DEF Line, Rest, b
    <2> HIDE DEF s
    <2>7. /\ Len(s) \in Nat /\ Len(Line) = Len(s) + 1
          /\ (\A i \in 1..Len(s) : Line[i] = s[i]) /\ Line[Len(s) + 1] = next
        <3>1. s \in Seq(Fragments) /\ next \in Fragments
            BY <2>1, <2>6
        <3>2. /\ Len(s) \in Nat /\ Len(Append(s, next)) = Len(s) + 1
              /\ (\A i \in 1..Len(s) : Append(s, next)[i] = s[i]) /\ Append(s, next)[Len(s) + 1] = next
            BY <3>1, AppendProperties
        <3> QED BY <2>6, <3>2, Zenon
    <2>8. ASSUME NEW i \in 1..Len(s) PROVE Follows(s[i], IF i < Len(s) THEN s[i + 1] ELSE next)
        <3>1. i \in 1..(Len(Line) - 1) /\ Line[i] = s[i]
            BY <2>7
        <3>2. Follows(s[i], Line[i + 1])
            BY <2>2, <3>1 DEF Linked
        <3>3. Line[i + 1] = IF i < Len(s) THEN s[i + 1] ELSE next
            BY <2>7
        <3> QED BY <3>2, <3>3
    <2> QED BY <2>3, <2>4, <2>5, <2>8 DEF PacketsWhole, s
<1> QED BY <1>1, Invariant, PTL
=============================================================================
