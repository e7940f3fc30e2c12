----------------------------- MODULE SocketProofs -----------------------------
(***************************************************************************)
(* Proofs about Socket, for every size of the UMEM and of the rings.       *)
(*                                                                         *)
(* Every action that moves frames is a Move: it splits the frames of one   *)
(* place in two and appends one part to another place.  The first part of  *)
(* this module proves which splits the actions make and that a Move by a   *)
(* split keeps every frame in exactly one place; the second proves the     *)
(* invariant action by action; the third what needs more than it: that     *)
(* pools hold bases, that an allocation fits the ring, and that the socket *)
(* implements FrameOwnership.                                              *)
(***************************************************************************)
EXTENDS Socket, SequenceTheorems, TLAPS

\* The frames of a sequence of addresses, and that none comes twice.
FrameSet(s) == {s[i].frame : i \in 1..Len(s)}
NoDup(s)    == \A i, j \in 1..Len(s) : s[i].frame = s[j].frame => i = j

\* rest and moved share out the frames of s.
Splits(s, rest, moved) ==
    /\ rest \in Seq(Addresses) /\ moved \in Seq(Addresses)
    /\ FrameSet(s) = FrameSet(rest) \cup FrameSet(moved)
    /\ FrameSet(rest) \cap FrameSet(moved) = {}
    /\ NoDup(rest) /\ NoDup(moved)
    /\ Len(s) = Len(rest) + Len(moved)

(***************************************************************************)
(* Sequences of addresses.                                                 *)
(***************************************************************************)

\* A prefix and the suffix after it, either way round.
LEMMA SplitAt ==
    ASSUME NEW s \in Seq(Addresses), NoDup(s), NEW n \in 0..Len(s)
    PROVE  /\ Splits(s, Rest(s, n), Oldest(s, n))
           /\ Splits(s, Oldest(s, n), Rest(s, n))
           /\ Len(Oldest(s, n)) = n
<1> DEFINE a == Oldest(s, n)
           b == Rest(s, n)
<1>1. /\ a \in Seq(Addresses) /\ Len(a) = n
      /\ \A i \in 1..n : a[i] = s[i]
    <2>1. \A i \in 1..n : s[i] \in Addresses
        BY ElementOfSeq
    <2>2. Len(s) \in Nat
        BY LenProperties
    <2> QED BY <2>1, <2>2, SubSeqProperties DEF Oldest
<1>2. /\ b \in Seq(Addresses) /\ Len(b) = Len(s) - n
      /\ \A i \in 1..(Len(s) - n) : b[i] = s[n + i]
    <2>1. \A i \in (n + 1)..Len(s) : s[i] \in Addresses
        BY ElementOfSeq
    <2>2. Len(s) \in Nat /\ n + 1 \in Int
        BY LenProperties
    <2> QED BY <2>1, <2>2, SubSeqProperties DEF Rest
<1>3. Len(s) \in Nat
    BY LenProperties
<1> HIDE DEF a, b
<1>4. FrameSet(s) = FrameSet(a) \cup FrameSet(b)
    <2>1. ASSUME NEW i \in 1..Len(s) PROVE s[i].frame \in FrameSet(a) \cup FrameSet(b)
        <3>1. CASE i <= n
            BY <3>1, <1>1, <1>3 DEF FrameSet
        <3>2. CASE i > n
            <4>1. i - n \in 1..(Len(s) - n) /\ b[i - n] = s[i]
                BY <3>2, <1>2, <1>3
            <4> QED BY <4>1, <1>2 DEF FrameSet
        <3> QED BY <3>1, <3>2
    <2>2. ASSUME NEW i \in 1..Len(a) PROVE a[i].frame \in FrameSet(s)
        BY <1>1, <1>3 DEF FrameSet
    <2>3. ASSUME NEW i \in 1..Len(b) PROVE b[i].frame \in FrameSet(s)
        <3>1. n + i \in 1..Len(s) /\ b[i] = s[n + i]
            BY <1>2, <1>3
        <3> QED BY <3>1 DEF FrameSet
    <2> QED BY <2>1, <2>2, <2>3 DEF FrameSet
<1>5. FrameSet(a) \cap FrameSet(b) = {}
    <2> SUFFICES ASSUME NEW i \in 1..n, NEW j \in 1..(Len(s) - n), a[i].frame = b[j].frame
                 PROVE  FALSE
        BY <1>1, <1>2 DEF FrameSet
    <2>1. i \in 1..Len(s) /\ n + j \in 1..Len(s) /\ i # n + j
        BY <1>3
    <2>2. s[i].frame = s[n + j].frame
        BY <1>1, <1>2
    <2> QED BY <2>1, <2>2 DEF NoDup
<1>6. NoDup(a)
    BY <1>1, <1>3 DEF NoDup
<1>7. NoDup(b)
    <2> SUFFICES ASSUME NEW i \in 1..Len(b), NEW j \in 1..Len(b), b[i].frame = b[j].frame
                 PROVE  i = j
        BY DEF NoDup
    <2>1. /\ n + i \in 1..Len(s) /\ b[i] = s[n + i]
          /\ n + j \in 1..Len(s) /\ b[j] = s[n + j]
        BY <1>2, <1>3
    <2>2. n + i = n + j
        BY <2>1 DEF NoDup
    <2> QED BY <2>2, <1>2, <1>3
<1> QED BY <1>1, <1>2, <1>3, <1>4, <1>5, <1>6, <1>7 DEF Splits, a, b

\* Concatenation joins the frames.
LEMMA Joins ==
    ASSUME NEW s \in Seq(Addresses), NEW t \in Seq(Addresses)
    PROVE  /\ s \o t \in Seq(Addresses)
           /\ Len(s \o t) = Len(s) + Len(t)
           /\ FrameSet(s \o t) = FrameSet(s) \cup FrameSet(t)
           /\ NoDup(s) /\ NoDup(t) /\ FrameSet(s) \cap FrameSet(t) = {} => NoDup(s \o t)
<1> DEFINE c == s \o t
<1>1. /\ c \in Seq(Addresses) /\ Len(c) = Len(s) + Len(t)
      /\ \A i \in 1..(Len(s) + Len(t)) : c[i] = IF i <= Len(s) THEN s[i] ELSE t[i - Len(s)]
    BY ConcatProperties
<1>2. Len(s) \in Nat /\ Len(t) \in Nat
    BY LenProperties
<1> HIDE DEF c
<1>3. FrameSet(c) \subseteq FrameSet(s) \cup FrameSet(t)
    <2> SUFFICES ASSUME NEW i \in 1..Len(c) PROVE c[i].frame \in FrameSet(s) \cup FrameSet(t)
        BY DEF FrameSet
    <2>1. CASE i <= Len(s)
        BY <2>1, <1>1, <1>2 DEF FrameSet
    <2>2. CASE i > Len(s)
        <3>1. i - Len(s) \in 1..Len(t) /\ c[i] = t[i - Len(s)]
            BY <2>2, <1>1, <1>2
        <3> QED BY <3>1 DEF FrameSet
    <2> QED BY <2>1, <2>2, <1>2
<1>4. FrameSet(s) \subseteq FrameSet(c)
    BY <1>1, <1>2 DEF FrameSet
<1>5. FrameSet(t) \subseteq FrameSet(c)
    <2> SUFFICES ASSUME NEW i \in 1..Len(t) PROVE t[i].frame \in FrameSet(c)
        BY DEF FrameSet
    <2>1. Len(s) + i \in 1..Len(c) /\ c[Len(s) + i] = t[i]
        BY <1>1, <1>2
    <2> QED BY <2>1 DEF FrameSet
<1>6. ASSUME NoDup(s), NoDup(t), FrameSet(s) \cap FrameSet(t) = {} PROVE NoDup(c)
    <2> SUFFICES ASSUME NEW i \in 1..Len(c), NEW j \in 1..Len(c), c[i].frame = c[j].frame
                 PROVE  i = j
        BY DEF NoDup
    <2>1. \A k \in 1..Len(c) :
              IF k <= Len(s) THEN k \in 1..Len(s) /\ c[k] = s[k] /\ c[k].frame \in FrameSet(s)
              ELSE k - Len(s) \in 1..Len(t) /\ c[k] = t[k - Len(s)] /\ c[k].frame \in FrameSet(t)
        BY <1>1, <1>2 DEF FrameSet
    <2>2. CASE i <= Len(s) /\ j <= Len(s)
        BY <2>1, <2>2, <1>6 DEF NoDup
    <2>3. CASE i <= Len(s) /\ ~(j <= Len(s))
        BY <2>1, <2>3, <1>6
    <2>4. CASE ~(i <= Len(s)) /\ j <= Len(s)
        BY <2>1, <2>4, <1>6
    <2>5. CASE ~(i <= Len(s)) /\ ~(j <= Len(s))
        <3>1. i - Len(s) = j - Len(s)
            BY <2>1, <2>5, <1>6 DEF NoDup
        <3> QED BY <3>1, <1>1, <1>2
    <2> QED BY <2>2, <2>3, <2>4, <2>5
<1> QED BY <1>1, <1>3, <1>4, <1>5, <1>6 DEF c

\* Taking the offsets off leaves the frames.
LEMMA BasesKeepFrames ==
    ASSUME NEW s \in Seq(Addresses)
    PROVE  /\ Bases(s) \in Seq(Addresses)
           /\ Len(Bases(s)) = Len(s)
           /\ FrameSet(Bases(s)) = FrameSet(s)
           /\ NoDup(s) => NoDup(Bases(s))
<1>1. Len(s) \in Nat /\ \A i \in 1..Len(s) : s[i] \in Addresses
    BY LenProperties, ElementOfSeq
<1>2. ASSUME NEW addr \in Addresses PROVE FrameBase(addr) \in Addresses /\ FrameBase(addr).frame = addr.frame
    BY <1>2 DEF FrameBase, Addresses
<1>3. /\ Bases(s) \in [1..Len(s) -> Addresses]
      /\ \A i \in 1..Len(s) : Bases(s)[i].frame = s[i].frame
    BY <1>1, <1>2 DEF Bases
<1>4. Bases(s) \in Seq(Addresses) /\ Len(Bases(s)) = Len(s)
    BY <1>1, <1>3, IsASeq, LenProperties
<1> QED BY <1>3, <1>4 DEF FrameSet, NoDup

\* A single address.
LEMMA Single ==
    ASSUME NEW addr \in Addresses
    PROVE  /\ <<addr>> \in Seq(Addresses) /\ Len(<<addr>>) = 1
           /\ FrameSet(<<addr>>) = {addr.frame}
           /\ NoDup(<<addr>>)
BY DEF FrameSet, NoDup

\* The first address and those after it.
LEMMA SplitHead ==
    ASSUME NEW s \in Seq(Addresses), NoDup(s), s # <<>>
    PROVE  Splits(s, Tail(s), <<Head(s)>>) /\ Head(s) \in Addresses
<1>1. Len(s) \in Nat /\ Len(s) > 0 /\ Head(s) = s[1] /\ Head(s) \in Addresses
    BY LenProperties, EmptySeq, HeadTailProperties
<1>2. /\ Tail(s) \in Seq(Addresses) /\ Len(Tail(s)) = Len(s) - 1
      /\ \A i \in 1..(Len(s) - 1) : Tail(s)[i] = s[i + 1]
    BY HeadTailProperties
<1>3. Splits(s, Rest(s, 1), Oldest(s, 1)) /\ Len(Oldest(s, 1)) = 1
    <2>1. 1 \in 0..Len(s)
        BY <1>1
    <2> QED BY <2>1, SplitAt
<1>4. Tail(s) = Rest(s, 1)
    BY TailIsSubSeq DEF Rest
<1>5. Oldest(s, 1) = <<Head(s)>>
    <2>1. Oldest(s, 1)[1] = Head(s) /\ Oldest(s, 1) \in Seq(Addresses)
        BY <1>1, <1>3 DEF Oldest, Splits
    <2> QED BY <2>1, <1>1, <1>3, Single, SeqEqual
<1> QED BY <1>1, <1>3, <1>4, <1>5

\* Any one address and all the others.
LEMMA SplitMiddle ==
    ASSUME NEW s \in Seq(Addresses), NoDup(s), NEW i \in 1..Len(s)
    PROVE  Splits(s, SubSeq(s, 1, i - 1) \o Rest(s, i), <<s[i]>>)
<1> DEFINE a == Oldest(s, i)
<1>1. Len(s) \in Nat /\ i \in 0..Len(s)
    BY LenProperties
<1>2. Splits(s, Rest(s, i), a) /\ Len(a) = i
    BY <1>1, SplitAt
<1>3. a \in Seq(Addresses) /\ NoDup(a)
    BY <1>2 DEF Splits
<1>4. i - 1 \in 0..Len(a)
    BY <1>1, <1>2
<1>5. Splits(a, Oldest(a, i - 1), Rest(a, i - 1))
    BY <1>3, <1>4, SplitAt
<1>6. \A k \in 1..i : a[k] = s[k]
    <2>1. \A k \in 1..i : s[k] \in Addresses
        BY <1>1, ElementOfSeq
    <2> QED BY <2>1, <1>1, SubSeqProperties DEF Oldest
<1> HIDE DEF a
<1>7. Rest(a, i - 1) = <<s[i]>>
    <2>1. s[i] \in Addresses
        BY ElementOfSeq
    <2>2. \A k \in ((i - 1) + 1)..Len(a) : a[k] \in Addresses
        BY <1>3, <1>1, <1>2, ElementOfSeq
    <2>3. Rest(a, i - 1) \in Seq(Addresses) /\ Len(Rest(a, i - 1)) = 1 /\ Rest(a, i - 1)[1] = a[i]
        BY <2>2, <1>1, <1>2, SubSeqProperties DEF Rest
    <2> QED BY <2>1, <2>3, <1>1, <1>6, Single, SeqEqual
<1>8. Oldest(a, i - 1) = SubSeq(s, 1, i - 1)
    <2>1. /\ Oldest(a, i - 1) \in Seq(Addresses) /\ Len(Oldest(a, i - 1)) = i - 1
          /\ \A k \in 1..(i - 1) : Oldest(a, i - 1)[k] = a[k]
        <3>1. \A k \in 1..(i - 1) : a[k] \in Addresses
            BY <1>3, <1>1, <1>2, ElementOfSeq
        <3> QED BY <3>1, <1>1, SubSeqProperties DEF Oldest
    <2>2. /\ SubSeq(s, 1, i - 1) \in Seq(Addresses) /\ Len(SubSeq(s, 1, i - 1)) = i - 1
          /\ \A k \in 1..(i - 1) : SubSeq(s, 1, i - 1)[k] = s[k]
        <3>1. \A k \in 1..(i - 1) : s[k] \in Addresses
            BY <1>1, ElementOfSeq
        <3> QED BY <3>1, <1>1, SubSeqProperties
    <2>3. \A k \in 1..(i - 1) : Oldest(a, i - 1)[k] = SubSeq(s, 1, i - 1)[k]
        BY <2>1, <2>2, <1>1, <1>6
    <2> QED BY <2>1, <2>2, <2>3, SeqEqual
<1>9. /\ SubSeq(s, 1, i - 1) \in Seq(Addresses) /\ Rest(s, i) \in Seq(Addresses)
      /\ <<s[i]>> \in Seq(Addresses)
      /\ NoDup(SubSeq(s, 1, i - 1)) /\ NoDup(Rest(s, i)) /\ NoDup(<<s[i]>>)
      /\ FrameSet(s) = FrameSet(Rest(s, i)) \cup FrameSet(SubSeq(s, 1, i - 1)) \cup FrameSet(<<s[i]>>)
      /\ FrameSet(Rest(s, i)) \cap FrameSet(SubSeq(s, 1, i - 1)) = {}
      /\ FrameSet(Rest(s, i)) \cap FrameSet(<<s[i]>>) = {}
      /\ FrameSet(SubSeq(s, 1, i - 1)) \cap FrameSet(<<s[i]>>) = {}
    BY <1>2, <1>5, <1>7, <1>8 DEF Splits
<1>10. Len(s) = Len(SubSeq(s, 1, i - 1)) + Len(Rest(s, i)) + Len(<<s[i]>>)
    <2>1. Len(s) = Len(Rest(s, i)) + Len(a) /\ Len(a) = Len(SubSeq(s, 1, i - 1)) + Len(<<s[i]>>)
        BY <1>2, <1>5, <1>7, <1>8 DEF Splits
    <2>2. Len(Rest(s, i)) \in Nat /\ Len(SubSeq(s, 1, i - 1)) \in Nat /\ Len(<<s[i]>>) \in Nat
        BY <1>9, LenProperties
    <2> QED BY <2>1, <2>2
<1>11. /\ SubSeq(s, 1, i - 1) \o Rest(s, i) \in Seq(Addresses)
       /\ Len(SubSeq(s, 1, i - 1) \o Rest(s, i)) = Len(SubSeq(s, 1, i - 1)) + Len(Rest(s, i))
       /\ FrameSet(SubSeq(s, 1, i - 1) \o Rest(s, i))
              = FrameSet(SubSeq(s, 1, i - 1)) \cup FrameSet(Rest(s, i))
       /\ NoDup(SubSeq(s, 1, i - 1) \o Rest(s, i))
    <2>1. FrameSet(SubSeq(s, 1, i - 1)) \cap FrameSet(Rest(s, i)) = {}
        BY <1>9
    <2> QED BY <2>1, <1>9, Joins
<1> HIDE DEF Splits
<1>12. FrameSet(SubSeq(s, 1, i - 1) \o Rest(s, i)) \cap FrameSet(<<s[i]>>) = {}
    BY <1>9, <1>11
<1>13. FrameSet(s) = FrameSet(SubSeq(s, 1, i - 1) \o Rest(s, i)) \cup FrameSet(<<s[i]>>)
    BY <1>9, <1>11
<1> QED BY <1>9, <1>10, <1>11, <1>12, <1>13 DEF Splits

\* All of it.
LEMMA SplitAll ==
    ASSUME NEW s \in Seq(Addresses), NoDup(s)
    PROVE  Splits(s, <<>>, s)
<1>1. <<>> \in Seq(Addresses) /\ Len(<<>>) = 0 /\ FrameSet(<<>>) = {} /\ NoDup(<<>>)
    BY DEF FrameSet, NoDup
<1>2. Len(s) \in Nat
    BY LenProperties
<1> QED BY <1>1, <1>2 DEF Splits

\* The part moved may change its offsets on the way.
LEMMA SplitOffsets ==
    ASSUME NEW s, NEW rest, NEW moved, NEW arrived \in Seq(Addresses),
           Splits(s, rest, moved),
           FrameSet(arrived) = FrameSet(moved), Len(arrived) = Len(moved), NoDup(arrived)
    PROVE  Splits(s, rest, arrived)
BY DEF Splits

(***************************************************************************)
(* Custody: every frame is in exactly one place.                           *)
(***************************************************************************)
Custody(a) ==
    /\ a \in [Places -> Seq(Addresses)]
    /\ \A p \in Places : NoDup(a[p])
    /\ \A p, r \in Places : p # r => FrameSet(a[p]) \cap FrameSet(a[r]) = {}
    /\ \A f \in Frames : \E p \in Places : f \in FrameSet(a[p])

\* Move, as a function of what it moves from.
AfterMove(a, src, rest, moved, dst) == [a EXCEPT ![src] = rest, ![dst] = @ \o moved]

\* What a Move by a split does: custody is kept, and the two places change by
\* the frames moved, in set and in number.
LEMMA MoveKeepsCustody ==
    ASSUME NEW a, Custody(a),
           NEW src \in Places, NEW dst \in Places, src # dst,
           NEW rest, NEW moved, Splits(a[src], rest, moved),
           NEW b, b = AfterMove(a, src, rest, moved, dst)
    PROVE  /\ Custody(b)
           /\ \A p \in Places : p \notin {src, dst} => b[p] = a[p]
           /\ b[src] = rest
           /\ FrameSet(b[src]) \subseteq FrameSet(a[src])
           /\ FrameSet(b[dst]) = FrameSet(a[dst]) \cup FrameSet(moved)
           /\ FrameSet(moved) \subseteq FrameSet(a[src])
           /\ Len(b[src]) = Len(a[src]) - Len(moved)
           /\ Len(b[dst]) = Len(a[dst]) + Len(moved)
           /\ Len(moved) \in Nat /\ \A p \in Places : Len(a[p]) \in Nat /\ Len(b[p]) \in Nat
<1>1. /\ a \in [Places -> Seq(Addresses)]
      /\ a[src] \in Seq(Addresses) /\ a[dst] \in Seq(Addresses)
      /\ rest \in Seq(Addresses) /\ moved \in Seq(Addresses)
    BY DEF Custody, Splits
<1>2. b[src] = rest /\ b[dst] = a[dst] \o moved /\ \A p \in Places : p \notin {src, dst} => b[p] = a[p]
    BY <1>1 DEF AfterMove
<1>3. /\ FrameSet(a[src]) = FrameSet(rest) \cup FrameSet(moved)
      /\ FrameSet(rest) \cap FrameSet(moved) = {}
      /\ NoDup(rest) /\ NoDup(moved) /\ NoDup(a[dst])
      /\ Len(a[src]) = Len(rest) + Len(moved)
      /\ FrameSet(a[dst]) \cap FrameSet(a[src]) = {}
    BY DEF Custody, Splits
<1>4. /\ a[dst] \o moved \in Seq(Addresses)
      /\ Len(a[dst] \o moved) = Len(a[dst]) + Len(moved)
      /\ FrameSet(a[dst] \o moved) = FrameSet(a[dst]) \cup FrameSet(moved)
      /\ NoDup(a[dst] \o moved)
    <2>1. FrameSet(a[dst]) \cap FrameSet(moved) = {}
        BY <1>3
    <2> QED BY <2>1, <1>1, <1>3, Joins
<1>5. b \in [Places -> Seq(Addresses)]
    BY <1>1, <1>4 DEF AfterMove
<1>6. \A p \in Places : NoDup(b[p])
    BY <1>2, <1>3, <1>4 DEF Custody
<1>7. ASSUME NEW p \in Places, NEW r \in Places, p # r
      PROVE  FrameSet(b[p]) \cap FrameSet(b[r]) = {}
    <2>1. \A x, y \in Places : x # y => FrameSet(a[x]) \cap FrameSet(a[y]) = {}
        BY DEF Custody
    <2>2. \A x \in Places : x \notin {src, dst} => FrameSet(b[x]) = FrameSet(a[x])
        BY <1>2
    <2>3. FrameSet(b[src]) = FrameSet(rest) /\ FrameSet(b[dst]) = FrameSet(a[dst]) \cup FrameSet(moved)
        BY <1>2, <1>4
    <2>4. CASE p = src /\ r = dst
        BY <2>3, <2>4, <1>3
    <2>5. CASE p = dst /\ r = src
        BY <2>3, <2>5, <1>3
    <2>6. CASE p = src /\ r \notin {src, dst}
        BY <2>1, <2>2, <2>3, <2>6, <1>3
    <2>7. CASE p = dst /\ r \notin {src, dst}
        <3>1. FrameSet(a[dst]) \cap FrameSet(a[r]) = {} /\ FrameSet(a[src]) \cap FrameSet(a[r]) = {}
            BY <2>1, <2>7
        <3> QED BY <3>1, <2>2, <2>3, <2>7, <1>3
    <2>8. CASE p \notin {src, dst} /\ r = src
        BY <2>1, <2>2, <2>3, <2>8, <1>3
    <2>9. CASE p \notin {src, dst} /\ r = dst
        <3>1. FrameSet(a[p]) \cap FrameSet(a[dst]) = {} /\ FrameSet(a[p]) \cap FrameSet(a[src]) = {}
            BY <2>1, <2>9
        <3> QED BY <3>1, <2>2, <2>3, <2>9, <1>3
    <2>10. CASE p \notin {src, dst} /\ r \notin {src, dst}
        BY <2>1, <2>2, <2>10, <1>7
    <2> QED BY <2>4, <2>5, <2>6, <2>7, <2>8, <2>9, <2>10, <1>7
<1>8. ASSUME NEW f \in Frames PROVE \E p \in Places : f \in FrameSet(b[p])
    <2>1. PICK p \in Places : f \in FrameSet(a[p])
        BY DEF Custody
    <2>2. CASE p = src
        BY <2>1, <2>2, <1>2, <1>3, <1>4
    <2>3. CASE p = dst
        BY <2>1, <2>3, <1>2, <1>4
    <2>4. CASE p \notin {src, dst}
        BY <2>1, <2>4, <1>2
    <2> QED BY <2>2, <2>3, <2>4
<1>9. Len(moved) \in Nat /\ \A p \in Places : Len(a[p]) \in Nat /\ Len(b[p]) \in Nat
    BY <1>1, <1>5, LenProperties
<1>10. Len(b[src]) = Len(a[src]) - Len(moved)
    BY <1>2, <1>3, <1>9
<1>11. Custody(b)
    BY <1>5, <1>6, <1>7, <1>8 DEF Custody
<1> QED BY <1>2, <1>3, <1>4, <1>9, <1>10, <1>11

\* Custody is what FramesUnique and NoFrameLost say.
LEMMA CustodyMeans ==
    Custody(at) => FramesUnique /\ NoFrameLost
<1> SUFFICES ASSUME Custody(at) PROVE FramesUnique /\ NoFrameLost
    OBVIOUS
<1>1. FramesUnique
    <2> SUFFICES ASSUME NEW p \in Places, NEW r \in Places,
                        NEW i \in 1..Len(at[p]), NEW j \in 1..Len(at[r]),
                        at[p][i].frame = at[r][j].frame
                 PROVE  p = r /\ i = j
        BY DEF FramesUnique
    <2>1. at[p][i].frame \in FrameSet(at[p]) /\ at[r][j].frame \in FrameSet(at[r])
        BY DEF FrameSet
    <2>2. p = r
        BY <2>1 DEF Custody
    <2> QED BY <2>2 DEF Custody, NoDup
<1>2. NoFrameLost
    BY DEF Custody, FrameSet, NoFrameLost, FramesAt
<1> QED BY <1>1, <1>2

(***************************************************************************)
(* Regions: the frames a place may hold.                                   *)
(***************************************************************************)
RxRegion == 0..(RxFrames - 1)
TxRegion == RxFrames..(NumFrames - 1)

\* What RegionsKept allows into place p.
Welcome(p, frames) ==
    /\ p \in RxPlaces => frames \subseteq RxRegion
    /\ p \in {"txPool", "txHeld"} => frames \subseteq TxRegion
    /\ ~TxReuseRxFrames /\ p \in TxPlaces => frames \subseteq TxRegion

Regions(a) == \A p \in Places : Welcome(p, FrameSet(a[p]))

\* Regions is what RegionsKept says.
LEMMA RegionsMeans == Regions(at) <=> RegionsKept
<1>1. \A p : FramesAt(p) = FrameSet(at[p])
    BY DEF FramesAt, FrameSet
<1> HIDE DEF FramesAt, FrameSet
<1> QED BY <1>1 DEF Regions, Welcome, RegionsKept, RxRegion, TxRegion, Places, RxPlaces, TxPlaces

\* The effect of an action's Move on custody, regions and lengths.
LEMMA MoveKeeps ==
    ASSUME Custody(at), Regions(at),
           NEW src \in Places, NEW dst \in Places, src # dst,
           NEW rest, NEW moved, Splits(at[src], rest, moved),
           Welcome(dst, FrameSet(moved)),
           Move(src, rest, moved, dst)
    PROVE  /\ Custody(at') /\ Regions(at')
           /\ Len(at'[src]) = Len(at[src]) - Len(moved)
           /\ Len(at'[dst]) = Len(at[dst]) + Len(moved)
           /\ \A p \in Places : p # src /\ p # dst => at'[p] = at[p]
           /\ \A p \in Places : Len(at[p]) \in Nat /\ Len(at'[p]) \in Nat
<1>1. at' = AfterMove(at, src, rest, moved, dst)
    BY DEF Move, AfterMove
<1>2. Custody(at')
    BY <1>1, MoveKeepsCustody
<1>3. at'[src] = rest /\ at'[dst] = at[dst] \o moved /\ \A p \in Places : p \notin {src, dst} => at'[p] = at[p]
    BY DEF Move, Custody
<1>4. /\ FrameSet(at'[src]) \subseteq FrameSet(at[src])
      /\ FrameSet(at'[dst]) = FrameSet(at[dst]) \cup FrameSet(moved)
    BY <1>3, Joins DEF Splits, Custody
<1>5. /\ Len(at'[src]) = Len(at[src]) - Len(moved)
      /\ Len(at'[dst]) = Len(at[dst]) + Len(moved)
      /\ \A p \in Places : Len(at[p]) \in Nat /\ Len(at'[p]) \in Nat
    BY <1>1, MoveKeepsCustody
<1>6. ASSUME NEW p \in Places PROVE Welcome(p, FrameSet(at'[p]))
    <2>1. Welcome(p, FrameSet(at[p]))
        BY DEF Regions
    <2>2. CASE p = src
        BY <2>1, <2>2, <1>4 DEF Welcome
    <2>3. CASE p = dst
        BY <2>1, <2>3, <1>4 DEF Welcome
    <2>4. CASE p \notin {src, dst}
        BY <2>1, <2>4, <1>3
    <2> QED BY <2>2, <2>3, <2>4
<1>7. Regions(at')
    BY <1>6 DEF Regions
<1> QED BY <1>2, <1>3, <1>5, <1>7

\* The same when the number of frames moved is known by another name.
LEMMA MoveEffect ==
    ASSUME Custody(at), Regions(at),
           NEW src \in Places, NEW dst \in Places, src # dst,
           NEW rest, NEW moved, Splits(at[src], rest, moved),
           NEW k \in Nat, Len(moved) = k,
           Welcome(dst, FrameSet(moved)),
           Move(src, rest, moved, dst)
    PROVE  /\ Custody(at') /\ Regions(at')
           /\ Len(at'[src]) = Len(at[src]) - k
           /\ Len(at'[dst]) = Len(at[dst]) + k
           /\ \A p \in Places : p # src /\ p # dst => at'[p] = at[p]
           /\ \A p \in Places : Len(at[p]) \in Nat /\ Len(at'[p]) \in Nat
BY MoveKeeps, SMTT(60)

\* The same for a single frame.
LEMMA MoveOne ==
    ASSUME Custody(at), Regions(at),
           NEW src \in Places, NEW dst \in Places, src # dst,
           NEW rest, NEW moved, Splits(at[src], rest, moved),
           Len(moved) = 1,
           Welcome(dst, FrameSet(moved)),
           Move(src, rest, moved, dst)
    PROVE  /\ Custody(at') /\ Regions(at')
           /\ Len(at'[src]) = Len(at[src]) - 1
           /\ Len(at'[dst]) = Len(at[dst]) + 1
           /\ \A p \in Places : p # src /\ p # dst => at'[p] = at[p]
           /\ \A p \in Places : Len(at[p]) \in Nat /\ Len(at'[p]) \in Nat
<1> DEFINE k == Len(moved)
<1>1. k = 1 /\ Len(moved) = k /\ k \in Nat
    OBVIOUS
<1> HIDE DEF k
<1>2. /\ Custody(at') /\ Regions(at')
      /\ Len(at'[src]) = Len(at[src]) - k
      /\ Len(at'[dst]) = Len(at[dst]) + k
      /\ \A p \in Places : p # src /\ p # dst => at'[p] = at[p]
      /\ \A p \in Places : Len(at[p]) \in Nat /\ Len(at'[p]) \in Nat
    <2>1. /\ Custody(at') /\ Regions(at')
          /\ Len(at'[src]) = Len(at[src]) - Len(moved)
          /\ Len(at'[dst]) = Len(at[dst]) + Len(moved)
          /\ \A p \in Places : p # src /\ p # dst => at'[p] = at[p]
          /\ \A p \in Places : Len(at[p]) \in Nat /\ Len(at'[p]) \in Nat
        BY MoveKeeps
    <2> QED BY <2>1 DEF k
<1> QED BY <1>1, <1>2

(***************************************************************************)
(* The inductive invariant.                                                *)
(***************************************************************************)

\* Where the two goroutines are.
Control ==
    /\ rxPc \in {"idle", "fill", "receive"} /\ rxN \in Nat
    /\ txPc \in {"idle", "transmit", "complete", "alloc", "build"} /\ txN \in Nat
    /\ txFrom \in TransmitSources /\ sending \in BOOLEAN /\ reaped \in Nat
    /\ reaped <= txN
    /\ txPc # "complete" => reaped = 0

\* The receive side's counter, and the count its goroutine settled on, against
\* the places they count.  The scratch slice is empty outside Fill.
RxCounts ==
    /\ numFilled = Len(at["fillRing"]) + Len(at["rxDriver"]) + Len(at["rxRing"])
    /\ Len(at["fillRing"]) <= FillRingNumDescs
    /\ Len(at["rxRing"]) <= RxRingNumDescs
    /\ rxPc = "receive" => rxN <= Len(at["rxRing"])
    /\ rxPc = "fill" => rxN = Len(at["popScratch"]) /\ rxN <= FillRingNumDescs - Len(at["fillRing"])
    /\ rxPc # "fill" => Len(at["popScratch"]) = 0

\* The transmit side's.  Packets in flight have their completion slots reserved.
TxCounts ==
    /\ numTransmitted = Len(at["txRing"]) + Len(at["txDriver"]) + Len(at["completionRing"]) + reaped
    /\ Len(at["txRing"]) <= TxRingNumDescs
    /\ Len(at["completionRing"]) + reaped + Len(at["txDriver"]) <= CompletionRingNumDescs
    /\ txPc = "complete" => txN - reaped <= Len(at["completionRing"])
    /\ txPc = "transmit" => txN <= Len(at[txFrom]) /\ txN <= TxRingNumDescs - Len(at["txRing"])

IInv == Custody(at) /\ Regions(at) /\ Control /\ RxCounts /\ TxCounts

\* What every action's proof starts from.
LEMMA Basics ==
    ASSUME IInv
    PROVE  /\ \A p \in Places : at[p] \in Seq(Addresses) /\ NoDup(at[p]) /\ Len(at[p]) \in Nat
           /\ RxPlaces \subseteq Places /\ TxPlaces \subseteq Places
           /\ FreeFillSlots \in Nat /\ FreeTxSlots \in Nat
           /\ FillRingNumDescs \in Nat /\ TxRingNumDescs \in Nat
           /\ RxRingNumDescs \in Nat /\ CompletionRingNumDescs \in Nat /\ MaxCount \in Nat
<1>1. \A p \in Places : at[p] \in Seq(Addresses) /\ NoDup(at[p]) /\ Len(at[p]) \in Nat
    BY LenProperties DEF IInv, Custody
<1>2. "fillRing" \in Places /\ "txRing" \in Places /\ RxPlaces \subseteq Places /\ TxPlaces \subseteq Places
    BY DEF Places, RxPlaces, TxPlaces
<1>3. FreeFillSlots \in Nat /\ FreeTxSlots \in Nat
    BY <1>1, <1>2, SocketAssumption DEF IInv, RxCounts, TxCounts, FreeFillSlots, FreeTxSlots
<1> QED BY <1>1, <1>2, <1>3, SocketAssumption

\* Frames that move between receive places are welcome.
LEMMA RxWelcome ==
    ASSUME Regions(at), NEW src \in RxPlaces, NEW dst \in RxPlaces,
           NEW rest, NEW moved, Splits(at[src], rest, moved)
    PROVE  Welcome(dst, FrameSet(moved))
<1>1. FrameSet(moved) \subseteq FrameSet(at[src])
    BY DEF Splits
<1>2. FrameSet(at[src]) \subseteq RxRegion
    BY DEF Regions, Welcome, Places
<1>3. dst \notin TxPlaces /\ dst \notin {"txPool", "txHeld"}
    BY DEF RxPlaces, TxPlaces
<1> QED BY <1>1, <1>2, <1>3 DEF Welcome

\* So are frames that move between transmit places, except that only a place
\* that holds transmit frames in either mode may feed the pool.
LEMMA TxWelcome ==
    ASSUME Regions(at), NEW src \in TxPlaces, NEW dst \in TxPlaces,
           src \in {"txPool", "txHeld"} \/ dst \notin {"txPool", "txHeld"} \/ ~TxReuseRxFrames,
           NEW rest, NEW moved, Splits(at[src], rest, moved)
    PROVE  Welcome(dst, FrameSet(moved))
<1>1. FrameSet(moved) \subseteq FrameSet(at[src])
    BY DEF Splits
<1>2. Welcome(src, FrameSet(at[src]))
    BY DEF Regions, Places
<1>3. dst \notin RxPlaces
    BY DEF RxPlaces, TxPlaces
<1> QED BY <1>1, <1>2, <1>3 DEF Welcome

\* A step that moves frames between other places, if any, and leaves the
\* receive side's variables alone.
LEMMA RxCountsFrame ==
    ASSUME RxCounts, UNCHANGED <<numFilled, rxVars>>,
           \A p \in {"fillRing", "rxDriver", "rxRing", "popScratch"} : at'[p] = at[p]
    PROVE  RxCounts'
BY DEF RxCounts, rxVars

\* A step that moves frames from src to dst, neither of them a place the
\* transmit side counts, and leaves its variables alone.
LEMMA TxCountsFrame ==
    ASSUME IInv, UNCHANGED <<numTransmitted, txVars>>,
           NEW src \in RxPlaces, NEW dst \in RxPlaces, src # dst,
           \A p \in Places : p # src /\ p # dst => at'[p] = at[p],
           NEW k \in Nat, Len(at'[dst]) = Len(at[dst]) + k,
           txPc = "transmit" => txFrom # src
    PROVE  TxCounts'
<1>1. /\ at'["txRing"] = at["txRing"] /\ at'["txDriver"] = at["txDriver"]
      /\ at'["completionRing"] = at["completionRing"]
    BY DEF Places, RxPlaces, TxPlaces
<1>2. txPc' = "transmit" => txN' <= Len(at'[txFrom'])
    <2> SUFFICES ASSUME txPc = "transmit" PROVE txN <= Len(at'[txFrom])
        BY DEF txVars
    <2>1. txN \in Nat /\ txN <= Len(at[txFrom]) /\ txFrom \in Places
        BY DEF IInv, TxCounts, Control, TransmitSources, Places, RxPlaces, TxPlaces
    <2>2. CASE txFrom = dst
        <3>1. Len(at[dst]) \in Nat
            BY <2>1, <2>2, Basics
        <3> QED BY <2>1, <2>2, <3>1
    <2>3. CASE txFrom # dst
        BY <2>1, <2>3
    <2> QED BY <2>2, <2>3
<1> QED BY <1>1, <1>2 DEF IInv, TxCounts, txVars

(***************************************************************************)
(* The receive goroutine's steps.                                          *)
(***************************************************************************)
LEMMA FillReserveKeeps ==
    ASSUME IInv, NEW n \in 1..MaxCount, FillReserve(n) PROVE IInv'
<1> DEFINE s == at["rxPool"]
           k == Clamp(Clamp(n, FreeFillSlots), Len(s))
           keep == Len(s) - k
<1>1. /\ "rxPool" \in RxPlaces /\ "popScratch" \in RxPlaces /\ "rxPool" # "popScratch"
      /\ "rxPool" \in Places /\ "popScratch" \in Places
    BY DEF Places, RxPlaces
<1>2. s \in Seq(Addresses) /\ NoDup(s) /\ Len(s) \in Nat /\ FreeFillSlots \in Nat
    BY <1>1, Basics
<1>3. k \in 1..Len(s) /\ k <= FreeFillSlots
    BY <1>2, SocketAssumption DEF FillReserve, Clamp
<1> HIDE DEF k
<1>4. keep \in 0..Len(s)
    BY <1>2, <1>3
<1>5. Splits(s, Oldest(s, keep), Rest(s, keep)) /\ Len(Oldest(s, keep)) = keep
    BY <1>2, <1>4, SplitAt
<1>6. Len(Rest(s, keep)) = k
    <2>1. Len(s) = Len(Oldest(s, keep)) + Len(Rest(s, keep)) /\ Len(Rest(s, keep)) \in Nat
        BY <1>5, LenProperties DEF Splits
    <2> QED BY <2>1, <1>2, <1>3, <1>5
<1>7. Move("rxPool", Oldest(s, keep), Rest(s, keep), "popScratch")
    BY DEF FillReserve, PopMove, k
<1>8. Welcome("popScratch", FrameSet(Rest(s, keep)))
    BY <1>1, <1>5, RxWelcome DEF IInv
<1>9. /\ Custody(at') /\ Regions(at')
      /\ Len(at'["rxPool"]) = Len(at["rxPool"]) - k
      /\ Len(at'["popScratch"]) = Len(at["popScratch"]) + k
      /\ \A p \in Places : p # "rxPool" /\ p # "popScratch" => at'[p] = at[p]
    BY <1>1, <1>2, <1>3, <1>5, <1>6, <1>7, <1>8, MoveEffect DEF IInv
<1>10. rxPc = "idle" /\ rxPc' = "fill" /\ rxN' = k /\ UNCHANGED <<numFilled, numTransmitted, txVars>>
    BY DEF FillReserve, RxMayCall, k
<1>11. Control'
    BY <1>2, <1>3, <1>10 DEF IInv, Control, txVars
<1>12. RxCounts'
    <2>1. at'["fillRing"] = at["fillRing"] /\ at'["rxDriver"] = at["rxDriver"]
          /\ at'["rxRing"] = at["rxRing"] /\ Len(at["popScratch"]) = 0
        BY <1>9, <1>10 DEF Places, RxPlaces, IInv, RxCounts
    <2> QED BY <2>1, <1>3, <1>9, <1>10 DEF IInv, RxCounts, FreeFillSlots
<1>13. TxCounts'
    <2>1. txFrom # "rxPool"
        BY DEF IInv, Control, TransmitSources
    <2> QED BY <2>1, <1>1, <1>3, <1>9, <1>10, TxCountsFrame
<1> QED BY <1>9, <1>11, <1>12, <1>13 DEF IInv

\* Fill hands the reserved frames to the kernel and counts them.
LEMMA FillPublishKeeps ==
    ASSUME IInv, FillPublish PROVE IInv'
<1> DEFINE s == at["popScratch"]
<1>1. /\ "popScratch" \in RxPlaces /\ "fillRing" \in RxPlaces /\ "popScratch" # "fillRing"
      /\ "popScratch" \in Places /\ "fillRing" \in Places
    BY DEF Places, RxPlaces
<1>2. s \in Seq(Addresses) /\ NoDup(s)
    BY <1>1, Basics
<1>3. /\ rxPc = "fill" /\ rxPc' = "idle" /\ rxN' = 0 /\ numFilled' = numFilled + rxN
      /\ UNCHANGED <<numTransmitted, txVars>>
      /\ Move("popScratch", <<>>, s, "fillRing")
    BY DEF FillPublish
<1>4. Splits(s, <<>>, s)
    BY <1>2, SplitAll
<1>5. rxN \in Nat /\ Len(s) = rxN /\ rxN <= FillRingNumDescs - Len(at["fillRing"])
    BY <1>3 DEF IInv, Control, RxCounts
<1>6. Welcome("fillRing", FrameSet(s))
    BY <1>1, <1>4, RxWelcome DEF IInv
<1>7. /\ Custody(at') /\ Regions(at')
      /\ Len(at'["popScratch"]) = Len(at["popScratch"]) - rxN
      /\ Len(at'["fillRing"]) = Len(at["fillRing"]) + rxN
      /\ \A p \in Places : p # "popScratch" /\ p # "fillRing" => at'[p] = at[p]
    BY <1>1, <1>3, <1>4, <1>5, <1>6, MoveEffect DEF IInv
<1>8. Control'
    BY <1>3 DEF IInv, Control, txVars
<1>9. RxCounts'
    <2>1. at'["rxDriver"] = at["rxDriver"] /\ at'["rxRing"] = at["rxRing"]
          /\ Len(at["fillRing"]) \in Nat /\ Len(at["rxDriver"]) \in Nat /\ Len(at["rxRing"]) \in Nat
        BY <1>7, Basics DEF Places, RxPlaces
    <2>2. Len(at'["popScratch"]) = 0 /\ Len(at'["fillRing"]) <= FillRingNumDescs
        BY <2>1, <1>5, <1>7, Basics
    <2>3. numFilled' = Len(at'["fillRing"]) + Len(at'["rxDriver"]) + Len(at'["rxRing"])
        <3> DEFINE fill == Len(at["fillRing"])
                   driver == Len(at["rxDriver"])
                   ring == Len(at["rxRing"])
        <3>1. /\ numFilled = fill + driver + ring /\ numFilled' = numFilled + rxN
              /\ fill \in Nat /\ driver \in Nat /\ ring \in Nat /\ rxN \in Nat
            BY <2>1, <1>3, <1>5 DEF IInv, RxCounts
        <3>2. /\ Len(at'["fillRing"]) = fill + rxN
              /\ Len(at'["rxDriver"]) = driver /\ Len(at'["rxRing"]) = ring
            BY <2>1, <1>7
        <3> HIDE DEF fill, driver, ring
        <3>3. numFilled' = (fill + rxN) + driver + ring
            BY <3>1
        <3> QED BY <3>2, <3>3
    <2>4. Len(at'["rxRing"]) <= RxRingNumDescs
        BY <2>1 DEF IInv, RxCounts
    <2> QED BY <2>2, <2>3, <2>4, <1>3 DEF RxCounts
<1>10. TxCounts'
    <2>1. txFrom # "popScratch"
        BY DEF IInv, Control, TransmitSources
    <2> QED BY <2>1, <1>1, <1>3, <1>5, <1>7, TxCountsFrame
<1> QED BY <1>7, <1>8, <1>9, <1>10 DEF IInv

\* Receive settles on a count that what is on the rx ring covers.
LEMMA ReceiveLoadKeeps ==
    ASSUME IInv, NEW max \in 1..MaxCount, ReceiveLoad(max) PROVE IInv'
<1> DEFINE k == Clamp(max, Len(at["rxRing"]))
<1>1. Len(at["rxRing"]) \in Nat
    BY Basics DEF Places, RxPlaces
<1>2. k \in Nat /\ k <= Len(at["rxRing"])
    BY <1>1, SocketAssumption DEF Clamp
<1> HIDE DEF k
<1>3. /\ rxPc = "idle" /\ rxPc' = "receive" /\ rxN' = k
      /\ UNCHANGED <<at, numFilled, numTransmitted, txVars>>
    BY DEF ReceiveLoad, RxMayCall, k
<1>4. Control'
    BY <1>2, <1>3 DEF IInv, Control, txVars
<1>5. RxCounts'
    BY <1>2, <1>3 DEF IInv, RxCounts
<1>6. TxCounts'
    BY <1>3 DEF IInv, TxCounts, txVars
<1> QED BY <1>3, <1>4, <1>5, <1>6 DEF IInv

\* Receive hands the oldest frames to the caller and uncounts them.
LEMMA ReceiveReleaseKeeps ==
    ASSUME IInv, ReceiveRelease PROVE IInv'
<1> DEFINE s == at["rxRing"]
<1>1. /\ "rxRing" \in RxPlaces /\ "rxHeld" \in RxPlaces /\ "rxRing" # "rxHeld"
      /\ "rxRing" \in Places /\ "rxHeld" \in Places
    BY DEF Places, RxPlaces
<1>2. s \in Seq(Addresses) /\ NoDup(s) /\ Len(s) \in Nat
    BY <1>1, Basics
<1>3. /\ rxPc = "receive" /\ rxPc' = "idle" /\ rxN' = 0 /\ numFilled' = numFilled - rxN
      /\ UNCHANGED <<numTransmitted, txVars>>
      /\ Move("rxRing", Rest(s, rxN), Oldest(s, rxN), "rxHeld")
    BY DEF ReceiveRelease
<1>4. rxN \in Nat /\ rxN <= Len(s)
    BY <1>3 DEF IInv, Control, RxCounts
<1>5. Splits(s, Rest(s, rxN), Oldest(s, rxN)) /\ Len(Oldest(s, rxN)) = rxN
    <2>1. rxN \in 0..Len(s)
        BY <1>2, <1>4
    <2> QED BY <2>1, <1>2, SplitAt
<1>6. Welcome("rxHeld", FrameSet(Oldest(s, rxN)))
    BY <1>1, <1>5, RxWelcome DEF IInv
<1>7. /\ Custody(at') /\ Regions(at')
      /\ Len(at'["rxRing"]) = Len(at["rxRing"]) - rxN
      /\ Len(at'["rxHeld"]) = Len(at["rxHeld"]) + rxN
      /\ \A p \in Places : p # "rxRing" /\ p # "rxHeld" => at'[p] = at[p]
    BY <1>1, <1>3, <1>4, <1>5, <1>6, MoveEffect DEF IInv
<1>8. Control'
    BY <1>3 DEF IInv, Control, txVars
<1>9. RxCounts'
    <2>1. at'["rxDriver"] = at["rxDriver"] /\ at'["fillRing"] = at["fillRing"]
          /\ at'["popScratch"] = at["popScratch"]
          /\ Len(at["fillRing"]) \in Nat /\ Len(at["rxDriver"]) \in Nat
        BY <1>7, Basics DEF Places, RxPlaces
    <2> QED BY <2>1, <1>2, <1>3, <1>4, <1>7, Basics DEF IInv, RxCounts
<1>10. TxCounts'
    <2>1. txFrom # "rxRing"
        BY DEF IInv, Control, TransmitSources
    <2> QED BY <2>1, <1>1, <1>3, <1>4, <1>7, TxCountsFrame
<1> QED BY <1>7, <1>8, <1>9, <1>10 DEF IInv

\* Recycle returns frames to the pool without their offsets.
LEMMA RecycleKeeps ==
    ASSUME IInv, NEW n \in 1..MaxCount, Recycle(n) PROVE IInv'
<1> DEFINE s == at["rxHeld"]
           moved == Bases(Oldest(s, n))
<1>1. /\ "rxHeld" \in RxPlaces /\ "rxPool" \in RxPlaces /\ "rxHeld" # "rxPool"
      /\ "rxHeld" \in Places /\ "rxPool" \in Places
    BY DEF Places, RxPlaces
<1>2. s \in Seq(Addresses) /\ NoDup(s) /\ Len(s) \in Nat
    BY <1>1, Basics
<1>3. /\ RxMayCall /\ n \in Nat /\ n <= Len(s)
      /\ UNCHANGED <<numFilled, numTransmitted, rxVars, txVars>>
      /\ Move("rxHeld", Rest(s, n), moved, "rxPool")
    BY SocketAssumption DEF Recycle
<1>4. Splits(s, Rest(s, n), Oldest(s, n)) /\ Len(Oldest(s, n)) = n
    <2>1. n \in 0..Len(s)
        BY <1>2, <1>3
    <2> QED BY <2>1, <1>2, SplitAt
<1>5. Splits(s, Rest(s, n), moved) /\ Len(moved) = n
    <2>1. Oldest(s, n) \in Seq(Addresses) /\ NoDup(Oldest(s, n))
        BY <1>4 DEF Splits
    <2>2. /\ moved \in Seq(Addresses) /\ Len(moved) = Len(Oldest(s, n))
          /\ FrameSet(moved) = FrameSet(Oldest(s, n)) /\ NoDup(moved)
        BY <2>1, BasesKeepFrames
    <2> HIDE DEF moved
    <2> QED BY <2>2, <1>4, SplitOffsets
<1> HIDE DEF moved
<1>6. Welcome("rxPool", FrameSet(moved))
    BY <1>1, <1>5, RxWelcome DEF IInv
<1>7. /\ Custody(at') /\ Regions(at')
      /\ Len(at'["rxPool"]) = Len(at["rxPool"]) + n
      /\ \A p \in Places : p # "rxHeld" /\ p # "rxPool" => at'[p] = at[p]
    BY <1>1, <1>3, <1>5, <1>6, MoveEffect DEF IInv
<1>8. Control'
    BY <1>3 DEF IInv, Control, rxVars, txVars
<1>9. RxCounts'
    <2>1. \A p \in {"fillRing", "rxDriver", "rxRing", "popScratch"} : at'[p] = at[p]
        BY <1>7 DEF Places, RxPlaces
    <2> QED BY <2>1, <1>3, RxCountsFrame DEF IInv
<1>10. TxCounts'
    <2>1. txPc = "transmit" => txFrom # "rxHeld"
        BY <1>3 DEF RxMayCall, IInv, Control, TransmitSources
    <2> QED BY <2>1, <1>1, <1>3, <1>7, TxCountsFrame
<1> QED BY <1>7, <1>8, <1>9, <1>10 DEF IInv

(***************************************************************************)
(* The transmit goroutine's steps.                                         *)
(***************************************************************************)

\* Nothing of the receive side lies in the transmit places or the two places
\* the application moves receive frames between.
LEMMA RxCountsKept ==
    ASSUME IInv, UNCHANGED <<numFilled, rxVars>>,
           NEW src \in TxPlaces \cup {"rxHeld"}, NEW dst \in TxPlaces \cup {"rxPool"},
           \A p \in Places : p # src /\ p # dst => at'[p] = at[p]
    PROVE  RxCounts'
<1>1. \A p \in {"fillRing", "rxDriver", "rxRing", "popScratch"} :
          p \in Places /\ p # src /\ p # dst
    BY DEF Places, RxPlaces, TxPlaces
<1> QED BY <1>1, RxCountsFrame DEF IInv

\* Alloc's and SendAlloc's Move: the pool's last k frames go to the caller.
LEMMA PopEffect ==
    ASSUME IInv, NEW k \in 1..Len(at["txPool"]), PopMove("txPool", k, "txHeld")
    PROVE  /\ Custody(at') /\ Regions(at')
           /\ Len(at'["txHeld"]) = Len(at["txHeld"]) + k
           /\ \A p \in Places : p # "txPool" /\ p # "txHeld" => at'[p] = at[p]
<1> DEFINE s == at["txPool"]
           keep == Len(s) - k
<1>1. /\ "txPool" \in TxPlaces /\ "txHeld" \in TxPlaces /\ "txPool" # "txHeld"
      /\ "txPool" \in Places /\ "txHeld" \in Places
    BY DEF Places, TxPlaces
<1>2. s \in Seq(Addresses) /\ NoDup(s) /\ Len(s) \in Nat /\ k \in Nat
    BY <1>1, Basics
<1>3. keep \in 0..Len(s)
    BY <1>2
<1>4. Splits(s, Oldest(s, keep), Rest(s, keep)) /\ Len(Oldest(s, keep)) = keep
    BY <1>2, <1>3, SplitAt
<1>5. Len(Rest(s, keep)) = k
    <2>1. Len(s) = Len(Oldest(s, keep)) + Len(Rest(s, keep)) /\ Len(Rest(s, keep)) \in Nat
        BY <1>4, LenProperties DEF Splits
    <2> QED BY <2>1, <1>2, <1>4
<1>6. Move("txPool", Oldest(s, keep), Rest(s, keep), "txHeld")
    BY DEF PopMove
<1>7. Welcome("txHeld", FrameSet(Rest(s, keep)))
    BY <1>1, <1>4, TxWelcome DEF IInv
<1> QED BY <1>1, <1>2, <1>4, <1>5, <1>6, <1>7, MoveEffect DEF IInv

\* How much is allocated: some of the pool, and no more than the ring has room for.
LEMMA AllocCountBounds ==
    ASSUME IInv, NEW n \in 1..MaxCount
    PROVE  /\ AllocCount(n) \in Nat
           /\ AllocCount(n) > 0 => AllocCount(n) \in 1..Len(at["txPool"])
<1>1. Len(at["txPool"]) \in Nat /\ FreeTxSlots \in Nat /\ n \in Nat
    BY Basics, SocketAssumption DEF Places, TxPlaces
<1> QED BY <1>1 DEF AllocCount, Clamp

\* Alloc hands frames from the pool to the caller.
LEMMA AllocKeeps ==
    ASSUME IInv, NEW n \in 1..MaxCount, Alloc(n) PROVE IInv'
<1> DEFINE k == AllocCount(n)
<1>1. k \in 1..Len(at["txPool"])
    BY AllocCountBounds DEF Alloc
<1> HIDE DEF k
<1>2. /\ txPc = "idle" /\ UNCHANGED <<numFilled, numTransmitted, rxVars, txVars>>
      /\ PopMove("txPool", k, "txHeld")
    BY DEF Alloc, TxMayCall, k
<1>3. /\ Custody(at') /\ Regions(at')
      /\ \A p \in Places : p # "txPool" /\ p # "txHeld" => at'[p] = at[p]
    BY <1>1, <1>2, PopEffect
<1>4. Control'
    BY <1>2 DEF IInv, Control, rxVars, txVars
<1>5. RxCounts'
    BY <1>2, <1>3, RxCountsKept DEF TxPlaces
<1>6. TxCounts'
    <2>1. /\ at'["txRing"] = at["txRing"] /\ at'["txDriver"] = at["txDriver"]
          /\ at'["completionRing"] = at["completionRing"]
        BY <1>3 DEF Places, TxPlaces
    <2> QED BY <2>1, <1>2 DEF IInv, TxCounts, txVars
<1> QED BY <1>3, <1>4, <1>5, <1>6 DEF IInv

\* Transmit settles on a count that its place and the tx ring cover.
LEMMA TransmitLoadKeeps ==
    ASSUME IInv, NEW from \in TransmitSources, NEW n \in 1..MaxCount, TransmitLoad(from, n)
    PROVE  IInv'
<1> DEFINE k == Clamp(n, FreeTxSlots)
<1>1. /\ from \in Places /\ Len(at[from]) \in Nat /\ FreeTxSlots \in Nat
      /\ n \in Nat /\ n <= Len(at[from])
    BY Basics, SocketAssumption, SMTT(60) DEF TransmitLoad, TransmitSources, Places, RxPlaces, TxPlaces
<1>2. k \in Nat /\ k <= Len(at[from]) /\ k <= FreeTxSlots
    BY <1>1 DEF Clamp
<1> HIDE DEF k
<1>3. /\ txPc = "idle" /\ txPc' = "transmit" /\ txN' = k /\ txFrom' = from
      /\ UNCHANGED <<at, numFilled, numTransmitted, rxVars, sending, reaped>>
    BY DEF TransmitLoad, TxMayCall, k
<1>4. Control'
    BY <1>2, <1>3 DEF IInv, Control, rxVars
<1>5. RxCounts'
    BY <1>3 DEF IInv, RxCounts, rxVars
<1>6. TxCounts'
    BY <1>2, <1>3 DEF IInv, TxCounts, FreeTxSlots
<1> QED BY <1>3, <1>4, <1>5, <1>6 DEF IInv

\* Transmit queues what it settled on and counts it.
LEMMA TransmitPublishKeeps ==
    ASSUME IInv, TransmitPublish PROVE IInv'
<1> DEFINE s == at[txFrom]
<1>1. /\ txFrom \in Places /\ "txRing" \in Places /\ txFrom # "txRing"
      /\ txFrom \in TxPlaces \cup {"rxHeld"} /\ "txRing" \in TxPlaces
    BY DEF IInv, Control, TransmitSources, Places, RxPlaces, TxPlaces
<1>2. s \in Seq(Addresses) /\ NoDup(s) /\ Len(s) \in Nat /\ Len(at["txRing"]) \in Nat
    BY <1>1, Basics
<1>3. /\ txPc = "transmit" /\ txPc' = "idle" /\ txN' = 0 /\ txFrom' = "txHeld" /\ sending' = FALSE
      /\ numTransmitted' = numTransmitted + txN
      /\ UNCHANGED <<numFilled, rxVars, reaped>>
      /\ Move(txFrom, Rest(s, txN), Oldest(s, txN), "txRing")
    BY DEF TransmitPublish
<1>4. txN \in Nat /\ txN <= Len(s) /\ txN <= TxRingNumDescs - Len(at["txRing"])
    BY <1>3 DEF IInv, Control, TxCounts
<1>5. Splits(s, Rest(s, txN), Oldest(s, txN)) /\ Len(Oldest(s, txN)) = txN
    <2>1. txN \in 0..Len(s)
        BY <1>2, <1>4
    <2> QED BY <2>1, <1>2, SplitAt
<1>6. Welcome("txRing", FrameSet(Oldest(s, txN)))
    <2>1. CASE txFrom \in TxPlaces
        BY <2>1, <1>1, <1>5, TxWelcome DEF IInv
    <2>2. CASE txFrom = "rxHeld"
        <3>1. TxReuseRxFrames
            BY <2>2 DEF IInv, Control, TransmitSources
        <3> QED BY <3>1 DEF Welcome, RxPlaces
    <2> QED BY <2>1, <2>2, <1>1
<1>7. /\ Custody(at') /\ Regions(at')
      /\ Len(at'["txRing"]) = Len(at["txRing"]) + txN
      /\ \A p \in Places : p # txFrom /\ p # "txRing" => at'[p] = at[p]
    BY <1>1, <1>3, <1>4, <1>5, <1>6, MoveEffect DEF IInv
<1>8. Control'
    <2>1. reaped = 0
        BY <1>3 DEF IInv, Control
    <2>2. txFrom' \in TransmitSources
        BY <1>3 DEF TransmitSources
    <2>3. rxPc' = rxPc /\ rxN' = rxN /\ reaped' = 0 /\ txN' = 0 /\ txPc' = "idle" /\ sending' \in BOOLEAN
        BY <2>1, <1>3 DEF rxVars
    <2> QED BY <2>2, <2>3 DEF IInv, Control
<1>9. RxCounts'
    BY <1>1, <1>3, <1>7, RxCountsKept
<1>10. TxCounts'
    <2>1. at'["txDriver"] = at["txDriver"] /\ at'["completionRing"] = at["completionRing"]
          /\ Len(at["txDriver"]) \in Nat /\ Len(at["completionRing"]) \in Nat /\ reaped = 0
        BY <1>3, <1>7, Basics DEF IInv, Control, TransmitSources, Places, TxPlaces
    <2>2. numTransmitted' = Len(at'["txRing"]) + Len(at'["txDriver"]) + Len(at'["completionRing"]) + reaped'
        <3> DEFINE ring == Len(at["txRing"])
                   driver == Len(at["txDriver"])
                   completion == Len(at["completionRing"])
        <3>1. /\ numTransmitted = ring + driver + completion + reaped /\ numTransmitted' = numTransmitted + txN
              /\ ring \in Nat /\ driver \in Nat /\ completion \in Nat /\ txN \in Nat
            BY <2>1, <1>2, <1>3, <1>4 DEF IInv, TxCounts
        <3>2. /\ Len(at'["txRing"]) = ring + txN
              /\ Len(at'["txDriver"]) = driver /\ Len(at'["completionRing"]) = completion
            BY <2>1, <1>7
        <3> HIDE DEF ring, driver, completion
        <3>3. numTransmitted' = (ring + txN) + driver + completion + reaped
            BY <3>1, <2>1
        <3> QED BY <3>2, <3>3, <1>3
    <2>3. Len(at'["txRing"]) <= TxRingNumDescs
        BY <1>2, <1>4, <1>7, Basics
    <2> QED BY <2>1, <2>2, <2>3, <1>3 DEF IInv, TxCounts
<1> QED BY <1>7, <1>8, <1>9, <1>10 DEF IInv

\* CompleteLoad and SendBegin settle on a count of completions.
LEMMA CompleteCountKeeps ==
    ASSUME IInv, NEW k \in Nat, k <= Len(at["completionRing"]),
           txPc = "idle", txPc' = "complete", txN' = k, sending' \in BOOLEAN,
           UNCHANGED <<at, numFilled, numTransmitted, rxVars, txFrom, reaped>>
    PROVE  IInv'
<1>1. reaped = 0
    BY DEF IInv, Control
<1>2. Control'
    BY <1>1 DEF IInv, Control, rxVars
<1>3. RxCounts'
    BY DEF IInv, RxCounts, rxVars
<1>4. TxCounts'
    <2>1. k - 0 = k
        OBVIOUS
    <2> QED BY <2>1, <1>1 DEF IInv, TxCounts
<1> QED BY <1>2, <1>3, <1>4 DEF IInv

\* Complete settles on a count that the completion ring covers.
LEMMA CompleteLoadKeeps ==
    ASSUME IInv, NEW n \in 1..MaxCount, CompleteLoad(n) PROVE IInv'
<1>1. Len(at["completionRing"]) \in Nat /\ n \in Nat
    BY Basics, SocketAssumption DEF Places, TxPlaces
<1>2. Clamp(n, Len(at["completionRing"])) \in Nat
      /\ Clamp(n, Len(at["completionRing"])) <= Len(at["completionRing"])
    BY <1>1 DEF Clamp
<1>3. sending' \in BOOLEAN
    BY DEF CompleteLoad, IInv, Control
<1> QED BY <1>2, <1>3, CompleteCountKeeps DEF CompleteLoad, TxMayCall

\* SendFunc first reclaims everything that has completed.
LEMMA SendBeginKeeps ==
    ASSUME IInv, SendBegin PROVE IInv'
<1>1. Len(at["completionRing"]) \in Nat
    BY Basics DEF Places, TxPlaces
<1>2. Len(at["completionRing"]) <= Len(at["completionRing"])
    BY <1>1
<1> QED BY <1>1, <1>2, CompleteCountKeeps DEF SendBegin, TxMayCall

\* One iteration of Complete returns one frame to the pool of its region.
LEMMA CompleteOneKeeps ==
    ASSUME IInv, CompleteOne PROVE IInv'
<1> DEFINE s == at["completionRing"]
           addr == Head(s)
           dst == PoolOf(addr)
<1>1. /\ "completionRing" \in Places /\ dst \in Places /\ "completionRing" # dst
      /\ "completionRing" \in TxPlaces /\ dst \in {"rxPool", "txPool"}
    BY DEF PoolOf, Places, RxPlaces, TxPlaces
<1>2. s \in Seq(Addresses) /\ NoDup(s) /\ Len(s) \in Nat
    BY <1>1, Basics
<1>3. /\ txPc = "complete" /\ reaped < txN /\ reaped' = reaped + 1
      /\ UNCHANGED <<numFilled, numTransmitted, rxVars, txPc, txN, txFrom, sending>>
      /\ Move("completionRing", Tail(s), <<FrameBase(addr)>>, dst)
    BY DEF CompleteOne
<1>4. reaped \in Nat /\ txN \in Nat /\ txN - reaped <= Len(s)
    BY <1>3 DEF IInv, Control, TxCounts
<1>5. s # <<>>
    <2>1. Len(s) > 0
        BY <1>2, <1>3, <1>4
    <2> QED BY <2>1, <1>2
<1>6. Splits(s, Tail(s), <<addr>>) /\ addr \in Addresses
    BY <1>2, <1>5, SplitHead
<1> HIDE DEF addr, dst
<1>7. Splits(s, Tail(s), <<FrameBase(addr)>>) /\ Len(<<FrameBase(addr)>>) = 1
      /\ FrameSet(<<FrameBase(addr)>>) = {addr.frame}
    <2>1. FrameBase(addr) \in Addresses /\ FrameBase(addr).frame = addr.frame
        BY <1>6 DEF FrameBase, Addresses
    <2>2. /\ <<addr>> \in Seq(Addresses) /\ Len(<<addr>>) = 1 /\ FrameSet(<<addr>>) = {addr.frame}
        BY <1>6, Single
    <2>3. /\ <<FrameBase(addr)>> \in Seq(Addresses) /\ Len(<<FrameBase(addr)>>) = 1
          /\ FrameSet(<<FrameBase(addr)>>) = {addr.frame} /\ NoDup(<<FrameBase(addr)>>)
        BY <2>1, Single
    <2> QED BY <2>2, <2>3, <1>6, SplitOffsets
<1>8. Welcome(dst, FrameSet(<<FrameBase(addr)>>))
    <2>1. addr.frame \in 0..(NumFrames - 1)
        BY <1>6 DEF Addresses, Frames
    <2>2. addr.frame \in FrameSet(s)
        BY <1>6, Single DEF Splits
    <2>3. ~TxReuseRxFrames => addr.frame \in TxRegion
        BY <2>2, <1>1 DEF IInv, Regions, Welcome
    <2>4. NumFrames \in Nat /\ RxFrames \in Int
        BY SocketAssumption DEF RxFrames
    <2>5. CASE dst = "rxPool"
        <3>1. addr.frame < RxFrames
            BY <2>5 DEF dst, PoolOf
        <3>2. addr.frame \in RxRegion
            BY <2>1, <2>4, <3>1 DEF RxRegion
        <3> QED BY <2>5, <3>2, <1>7 DEF Welcome, TxPlaces
    <2>6. CASE dst = "txPool"
        <3>1. TxReuseRxFrames => ~(addr.frame < RxFrames)
            BY <2>6 DEF dst, PoolOf
        <3>2. addr.frame \in TxRegion
            BY <2>1, <2>3, <2>4, <3>1, SocketAssumption DEF TxRegion
        <3> QED BY <2>6, <3>2, <1>7 DEF Welcome, RxPlaces
    <2> QED BY <2>5, <2>6, <1>1
<1>9. /\ Custody(at') /\ Regions(at')
      /\ Len(at'["completionRing"]) = Len(at["completionRing"]) - 1
      /\ \A p \in Places : p # "completionRing" /\ p # dst => at'[p] = at[p]
    <2> DEFINE moved == <<FrameBase(addr)>>
    <2>1. Splits(s, Tail(s), moved) /\ Len(moved) = 1 /\ Welcome(dst, FrameSet(moved))
          /\ Move("completionRing", Tail(s), moved, dst)
        BY <1>3, <1>7, <1>8
    <2> HIDE DEF moved
    <2> QED BY <2>1, <1>1, MoveOne DEF IInv
<1>10. Control'
    <2>1. reaped' \in Nat /\ reaped' <= txN
        BY <1>3, <1>4
    <2> QED BY <2>1, <1>3 DEF IInv, Control, rxVars
<1>11. RxCounts'
    <2>1. dst \in TxPlaces \cup {"rxPool"}
        BY <1>1 DEF TxPlaces
    <2> QED BY <2>1, <1>1, <1>3, <1>9, RxCountsKept
<1>12. TxCounts'
    <2> DEFINE ring == Len(at["txRing"])
               driver == Len(at["txDriver"])
               completion == Len(at["completionRing"])
    <2>1. at'["txRing"] = at["txRing"] /\ at'["txDriver"] = at["txDriver"]
        BY <1>1, <1>9 DEF Places, TxPlaces
    <2>2. /\ numTransmitted = ring + driver + completion + reaped /\ ring <= TxRingNumDescs
          /\ completion + reaped + driver <= CompletionRingNumDescs /\ txN - reaped <= completion
          /\ ring \in Nat /\ driver \in Nat /\ completion \in Nat
        BY <1>4, Basics DEF IInv, TxCounts, Places, TxPlaces
    <2>3. /\ Len(at'["txRing"]) = ring /\ Len(at'["txDriver"]) = driver
          /\ Len(at'["completionRing"]) = completion - 1
        BY <2>1, <1>9
    <2> HIDE DEF ring, driver, completion
    <2>4. /\ numTransmitted = ring + driver + (completion - 1) + (reaped + 1)
          /\ (completion - 1) + (reaped + 1) + driver <= CompletionRingNumDescs
          /\ txN - (reaped + 1) <= completion - 1
        BY <2>2, <1>4, Basics
    <2> QED BY <2>2, <2>3, <2>4, <1>3 DEF TxCounts
<1> QED BY <1>9, <1>10, <1>11, <1>12 DEF IInv

\* Complete releases the slots it has read and uncounts the frames.
LEMMA CompleteReleaseKeeps ==
    ASSUME IInv, CompleteRelease PROVE IInv'
<1>1. /\ txPc = "complete" /\ reaped = txN /\ numTransmitted' = numTransmitted - txN
      /\ reaped' = 0 /\ txPc' \in {"alloc", "idle"} /\ txN' = 0
      /\ UNCHANGED <<at, numFilled, rxVars, txFrom, sending>>
    BY DEF CompleteRelease
<1>2. Control'
    BY <1>1 DEF IInv, Control, rxVars
<1>3. RxCounts'
    BY <1>1 DEF IInv, RxCounts, rxVars
<1>4. TxCounts'
    <2> DEFINE ring == Len(at["txRing"])
               driver == Len(at["txDriver"])
               completion == Len(at["completionRing"])
    <2>1. /\ numTransmitted = ring + driver + completion + reaped /\ ring <= TxRingNumDescs
          /\ completion + reaped + driver <= CompletionRingNumDescs
          /\ ring \in Nat /\ driver \in Nat /\ completion \in Nat /\ txN \in Nat
        BY Basics DEF IInv, Control, TxCounts, Places, TxPlaces
    <2>2. /\ Len(at'["txRing"]) = ring /\ Len(at'["txDriver"]) = driver
          /\ Len(at'["completionRing"]) = completion
        BY <1>1
    <2> HIDE DEF ring, driver, completion
    <2>3. /\ numTransmitted - txN = ring + driver + completion + 0
          /\ completion + 0 + driver <= CompletionRingNumDescs
        BY <2>1, <1>1, Basics
    <2> QED BY <2>1, <2>2, <2>3, <1>1 DEF TxCounts
<1> QED BY <1>1, <1>2, <1>3, <1>4 DEF IInv

\* A step of SendFunc that moves frames between the pool and the caller, or none.
LEMMA SendStepKeeps ==
    ASSUME IInv, Custody(at'), Regions(at'),
           \A p \in Places : p # "txPool" /\ p # "txHeld" => at'[p] = at[p],
           txPc \in {"alloc", "build"}, txPc' \in {"idle", "build"}, sending' \in BOOLEAN,
           UNCHANGED <<numFilled, numTransmitted, rxVars, txN, txFrom, reaped>>
    PROVE  IInv'
<1>1. Control'
    BY DEF IInv, Control, rxVars
<1>2. RxCounts'
    BY RxCountsKept DEF TxPlaces
<1>3. TxCounts'
    <2>1. /\ at'["txRing"] = at["txRing"] /\ at'["txDriver"] = at["txDriver"]
          /\ at'["completionRing"] = at["completionRing"]
        BY DEF Places, TxPlaces
    <2> QED BY <2>1 DEF IInv, TxCounts
<1> QED BY <1>1, <1>2, <1>3 DEF IInv

\* SendFunc allocates, or gives up.
LEMMA SendAllocKeeps ==
    ASSUME IInv, NEW n \in 1..MaxCount, SendAlloc(n) PROVE IInv'
<1> DEFINE k == AllocCount(n)
<1>1. k \in Nat /\ (k > 0 => k \in 1..Len(at["txPool"]))
    BY AllocCountBounds
<1> HIDE DEF k
<1>2. /\ txPc = "alloc" /\ UNCHANGED <<numFilled, numTransmitted, rxVars, txN, txFrom, reaped>>
      /\ \/ txPc' = "idle" /\ sending' = FALSE /\ at' = at
         \/ k > 0 /\ txPc' = "build" /\ sending' = sending /\ PopMove("txPool", k, "txHeld")
    BY DEF SendAlloc, k
<1>3. CASE at' = at /\ txPc' = "idle" /\ sending' = FALSE
    <2>1. Custody(at') /\ Regions(at')
        BY <1>3 DEF IInv
    <2> QED BY <2>1, <1>2, <1>3, SendStepKeeps
<1>4. CASE k > 0 /\ txPc' = "build" /\ sending' = sending /\ PopMove("txPool", k, "txHeld")
    <2>1. /\ Custody(at') /\ Regions(at')
          /\ \A p \in Places : p # "txPool" /\ p # "txHeld" => at'[p] = at[p]
        BY <1>1, <1>4, PopEffect
    <2>2. sending' \in BOOLEAN
        BY <1>4 DEF IInv, Control
    <2> QED BY <2>1, <2>2, <1>2, <1>4, SendStepKeeps
<1> QED BY <1>2, <1>3, <1>4

\* SendFunc goes on to Transmit with what it allocated.
LEMMA SendBuiltKeeps ==
    ASSUME IInv, SendBuilt PROVE IInv'
<1> DEFINE k == Clamp(Len(at["txHeld"]), FreeTxSlots)
<1>1. Len(at["txHeld"]) \in Nat /\ FreeTxSlots \in Nat
    BY Basics DEF Places, TxPlaces
<1>2. k \in Nat /\ k <= Len(at["txHeld"]) /\ k <= FreeTxSlots
    BY <1>1 DEF Clamp
<1> HIDE DEF k
<1>3. /\ txPc = "build" /\ txPc' = "transmit" /\ txN' = k /\ txFrom' = "txHeld"
      /\ UNCHANGED <<at, numFilled, numTransmitted, rxVars, sending, reaped>>
    BY DEF SendBuilt, k
<1>4. Control'
    <2>1. reaped = 0 /\ txFrom' \in TransmitSources
        BY <1>3 DEF IInv, Control, TransmitSources
    <2> QED BY <2>1, <1>2, <1>3 DEF IInv, Control, rxVars
<1>5. RxCounts'
    BY <1>3 DEF IInv, RxCounts, rxVars
<1>6. TxCounts'
    BY <1>2, <1>3 DEF IInv, TxCounts, FreeTxSlots
<1> QED BY <1>3, <1>4, <1>5, <1>6 DEF IInv

\* SendFunc puts every frame back after a bad length.
LEMMA SendBuildRejectedKeeps ==
    ASSUME IInv, SendBuildRejected PROVE IInv'
<1> DEFINE s == at["txHeld"]
<1>1. /\ "txHeld" \in TxPlaces /\ "txPool" \in TxPlaces /\ "txHeld" # "txPool"
      /\ "txHeld" \in Places /\ "txPool" \in Places
    BY DEF Places, TxPlaces
<1>2. s \in Seq(Addresses) /\ NoDup(s) /\ Len(s) \in Nat
    BY <1>1, Basics
<1>3. /\ txPc = "build" /\ txPc' = "idle" /\ sending' = FALSE
      /\ UNCHANGED <<numFilled, numTransmitted, rxVars, txN, txFrom, reaped>>
      /\ Move("txHeld", <<>>, Bases(s), "txPool")
    BY DEF SendBuildRejected
<1>4. Splits(s, <<>>, Bases(s)) /\ Len(Bases(s)) = Len(s)
    <2>1. Splits(s, <<>>, s)
        BY <1>2, SplitAll
    <2>2. /\ Bases(s) \in Seq(Addresses) /\ Len(Bases(s)) = Len(s)
          /\ FrameSet(Bases(s)) = FrameSet(s) /\ NoDup(Bases(s))
        BY <1>2, BasesKeepFrames
    <2> QED BY <2>1, <2>2, SplitOffsets
<1>5. Welcome("txPool", FrameSet(Bases(s)))
    BY <1>1, <1>4, TxWelcome DEF IInv
<1>6. /\ Custody(at') /\ Regions(at')
      /\ \A p \in Places : p # "txHeld" /\ p # "txPool" => at'[p] = at[p]
    BY <1>1, <1>2, <1>3, <1>4, <1>5, MoveEffect DEF IInv
<1> QED BY <1>3, <1>6, SendStepKeeps

(***************************************************************************)
(* The kernel's steps.                                                     *)
(***************************************************************************)

\* The driver takes a buffer off the fill ring.
LEMMA DriverTakesBufferKeeps ==
    ASSUME IInv, DriverTakesBuffer PROVE IInv'
<1> DEFINE s == at["fillRing"]
           moved == <<Head(s)>>
<1>1. /\ "fillRing" \in RxPlaces /\ "rxDriver" \in RxPlaces /\ "fillRing" # "rxDriver"
      /\ "fillRing" \in Places /\ "rxDriver" \in Places
    BY DEF Places, RxPlaces
<1>2. s \in Seq(Addresses) /\ NoDup(s) /\ Len(s) \in Nat
    BY <1>1, Basics
<1>3. /\ s # <<>> /\ UNCHANGED <<numFilled, numTransmitted, rxVars, txVars>>
      /\ Move("fillRing", Tail(s), moved, "rxDriver")
    BY DEF DriverTakesBuffer
<1>4. Splits(s, Tail(s), moved) /\ Len(moved) = 1
    BY <1>2, <1>3, SplitHead, Single
<1> HIDE DEF moved
<1>5. Welcome("rxDriver", FrameSet(moved))
    BY <1>1, <1>4, RxWelcome DEF IInv
<1>6. /\ Custody(at') /\ Regions(at')
      /\ Len(at'["fillRing"]) = Len(at["fillRing"]) - 1
      /\ Len(at'["rxDriver"]) = Len(at["rxDriver"]) + 1
      /\ \A p \in Places : p # "fillRing" /\ p # "rxDriver" => at'[p] = at[p]
    BY <1>1, <1>3, <1>4, <1>5, MoveOne DEF IInv
<1>7. Control'
    BY <1>3 DEF IInv, Control, rxVars, txVars
<1>8. RxCounts'
    <2> DEFINE fill == Len(at["fillRing"])
               driver == Len(at["rxDriver"])
               ring == Len(at["rxRing"])
    <2>1. /\ numFilled = fill + driver + ring
          /\ fill <= FillRingNumDescs /\ ring <= RxRingNumDescs
          /\ rxPc = "receive" => rxN <= ring
          /\ rxPc = "fill" => rxN = Len(at["popScratch"]) /\ rxN <= FillRingNumDescs - fill
          /\ rxPc # "fill" => Len(at["popScratch"]) = 0
          /\ fill \in Nat /\ driver \in Nat /\ ring \in Nat /\ rxN \in Nat
        BY Basics DEF IInv, RxCounts, Control, Places, RxPlaces
    <2>2. /\ Len(at'["fillRing"]) = fill - 1 /\ Len(at'["rxDriver"]) = driver + 1
          /\ Len(at'["rxRing"]) = ring /\ Len(at'["popScratch"]) = Len(at["popScratch"])
        BY <1>6 DEF Places, RxPlaces
    <2> HIDE DEF fill, driver, ring
    <2>3. /\ numFilled = (fill - 1) + (driver + 1) + ring /\ fill - 1 <= FillRingNumDescs
          /\ rxPc = "fill" => rxN <= FillRingNumDescs - (fill - 1)
        BY <2>1, Basics
    <2> QED BY <2>1, <2>2, <2>3, <1>3 DEF RxCounts, rxVars
<1>9. TxCounts'
    <2>1. txFrom # "fillRing"
        BY DEF IInv, Control, TransmitSources
    <2> QED BY <2>1, <1>1, <1>3, <1>6, TxCountsFrame
<1> QED BY <1>6, <1>7, <1>8, <1>9 DEF IInv

\* A packet arrives, after the headroom.
LEMMA DriverReceivesKeeps ==
    ASSUME IInv, DriverReceives PROVE IInv'
<1> DEFINE s == at["rxDriver"]
           addr == Head(s)
           moved == <<[addr EXCEPT !.off = Headroom]>>
<1>1. /\ "rxDriver" \in RxPlaces /\ "rxRing" \in RxPlaces /\ "rxDriver" # "rxRing"
      /\ "rxDriver" \in Places /\ "rxRing" \in Places
    BY DEF Places, RxPlaces
<1>2. s \in Seq(Addresses) /\ NoDup(s) /\ Len(s) \in Nat
    BY <1>1, Basics
<1>3. /\ s # <<>> /\ Len(at["rxRing"]) < RxRingNumDescs
      /\ UNCHANGED <<numFilled, numTransmitted, rxVars, txVars>>
      /\ Move("rxDriver", Tail(s), moved, "rxRing")
    BY DEF DriverReceives
<1>4. Splits(s, Tail(s), <<addr>>) /\ addr \in Addresses
    BY <1>2, <1>3, SplitHead
<1> HIDE DEF addr
<1>5. Splits(s, Tail(s), moved) /\ Len(moved) = 1
    <2>1. [addr EXCEPT !.off = Headroom] \in Addresses /\ [addr EXCEPT !.off = Headroom].frame = addr.frame
        BY <1>4 DEF Addresses
    <2>2. /\ <<addr>> \in Seq(Addresses) /\ Len(<<addr>>) = 1 /\ FrameSet(<<addr>>) = {addr.frame}
        BY <1>4, Single
    <2>3. /\ moved \in Seq(Addresses) /\ Len(moved) = 1 /\ FrameSet(moved) = {addr.frame} /\ NoDup(moved)
        BY <2>1, Single
    <2> HIDE DEF moved
    <2> QED BY <2>2, <2>3, <1>4, SplitOffsets
<1> HIDE DEF moved
<1>6. Welcome("rxRing", FrameSet(moved))
    BY <1>1, <1>5, RxWelcome DEF IInv
<1>7. /\ Custody(at') /\ Regions(at')
      /\ Len(at'["rxDriver"]) = Len(at["rxDriver"]) - 1
      /\ Len(at'["rxRing"]) = Len(at["rxRing"]) + 1
      /\ \A p \in Places : p # "rxDriver" /\ p # "rxRing" => at'[p] = at[p]
    BY <1>1, <1>3, <1>5, <1>6, MoveOne DEF IInv
<1>8. Control'
    BY <1>3 DEF IInv, Control, rxVars, txVars
<1>9. RxCounts'
    <2> DEFINE fill == Len(at["fillRing"])
               driver == Len(at["rxDriver"])
               ring == Len(at["rxRing"])
    <2>1. /\ numFilled = fill + driver + ring
          /\ fill <= FillRingNumDescs /\ ring < RxRingNumDescs
          /\ rxPc = "receive" => rxN <= ring
          /\ rxPc = "fill" => rxN = Len(at["popScratch"]) /\ rxN <= FillRingNumDescs - fill
          /\ rxPc # "fill" => Len(at["popScratch"]) = 0
          /\ fill \in Nat /\ driver \in Nat /\ ring \in Nat /\ rxN \in Nat
        BY <1>3, Basics DEF IInv, RxCounts, Control, Places, RxPlaces
    <2>2. /\ Len(at'["rxDriver"]) = driver - 1 /\ Len(at'["rxRing"]) = ring + 1
          /\ Len(at'["fillRing"]) = fill /\ Len(at'["popScratch"]) = Len(at["popScratch"])
        BY <1>7 DEF Places, RxPlaces
    <2> HIDE DEF fill, driver, ring
    <2>3. /\ numFilled = fill + (driver - 1) + (ring + 1) /\ ring + 1 <= RxRingNumDescs
          /\ rxPc = "receive" => rxN <= ring + 1
        BY <2>1, Basics
    <2> QED BY <2>1, <2>2, <2>3, <1>3 DEF RxCounts, rxVars
<1>10. TxCounts'
    <2>1. txFrom # "rxDriver"
        BY DEF IInv, Control, TransmitSources
    <2> QED BY <2>1, <1>1, <1>3, <1>7, TxCountsFrame
<1> QED BY <1>7, <1>8, <1>9, <1>10 DEF IInv

\* The driver takes a packet and reserves its completion slot.
LEMMA DriverTakesPacketKeeps ==
    ASSUME IInv, DriverTakesPacket PROVE IInv'
<1> DEFINE s == at["txRing"]
           moved == <<Head(s)>>
<1>1. /\ "txRing" \in TxPlaces /\ "txDriver" \in TxPlaces /\ "txRing" # "txDriver"
      /\ "txRing" \in Places /\ "txDriver" \in Places
      /\ "txDriver" \notin {"txPool", "txHeld"}
    BY DEF Places, TxPlaces
<1>2. s \in Seq(Addresses) /\ NoDup(s) /\ Len(s) \in Nat
    BY <1>1, Basics
<1>3. /\ s # <<>>
      /\ Len(at["completionRing"]) + reaped + Len(at["txDriver"]) < CompletionRingNumDescs
      /\ UNCHANGED <<numFilled, numTransmitted, rxVars, txVars>>
      /\ Move("txRing", Tail(s), moved, "txDriver")
    BY DEF DriverTakesPacket
<1>4. Splits(s, Tail(s), moved) /\ Len(moved) = 1
    BY <1>2, <1>3, SplitHead, Single
<1> HIDE DEF moved
<1>5. Welcome("txDriver", FrameSet(moved))
    BY <1>1, <1>4, TxWelcome DEF IInv
<1>6. /\ Custody(at') /\ Regions(at')
      /\ Len(at'["txRing"]) = Len(at["txRing"]) - 1
      /\ Len(at'["txDriver"]) = Len(at["txDriver"]) + 1
      /\ \A p \in Places : p # "txRing" /\ p # "txDriver" => at'[p] = at[p]
    BY <1>1, <1>3, <1>4, <1>5, MoveOne DEF IInv
<1>7. Control'
    BY <1>3 DEF IInv, Control, rxVars, txVars
<1>8. RxCounts'
    BY <1>1, <1>3, <1>6, RxCountsKept
<1>9. TxCounts'
    <2> DEFINE ring == Len(at["txRing"])
               driver == Len(at["txDriver"])
               completion == Len(at["completionRing"])
    <2>1. /\ numTransmitted = ring + driver + completion + reaped /\ ring <= TxRingNumDescs
          /\ completion + reaped + driver < CompletionRingNumDescs
          /\ txPc = "complete" => txN - reaped <= completion
          /\ txPc = "transmit" => txN <= Len(at[txFrom]) /\ txN <= TxRingNumDescs - ring
          /\ ring \in Nat /\ driver \in Nat /\ completion \in Nat /\ txN \in Nat /\ reaped \in Nat
        BY <1>3, Basics DEF IInv, Control, TxCounts, Places, TxPlaces
    <2>2. /\ Len(at'["txRing"]) = ring - 1 /\ Len(at'["txDriver"]) = driver + 1
          /\ Len(at'["completionRing"]) = completion /\ at'[txFrom] = at[txFrom]
        BY <1>6 DEF Places, RxPlaces, TxPlaces, IInv, Control, TransmitSources
    <2> HIDE DEF ring, driver, completion
    <2>3. /\ numTransmitted = (ring - 1) + (driver + 1) + completion + reaped /\ ring - 1 <= TxRingNumDescs
          /\ completion + reaped + (driver + 1) <= CompletionRingNumDescs
          /\ txPc = "transmit" => txN <= TxRingNumDescs - (ring - 1)
        BY <2>1, Basics
    <2> QED BY <2>1, <2>2, <2>3, <1>3 DEF TxCounts, txVars
<1> QED BY <1>6, <1>7, <1>8, <1>9 DEF IInv

\* A packet anywhere among those in flight completes.
LEMMA DriverCompletesKeeps ==
    ASSUME IInv, NEW i \in 1..Len(at["txDriver"]), DriverCompletes(i) PROVE IInv'
<1> DEFINE s == at["txDriver"]
           rest == SubSeq(s, 1, i - 1) \o Rest(s, i)
           moved == <<s[i]>>
<1>1. /\ "txDriver" \in TxPlaces /\ "completionRing" \in TxPlaces /\ "txDriver" # "completionRing"
      /\ "txDriver" \in Places /\ "completionRing" \in Places
      /\ "completionRing" \notin {"txPool", "txHeld"}
    BY DEF Places, TxPlaces
<1>2. s \in Seq(Addresses) /\ NoDup(s) /\ Len(s) \in Nat
    BY <1>1, Basics
<1>3. /\ UNCHANGED <<numFilled, numTransmitted, rxVars, txVars>>
      /\ Move("txDriver", rest, moved, "completionRing")
    BY DEF DriverCompletes
<1>4. Splits(s, rest, moved) /\ Len(moved) = 1
    <2>1. s[i] \in Addresses
        BY <1>2, ElementOfSeq
    <2> QED BY <2>1, <1>2, SplitMiddle, Single
<1> HIDE DEF rest, moved
<1>5. Welcome("completionRing", FrameSet(moved))
    BY <1>1, <1>4, TxWelcome DEF IInv
<1>6. /\ Custody(at') /\ Regions(at')
      /\ Len(at'["txDriver"]) = Len(at["txDriver"]) - 1
      /\ Len(at'["completionRing"]) = Len(at["completionRing"]) + 1
      /\ \A p \in Places : p # "txDriver" /\ p # "completionRing" => at'[p] = at[p]
    BY <1>1, <1>3, <1>4, <1>5, MoveOne DEF IInv
<1>7. Control'
    BY <1>3 DEF IInv, Control, rxVars, txVars
<1>8. RxCounts'
    BY <1>1, <1>3, <1>6, RxCountsKept
<1>9. TxCounts'
    <2> DEFINE ring == Len(at["txRing"])
               driver == Len(at["txDriver"])
               completion == Len(at["completionRing"])
    <2>1. /\ numTransmitted = ring + driver + completion + reaped /\ ring <= TxRingNumDescs
          /\ completion + reaped + driver <= CompletionRingNumDescs
          /\ txPc = "complete" => txN - reaped <= completion
          /\ txPc = "transmit" => txN <= Len(at[txFrom]) /\ txN <= TxRingNumDescs - ring
          /\ ring \in Nat /\ driver \in Nat /\ completion \in Nat /\ txN \in Nat /\ reaped \in Nat
        BY Basics DEF IInv, Control, TxCounts, Places, TxPlaces
    <2>2. /\ Len(at'["txDriver"]) = driver - 1 /\ Len(at'["completionRing"]) = completion + 1
          /\ Len(at'["txRing"]) = ring /\ at'[txFrom] = at[txFrom]
        BY <1>6 DEF Places, RxPlaces, TxPlaces, IInv, Control, TransmitSources
    <2> HIDE DEF ring, driver, completion
    <2>3. /\ numTransmitted = ring + (driver - 1) + (completion + 1) + reaped
          /\ (completion + 1) + reaped + (driver - 1) <= CompletionRingNumDescs
          /\ txPc = "complete" => txN - reaped <= completion + 1
        BY <2>1, Basics
    <2> QED BY <2>1, <2>2, <2>3, <1>3 DEF TxCounts, txVars
<1> QED BY <1>6, <1>7, <1>8, <1>9 DEF IInv

(***************************************************************************)
(* The initial state and the theorems.                                     *)
(***************************************************************************)

\* What newFramePool returns: count whole frames from base on.
LEMMA NewFramePoolFacts ==
    ASSUME NEW base \in Nat, NEW count \in Nat, base + count <= NumFrames
    PROVE  /\ NewFramePool(base, count) \in Seq(Addresses)
           /\ Len(NewFramePool(base, count)) = count
           /\ NoDup(NewFramePool(base, count))
           /\ FrameSet(NewFramePool(base, count)) = base..(base + count - 1)
<1> DEFINE s == NewFramePool(base, count)
<1>1. NumFrames \in Nat /\ Headroom \in Nat
    BY SocketAssumption
<1>2. ASSUME NEW i \in 1..count PROVE [frame |-> base + i - 1, off |-> 0] \in Addresses
    <2>1. base + i - 1 \in 0..(NumFrames - 1)
        BY <1>1
    <2> QED BY <2>1 DEF Addresses, Frames
<1>3. s \in [1..count -> Addresses] /\ \A i \in 1..count : s[i].frame = base + i - 1
    BY <1>2 DEF NewFramePool
<1> HIDE DEF s
<1>4. s \in Seq(Addresses) /\ Len(s) = count
    BY <1>3, IsASeq, LenProperties
<1>5. NoDup(s)
    <2> SUFFICES ASSUME NEW i \in 1..count, NEW j \in 1..count, s[i].frame = s[j].frame
                 PROVE  i = j
        BY <1>4 DEF NoDup
    <2>1. base + i - 1 = base + j - 1
        BY <1>3
    <2> QED BY <2>1
<1>6. FrameSet(s) = base..(base + count - 1)
    <2>1. ASSUME NEW f \in FrameSet(s) PROVE f \in base..(base + count - 1)
        <3>1. PICK i \in 1..count : f = s[i].frame
            BY <1>4 DEF FrameSet
        <3>2. f = base + i - 1
            BY <3>1, <1>3
        <3> QED BY <3>2
    <2>2. ASSUME NEW f \in base..(base + count - 1) PROVE f \in FrameSet(s)
        <3> DEFINE i == f - base + 1
        <3>1. i \in 1..count /\ base + i - 1 = f
            OBVIOUS
        <3> HIDE DEF i
        <3>2. s[i].frame = f
            BY <3>1, <1>3
        <3> QED BY <3>1, <3>2, <1>4 DEF FrameSet
    <2> QED BY <2>1, <2>2
<1> QED BY <1>4, <1>5, <1>6 DEF s

\* NewSocket leaves every frame in its pool or on the fill ring.
LEMMA InitIInv == Init => IInv
<1> SUFFICES ASSUME Init PROVE IInv
    OBVIOUS
<1> DEFINE posted == RxFrames - FillRingNumDescs
           pool == NewFramePool(0, posted)
           ring == NewFramePool(posted, FillRingNumDescs)
           tx == NewFramePool(RxFrames, TxFrames)
<1>1. /\ NumFrames \in Nat /\ TxFrames \in Nat /\ RxFrames \in Nat /\ FillRingNumDescs \in Nat
      /\ RxFrames + TxFrames = NumFrames /\ posted \in Nat /\ posted + FillRingNumDescs = RxFrames
      /\ RxRingNumDescs \in Nat /\ TxRingNumDescs \in Nat /\ CompletionRingNumDescs \in Nat
    BY SocketAssumption DEF RxFrames
<1> HIDE DEF posted
<1>2. /\ pool \in Seq(Addresses) /\ Len(pool) = posted /\ NoDup(pool)
      /\ FrameSet(pool) = 0..(posted - 1)
    <2>1. 0 \in Nat /\ 0 + posted <= NumFrames /\ 0 + posted - 1 = posted - 1
        BY <1>1
    <2> QED BY <2>1, <1>1, NewFramePoolFacts
<1>3. /\ ring \in Seq(Addresses) /\ Len(ring) = FillRingNumDescs /\ NoDup(ring)
      /\ FrameSet(ring) = posted..(RxFrames - 1)
    <2>1. posted + FillRingNumDescs <= NumFrames /\ posted + FillRingNumDescs - 1 = RxFrames - 1
        BY <1>1
    <2>2. /\ ring \in Seq(Addresses) /\ Len(ring) = FillRingNumDescs /\ NoDup(ring)
          /\ FrameSet(ring) = posted..(posted + FillRingNumDescs - 1)
        BY <2>1, <1>1, NewFramePoolFacts
    <2> QED BY <2>1, <2>2
<1>4. /\ tx \in Seq(Addresses) /\ Len(tx) = TxFrames /\ NoDup(tx)
      /\ FrameSet(tx) = RxFrames..(NumFrames - 1)
    <2>1. RxFrames + TxFrames <= NumFrames /\ RxFrames + TxFrames - 1 = NumFrames - 1
        BY <1>1
    <2>2. /\ tx \in Seq(Addresses) /\ Len(tx) = TxFrames /\ NoDup(tx)
          /\ FrameSet(tx) = RxFrames..(RxFrames + TxFrames - 1)
        BY <2>1, <1>1, NewFramePoolFacts
    <2> QED BY <2>1, <2>2
<1>5. <<>> \in Seq(Addresses) /\ Len(<<>>) = 0 /\ NoDup(<<>>) /\ FrameSet(<<>>) = {}
    BY DEF NoDup, FrameSet
<1> HIDE DEF pool, ring, tx
<1>6. /\ DOMAIN at = Places /\ at = [p \in Places |-> at[p]]
      /\ at["rxPool"] = pool /\ at["fillRing"] = ring /\ at["txPool"] = tx
      /\ \A p \in Places : p # "rxPool" /\ p # "fillRing" /\ p # "txPool" => at[p] = <<>>
    BY DEF Init, Places, RxPlaces, TxPlaces, posted, pool, ring, tx
<1>7. /\ numFilled = FillRingNumDescs /\ numTransmitted = 0 /\ rxPc = "idle" /\ rxN = 0
      /\ txPc = "idle" /\ txN = 0 /\ txFrom = "txHeld" /\ sending = FALSE /\ reaped = 0
    BY DEF Init
<1>8. Custody(at)
    <2>1. \A p \in Places : at[p] \in Seq(Addresses) /\ NoDup(at[p])
        BY <1>2, <1>3, <1>4, <1>5, <1>6
    <2>2. at \in [Places -> Seq(Addresses)]
        BY <2>1, <1>6
    <2>3. /\ FrameSet(pool) \cap FrameSet(ring) = {} /\ FrameSet(pool) \cap FrameSet(tx) = {}
          /\ FrameSet(ring) \cap FrameSet(tx) = {}
        BY <1>1, <1>2, <1>3, <1>4
    <2>4. \A p, r \in Places : p # r => FrameSet(at[p]) \cap FrameSet(at[r]) = {}
        BY <2>3, <1>5, <1>6
    <2>5. Frames = FrameSet(pool) \cup FrameSet(ring) \cup FrameSet(tx)
        BY <1>1, <1>2, <1>3, <1>4 DEF Frames
    <2>6. "rxPool" \in Places /\ "fillRing" \in Places /\ "txPool" \in Places
        BY DEF Places, RxPlaces, TxPlaces
    <2>7. \A f \in Frames : \E p \in Places : f \in FrameSet(at[p])
        BY <2>5, <2>6, <1>6
    <2> QED BY <2>1, <2>2, <2>4, <2>7 DEF Custody
<1>9. Regions(at)
    <2>1. FrameSet(pool) \subseteq RxRegion /\ FrameSet(ring) \subseteq RxRegion /\ FrameSet(tx) = TxRegion
        BY <1>1, <1>2, <1>3, <1>4 DEF RxRegion, TxRegion
    <2> SUFFICES ASSUME NEW p \in Places PROVE Welcome(p, FrameSet(at[p]))
        BY DEF Regions
    <2>2. CASE p = "rxPool" \/ p = "fillRing"
        BY <2>1, <2>2, <1>6 DEF Welcome, TxPlaces
    <2>3. CASE p = "txPool"
        BY <2>1, <2>3, <1>6 DEF Welcome, RxPlaces
    <2>4. CASE p # "rxPool" /\ p # "fillRing" /\ p # "txPool"
        BY <2>4, <1>5, <1>6 DEF Welcome
    <2> QED BY <2>2, <2>3, <2>4
<1>10. Control
    <2>1. "txHeld" \in TransmitSources
        BY DEF TransmitSources
    <2>2. rxN \in Nat /\ txN \in Nat /\ reaped \in Nat /\ reaped <= txN
        BY <1>7
    <2> QED BY <2>1, <2>2, <1>7 DEF Control
<1>11. \A p \in {"popScratch", "rxDriver", "rxRing", "txRing", "txDriver", "completionRing"} : Len(at[p]) = 0
    BY <1>5, <1>6 DEF Places, RxPlaces, TxPlaces
<1>12. RxCounts
    <2>1. /\ Len(at["fillRing"]) = FillRingNumDescs /\ Len(at["rxDriver"]) = 0
          /\ Len(at["rxRing"]) = 0 /\ Len(at["popScratch"]) = 0
        BY <1>3, <1>6, <1>11
    <2>2. numFilled = FillRingNumDescs + 0 + 0 /\ FillRingNumDescs <= FillRingNumDescs /\ 0 <= RxRingNumDescs
        BY <1>1, <1>7
    <2> QED BY <2>1, <2>2, <1>7 DEF RxCounts
<1>13. TxCounts
    <2>1. Len(at["txRing"]) = 0 /\ Len(at["txDriver"]) = 0 /\ Len(at["completionRing"]) = 0
        BY <1>11
    <2>2. numTransmitted = 0 + 0 + 0 + reaped /\ 0 <= TxRingNumDescs /\ 0 + reaped + 0 <= CompletionRingNumDescs
        BY <1>1, <1>7
    <2> QED BY <2>1, <2>2, <1>7 DEF TxCounts
<1> QED BY <1>8, <1>9, <1>10, <1>12, <1>13 DEF IInv

\* Every step keeps the invariant.
LEMMA NextKeeps == IInv /\ [Next]_vars => IInv'
<1> SUFFICES ASSUME IInv, [Next]_vars PROVE IInv'
    OBVIOUS
<1>1. CASE UNCHANGED vars
    <2>1. UNCHANGED <<at, numFilled, numTransmitted, rxPc, rxN, txPc, txN, txFrom, sending, reaped>>
        BY <1>1 DEF vars, rxVars, txVars
    <2> QED BY <2>1 DEF IInv, Custody, Regions, Control, RxCounts, TxCounts
<1>2. CASE ReceiveSide
    <2>1. ASSUME NEW n \in 1..MaxCount, FillReserve(n) PROVE IInv'
        BY <2>1, FillReserveKeeps
    <2>2. ASSUME NEW n \in 1..MaxCount, ReceiveLoad(n) PROVE IInv'
        BY <2>2, ReceiveLoadKeeps
    <2>3. ASSUME NEW n \in 1..MaxCount, Recycle(n) PROVE IInv'
        BY <2>3, RecycleKeeps
    <2>4. CASE FillPublish
        BY <2>4, FillPublishKeeps
    <2>5. CASE ReceiveRelease
        BY <2>5, ReceiveReleaseKeeps
    <2> QED BY <1>2, <2>1, <2>2, <2>3, <2>4, <2>5 DEF ReceiveSide
<1>3. CASE TransmitSide
    <2>1. ASSUME NEW n \in 1..MaxCount, Alloc(n) PROVE IInv'
        BY <2>1, AllocKeeps
    <2>2. ASSUME NEW n \in 1..MaxCount, CompleteLoad(n) PROVE IInv'
        BY <2>2, CompleteLoadKeeps
    <2>3. ASSUME NEW n \in 1..MaxCount, SendAlloc(n) PROVE IInv'
        BY <2>3, SendAllocKeeps
    <2>4. ASSUME NEW from \in TransmitSources, NEW n \in 1..MaxCount, TransmitLoad(from, n) PROVE IInv'
        BY <2>4, TransmitLoadKeeps
    <2>5. CASE TransmitPublish
        BY <2>5, TransmitPublishKeeps
    <2>6. CASE CompleteOne
        BY <2>6, CompleteOneKeeps
    <2>7. CASE CompleteRelease
        BY <2>7, CompleteReleaseKeeps
    <2>8. CASE SendBegin
        BY <2>8, SendBeginKeeps
    <2>9. CASE SendBuilt
        BY <2>9, SendBuiltKeeps
    <2>10. CASE SendBuildRejected
        BY <2>10, SendBuildRejectedKeeps
    <2> QED BY <1>3, <2>1, <2>2, <2>3, <2>4, <2>5, <2>6, <2>7, <2>8, <2>9, <2>10 DEF TransmitSide
<1>4. CASE Kernel
    <2>1. CASE DriverTakesBuffer
        BY <2>1, DriverTakesBufferKeeps
    <2>2. CASE DriverReceives
        BY <2>2, DriverReceivesKeeps
    <2>3. CASE DriverTakesPacket
        BY <2>3, DriverTakesPacketKeeps
    <2>4. ASSUME NEW i \in 1..Len(at["txDriver"]), DriverCompletes(i) PROVE IInv'
        BY <2>4, DriverCompletesKeeps
    <2> QED BY <1>4, <2>1, <2>2, <2>3, <2>4 DEF Kernel
<1> QED BY <1>1, <1>2, <1>3, <1>4 DEF Next

\* The invariant: each frame is in one place, where its region belongs, and
\* both goroutines' counts agree with what the places they count hold.
THEOREM Invariant == Spec => []IInv
<1>1. Init => IInv
    BY InitIInv
<1>2. IInv /\ [Next]_vars => IInv'
    BY NextKeeps
<1> QED BY <1>1, <1>2, PTL DEF Spec

\* Whatever the sizes, every variable keeps its type: the two counters of
\* frames with the kernel, decremented by Receive and Complete, stay above zero.
THEOREM TypeCorrect == Spec => []TypeOK
<1>1. IInv => TypeOK
    <2> SUFFICES ASSUME IInv PROVE TypeOK
        OBVIOUS
    <2>1. numFilled \in Nat /\ numTransmitted \in Nat
        <3> DEFINE L(p) == Len(at[p])
        <3>1. /\ L("fillRing") \in Nat /\ L("rxDriver") \in Nat /\ L("rxRing") \in Nat
              /\ L("txRing") \in Nat /\ L("txDriver") \in Nat /\ L("completionRing") \in Nat
              /\ reaped \in Nat
            BY Basics DEF Places, RxPlaces, TxPlaces, IInv, Control
        <3>2. /\ numFilled = L("fillRing") + L("rxDriver") + L("rxRing")
              /\ numTransmitted = L("txRing") + L("txDriver") + L("completionRing") + reaped
            BY DEF IInv, RxCounts, TxCounts
        <3> HIDE DEF L
        <3> QED BY <3>1, <3>2
    <2> QED BY <2>1 DEF IInv, Custody, Control, TypeOK
<1> QED BY <1>1, Invariant, PTL

\* No frame is ever in two places or twice in one, in either mode: Fill never
\* posts a frame the caller, the transmit side or the kernel still has.
THEOREM NoFrameShared == Spec => []FramesUnique
<1>1. IInv => FramesUnique
    BY CustodyMeans DEF IInv
<1> QED BY <1>1, Invariant, PTL

\* No call, SendFunc's error path included, ever loses a frame.
THEOREM NoFrameLeaks == Spec => []NoFrameLost
<1>1. IInv => NoFrameLost
    BY CustodyMeans DEF IInv
<1> QED BY <1>1, Invariant, PTL

\* The receive and transmit pools never mix; in hairpin mode Complete sorts
\* each frame back into the pool of its region.
THEOREM PoolsNeverMix == Spec => []RegionsKept
<1>1. IInv => RegionsKept
    BY RegionsMeans DEF IInv
<1> QED BY <1>1, Invariant, PTL

\* No ring is overfilled by a call that acts on a stale free-slot count.
THEOREM RingsNeverOverfilled == Spec => []RingsWithinCapacity
<1>1. IInv => RingsWithinCapacity
    <2> SUFFICES ASSUME IInv PROVE RingsWithinCapacity
        OBVIOUS
    <2> DEFINE completion == Len(at["completionRing"])
               driver == Len(at["txDriver"])
    <2>1. /\ completion \in Nat /\ driver \in Nat /\ reaped \in Nat /\ CompletionRingNumDescs \in Nat
          /\ completion + reaped + driver <= CompletionRingNumDescs
        BY Basics DEF Places, TxPlaces, IInv, Control, TxCounts
    <2>2. completion + reaped <= CompletionRingNumDescs
        <3> HIDE DEF completion, driver
        <3> QED BY <2>1
    <2> QED BY <2>2 DEF IInv, RxCounts, TxCounts, RingsWithinCapacity
<1> QED BY <1>1, Invariant, PTL

\* numFilled counts exactly the receive frames the kernel has: Poll, which
\* does not block when it is zero, is neither stuck nor spinning by mistake.
THEOREM NumFilledExact == Spec => []FilledIsExact
<1>1. IInv => FilledIsExact
    BY DEF IInv, RxCounts, FilledIsExact
<1> QED BY <1>1, Invariant, PTL

\* numTransmitted counts exactly the frames queued and not yet reclaimed,
\* however far Complete has got.
THEOREM NumTransmittedExact == Spec => []TransmittedIsExact
<1>1. IInv => TransmittedIsExact
    BY DEF IInv, TxCounts, TransmittedIsExact
<1> QED BY <1>1, Invariant, PTL

\* A count Receive, Complete, Transmit or Fill settled on before the kernel
\* moved is still covered when it acts on it.
THEOREM StaleCountsCovered == Spec => []CountsCovered
<1>1. IInv => CountsCovered
    BY DEF IInv, RxCounts, TxCounts, CountsCovered, FreeFillSlots, FreeTxSlots
<1> QED BY <1>1, Invariant, PTL

(***************************************************************************)
(* What follows from custody.  First, what a step may do to the frames, in *)
(* one lemma: nothing, or a Move along one of a few routes.                *)
(***************************************************************************)

\* From which place to which a step moves frames.
Routes ==
    {<<"rxPool", "popScratch">>, <<"popScratch", "fillRing">>, <<"fillRing", "rxDriver">>,
     <<"rxDriver", "rxRing">>, <<"rxRing", "rxHeld">>, <<"rxHeld", "rxPool">>,
     <<"txPool", "txHeld">>, <<"txHeld", "txPool">>, <<"txHeld", "txRing">>,
     <<"rxHeld", "txRing">>, <<"txRing", "txDriver">>, <<"txDriver", "completionRing">>,
     <<"completionRing", "txPool">>, <<"completionRing", "rxPool">>}

\* The places that hold frames at their base addresses.
BasePlaces == {"rxPool", "popScratch", "fillRing", "txPool", "txHeld"}

AtBase(s) == \A i \in 1..Len(s) : s[i].off = 0

\* The step moves frames from src to dst; if src holds its frames at their
\* bases, what stays does so too, and what arrives in a base place does.
Carries(src, dst, rest, moved) ==
    /\ <<src, dst>> \in Routes
    /\ Splits(at[src], rest, moved)
    /\ Move(src, rest, moved, dst)
    /\ src \in BasePlaces /\ AtBase(at[src]) => AtBase(rest)
    /\ dst \in BasePlaces /\ (src \in BasePlaces => AtBase(at[src])) => AtBase(moved)

Carried == \E src, dst \in Places : \E rest, moved : Carries(src, dst, rest, moved)

LEMMA RoutesJoinPlaces ==
    ASSUME NEW src, NEW dst, <<src, dst>> \in Routes
    PROVE  src \in Places /\ dst \in Places /\ src # dst
BY DEF Routes, Places, RxPlaces, TxPlaces

LEMMA CarriesIsCarried ==
    ASSUME NEW src, NEW dst, NEW rest, NEW moved, Carries(src, dst, rest, moved)
    PROVE  Carried
BY RoutesJoinPlaces DEF Carries, Carried

\* A part of addresses at their bases is at its bases.
LEMMA BaseParts ==
    ASSUME NEW s \in Seq(Addresses), NEW n \in 0..Len(s), AtBase(s)
    PROVE  AtBase(Oldest(s, n)) /\ AtBase(Rest(s, n))
<1>1. Len(s) \in Nat /\ \A i \in 1..Len(s) : s[i] \in Addresses
    BY LenProperties, ElementOfSeq
<1>2. /\ Len(Oldest(s, n)) = n
      /\ \A i \in 1..n : Oldest(s, n)[i] = s[i]
    <2>1. \A i \in 1..n : s[i] \in Addresses
        BY <1>1
    <2> QED BY <2>1, <1>1, SubSeqProperties DEF Oldest
<1>3. /\ Len(Rest(s, n)) = Len(s) - n
      /\ \A i \in 1..(Len(s) - n) : Rest(s, n)[i] = s[n + i]
    <2>1. \A i \in (n + 1)..Len(s) : s[i] \in Addresses
        BY <1>1
    <2>2. n + 1 \in Int
        BY <1>1
    <2> QED BY <2>1, <2>2, <1>1, SubSeqProperties DEF Rest
<1>4. AtBase(Oldest(s, n))
    BY <1>1, <1>2 DEF AtBase
<1>5. AtBase(Rest(s, n))
    <2> SUFFICES ASSUME NEW i \in 1..(Len(s) - n) PROVE Rest(s, n)[i].off = 0
        BY <1>3 DEF AtBase
    <2>1. n + i \in 1..Len(s)
        BY <1>1
    <2> QED BY <2>1, <1>3 DEF AtBase
<1> QED BY <1>4, <1>5

LEMMA BaseJoins ==
    ASSUME NEW s \in Seq(Addresses), NEW t \in Seq(Addresses), AtBase(s), AtBase(t)
    PROVE  AtBase(s \o t)
<1>1. /\ Len(s \o t) = Len(s) + Len(t)
      /\ \A i \in 1..(Len(s) + Len(t)) : (s \o t)[i] = IF i <= Len(s) THEN s[i] ELSE t[i - Len(s)]
      /\ Len(s) \in Nat /\ Len(t) \in Nat
    BY ConcatProperties, LenProperties
<1> SUFFICES ASSUME NEW i \in 1..(Len(s) + Len(t)) PROVE (s \o t)[i].off = 0
    BY <1>1 DEF AtBase
<1>2. CASE i <= Len(s)
    BY <1>1, <1>2 DEF AtBase
<1>3. CASE i > Len(s)
    <2>1. i - Len(s) \in 1..Len(t)
        BY <1>1, <1>3
    <2> QED BY <2>1, <1>1, <1>3 DEF AtBase
<1> QED BY <1>1, <1>2, <1>3

\* frameBase takes the offset off.
LEMMA BasesAreAtBase ==
    ASSUME NEW s \in Seq(Addresses) PROVE AtBase(Bases(s))
<1>1. Len(s) \in Nat /\ \A i \in 1..Len(s) : s[i] \in Addresses
    BY LenProperties, ElementOfSeq
<1>2. Len(Bases(s)) = Len(s)
    BY BasesKeepFrames
<1>3. \A i \in 1..Len(s) : Bases(s)[i] = FrameBase(s[i])
    BY DEF Bases
<1>4. \A addr \in Addresses : FrameBase(addr).off = 0
    BY DEF Addresses, FrameBase
<1> QED BY <1>1, <1>2, <1>3, <1>4 DEF AtBase

\* The first address leaves src.
LEMMA HeadLeaves ==
    ASSUME NEW s \in Seq(Addresses), NoDup(s), s # <<>>
    PROVE  /\ Splits(s, Tail(s), <<Head(s)>>) /\ Head(s) \in Addresses
           /\ AtBase(s) => AtBase(Tail(s)) /\ AtBase(<<Head(s)>>)
<1>1. Splits(s, Tail(s), <<Head(s)>>) /\ Head(s) \in Addresses
    BY SplitHead
<1>2. ASSUME AtBase(s) PROVE AtBase(Tail(s)) /\ AtBase(<<Head(s)>>)
    <2>1. Len(s) \in Nat /\ Len(s) > 0 /\ Head(s) = s[1]
        BY LenProperties, EmptySeq, HeadTailProperties
    <2>2. Tail(s) = Rest(s, 1)
        BY TailIsSubSeq DEF Rest
    <2>3. 1 \in 0..Len(s) /\ 1 \in 1..Len(s)
        BY <2>1
    <2>4. AtBase(Tail(s))
        BY <2>2, <2>3, <1>2, BaseParts
    <2>5. Len(<<Head(s)>>) = 1 /\ <<Head(s)>>[1] = s[1]
        BY <2>1
    <2>6. AtBase(<<Head(s)>>)
        BY <2>3, <2>5, <1>2 DEF AtBase
    <2> QED BY <2>4, <2>6
<1> QED BY <1>1, <1>2

\* framePool.pop carries the last k addresses of a pool to dst.
LEMMA PopCarries ==
    ASSUME IInv, NEW pool \in {"rxPool", "txPool"}, NEW dst, <<pool, dst>> \in Routes,
           NEW k \in 0..Len(at[pool]), PopMove(pool, k, dst)
    PROVE  Carried
<1> DEFINE s == at[pool]
           keep == Len(s) - k
<1>1. pool \in BasePlaces /\ pool \in Places
    BY DEF BasePlaces, Places, RxPlaces, TxPlaces
<1>2. s \in Seq(Addresses) /\ NoDup(s) /\ Len(s) \in Nat
    BY <1>1, Basics
<1>3. keep \in 0..Len(s)
    BY <1>2
<1>4. Splits(s, Oldest(s, keep), Rest(s, keep))
    BY <1>2, <1>3, SplitAt
<1>5. AtBase(s) => AtBase(Oldest(s, keep)) /\ AtBase(Rest(s, keep))
    BY <1>2, <1>3, BaseParts
<1>6. Move(pool, Oldest(s, keep), Rest(s, keep), dst)
    BY DEF PopMove
<1>7. Carries(pool, dst, Oldest(s, keep), Rest(s, keep))
    BY <1>1, <1>4, <1>5, <1>6 DEF Carries
<1> QED BY <1>7, CarriesIsCarried

(***************************************************************************)
(* What each action carries.                                               *)
(***************************************************************************)
LEMMA FillReserveCarries ==
    ASSUME IInv, NEW n \in 1..MaxCount, FillReserve(n) PROVE Carried
<1> DEFINE k == Clamp(Clamp(n, FreeFillSlots), Len(at["rxPool"]))
<1>1. /\ Len(at["rxPool"]) \in Nat /\ FreeFillSlots \in Nat /\ n \in Nat
    BY Basics, SocketAssumption DEF Places, RxPlaces
<1>2. k \in 0..Len(at["rxPool"])
    BY <1>1 DEF Clamp
<1>3. PopMove("rxPool", k, "popScratch")
    BY DEF FillReserve
<1> HIDE DEF k
<1>4. <<"rxPool", "popScratch">> \in Routes
    BY DEF Routes
<1> QED BY <1>2, <1>3, <1>4, PopCarries

LEMMA FillPublishCarries ==
    ASSUME IInv, FillPublish PROVE Carried
<1> DEFINE s == at["popScratch"]
<1>1. s \in Seq(Addresses) /\ NoDup(s)
    BY Basics DEF Places, RxPlaces
<1>2. Splits(s, <<>>, s)
    BY <1>1, SplitAll
<1>3. AtBase(<<>>)
    BY DEF AtBase
<1>4. Move("popScratch", <<>>, s, "fillRing")
    BY DEF FillPublish
<1>5. Carries("popScratch", "fillRing", <<>>, s)
    BY <1>2, <1>3, <1>4 DEF Carries, Routes, BasePlaces
<1> QED BY <1>5, CarriesIsCarried

LEMMA ReceiveReleaseCarries ==
    ASSUME IInv, ReceiveRelease PROVE Carried
<1> DEFINE s == at["rxRing"]
<1>1. s \in Seq(Addresses) /\ NoDup(s) /\ Len(s) \in Nat
    BY Basics DEF Places, RxPlaces
<1>2. rxN \in 0..Len(s)
    BY <1>1 DEF ReceiveRelease, IInv, Control, RxCounts
<1>3. Splits(s, Rest(s, rxN), Oldest(s, rxN))
    BY <1>1, <1>2, SplitAt
<1>4. Move("rxRing", Rest(s, rxN), Oldest(s, rxN), "rxHeld")
    BY DEF ReceiveRelease
<1>5. Carries("rxRing", "rxHeld", Rest(s, rxN), Oldest(s, rxN))
    BY <1>3, <1>4 DEF Carries, Routes, BasePlaces
<1> QED BY <1>5, CarriesIsCarried

LEMMA RecycleCarries ==
    ASSUME IInv, NEW n \in 1..MaxCount, Recycle(n) PROVE Carried
<1> DEFINE s == at["rxHeld"]
           a == Oldest(s, n)
<1>1. s \in Seq(Addresses) /\ NoDup(s) /\ Len(s) \in Nat
    BY Basics DEF Places, RxPlaces
<1>2. n \in 0..Len(s)
    BY <1>1, SocketAssumption DEF Recycle
<1>3. Splits(s, Rest(s, n), a)
    BY <1>1, <1>2, SplitAt
<1>4. Move("rxHeld", Rest(s, n), Bases(a), "rxPool")
    BY DEF Recycle
<1>5. a \in Seq(Addresses) /\ NoDup(a)
    BY <1>3 DEF Splits
<1> HIDE DEF a
<1>6. AtBase(Bases(a))
    BY <1>5, BasesAreAtBase
<1>7. Splits(s, Rest(s, n), Bases(a))
    <2>1. /\ Bases(a) \in Seq(Addresses) /\ Len(Bases(a)) = Len(a)
          /\ FrameSet(Bases(a)) = FrameSet(a) /\ NoDup(Bases(a))
        BY <1>5, BasesKeepFrames
    <2> QED BY <2>1, <1>3, SplitOffsets
<1>8. Carries("rxHeld", "rxPool", Rest(s, n), Bases(a))
    BY <1>4, <1>6, <1>7 DEF Carries, Routes, BasePlaces
<1> QED BY <1>8, CarriesIsCarried

\* Alloc and SendAlloc.
LEMMA AllocCarries ==
    ASSUME IInv, NEW n \in 1..MaxCount, PopMove("txPool", AllocCount(n), "txHeld") PROVE Carried
<1> DEFINE k == AllocCount(n)
<1>1. Len(at["txPool"]) \in Nat /\ FreeTxSlots \in Nat /\ n \in Nat
    BY Basics, SocketAssumption DEF Places, TxPlaces
<1>2. k \in 0..Len(at["txPool"])
    BY <1>1 DEF AllocCount, Clamp
<1>3. <<"txPool", "txHeld">> \in Routes
    BY DEF Routes
<1> HIDE DEF k
<1>4. PopMove("txPool", k, "txHeld")
    BY DEF k
<1> QED BY <1>2, <1>3, <1>4, PopCarries

LEMMA TransmitPublishCarries ==
    ASSUME IInv, TransmitPublish PROVE Carried
<1> DEFINE s == at[txFrom]
<1>1. txFrom \in {"txHeld", "rxHeld"} /\ txFrom \in Places
    BY DEF IInv, Control, TransmitSources, Places, RxPlaces, TxPlaces
<1>2. s \in Seq(Addresses) /\ NoDup(s) /\ Len(s) \in Nat
    BY <1>1, Basics
<1>3. txN \in 0..Len(s)
    BY <1>2 DEF TransmitPublish, IInv, Control, TxCounts
<1>4. Splits(s, Rest(s, txN), Oldest(s, txN))
    BY <1>2, <1>3, SplitAt
<1>5. AtBase(s) => AtBase(Rest(s, txN))
    BY <1>2, <1>3, BaseParts
<1>6. Move(txFrom, Rest(s, txN), Oldest(s, txN), "txRing")
    BY DEF TransmitPublish
<1>7. Carries(txFrom, "txRing", Rest(s, txN), Oldest(s, txN))
    BY <1>1, <1>4, <1>5, <1>6 DEF Carries, Routes, BasePlaces
<1> QED BY <1>7, CarriesIsCarried

LEMMA CompleteOneCarries ==
    ASSUME IInv, CompleteOne PROVE Carried
<1> DEFINE s == at["completionRing"]
           addr == Head(s)
           dst == PoolOf(addr)
<1>1. s \in Seq(Addresses) /\ NoDup(s) /\ Len(s) \in Nat
    BY Basics DEF Places, TxPlaces
<1>2. s # <<>>
    <2>1. txN \in Nat /\ reaped \in Nat /\ reaped < txN /\ txN - reaped <= Len(s)
        BY DEF CompleteOne, IInv, Control, TxCounts
    <2>2. Len(s) > 0
        BY <2>1, <1>1
    <2> QED BY <2>2, <1>1
<1>3. Splits(s, Tail(s), <<addr>>) /\ addr \in Addresses
    BY <1>1, <1>2, HeadLeaves
<1>4. dst \in {"rxPool", "txPool"} /\ Move("completionRing", Tail(s), <<FrameBase(addr)>>, dst)
    BY DEF CompleteOne, PoolOf
<1> HIDE DEF addr, dst
<1>5. FrameBase(addr) \in Addresses /\ FrameBase(addr).frame = addr.frame /\ FrameBase(addr).off = 0
    BY <1>3 DEF FrameBase, Addresses
<1>6. Splits(s, Tail(s), <<FrameBase(addr)>>)
    <2>1. /\ <<addr>> \in Seq(Addresses) /\ Len(<<addr>>) = 1 /\ FrameSet(<<addr>>) = {addr.frame}
        BY <1>3, Single
    <2>2. /\ <<FrameBase(addr)>> \in Seq(Addresses) /\ Len(<<FrameBase(addr)>>) = 1
          /\ FrameSet(<<FrameBase(addr)>>) = {addr.frame} /\ NoDup(<<FrameBase(addr)>>)
        BY <1>5, Single
    <2> QED BY <2>1, <2>2, <1>3, SplitOffsets
<1>7. AtBase(<<FrameBase(addr)>>)
    <2> DEFINE t == <<FrameBase(addr)>>
    <2>1. Len(t) = 1 /\ t[1].off = 0
        BY <1>5
    <2> HIDE DEF t
    <2>2. AtBase(t)
        BY <2>1 DEF AtBase
    <2> QED BY <2>2 DEF t
<1>8. Carries("completionRing", dst, Tail(s), <<FrameBase(addr)>>)
    BY <1>4, <1>6, <1>7 DEF Carries, Routes, BasePlaces
<1> QED BY <1>8, CarriesIsCarried

LEMMA SendBuildRejectedCarries ==
    ASSUME IInv, SendBuildRejected PROVE Carried
<1> DEFINE s == at["txHeld"]
<1>1. s \in Seq(Addresses) /\ NoDup(s)
    BY Basics DEF Places, TxPlaces
<1>2. Splits(s, <<>>, Bases(s))
    <2>1. Splits(s, <<>>, s)
        BY <1>1, SplitAll
    <2>2. /\ Bases(s) \in Seq(Addresses) /\ Len(Bases(s)) = Len(s)
          /\ FrameSet(Bases(s)) = FrameSet(s) /\ NoDup(Bases(s))
        BY <1>1, BasesKeepFrames
    <2> QED BY <2>1, <2>2, SplitOffsets
<1>3. AtBase(<<>>) /\ AtBase(Bases(s))
    BY <1>1, BasesAreAtBase DEF AtBase
<1>4. Move("txHeld", <<>>, Bases(s), "txPool")
    BY DEF SendBuildRejected
<1>5. Carries("txHeld", "txPool", <<>>, Bases(s))
    BY <1>2, <1>3, <1>4 DEF Carries, Routes, BasePlaces
<1> QED BY <1>5, CarriesIsCarried

LEMMA KernelCarries ==
    ASSUME IInv, Kernel PROVE Carried
<1>1. \A p \in Places : at[p] \in Seq(Addresses) /\ NoDup(at[p])
    BY Basics
<1>2. /\ "fillRing" \in Places /\ "rxDriver" \in Places
      /\ "txRing" \in Places /\ "txDriver" \in Places
    BY DEF Places, RxPlaces, TxPlaces
<1>3. CASE DriverTakesBuffer
    <2> DEFINE s == at["fillRing"]
    <2>1. s # <<>> /\ Move("fillRing", Tail(s), <<Head(s)>>, "rxDriver")
        BY <1>3 DEF DriverTakesBuffer
    <2>2. Splits(s, Tail(s), <<Head(s)>>) /\ (AtBase(s) => AtBase(Tail(s)))
        BY <2>1, <1>1, <1>2, HeadLeaves
    <2>3. Carries("fillRing", "rxDriver", Tail(s), <<Head(s)>>)
        BY <2>1, <2>2 DEF Carries, Routes, BasePlaces
    <2> QED BY <2>3, CarriesIsCarried
<1>4. CASE DriverReceives
    <2> DEFINE s == at["rxDriver"]
               addr == [Head(s) EXCEPT !.off = Headroom]
    <2>1. s # <<>> /\ Move("rxDriver", Tail(s), <<addr>>, "rxRing")
        BY <1>4 DEF DriverReceives
    <2>2. Splits(s, Tail(s), <<Head(s)>>) /\ Head(s) \in Addresses
        BY <2>1, <1>1, <1>2, HeadLeaves
    <2>3. addr \in Addresses /\ addr.frame = Head(s).frame
        BY <2>2 DEF Addresses
    <2> HIDE DEF addr
    <2>4. Splits(s, Tail(s), <<addr>>)
        <3>1. /\ <<addr>> \in Seq(Addresses) /\ Len(<<addr>>) = 1
              /\ FrameSet(<<addr>>) = {addr.frame} /\ NoDup(<<addr>>)
            BY <2>3, Single
        <3>2. Len(<<Head(s)>>) = 1 /\ FrameSet(<<Head(s)>>) = {Head(s).frame}
            BY <2>2, Single
        <3> QED BY <3>1, <3>2, <2>2, <2>3, SplitOffsets
    <2>5. Carries("rxDriver", "rxRing", Tail(s), <<addr>>)
        BY <2>1, <2>4 DEF Carries, Routes, BasePlaces
    <2> QED BY <2>5, CarriesIsCarried
<1>5. CASE DriverTakesPacket
    <2> DEFINE s == at["txRing"]
    <2>1. s # <<>> /\ Move("txRing", Tail(s), <<Head(s)>>, "txDriver")
        BY <1>5 DEF DriverTakesPacket
    <2>2. Splits(s, Tail(s), <<Head(s)>>)
        BY <2>1, <1>1, <1>2, HeadLeaves
    <2>3. Carries("txRing", "txDriver", Tail(s), <<Head(s)>>)
        BY <2>1, <2>2 DEF Carries, Routes, BasePlaces
    <2> QED BY <2>3, CarriesIsCarried
<1>6. ASSUME NEW i \in 1..Len(at["txDriver"]), DriverCompletes(i) PROVE Carried
    <2> DEFINE s == at["txDriver"]
               rest == SubSeq(s, 1, i - 1) \o Rest(s, i)
    <2>1. Move("txDriver", rest, <<s[i]>>, "completionRing")
        BY <1>6 DEF DriverCompletes
    <2>2. Splits(s, rest, <<s[i]>>)
        BY <1>1, <1>2, SplitMiddle
    <2>3. Carries("txDriver", "completionRing", rest, <<s[i]>>)
        BY <2>1, <2>2 DEF Carries, Routes, BasePlaces
    <2> QED BY <2>3, CarriesIsCarried
<1> QED BY <1>3, <1>4, <1>5, <1>6 DEF Kernel

\* A step leaves every frame where it is, or moves some along one route.
LEMMA StepCarries ==
    ASSUME IInv, [Next]_vars PROVE at' = at \/ Carried
<1>1. CASE UNCHANGED vars
    BY <1>1 DEF vars
<1>2. CASE ReceiveSide
    <2>1. ASSUME NEW n \in 1..MaxCount, FillReserve(n) \/ ReceiveLoad(n) \/ Recycle(n)
          PROVE  at' = at \/ Carried
        BY <2>1, FillReserveCarries, RecycleCarries DEF ReceiveLoad
    <2> QED BY <1>2, <2>1, FillPublishCarries, ReceiveReleaseCarries DEF ReceiveSide
<1>3. CASE TransmitSide
    <2>1. ASSUME NEW n \in 1..MaxCount, Alloc(n) \/ CompleteLoad(n) \/ SendAlloc(n)
          PROVE  at' = at \/ Carried
        <3>1. at' = at \/ PopMove("txPool", AllocCount(n), "txHeld")
            BY <2>1 DEF Alloc, CompleteLoad, SendAlloc
        <3> QED BY <3>1, AllocCarries
    <2>2. ASSUME NEW from \in TransmitSources, NEW n \in 1..MaxCount, TransmitLoad(from, n)
          PROVE  at' = at
        BY <2>2 DEF TransmitLoad
    <2>3. CASE CompleteRelease \/ SendBegin \/ SendBuilt
        BY <2>3 DEF CompleteRelease, SendBegin, SendBuilt
    <2> QED BY <1>3, <2>1, <2>2, <2>3, TransmitPublishCarries, CompleteOneCarries,
               SendBuildRejectedCarries DEF TransmitSide
<1>4. CASE Kernel
    BY <1>4, KernelCarries
<1> QED BY <1>1, <1>2, <1>3, <1>4 DEF Next

(***************************************************************************)
(* Bases.                                                                  *)
(***************************************************************************)
LEMMA BasesMeans == PoolsHoldBases <=> \A p \in BasePlaces : AtBase(at[p])
BY DEF PoolsHoldBases, BasePlaces, AtBase

LEMMA NewFramePoolAtBase ==
    ASSUME NEW base \in Nat, NEW count \in Nat, base + count <= NumFrames
    PROVE  AtBase(NewFramePool(base, count))
<1>1. Len(NewFramePool(base, count)) = count
    BY NewFramePoolFacts
<1> QED BY <1>1 DEF AtBase, NewFramePool

LEMMA InitBases == Init => PoolsHoldBases
<1> SUFFICES ASSUME Init PROVE \A p \in BasePlaces : AtBase(at[p])
    BY BasesMeans
<1> DEFINE posted == RxFrames - FillRingNumDescs
<1>1. /\ posted \in Nat /\ FillRingNumDescs \in Nat /\ RxFrames \in Nat /\ TxFrames \in Nat
      /\ posted + FillRingNumDescs = RxFrames /\ RxFrames + TxFrames = NumFrames
    BY SocketAssumption DEF RxFrames
<1>2. /\ at["rxPool"] = NewFramePool(0, posted)
      /\ at["fillRing"] = NewFramePool(posted, FillRingNumDescs)
      /\ at["txPool"] = NewFramePool(RxFrames, TxFrames)
      /\ at["popScratch"] = <<>> /\ at["txHeld"] = <<>>
    BY DEF Init, Places, RxPlaces, TxPlaces
<1> HIDE DEF posted
<1>3. AtBase(at["rxPool"])
    <2>1. 0 \in Nat /\ 0 + posted <= NumFrames
        BY <1>1
    <2> QED BY <2>1, <1>1, <1>2, NewFramePoolAtBase
<1>4. AtBase(at["fillRing"])
    <2>1. posted + FillRingNumDescs <= NumFrames
        BY <1>1
    <2> QED BY <2>1, <1>1, <1>2, NewFramePoolAtBase
<1>5. AtBase(at["txPool"])
    <2>1. RxFrames + TxFrames <= NumFrames
        BY <1>1
    <2> QED BY <2>1, <1>1, <1>2, NewFramePoolAtBase
<1>6. AtBase(at["popScratch"]) /\ AtBase(at["txHeld"])
    BY <1>2 DEF AtBase
<1> QED BY <1>3, <1>4, <1>5, <1>6 DEF BasePlaces

LEMMA NextKeepsBases == IInv /\ PoolsHoldBases /\ [Next]_vars => PoolsHoldBases'
<1> SUFFICES ASSUME IInv, PoolsHoldBases, [Next]_vars PROVE \A p \in BasePlaces : AtBase(at'[p])
    BY DEF PoolsHoldBases, BasePlaces, AtBase
<1>1. \A p \in BasePlaces : p \in Places /\ AtBase(at[p]) /\ at[p] \in Seq(Addresses)
    BY Basics, BasesMeans DEF BasePlaces, Places, RxPlaces, TxPlaces
<1>2. CASE at' = at
    BY <1>1, <1>2
<1>3. ASSUME NEW src, NEW dst, NEW rest, NEW moved, Carries(src, dst, rest, moved)
      PROVE  \A p \in BasePlaces : AtBase(at'[p])
    <2>1. /\ src \in Places /\ dst \in Places /\ src # dst
          /\ rest \in Seq(Addresses) /\ moved \in Seq(Addresses)
          /\ src \in BasePlaces => AtBase(rest)
          /\ dst \in BasePlaces => AtBase(moved)
        BY <1>1, <1>3, RoutesJoinPlaces DEF Carries, Splits
    <2>2. /\ at'[src] = rest /\ at'[dst] = at[dst] \o moved
          /\ \A p \in Places : p # src /\ p # dst => at'[p] = at[p]
        BY <1>3, <2>1 DEF Carries, Move, IInv, Custody
    <2>3. dst \in BasePlaces => AtBase(at[dst] \o moved)
        BY <2>1, <1>1, BaseJoins
    <2> QED BY <1>1, <2>1, <2>2, <2>3
<1> QED BY <1>2, <1>3, StepCarries DEF Carried

\* Whatever offset the kernel reports an address with, frames rest in the
\* pools, are posted by Fill and are handed out by Alloc at their base.
THEOREM PoolsHoldWholeFrames == Spec => []PoolsHoldBases
<1>1. Init => PoolsHoldBases
    BY InitBases
<1>2. IInv /\ PoolsHoldBases /\ [Next]_vars => PoolsHoldBases'
    BY NextKeepsBases
<1> QED BY <1>1, <1>2, Invariant, PTL DEF Spec

(***************************************************************************)
(* The socket implements FrameOwnership.                                   *)
(***************************************************************************)

\* Every frame has a place, and PlaceOf names it.
Placed ==
    \A f \in Frames :
        /\ PlaceOf(f) \in Places /\ f \in FrameSet(at[PlaceOf(f)])
        /\ \A p \in Places : f \in FrameSet(at[p]) => PlaceOf(f) = p

LEMMA CustodyPlaces == IInv => Placed
<1> SUFFICES ASSUME IInv, NEW f \in Frames
             PROVE  /\ PlaceOf(f) \in Places /\ f \in FrameSet(at[PlaceOf(f)])
                    /\ \A p \in Places : f \in FrameSet(at[p]) => PlaceOf(f) = p
    BY DEF Placed
<1>1. \A p : FramesAt(p) = FrameSet(at[p])
    BY DEF FramesAt, FrameSet
<1>2. PICK q \in Places : f \in FrameSet(at[q])
    BY DEF IInv, Custody
<1>3. \A p, r \in Places : p # r => FrameSet(at[p]) \cap FrameSet(at[r]) = {}
    BY DEF IInv, Custody
<1> HIDE DEF FramesAt, FrameSet
<1>4. PlaceOf(f) \in Places /\ f \in FrameSet(at[PlaceOf(f)])
    BY <1>1, <1>2 DEF PlaceOf
<1> QED BY <1>3, <1>4

\* Each frame is where its owner may have it.
Entitled == \A f \in Frames : Ownership!MayOwn(OwnerOfPlace(PlaceOf(f)), f)

LEMMA RegionsEntitle == IInv => Entitled
<1> SUFFICES ASSUME IInv, NEW f \in Frames PROVE Ownership!MayOwn(OwnerOfPlace(PlaceOf(f)), f)
    BY DEF Entitled
<1> DEFINE p == PlaceOf(f)
<1>1. p \in Places /\ f \in FrameSet(at[p])
    BY CustodyPlaces DEF Placed
<1> HIDE DEF p
<1>2. Welcome(p, FrameSet(at[p]))
    BY <1>1 DEF IInv, Regions
<1>3. \A g \in TxRegion : g \notin RxRegion
    BY SocketAssumption DEF TxRegion, RxRegion, RxFrames
<1>4. /\ p \in RxPlaces => f \in RxRegion
      /\ p \in {"txPool", "txHeld"} => f \notin RxRegion
      /\ p \in TxPlaces => TxReuseRxFrames \/ f \notin RxRegion
    BY <1>1, <1>2, <1>3 DEF Welcome
<1>5. Ownership!MayOwn(OwnerOfPlace(p), f)
    BY <1>1, <1>4 DEF Ownership!MayOwn, OwnerOfPlace, Places, RxPlaces, TxPlaces, RxRegion
<1> QED BY <1>5 DEF p

LEMMA OwnersAreOwners ==
    ASSUME NEW p \in Places PROVE OwnerOfPlace(p) \in Ownership!Owners
BY DEF Places, RxPlaces, TxPlaces, OwnerOfPlace, Ownership!Owners

\* A route keeps the owner or is one of the hand-overs.
LEMMA RoutesHandOver ==
    ASSUME NEW src, NEW dst, <<src, dst>> \in Routes
    PROVE  \/ OwnerOfPlace(src) = OwnerOfPlace(dst)
           \/ <<OwnerOfPlace(src), OwnerOfPlace(dst)>> \in Ownership!HandOvers
BY DEF Routes, OwnerOfPlace, Ownership!HandOvers

\* A Move along a route takes the frames moved to its end and no other anywhere.
LEMMA MovesOwners ==
    ASSUME IInv, IInv', NEW src, NEW dst, NEW rest, NEW moved, Carries(src, dst, rest, moved)
    PROVE  \A f \in Frames :
               \/ PlaceOf(f)' = PlaceOf(f)
               \/ PlaceOf(f) = src /\ PlaceOf(f)' = dst
<1>1. /\ src \in Places /\ dst \in Places /\ src # dst
      /\ rest \in Seq(Addresses) /\ moved \in Seq(Addresses)
      /\ FrameSet(at[src]) = FrameSet(rest) \cup FrameSet(moved)
    BY RoutesJoinPlaces DEF Carries, Splits
<1>2. /\ at'[src] = rest /\ at'[dst] = at[dst] \o moved
      /\ \A p \in Places : p # src /\ p # dst => at'[p] = at[p]
    BY <1>1 DEF Carries, Move, IInv, Custody
<1>3. FrameSet(at'[dst]) = FrameSet(at[dst]) \cup FrameSet(moved)
    <2>1. at[dst] \in Seq(Addresses)
        BY <1>1, Basics
    <2> QED BY <2>1, <1>1, <1>2, Joins
<1>4. Placed
    BY CustodyPlaces
<1>5. Placed'
    <2>1. IInv' => Placed'
        BY CustodyPlaces, PTL
    <2> QED BY <2>1
<1>6. ASSUME NEW f \in Frames
      PROVE  PlaceOf(f)' = PlaceOf(f) \/ (PlaceOf(f) = src /\ PlaceOf(f)' = dst)
    <2>1. PlaceOf(f) \in Places /\ f \in FrameSet(at[PlaceOf(f)])
        BY <1>4 DEF Placed
    <2>2. \A p \in Places : f \in FrameSet(at'[p]) => PlaceOf(f)' = p
        BY <1>5 DEF Placed, FrameSet
    <2>3. CASE PlaceOf(f) = src
        <3>1. CASE f \in FrameSet(moved)
            BY <3>1, <2>2, <2>3, <1>1, <1>3
        <3>2. CASE f \in FrameSet(rest)
            BY <3>2, <2>2, <2>3, <1>1, <1>2
        <3> QED BY <3>1, <3>2, <2>1, <2>3, <1>1
    <2>4. CASE PlaceOf(f) = dst
        BY <2>1, <2>2, <2>4, <1>3
    <2>5. CASE PlaceOf(f) # src /\ PlaceOf(f) # dst
        <3>1. at'[PlaceOf(f)] = at[PlaceOf(f)]
            BY <2>1, <2>5, <1>2
        <3> QED BY <3>1, <2>1, <2>2
    <2> QED BY <2>3, <2>4, <2>5
<1> QED BY <1>6

LEMMA StepHandsOver ==
    ASSUME IInv, IInv', [Next]_vars PROVE [Ownership!Next]_(Ownership!vars)
<1> DEFINE owner == [f \in Frames |-> OwnerOfPlace(PlaceOf(f))]
<1>1. owner' = [f \in Frames |-> OwnerOfPlace(PlaceOf(f)')]
    BY DEF Frames, OwnerOfPlace
<1>2. CASE at' = at
    <2>1. \A f \in Frames : PlaceOf(f)' = PlaceOf(f)
        BY <1>2 DEF PlaceOf, FramesAt
    <2>2. owner' = owner
        BY <2>1, <1>1
    <2> QED BY <2>2 DEF Ownership!vars
<1>3. ASSUME NEW src, NEW dst, NEW rest, NEW moved, Carries(src, dst, rest, moved)
      PROVE  [Ownership!Next]_(Ownership!vars)
    <2> DEFINE from == OwnerOfPlace(src)
               to == OwnerOfPlace(dst)
    <2>1. \A f \in Frames : PlaceOf(f)' = PlaceOf(f) \/ (PlaceOf(f) = src /\ PlaceOf(f)' = dst)
        BY <1>3, MovesOwners
    <2>2. <<src, dst>> \in Routes
        BY <1>3 DEF Carries
    <2>3. from = to \/ <<from, to>> \in Ownership!HandOvers
        BY <2>2, RoutesHandOver
    <2>4. CASE from = to
        <3>1. \A f \in Frames : OwnerOfPlace(PlaceOf(f)') = OwnerOfPlace(PlaceOf(f))
            BY <2>1, <2>4
        <3>2. owner' = owner
            BY <3>1, <1>1
        <3> QED BY <3>2 DEF Ownership!vars
    <2>5. CASE <<from, to>> \in Ownership!HandOvers
        <3>1. \A f \in Frames : PlaceOf(f)' \in Places
            <4>1. IInv' => Placed'
                BY CustodyPlaces, PTL
            <4> QED BY <4>1 DEF Placed
        <3>2. owner' \in [Frames -> Ownership!Owners]
            BY <3>1, <1>1, OwnersAreOwners
        <3>3. ASSUME NEW f \in Frames
              PROVE  \/ owner'[f] = owner[f]
                     \/ owner[f] = from /\ owner'[f] = to /\ Ownership!MayOwn(to, f)
            <4>1. owner[f] = OwnerOfPlace(PlaceOf(f)) /\ owner'[f] = OwnerOfPlace(PlaceOf(f)')
                BY <1>1
            <4>2. CASE PlaceOf(f)' = PlaceOf(f)
                BY <4>1, <4>2
            <4>3. CASE PlaceOf(f) = src /\ PlaceOf(f)' = dst
                <5>1. IInv' => Entitled'
                    BY RegionsEntitle, PTL
                <5>2. Ownership!MayOwn(OwnerOfPlace(PlaceOf(f)'), f)
                    BY <5>1 DEF Entitled, Ownership!MayOwn, OwnerOfPlace
                <5> QED BY <4>1, <4>3, <5>2
            <4> QED BY <4>2, <4>3, <2>1
        <3>4. Ownership!HandOver(from, to)
            BY <3>2, <3>3 DEF Ownership!HandOver
        <3>5. Ownership!Next
            BY <2>5, <3>4 DEF Ownership!Next
        <3> QED BY <3>5
    <2> QED BY <2>3, <2>4, <2>5
<1> QED BY <1>2, <1>3, StepCarries DEF Carried

\* Init leaves the frames with the pools and the fill ring.
LEMMA InitOwners == Init => Ownership!Init
<1> SUFFICES ASSUME Init PROVE Ownership!Init
    OBVIOUS
<1> DEFINE owner == [f \in Frames |-> OwnerOfPlace(PlaceOf(f))]
<1>1. IInv
    BY InitIInv
<1>2. ASSUME NEW f \in Frames PROVE PlaceOf(f) \in {"rxPool", "fillRing", "txPool"}
    <2>1. PlaceOf(f) \in Places /\ f \in FrameSet(at[PlaceOf(f)])
        BY <1>1, CustodyPlaces DEF Placed
    <2>2. \A p \in Places : p \notin {"rxPool", "fillRing", "txPool"} => at[p] = <<>>
        BY DEF Init, Places, RxPlaces, TxPlaces
    <2>3. FrameSet(<<>>) = {}
        BY DEF FrameSet
    <2> QED BY <2>1, <2>2, <2>3
<1>3. owner \in [Frames -> {"rxPool", "rxKernel", "txPool"}]
    BY <1>2 DEF OwnerOfPlace
<1>4. \A f \in Frames : Ownership!MayOwn(owner[f], f)
    BY <1>1, RegionsEntitle DEF Entitled
<1> QED BY <1>3, <1>4 DEF Ownership!Init

\* The socket implements FrameOwnership, whatever its sizes and in both
\* modes: every step of a call or of the kernel leaves the owners alone or
\* hands whole frames over along one of the permitted pairs.
THEOREM SocketIsOwnership == Spec => ImplementsOwnership
<1>1. Init => Ownership!Init
    BY InitOwners
<1>2. IInv /\ IInv' /\ [Next]_vars => [Ownership!Next]_(Ownership!vars)
    BY StepHandsOver
<1> QED BY <1>1, <1>2, Invariant, PTL DEF Spec, ImplementsOwnership, Ownership!Spec

(***************************************************************************)
(* What was allocated fits.                                                *)
(***************************************************************************)

\* SendFunc has nothing in hand until it has allocated; the flag that it runs
\* is down between calls.
Pending ==
    /\ txPc = "idle" => ~sending
    /\ txPc = "alloc" => sending
    /\ txPc \in {"alloc", "complete"} /\ sending => at["txHeld"] = <<>>

FitsInv == ~TxReuseRxFrames => AllocatedFits /\ Pending

LEMMA InitFits == Init => FitsInv
<1> SUFFICES ASSUME Init PROVE FitsInv
    OBVIOUS
<1>1. at["txHeld"] = <<>> /\ Len(at["txHeld"]) = 0
    BY DEF Init, Places, RxPlaces, TxPlaces
<1>2. FreeTxSlots \in Nat
    BY InitIInv, Basics
<1> QED BY <1>1, <1>2 DEF Init, FitsInv, AllocatedFits, Pending

\* A step that leaves the places of the transmit goroutine alone keeps what fits.
LEMMA FitsFrame ==
    ASSUME FitsInv, at'["txHeld"] = at["txHeld"], at'["txRing"] = at["txRing"]
    PROVE  ~TxReuseRxFrames => AllocatedFits'
BY DEF FitsInv, AllocatedFits, FreeTxSlots

\* So does one that pops what AllocCount allows into empty hands.
LEMMA AllocFits ==
    ASSUME IInv, NEW n \in 1..MaxCount, AllocCount(n) > 0, at["txHeld"] = <<>>,
           PopMove("txPool", AllocCount(n), "txHeld")
    PROVE  AllocatedFits'
<1> DEFINE k == AllocCount(n)
<1>1. /\ Len(at["txPool"]) \in Nat /\ FreeTxSlots \in Nat /\ n \in Nat
      /\ "txPool" \in Places /\ "txHeld" \in Places /\ "txRing" \in Places
    BY Basics, SocketAssumption DEF Places, TxPlaces
<1>2. k \in 1..Len(at["txPool"]) /\ k <= FreeTxSlots
    BY <1>1 DEF AllocCount, Clamp
<1> HIDE DEF k
<1>3. PopMove("txPool", k, "txHeld")
    BY DEF k
<1>4. /\ Len(at'["txHeld"]) = Len(at["txHeld"]) + k
      /\ at'["txRing"] = at["txRing"]
    BY <1>1, <1>2, <1>3, PopEffect
<1>5. Len(at["txHeld"]) = 0 /\ k \in Nat
    BY <1>2
<1>6. Len(at'["txHeld"]) <= FreeTxSlots
    BY <1>2, <1>4, <1>5
<1> QED BY <1>4, <1>6 DEF AllocatedFits, FreeTxSlots

\* Queueing lowers by the same number what is in hand and what is free.
LEMMA PublishFits ==
    ASSUME IInv, TransmitPublish, ~TxReuseRxFrames, AllocatedFits
    PROVE  AllocatedFits'
<1>1. txFrom = "txHeld" /\ txPc = "transmit"
    BY DEF TransmitPublish, IInv, Control, TransmitSources
<1> DEFINE held == at["txHeld"]
           ring == at["txRing"]
           rest == Rest(held, txN)
           moved == Oldest(held, txN)
<1>2. /\ held \in Seq(Addresses) /\ NoDup(held) /\ Len(held) \in Nat
      /\ ring \in Seq(Addresses) /\ Len(ring) \in Nat
      /\ "txHeld" \in Places /\ "txRing" \in Places
    BY Basics DEF Places, TxPlaces
<1>3. txN \in 0..Len(held)
    BY <1>1, <1>2 DEF IInv, Control, TxCounts
<1>4. Splits(held, rest, moved) /\ Len(moved) = txN
    BY <1>2, <1>3, SplitAt
<1>5. at'["txHeld"] = rest /\ at'["txRing"] = ring \o moved
    BY <1>1, <1>2 DEF TransmitPublish, Move, IInv, Custody
<1>6. /\ Len(rest) \in Nat /\ Len(held) = Len(rest) + txN
      /\ Len(ring \o moved) = Len(ring) + txN
    <2>1. rest \in Seq(Addresses) /\ moved \in Seq(Addresses) /\ Len(held) = Len(rest) + Len(moved)
        BY <1>4 DEF Splits
    <2> QED BY <2>1, <1>2, <1>4, Joins, LenProperties, ZenonT(60)
<1> DEFINE h == Len(held)
           r == Len(ring)
           h2 == Len(rest)
           r2 == Len(ring \o moved)
<1>7. h <= TxRingNumDescs - r
    BY DEF AllocatedFits, FreeTxSlots
<1>8. h2 <= TxRingNumDescs - r2
    <2>1. /\ h \in Nat /\ r \in Nat /\ h2 \in Nat /\ txN \in Nat /\ TxRingNumDescs \in Nat
          /\ h = h2 + txN /\ r2 = r + txN
        BY <1>2, <1>3, <1>6, SocketAssumption
    <2> HIDE DEF h, r, h2, r2
    <2> QED BY <2>1, <1>7
<1> QED BY <1>5, <1>8 DEF AllocatedFits, FreeTxSlots

LEMMA NextKeepsFits == IInv /\ FitsInv /\ [Next]_vars => FitsInv'
<1> SUFFICES ASSUME IInv, FitsInv, [Next]_vars, ~TxReuseRxFrames
             PROVE  AllocatedFits' /\ Pending'
    BY DEF FitsInv
<1>1. AllocatedFits /\ Pending
    BY DEF FitsInv
<1>2. "txHeld" \in Places /\ "txRing" \in Places
    BY DEF Places, TxPlaces
\* A receive or kernel step away from the two places.
<1>3. ASSUME NEW src \in Places, NEW dst \in Places, NEW rest, NEW moved, Move(src, rest, moved, dst),
             {src, dst} \cap {"txHeld", "txRing"} = {}
      PROVE  at'["txHeld"] = at["txHeld"] /\ at'["txRing"] = at["txRing"]
    BY <1>2, <1>3 DEF Move, IInv, Custody
<1>4. CASE UNCHANGED <<at, txVars>>
    BY <1>1, <1>4 DEF AllocatedFits, FreeTxSlots, Pending, txVars
<1>5. ASSUME UNCHANGED txVars, at'["txHeld"] = at["txHeld"], at'["txRing"] = at["txRing"]
      PROVE  AllocatedFits' /\ Pending'
    BY <1>1, <1>5 DEF AllocatedFits, FreeTxSlots, Pending, txVars
<1>6. CASE ReceiveSide
    <2>1. ASSUME NEW n \in 1..MaxCount, FillReserve(n) PROVE AllocatedFits' /\ Pending'
        <3>1. UNCHANGED txVars /\ \E rest, moved : Move("rxPool", rest, moved, "popScratch")
            BY <2>1 DEF FillReserve, PopMove
        <3> QED BY <3>1, <1>3, <1>5 DEF Places, RxPlaces
    <2>2. ASSUME NEW n \in 1..MaxCount, ReceiveLoad(n) PROVE AllocatedFits' /\ Pending'
        BY <2>2, <1>4 DEF ReceiveLoad
    <2>3. ASSUME NEW n \in 1..MaxCount, Recycle(n) PROVE AllocatedFits' /\ Pending'
        <3>1. UNCHANGED txVars /\ \E rest, moved : Move("rxHeld", rest, moved, "rxPool")
            BY <2>3 DEF Recycle
        <3> QED BY <3>1, <1>3, <1>5 DEF Places, RxPlaces
    <2>4. CASE FillPublish
        <3>1. UNCHANGED txVars /\ \E rest, moved : Move("popScratch", rest, moved, "fillRing")
            BY <2>4 DEF FillPublish
        <3> QED BY <3>1, <1>3, <1>5 DEF Places, RxPlaces
    <2>5. CASE ReceiveRelease
        <3>1. UNCHANGED txVars /\ \E rest, moved : Move("rxRing", rest, moved, "rxHeld")
            BY <2>5 DEF ReceiveRelease
        <3> QED BY <3>1, <1>3, <1>5 DEF Places, RxPlaces
    <2> QED BY <1>6, <2>1, <2>2, <2>3, <2>4, <2>5 DEF ReceiveSide
<1>7. CASE TransmitSide
    <2>1. ASSUME NEW n \in 1..MaxCount, Alloc(n) PROVE AllocatedFits' /\ Pending'
        <3>1. AllocatedFits'
            BY <2>1, AllocFits DEF Alloc
        <3>2. txPc = "idle" /\ UNCHANGED txVars
            BY <2>1 DEF Alloc, TxMayCall
        <3> QED BY <3>1, <3>2, <1>1 DEF Pending, txVars
    <2>2. ASSUME NEW n \in 1..MaxCount, CompleteLoad(n) PROVE AllocatedFits' /\ Pending'
        <3>1. txPc = "idle" /\ at' = at /\ sending' = sending /\ txPc' = "complete"
            BY <2>2 DEF CompleteLoad, TxMayCall
        <3> QED BY <3>1, <1>1 DEF Pending, AllocatedFits, FreeTxSlots
    <2>3. ASSUME NEW n \in 1..MaxCount, SendAlloc(n) PROVE AllocatedFits' /\ Pending'
        <3>1. txPc = "alloc" /\ at["txHeld"] = <<>> /\ sending
            BY <2>3, <1>1 DEF SendAlloc, Pending
        <3>2. CASE at' = at /\ txPc' = "idle" /\ sending' = FALSE
            BY <3>1, <3>2, <1>1 DEF Pending, AllocatedFits, FreeTxSlots
        <3>3. CASE AllocCount(n) > 0 /\ txPc' = "build" /\ PopMove("txPool", AllocCount(n), "txHeld")
            BY <3>1, <3>3, AllocFits DEF Pending
        <3> QED BY <2>3, <3>2, <3>3 DEF SendAlloc
    <2>4. ASSUME NEW from \in TransmitSources, NEW n \in 1..MaxCount, TransmitLoad(from, n)
          PROVE  AllocatedFits' /\ Pending'
        BY <2>4, <1>1 DEF TransmitLoad, Pending, AllocatedFits, FreeTxSlots
    <2>5. CASE TransmitPublish
        BY <2>5, <1>1, PublishFits DEF TransmitPublish, Pending
    <2>6. CASE CompleteOne
        <3>1. at'["txHeld"] = at["txHeld"] /\ at'["txRing"] = at["txRing"]
            <4>1. PICK dst \in {"txPool", "rxPool"} : \E rest, moved : Move("completionRing", rest, moved, dst)
                BY <2>6 DEF CompleteOne, PoolOf
            <4> QED BY <4>1, <1>3 DEF Places, RxPlaces, TxPlaces
        <3>2. UNCHANGED <<txPc, sending>>
            BY <2>6 DEF CompleteOne
        <3> QED BY <3>1, <3>2, <1>1 DEF Pending, AllocatedFits, FreeTxSlots
    <2>7. CASE CompleteRelease
        <3>1. /\ txPc = "complete" /\ at' = at /\ sending' = sending
              /\ txPc' = IF sending THEN "alloc" ELSE "idle"
            BY <2>7 DEF CompleteRelease
        <3> QED BY <3>1, <1>1 DEF Pending, AllocatedFits, FreeTxSlots
    <2>8. CASE SendBegin
        BY <2>8, <1>1 DEF SendBegin, Pending, AllocatedFits, FreeTxSlots
    <2>9. CASE SendBuilt
        BY <2>9, <1>1 DEF SendBuilt, Pending, AllocatedFits, FreeTxSlots
    <2>10. CASE SendBuildRejected
        <3>1. /\ at'["txHeld"] = <<>> /\ at'["txRing"] = at["txRing"]
              /\ txPc' = "idle" /\ sending' = FALSE
            BY <2>10 DEF SendBuildRejected, Move, IInv, Custody, Places, TxPlaces
        <3>2. Len(<<>>) = 0 /\ FreeTxSlots \in Nat
            BY Basics
        <3> QED BY <3>1, <3>2 DEF Pending, AllocatedFits, FreeTxSlots
    <2> QED BY <1>7, <2>1, <2>2, <2>3, <2>4, <2>5, <2>6, <2>7, <2>8, <2>9, <2>10 DEF TransmitSide
<1>8. CASE Kernel
    <2>1. UNCHANGED txVars
        BY <1>8 DEF Kernel, DriverTakesBuffer, DriverReceives, DriverTakesPacket, DriverCompletes
    <2>2. CASE DriverTakesBuffer
        <3>1. \E rest, moved : Move("fillRing", rest, moved, "rxDriver")
            BY <2>2 DEF DriverTakesBuffer
        <3> QED BY <3>1, <2>1, <1>3, <1>5 DEF Places, RxPlaces
    <2>3. CASE DriverReceives
        <3>1. \E rest, moved : Move("rxDriver", rest, moved, "rxRing")
            BY <2>3 DEF DriverReceives
        <3> QED BY <3>1, <2>1, <1>3, <1>5 DEF Places, RxPlaces
    <2>4. CASE DriverTakesPacket
        <3> DEFINE s == at["txRing"]
        <3>1. /\ s # <<>> /\ s \in Seq(Addresses) /\ Len(s) \in Nat /\ Len(at["txHeld"]) \in Nat
            BY <2>4, Basics DEF DriverTakesPacket, Places, TxPlaces
        <3>2. at'["txHeld"] = at["txHeld"] /\ at'["txRing"] = Tail(s)
            BY <2>4, <1>2 DEF DriverTakesPacket, Move, IInv, Custody, Places, TxPlaces
        <3>3. Len(Tail(s)) = Len(s) - 1
            BY <3>1, HeadTailProperties
        <3>4. Len(at["txHeld"]) <= TxRingNumDescs - Len(Tail(s))
            <4>1. Len(at["txHeld"]) <= TxRingNumDescs - Len(s)
                BY <1>1 DEF AllocatedFits, FreeTxSlots
            <4> QED BY <4>1, <3>1, <3>3, Basics
        <3> QED BY <2>1, <3>2, <3>4, <1>1 DEF AllocatedFits, FreeTxSlots, Pending, txVars
    <2>5. ASSUME NEW i \in 1..Len(at["txDriver"]), DriverCompletes(i) PROVE AllocatedFits' /\ Pending'
        <3>1. \E rest, moved : Move("txDriver", rest, moved, "completionRing")
            BY <2>5 DEF DriverCompletes
        <3> QED BY <3>1, <2>1, <1>3, <1>5 DEF Places, TxPlaces
    <2> QED BY <1>8, <2>2, <2>3, <2>4, <2>5 DEF Kernel
<1>9. CASE UNCHANGED vars
    BY <1>9, <1>4 DEF vars
<1> QED BY <1>6, <1>7, <1>8, <1>9 DEF Next

\* Outside hairpin mode what Alloc or SendFunc hands out fits the tx ring when
\* it comes to Transmit, although it was counted before anything was queued.
THEOREM AllocatedAlwaysFits == Spec => []AllocatedFits
<1>1. Init => FitsInv
    BY InitFits
<1>2. IInv /\ FitsInv /\ [Next]_vars => FitsInv'
    BY NextKeepsFits
<1>3. FitsInv => AllocatedFits
    BY DEF FitsInv, AllocatedFits
<1> QED BY <1>1, <1>2, <1>3, Invariant, PTL DEF Spec
=============================================================================
