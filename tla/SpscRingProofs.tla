---------------------------- MODULE SpscRingProofs ----------------------------
(***************************************************************************)
(* Proofs about SpscRing, for every ring size, every width of the indices  *)
(* that is a multiple of it, and every set of descriptors: the ring is a   *)
(* bounded queue, and the reader copies out what the writer put in.        *)
(*                                                                         *)
(* The argument is that of the two windows.  Counted from the consumer's   *)
(* index, the slots hold first what is published, then what the producer   *)
(* has written of its batch, then room for the rest of it; the three       *)
(* together never exceed the ring, so slots told apart by their distance   *)
(* from that index are different slots, although both indices wrap.        *)
(***************************************************************************)
EXTENDS SpscRing, Integers, SequenceTheorems, TLAPS

(***************************************************************************)
(* Division and remainder.                                                 *)
(***************************************************************************)
LEMMA DivMod ==
    ASSUME NEW n \in Nat \ {0}, NEW a \in Int
    PROVE  a \div n \in Int /\ a % n \in 0..(n - 1) /\ a = n * (a \div n) + (a % n)
OBVIOUS

LEMMA AtLeastOnce ==
    ASSUME NEW n \in Nat \ {0}, NEW k \in Int, k >= 1
    PROVE  n * k >= n
OBVIOUS

LEMMA Distributes ==
    ASSUME NEW n \in Int, NEW a \in Int, NEW b \in Int
    PROVE  n * (a - b) = n * a - n * b
OBVIOUS

\* Numbers less than n apart have different remainders.
LEMMA DistinctRemainders ==
    ASSUME NEW n \in Nat \ {0}, NEW a \in Int, NEW b \in Int, a < b, b - a < n
    PROVE  a % n # b % n
<1> SUFFICES ASSUME a % n = b % n PROVE FALSE
    OBVIOUS
<1> DEFINE k == (b \div n) - (a \div n)
<1>1. k \in Int /\ n * k = b - a
    <2>1. /\ a \div n \in Int /\ a = n * (a \div n) + (a % n)
          /\ b \div n \in Int /\ b = n * (b \div n) + (b % n)
          /\ a % n \in Int
        BY DivMod
    <2>2. n * k = n * (b \div n) - n * (a \div n)
        BY <2>1, Distributes
    <2> QED BY <2>1, <2>2
<1> HIDE DEF k
<1>2. k >= 1
    <2>1. CASE k <= 0
        <3>1. n * (0 - k) = 0 - n * k
            BY <1>1
        <3>2. n * (0 - k) >= 0
            BY <2>1, <1>1
        <3> QED BY <1>1, <3>1, <3>2
    <2> QED BY <1>1, <2>1
<1> QED BY <1>1, <1>2, AtLeastOnce

\* Quotient and remainder are unique.
LEMMA RemainderUnique ==
    ASSUME NEW n \in Nat \ {0}, NEW q \in Int, NEW r \in 0..(n - 1)
    PROVE  (n * q + r) % n = r
<1> DEFINE a == n * q + r
<1>1. a \in Int
    OBVIOUS
<1>2. a \div n \in Int /\ a % n \in 0..(n - 1) /\ a = n * (a \div n) + (a % n)
    BY <1>1, DivMod
<1> DEFINE k == q - (a \div n)
<1>3. k \in Int /\ n * k = (a % n) - r
    <2>1. n * k = n * q - n * (a \div n)
        BY <1>2, Distributes
    <2> QED BY <2>1, <1>2
<1> HIDE DEF k
<1>4. k = 0
    <2>1. CASE k >= 1
        BY <2>1, <1>2, <1>3, AtLeastOnce
    <2>2. CASE k <= -1
        <3>1. n * (0 - k) = 0 - n * k
            BY <1>3
        <3>2. n * (0 - k) >= n
            BY <2>2, <1>3, AtLeastOnce
        <3> QED BY <1>2, <1>3, <3>1, <3>2
    <2> QED BY <1>3, <2>1, <2>2
<1> HIDE DEF a
<1> QED BY <1>1, <1>2, <1>3, <1>4 DEF a

\* A whole number of turns changes no remainder.
LEMMA TurnsVanish ==
    ASSUME NEW n \in Nat \ {0}, NEW m \in Nat, m % n = 0, NEW a \in Int
    PROVE  (a + m) % n = a % n
<1>1. m = n * (m \div n) /\ m \div n \in Int
    BY DivMod
<1>2. a = n * (a \div n) + (a % n) /\ a \div n \in Int /\ a % n \in 0..(n - 1)
    BY DivMod
<1>3. a + m = n * ((a \div n) + (m \div n)) + (a % n)
    BY <1>1, <1>2
<1>4. (a \div n) + (m \div n) \in Int
    BY <1>1, <1>2
<1> QED BY <1>2, <1>3, <1>4, RemainderUnique

(***************************************************************************)
(* The index arithmetic of the code.                                       *)
(***************************************************************************)

\* The uint32 difference of two indices is how far the one is ahead.
LEMMA DistanceIs ==
    ASSUME NEW to \in Indices, NEW from \in Indices
    PROVE  /\ Distance(to, from) = IF from <= to THEN to - from ELSE to - from + IndexMod
           /\ Distance(to, from) \in Indices
<1>1. IndexMod \in Nat \ {0}
    BY RingAssumption
<1>2. \A a \in 0..(IndexMod - 1) : a % IndexMod = a /\ (a + IndexMod) % IndexMod = a
    BY <1>1
<1>3. CASE from <= to
    <2>1. to - from \in 0..(IndexMod - 1) /\ to + IndexMod - from = (to - from) + IndexMod
        BY <1>1, <1>3 DEF Indices
    <2> QED BY <1>2, <1>3, <2>1 DEF Distance, Indices
<1>4. CASE ~(from <= to)
    <2>1. to + IndexMod - from \in 0..(IndexMod - 1) /\ to - from + IndexMod = to + IndexMod - from
        BY <1>1, <1>4 DEF Indices
    <2> QED BY <1>2, <1>4, <2>1 DEF Distance, Indices
<1> QED BY <1>3, <1>4

LEMMA SuccessorIs ==
    ASSUME NEW idx \in Indices
    PROVE  /\ Successor(idx) = IF idx + 1 = IndexMod THEN 0 ELSE idx + 1
           /\ Successor(idx) \in Indices
<1>1. IndexMod \in Nat \ {0}
    BY RingAssumption
<1>2. IndexMod % IndexMod = 0 /\ \A a \in 0..(IndexMod - 1) : a % IndexMod = a
    BY <1>1
<1> QED BY <1>1, <1>2 DEF Successor, Indices

\* One index further is one further from wherever it is measured.
LEMMA SuccessorDistance ==
    ASSUME NEW idx \in Indices, NEW from \in Indices, Distance(idx, from) < NumDescs
    PROVE  Distance(Successor(idx), from) = Distance(idx, from) + 1
<1>1. Successor(idx) = (IF idx + 1 = IndexMod THEN 0 ELSE idx + 1) /\ Successor(idx) \in Indices
    BY SuccessorIs
<1>2. /\ Distance(idx, from) = IF from <= idx THEN idx - from ELSE idx - from + IndexMod
      /\ Distance(Successor(idx), from) =
             IF from <= Successor(idx) THEN Successor(idx) - from
                                       ELSE Successor(idx) - from + IndexMod
    BY <1>1, DistanceIs
<1>3. NumDescs \in Nat \ {0} /\ IndexMod \in Nat /\ 2 * NumDescs <= IndexMod
    BY RingAssumption
<1> QED BY <1>1, <1>2, <1>3 DEF Indices

\* Distances add up, as long as the sum stays within one turn.
LEMMA DistancesAdd ==
    ASSUME NEW a \in Indices, NEW b \in Indices, NEW c \in Indices,
           Distance(a, b) + Distance(b, c) <= NumDescs
    PROVE  Distance(a, c) = Distance(a, b) + Distance(b, c)
<1>1. /\ Distance(a, b) = IF b <= a THEN a - b ELSE a - b + IndexMod
      /\ Distance(b, c) = IF c <= b THEN b - c ELSE b - c + IndexMod
      /\ Distance(a, c) = IF c <= a THEN a - c ELSE a - c + IndexMod
    BY DistanceIs
<1>2. NumDescs \in Nat \ {0} /\ IndexMod \in Nat /\ 2 * NumDescs <= IndexMod
    BY RingAssumption
<1> QED BY <1>1, <1>2 DEF Indices

\* A slot is found from any index by the distance to it.
LEMMA SlotByDistance ==
    ASSUME NEW idx \in Indices, NEW from \in Indices
    PROVE  SlotOf(idx) = (from + Distance(idx, from)) % NumDescs
<1>1. from + Distance(idx, from) = idx \/ from + Distance(idx, from) = idx + IndexMod
    <2>1. Distance(idx, from) = IF from <= idx THEN idx - from ELSE idx - from + IndexMod
        BY DistanceIs
    <2> QED BY <2>1, RingAssumption DEF Indices
<1>2. (idx + IndexMod) % NumDescs = idx % NumDescs
    <2>1. idx \in Int
        BY DEF Indices
    <2> QED BY <2>1, TurnsVanish, RingAssumption
<1> QED BY <1>1, <1>2 DEF SlotOf

LEMMA SlotInRange ==
    ASSUME NEW a \in Int
    PROVE  a % NumDescs \in 0..(NumDescs - 1)
BY DivMod, RingAssumption

\* What is free and what is available, when the indices are sound.
LEMMA FreeAndAvailable ==
    ASSUME NEW prod \in Indices, NEW cons \in Indices, Distance(prod, cons) <= NumDescs
    PROVE  /\ FreeSlots(prod, cons) = NumDescs - Distance(prod, cons)
           /\ Available(prod, cons) = Distance(prod, cons)
<1>1. NumDescs \in Indices
    BY RingAssumption DEF Indices
<1>2. Distance(prod, cons) \in Indices
    BY DistanceIs
<1>3. Distance(NumDescs, Distance(prod, cons)) = NumDescs - Distance(prod, cons)
    BY <1>1, <1>2, DistanceIs
<1> QED BY <1>2, <1>3, RingAssumption DEF FreeSlots, Available, Indices

(***************************************************************************)
(* The inductive invariant.                                                *)
(***************************************************************************)

\* What is published, written but not yet published, and read but not yet
\* released.
Filled  == Distance(producer, consumer)
Written == Distance(pCursor, producer)
Read    == Distance(cCursor, consumer)

\* The i-th slot from the consumer's index.
Cell(i) == slots[(consumer + i - 1) % NumDescs]

\* A producer in mid-batch has room for all of it: what the consumer released
\* meanwhile only adds to the room.
ProducerWindow ==
    /\ Filled + Written + Len(pPending) <= NumDescs
    /\ pPc = "idle" => pPending = <<>> /\ pCursor = producer
    /\ pPc = "writing" => Written + Len(pPending) > 0

\* A consumer in mid-batch has all of it published, and has read what is there.
ConsumerWindow ==
    /\ cPc = "idle" => cLeft = 0 /\ cCursor = consumer
    /\ cPc = "reading" =>
          /\ Len(cScratch) = Read
          /\ Read + cLeft > 0 /\ Read + cLeft <= Filled
          /\ \A i \in 1..Read : cScratch[i] = Cell(i)

\* The two windows share the ring, and the batch the reader has copied is what
\* its window holds (Fill, Transmit, Receive, Complete between their loads and
\* their store).
IInv == TypeOK /\ ProducerWindow /\ ConsumerWindow

(***************************************************************************)
(* Consequences of the invariant.                                          *)
(***************************************************************************)
\* An index is no distance from itself.
LEMMA NoDistance ==
    ASSUME NEW idx \in Indices
    PROVE  Distance(idx, idx) = 0
BY DistanceIs DEF Indices

\* The sizes of the windows.
LEMMA Bounds ==
    ASSUME IInv
    PROVE  /\ NumDescs \in Nat \ {0}
           /\ Filled \in 0..NumDescs /\ Written \in 0..NumDescs
           /\ Read \in Nat /\ Read <= Filled
           /\ Len(pPending) \in 0..NumDescs /\ Len(cScratch) \in Nat /\ cLeft \in Nat
           /\ Filled + Written + Len(pPending) <= NumDescs
<1>1. NumDescs \in Nat \ {0}
    BY RingAssumption
<1>2. Filled \in Nat /\ Written \in Nat /\ Read \in Nat
    BY DistanceIs DEF IInv, TypeOK, Filled, Written, Read, Indices
<1>3. Len(pPending) \in Nat /\ Len(cScratch) \in Nat /\ cLeft \in Nat
    BY LenProperties DEF IInv, TypeOK
<1>4. Read <= Filled
    <2>1. CASE cPc = "idle"
        <3>1. cCursor = consumer /\ consumer \in Indices
            BY <2>1 DEF IInv, TypeOK, ConsumerWindow
        <3>2. Read = 0
            BY <3>1, NoDistance DEF Read
        <3> QED BY <3>2, <1>2
    <2>2. CASE cPc = "reading"
        BY <2>2, <1>2, <1>3 DEF IInv, ConsumerWindow
    <2> QED BY <2>1, <2>2 DEF IInv, TypeOK
<1>5. Filled + Written + Len(pPending) <= NumDescs
    BY DEF IInv, ProducerWindow
<1> QED BY <1>1, <1>2, <1>3, <1>4, <1>5

\* The consumer's cells, as many as the ring has, are different slots.
LEMMA CellsDistinct ==
    ASSUME NEW from \in Indices, NEW i \in 1..NumDescs, NEW j \in 1..NumDescs, i # j
    PROVE  (from + i - 1) % NumDescs # (from + j - 1) % NumDescs
<1>1. NumDescs \in Nat \ {0} /\ from \in Int /\ from + i - 1 \in Int /\ from + j - 1 \in Int
    BY RingAssumption DEF Indices
<1>2. CASE i < j
    <2>1. from + i - 1 < from + j - 1 /\ (from + j - 1) - (from + i - 1) < NumDescs
        BY <1>1, <1>2
    <2> QED BY <1>1, <2>1, DistinctRemainders
<1>3. CASE j < i
    <2>1. from + j - 1 < from + i - 1 /\ (from + i - 1) - (from + j - 1) < NumDescs
        BY <1>1, <1>3
    <2> QED BY <1>1, <2>1, DistinctRemainders
<1> QED BY <1>2, <1>3

\* A cell counted from another index.
LEMMA CellShift ==
    ASSUME NEW idx \in Indices, NEW from \in Indices, NEW k \in Int
    PROVE  (idx + k) % NumDescs = (from + Distance(idx, from) + k) % NumDescs
<1>1. from + Distance(idx, from) = idx \/ from + Distance(idx, from) = idx + IndexMod
    <2>1. Distance(idx, from) = IF from <= idx THEN idx - from ELSE idx - from + IndexMod
        BY DistanceIs
    <2> QED BY <2>1, RingAssumption DEF Indices
<1>2. (idx + k + IndexMod) % NumDescs = (idx + k) % NumDescs
    <2>1. idx + k \in Int
        BY DEF Indices
    <2> QED BY <2>1, TurnsVanish, RingAssumption
<1>3. idx + IndexMod + k = idx + k + IndexMod
    BY RingAssumption DEF Indices
<1> QED BY <1>1, <1>2, <1>3

\* The remainder of a distance.
LEMMA DistancesSubtract ==
    ASSUME NEW a \in Indices, NEW b \in Indices, NEW c \in Indices,
           Distance(b, c) <= Distance(a, c), Distance(a, c) <= NumDescs
    PROVE  Distance(a, b) = Distance(a, c) - Distance(b, c)
<1>1. /\ Distance(a, b) = IF b <= a THEN a - b ELSE a - b + IndexMod
      /\ Distance(b, c) = IF c <= b THEN b - c ELSE b - c + IndexMod
      /\ Distance(a, c) = IF c <= a THEN a - c ELSE a - c + IndexMod
    BY DistanceIs
<1>2. NumDescs \in Nat \ {0} /\ IndexMod \in Nat /\ 2 * NumDescs <= IndexMod
    BY RingAssumption
<1> QED BY <1>1, <1>2 DEF Indices

(***************************************************************************)
(* The producer's steps.                                                   *)
(***************************************************************************)
LEMMA InitHolds == Init => IInv
<1> SUFFICES ASSUME Init PROVE IInv
    OBVIOUS
<1>1. TypeOK
    BY RingAssumption DEF Init, TypeOK
<1>2. Filled = 0 /\ Written = 0
    BY NoDistance DEF Init, Filled, Written
<1>3. ProducerWindow
    <2>1. Len(pPending) = 0 /\ pPc = "idle" /\ pPending = <<>> /\ pCursor = producer
        BY DEF Init
    <2> QED BY <1>2, <2>1, RingAssumption DEF ProducerWindow
<1>4. ConsumerWindow
    BY DEF Init, ConsumerWindow
<1> QED BY <1>1, <1>3, <1>4 DEF IInv

\* A step that leaves the indices and the slots keeps what the reader's window
\* says.
LEMMA ConsumerWindowFrame ==
    ASSUME ConsumerWindow, UNCHANGED <<producer, consumer, slots, cVars>>
    PROVE  ConsumerWindow'
BY DEF ConsumerWindow, cVars, Filled, Read, Cell

LEMMA ProducerReserveKeeps ==
    ASSUME IInv, NEW batch \in Batches, ProducerReserve(batch)
    PROVE  IInv'
<1> DEFINE n == Clamp(Len(batch), FreeSlots(producer, consumer))
<1>1. batch \in Seq(Descriptors) /\ Len(batch) \in Nat
    BY DEF Batches
<1>2. /\ n > 0 /\ pPc = "idle" /\ pPc' = "writing" /\ pPending' = SubSeq(batch, 1, n)
      /\ pCursor' = producer /\ UNCHANGED <<producer, consumer, slots, cVars>>
    BY DEF ProducerReserve
<1>3. FreeSlots(producer, consumer) = NumDescs - Filled /\ Filled \in Nat /\ NumDescs \in Nat
    BY Bounds, FreeAndAvailable DEF IInv, TypeOK, Filled
<1>4. n \in 1..Len(batch) /\ n <= NumDescs - Filled
    BY <1>1, <1>2, <1>3 DEF Clamp
<1> HIDE DEF n
<1>5. pPending' \in Seq(Descriptors) /\ Len(pPending') = n
    <2>1. \A i \in 1..n : batch[i] \in Descriptors
        BY <1>1, <1>4, ElementOfSeq
    <2> QED BY <2>1, <1>2, <1>4, SubSeqProperties
<1>6. TypeOK'
    BY <1>2, <1>5 DEF IInv, TypeOK, cVars
<1>7. Filled' = Filled /\ Written' = 0
    BY <1>2, NoDistance DEF Filled, Written, IInv, TypeOK
<1>8. ProducerWindow'
    BY <1>2, <1>3, <1>4, <1>5, <1>7 DEF ProducerWindow
<1>9. ConsumerWindow'
    BY <1>2, ConsumerWindowFrame DEF IInv
<1> QED BY <1>6, <1>8, <1>9 DEF IInv

\* The slot a write goes to lies beyond all that is published.
LEMMA WriteSpares ==
    ASSUME IInv, ProducerWrite
    PROVE  /\ consumer' = consumer /\ producer' = producer
           /\ SlotOf(pCursor) \in 0..(NumDescs - 1)
           /\ \A i \in 1..NumDescs : i # Filled + Written + 1 => Cell(i)' = Cell(i)
           /\ Filled + Written + 1 \in 1..NumDescs
           /\ slots'[(consumer + (Filled + Written + 1) - 1) % NumDescs] = Head(pPending)
<1>1. /\ pPending # <<>> /\ UNCHANGED <<producer, consumer, pPc, cVars>>
      /\ slots' = [slots EXCEPT ![SlotOf(pCursor)] = Head(pPending)]
    BY DEF ProducerWrite
<1>2. /\ pCursor \in Indices /\ producer \in Indices /\ consumer \in Indices
      /\ slots \in [0..(NumDescs - 1) -> Descriptors] /\ pPending \in Seq(Descriptors)
    BY DEF IInv, TypeOK
<1>3. Len(pPending) > 0
    BY <1>1, <1>2, EmptySeq, LenProperties
<1>4. Filled + Written < NumDescs /\ Filled + Written \in Nat /\ NumDescs \in Nat \ {0}
    BY <1>3, Bounds
<1>5. SlotOf(pCursor) = (consumer + (Filled + Written + 1) - 1) % NumDescs
    <2>1. Distance(pCursor, consumer) = Written + Filled
        <3>1. Distance(pCursor, producer) + Distance(producer, consumer) <= NumDescs
            BY <1>4, Bounds DEF Filled, Written
        <3> QED BY <3>1, <1>2, DistancesAdd DEF Filled, Written
    <2>2. SlotOf(pCursor) = (consumer + (Written + Filled)) % NumDescs
        BY <2>1, <1>2, SlotByDistance
    <2>3. consumer + (Filled + Written + 1) - 1 = consumer + (Written + Filled)
        BY <1>2, Bounds DEF Indices
    <2> QED BY <2>2, <2>3
<1>6. SlotOf(pCursor) \in 0..(NumDescs - 1)
    BY <1>2, SlotInRange DEF SlotOf, Indices
<1>7. Filled + Written + 1 \in 1..NumDescs
    BY <1>4
<1>8. ASSUME NEW i \in 1..NumDescs, i # Filled + Written + 1 PROVE Cell(i)' = Cell(i)
    <2>1. (consumer + i - 1) % NumDescs # SlotOf(pCursor)
        BY <1>2, <1>5, <1>7, <1>8, CellsDistinct
    <2>2. (consumer + i - 1) % NumDescs \in 0..(NumDescs - 1)
        <3>1. consumer + i - 1 \in Int
            BY <1>2 DEF Indices
        <3> QED BY <3>1, SlotInRange
    <2> QED BY <1>1, <1>2, <2>1, <2>2 DEF Cell
<1>9. slots'[SlotOf(pCursor)] = Head(pPending)
    BY <1>1, <1>2, <1>6
<1> QED BY <1>1, <1>5, <1>6, <1>7, <1>8, <1>9

LEMMA ProducerWriteKeeps ==
    ASSUME IInv, ProducerWrite
    PROVE  IInv'
<1>1. /\ pPc = "writing" /\ pPending # <<>> /\ UNCHANGED <<producer, consumer, pPc, cVars>>
      /\ slots' = [slots EXCEPT ![SlotOf(pCursor)] = Head(pPending)]
      /\ pCursor' = Successor(pCursor) /\ pPending' = Tail(pPending)
    BY DEF ProducerWrite
<1>2. /\ pCursor \in Indices /\ producer \in Indices /\ consumer \in Indices
      /\ slots \in [0..(NumDescs - 1) -> Descriptors] /\ pPending \in Seq(Descriptors)
    BY DEF IInv, TypeOK
<1>3. /\ Head(pPending) \in Descriptors /\ pPending' \in Seq(Descriptors)
      /\ Len(pPending') = Len(pPending) - 1 /\ Len(pPending) > 0
    BY <1>1, <1>2, HeadTailProperties, EmptySeq, LenProperties
<1>4. TypeOK'
    <2>1. pCursor' \in Indices
        BY <1>1, <1>2, SuccessorIs
    <2>2. slots' \in [0..(NumDescs - 1) -> Descriptors]
        BY <1>1, <1>2, <1>3, WriteSpares
    <2> QED BY <1>1, <1>3, <2>1, <2>2 DEF IInv, TypeOK, cVars
<1>5. Filled' = Filled /\ Written' = Written + 1
    <2>1. Written < NumDescs
        BY <1>3, Bounds
    <2> QED BY <2>1, <1>1, <1>2, SuccessorDistance DEF Filled, Written
<1>6. ProducerWindow'
    <2>1. Filled' + Written' + Len(pPending') <= NumDescs /\ Written' + Len(pPending') > 0
        BY <1>3, <1>5, Bounds, SMTT(60)
    <2> QED BY <2>1, <1>1 DEF ProducerWindow
<1>7. ConsumerWindow'
    <2>1. CASE cPc = "idle"
        BY <2>1, <1>1 DEF IInv, ConsumerWindow, cVars
    <2>2. CASE cPc = "reading"
        <3>1. Read' = Read /\ cLeft' = cLeft /\ cScratch' = cScratch /\ cPc' = cPc
            BY <1>1 DEF Read, cVars
        <3>2. \A i \in 1..Read : i \in 1..NumDescs /\ i # Filled + Written + 1
            BY Bounds
        <3>3. \A i \in 1..Read : cScratch[i] = Cell(i)'
            BY <2>2, <3>2, WriteSpares DEF IInv, ConsumerWindow
        <3> QED BY <2>2, <3>1, <3>3, <1>5 DEF IInv, ConsumerWindow
    <2> QED BY <2>1, <2>2 DEF IInv, TypeOK
<1> QED BY <1>4, <1>6, <1>7 DEF IInv

\* What was written becomes published.
LEMMA PublishGrows ==
    ASSUME IInv, ProducerPublish
    PROVE  /\ pPc = "writing" /\ pPending = <<>> /\ producer' = pCursor /\ pPc' = "idle"
           /\ UNCHANGED <<consumer, slots, pPending, pCursor, cVars>>
           /\ Len(pPending) = 0
           /\ Written > 0 /\ Filled' = Filled + Written /\ Filled + Written <= NumDescs
<1>1. /\ pPc = "writing" /\ pPending = <<>> /\ producer' = pCursor /\ pPc' = "idle"
      /\ UNCHANGED <<consumer, slots, pPending, pCursor, cVars>>
    BY DEF ProducerPublish
<1>2. Len(pPending) = 0
    BY <1>1
<1>3. Written > 0 /\ Filled + Written <= NumDescs
    BY <1>1, <1>2, Bounds DEF IInv, ProducerWindow
<1>4. Filled' = Filled + Written
    <2>1. Distance(pCursor, producer) + Distance(producer, consumer) <= NumDescs
        BY <1>3, Bounds DEF Filled, Written
    <2>2. Distance(pCursor, consumer) = Written + Filled
        BY <2>1, DistancesAdd DEF IInv, TypeOK, Filled, Written
    <2> QED BY <2>2, <1>1, Bounds DEF Filled
<1> QED BY <1>1, <1>2, <1>3, <1>4

LEMMA ProducerPublishKeeps ==
    ASSUME IInv, ProducerPublish
    PROVE  IInv'
<1>1. TypeOK'
    BY PublishGrows DEF IInv, TypeOK, cVars
<1>2. ProducerWindow'
    <2>1. Written' = 0
        BY PublishGrows, NoDistance DEF IInv, TypeOK, Written
    <2>2. Filled' + Written' + Len(pPending') <= NumDescs
        BY <2>1, PublishGrows, Bounds
    <2> QED BY <2>1, <2>2, PublishGrows DEF ProducerWindow
<1>3. ConsumerWindow'
    <2>1. CASE cPc = "idle"
        BY <2>1, PublishGrows DEF IInv, ConsumerWindow, cVars
    <2>2. CASE cPc = "reading"
        <3>1. Read' = Read /\ cLeft' = cLeft /\ cScratch' = cScratch /\ cPc' = cPc
            BY PublishGrows DEF Read, cVars
        <3>2. \A i : Cell(i)' = Cell(i)
            BY PublishGrows DEF Cell
        <3>3. Read' + cLeft' <= Filled'
            BY <2>2, <3>1, PublishGrows, Bounds DEF IInv, ConsumerWindow
        <3> QED BY <2>2, <3>1, <3>2, <3>3 DEF IInv, ConsumerWindow
    <2> QED BY <2>1, <2>2 DEF IInv, TypeOK
<1> QED BY <1>1, <1>2, <1>3 DEF IInv

(***************************************************************************)
(* The consumer's steps.                                                   *)
(***************************************************************************)
LEMMA ConsumerLoadKeeps ==
    ASSUME IInv, NEW max \in 1..MaxBatch, ConsumerLoad(max)
    PROVE  IInv'
<1> DEFINE n == Clamp(max, Available(producer, consumer))
<1>1. /\ n > 0 /\ cPc = "idle" /\ cPc' = "reading" /\ cLeft' = n
      /\ cCursor' = consumer /\ cScratch' = <<>>
      /\ UNCHANGED <<producer, consumer, slots, pVars>>
    BY DEF ConsumerLoad
<1>2. Available(producer, consumer) = Filled
    BY Bounds, FreeAndAvailable DEF IInv, TypeOK, Filled
<1>3. n \in 1..Filled /\ n \in 0..NumDescs
    BY <1>1, <1>2, Bounds DEF Clamp
<1> HIDE DEF n
<1>4. TypeOK'
    BY <1>1, <1>3 DEF IInv, TypeOK, pVars
<1>5. Filled' = Filled /\ Written' = Written /\ Read' = 0 /\ Len(cScratch') = 0
    BY <1>1, NoDistance DEF Filled, Written, Read, pVars, IInv, TypeOK
<1>6. ProducerWindow'
    BY <1>1, <1>5 DEF IInv, ProducerWindow, pVars
<1>7. ConsumerWindow'
    <2>1. Read' + cLeft' > 0 /\ Read' + cLeft' <= Filled'
        BY <1>1, <1>3, <1>5, Bounds
    <2>2. 1..0 = {}
        OBVIOUS
    <2> QED BY <2>1, <2>2, <1>1, <1>5 DEF ConsumerWindow
<1> QED BY <1>4, <1>6, <1>7 DEF IInv

LEMMA ConsumerReadKeeps ==
    ASSUME IInv, ConsumerRead
    PROVE  IInv'
<1>1. /\ cPc = "reading" /\ cLeft > 0 /\ UNCHANGED <<producer, consumer, slots, pVars, cPc>>
      /\ cScratch' = Append(cScratch, slots[SlotOf(cCursor)])
      /\ cCursor' = Successor(cCursor) /\ cLeft' = cLeft - 1
    BY DEF ConsumerRead
<1>2. /\ cCursor \in Indices /\ producer \in Indices /\ consumer \in Indices
      /\ slots \in [0..(NumDescs - 1) -> Descriptors] /\ cScratch \in Seq(Descriptors)
      /\ cLeft \in 0..NumDescs
    BY DEF IInv, TypeOK
<1>3. /\ Len(cScratch) = Read /\ Read + cLeft <= Filled
      /\ \A i \in 1..Read : cScratch[i] = Cell(i)
    BY <1>1 DEF IInv, ConsumerWindow
<1>4. SlotOf(cCursor) = (consumer + (Read + 1) - 1) % NumDescs
    <2>1. consumer + (Read + 1) - 1 = consumer + Read
        BY <1>2, Bounds DEF Indices
    <2> QED BY <2>1, <1>2, SlotByDistance DEF Read
<1>5. slots[SlotOf(cCursor)] = Cell(Read + 1) /\ slots[SlotOf(cCursor)] \in Descriptors
    <2>1. SlotOf(cCursor) \in 0..(NumDescs - 1)
        BY <1>2, SlotInRange DEF SlotOf, Indices
    <2> QED BY <2>1, <1>2, <1>4 DEF Cell
<1>6. /\ cScratch' \in Seq(Descriptors) /\ Len(cScratch') = Read + 1
      /\ \A i \in 1..Read : cScratch'[i] = cScratch[i]
      /\ cScratch'[Read + 1] = slots[SlotOf(cCursor)]
    BY <1>1, <1>2, <1>3, <1>5, AppendProperties, LenProperties
<1>7. TypeOK'
    <2>1. cCursor' \in Indices
        BY <1>1, <1>2, SuccessorIs
    <2>2. cLeft' \in 0..NumDescs
        BY <1>1, <1>2, Bounds
    <2> QED BY <1>1, <1>6, <2>1, <2>2 DEF IInv, TypeOK, pVars
<1>8. Filled' = Filled /\ Written' = Written /\ Read' = Read + 1
    <2>1. Read < NumDescs
        BY <1>1, <1>2, <1>3, Bounds
    <2> QED BY <2>1, <1>1, <1>2, SuccessorDistance DEF Filled, Written, Read, pVars
<1>9. ProducerWindow'
    BY <1>1, <1>8 DEF IInv, ProducerWindow, pVars
<1>10. ConsumerWindow'
    <2>1. \A i : Cell(i)' = Cell(i)
        BY <1>1 DEF Cell
    <2>2. Read' + cLeft' > 0 /\ Read' + cLeft' <= Filled'
        BY <1>1, <1>2, <1>3, <1>8, Bounds
    <2>3. ASSUME NEW i \in 1..(Read + 1) PROVE cScratch'[i] = Cell(i)'
        <3>1. CASE i = Read + 1
            BY <3>1, <2>1, <1>5, <1>6
        <3>2. CASE i # Read + 1
            <4>1. i \in 1..Read
                BY <3>2, Bounds
            <4> QED BY <4>1, <2>1, <1>3, <1>6
        <3> QED BY <3>1, <3>2
    <2> QED BY <2>2, <2>3, <1>1, <1>6, <1>8 DEF ConsumerWindow
<1> QED BY <1>7, <1>9, <1>10 DEF IInv

\* What was read leaves the ring.
LEMMA ReleaseShrinks ==
    ASSUME IInv, ConsumerRelease
    PROVE  /\ cPc = "reading" /\ cLeft = 0 /\ consumer' = cCursor /\ cPc' = "idle"
           /\ UNCHANGED <<producer, slots, pVars, cLeft, cCursor, cScratch>>
           /\ Read > 0 /\ Filled' = Filled - Read
           /\ \A i \in Int : Cell(i)' = Cell(Read + i)
<1>1. /\ cPc = "reading" /\ cLeft = 0 /\ consumer' = cCursor /\ cPc' = "idle"
      /\ UNCHANGED <<producer, slots, pVars, cLeft, cCursor, cScratch>>
    BY DEF ConsumerRelease
<1>2. Read > 0
    BY <1>1, Bounds DEF IInv, ConsumerWindow
<1>3. /\ cCursor \in Indices /\ producer \in Indices /\ consumer \in Indices
    BY DEF IInv, TypeOK
<1>4. Filled' = Filled - Read
    <2>1. Distance(cCursor, consumer) <= Distance(producer, consumer)
          /\ Distance(producer, consumer) <= NumDescs
        BY Bounds DEF Filled, Read
    <2> QED BY <2>1, <1>1, <1>3, DistancesSubtract DEF Filled, Read
<1>5. ASSUME NEW i \in Int PROVE Cell(i)' = Cell(Read + i)
    <2>1. (cCursor + (i - 1)) % NumDescs = (consumer + Read + (i - 1)) % NumDescs
        BY <1>3, CellShift DEF Read
    <2>2. cCursor + i - 1 = cCursor + (i - 1) /\ consumer + Read + (i - 1) = consumer + (Read + i) - 1
        BY <1>3, Bounds DEF Indices
    <2> QED BY <2>1, <2>2, <1>1 DEF Cell
<1> QED BY <1>1, <1>2, <1>4, <1>5

LEMMA ConsumerReleaseKeeps ==
    ASSUME IInv, ConsumerRelease
    PROVE  IInv'
<1>1. TypeOK'
    BY ReleaseShrinks DEF IInv, TypeOK, pVars
<1>2. ProducerWindow'
    <2>1. Written' = Written /\ pPending' = pPending /\ pPc' = pPc /\ pCursor' = pCursor
        BY ReleaseShrinks DEF Written, pVars
    <2>2. Filled' + Written + Len(pPending) <= NumDescs
        BY ReleaseShrinks, Bounds, SMTT(60)
    <2> QED BY <2>1, <2>2, ReleaseShrinks DEF IInv, ProducerWindow
<1>3. ConsumerWindow'
    BY ReleaseShrinks DEF ConsumerWindow
<1> QED BY <1>1, <1>2, <1>3 DEF IInv

LEMMA NextKeeps == IInv /\ [Next]_vars => IInv'
<1> SUFFICES ASSUME IInv, [Next]_vars PROVE IInv'
    OBVIOUS
<1>1. CASE UNCHANGED vars
    <2>1. TypeOK'
        BY <1>1 DEF IInv, TypeOK, vars, pVars, cVars
    <2>2. ProducerWindow'
        BY <1>1 DEF IInv, ProducerWindow, vars, pVars, Filled, Written
    <2>3. ConsumerWindow'
        BY <1>1, ConsumerWindowFrame DEF IInv, vars
    <2> QED BY <2>1, <2>2, <2>3 DEF IInv
<1>2. CASE \E batch \in Batches : ProducerReserve(batch)
    BY <1>2, ProducerReserveKeeps
<1>3. CASE ProducerWrite
    BY <1>3, ProducerWriteKeeps
<1>4. CASE ProducerPublish
    BY <1>4, ProducerPublishKeeps
<1>5. CASE \E max \in 1..MaxBatch : ConsumerLoad(max)
    BY <1>5, ConsumerLoadKeeps
<1>6. CASE ConsumerRead
    BY <1>6, ConsumerReadKeeps
<1>7. CASE ConsumerRelease
    BY <1>7, ConsumerReleaseKeeps
<1> QED BY <1>1, <1>2, <1>3, <1>4, <1>5, <1>6, <1>7 DEF Next

(***************************************************************************)
(* The theorems.                                                           *)
(***************************************************************************)

\* Whatever the two sides do in between: the windows of both share the ring
\* and the reader's copy agrees with its window (socket.go's four rings).
THEOREM Invariant == Spec => []IInv
<1>1. Init => IInv
    BY InitHolds
<1>2. IInv /\ [Next]_vars => IInv'
    BY NextKeeps
<1> QED BY <1>1, <1>2, PTL DEF Spec

\* The indices, the slots and the counts settled on keep their types through
\* every wrap.
THEOREM TypeCorrect == Spec => []TypeOK
<1>1. IInv => TypeOK
    BY DEF IInv
<1> QED BY <1>1, Invariant, PTL

\* The queue the indices stand for, slot by slot.
CellByCell ==
    /\ Contents \in Seq(Descriptors)
    /\ Len(Contents) = Filled
    /\ \A i \in 1..Filled : Contents[i] = Cell(i)

LEMMA ContentsAre == TypeOK => CellByCell
<1> SUFFICES ASSUME TypeOK PROVE CellByCell
    OBVIOUS
<1>1. Filled \in Nat
    BY DistanceIs DEF TypeOK, Filled, Indices
<1>2. Contents = [i \in 1..Filled |-> Cell(i)]
    BY DEF Contents, Filled, Cell
<1>3. ASSUME NEW i \in 1..Filled PROVE Cell(i) \in Descriptors
    <2>1. consumer + i - 1 \in Int
        BY <1>1 DEF TypeOK, Indices
    <2> QED BY <2>1, SlotInRange DEF Cell, TypeOK
<1>4. Contents \in [1..Filled -> Descriptors]
    BY <1>2, <1>3
<1> QED BY <1>1, <1>2, <1>4 DEF CellByCell

\* Receive and Complete copy out the oldest descriptors in order, for every
\* ring size and index width: nothing is overwritten under the reader.
THEOREM ReaderGetsOldest == Spec => []ReadsOldest
<1>1. IInv => ReadsOldest
    <2> SUFFICES ASSUME IInv, cPc = "reading"
                 PROVE  /\ Len(cScratch) + cLeft <= Len(Contents)
                        /\ cScratch = SubSeq(Contents, 1, Len(cScratch))
        BY DEF ReadsOldest
    <2>1. /\ Contents \in Seq(Descriptors) /\ Len(Contents) = Filled
          /\ \A i \in 1..Filled : Contents[i] = Cell(i)
        BY ContentsAre DEF IInv, CellByCell
    <2>2. /\ cScratch \in Seq(Descriptors) /\ Len(cScratch) = Read /\ Read + cLeft <= Filled
          /\ \A i \in 1..Read : cScratch[i] = Cell(i)
        BY DEF IInv, TypeOK, ConsumerWindow
    <2>3. Read \in 0..Filled
        BY Bounds
    <2>4. /\ SubSeq(Contents, 1, Read) \in Seq(Descriptors)
          /\ Len(SubSeq(Contents, 1, Read)) = Read
          /\ \A i \in 1..Read : SubSeq(Contents, 1, Read)[i] = Contents[i]
        <3>1. \A i \in 1..Read : Contents[i] \in Descriptors
            BY <2>1, <2>3, Bounds, ElementOfSeq
        <3> QED BY <3>1, <2>3, SubSeqProperties
    <2>5. \A i \in 1..Read : cScratch[i] = SubSeq(Contents, 1, Read)[i]
        BY <2>1, <2>2, <2>3, <2>4, Bounds
    <2>6. cScratch = SubSeq(Contents, 1, Read)
        BY <2>2, <2>4, <2>5, SeqEqual
    <2> QED BY <2>1, <2>2, <2>6
<1> QED BY <1>1, Invariant, PTL

\* Publishing a batch is one Put of it.
LEMMA PublishPuts ==
    ASSUME IInv, IInv', ProducerPublish
    PROVE  Fifo!Next
<1> DEFINE batch == [i \in 1..Written |-> Cell(Filled + i)]
<1>1. /\ Contents \in Seq(Descriptors) /\ Len(Contents) = Filled
      /\ \A i \in 1..Filled : Contents[i] = Cell(i)
    BY ContentsAre DEF IInv, CellByCell
<1>2. /\ Contents' \in Seq(Descriptors) /\ Len(Contents') = Filled'
      /\ \A i \in 1..Filled' : Contents'[i] = Cell(i)'
    <2>1. TypeOK'
        BY DEF IInv
    <2>2. TypeOK' => CellByCell'
        BY ContentsAre, PTL
    <2> QED BY <2>1, <2>2 DEF CellByCell
<1>3. Filled' = Filled + Written /\ Written \in 1..NumDescs /\ Filled \in Nat
    BY PublishGrows, Bounds
<1>4. \A i : Cell(i)' = Cell(i)
    BY PublishGrows DEF Cell
<1>5. batch \in [1..Written -> Descriptors] /\ \A i \in 1..Written : batch[i] = Cell(Filled + i)
    <2>1. ASSUME NEW i \in 1..Written PROVE Cell(Filled + i) \in Descriptors
        <3>1. Filled + i \in 1..Filled'
            BY <1>3
        <3>2. Contents'[Filled + i] \in Descriptors
            BY <3>1, <1>2, ElementOfSeq
        <3> QED BY <3>1, <3>2, <1>2, <1>4
    <2> QED BY <2>1
<1> HIDE DEF batch
<1>6. batch \in Seq(Descriptors) /\ Len(batch) = Written
    BY <1>3, <1>5
<1>7. Contents' = Contents \o batch
    <2>1. /\ Contents \o batch \in Seq(Descriptors) /\ Len(Contents \o batch) = Filled + Written
          /\ \A i \in 1..(Filled + Written) :
                 (Contents \o batch)[i] = IF i <= Filled THEN Contents[i] ELSE batch[i - Filled]
        BY <1>1, <1>6, ConcatProperties
    <2>2. ASSUME NEW i \in 1..(Filled + Written) PROVE Contents'[i] = (Contents \o batch)[i]
        <3>1. Contents'[i] = Cell(i)
            BY <1>2, <1>3, <1>4
        <3>2. CASE i <= Filled
            BY <3>1, <3>2, <2>1, <1>1, <1>3
        <3>3. CASE ~(i <= Filled)
            <4>1. i - Filled \in 1..Written /\ Filled + (i - Filled) = i
                BY <3>3, <1>3
            <4> QED BY <3>1, <3>3, <4>1, <2>1, <1>5
        <3> QED BY <3>2, <3>3
    <2> QED BY <2>1, <2>2, <1>2, <1>3, SeqEqual
<1>8. Len(Contents) + Len(batch) <= NumDescs
    BY <1>1, <1>6, PublishGrows
<1> QED BY <1>3, <1>5, <1>7, <1>8 DEF Fifo!Next, Fifo!Put

\* Releasing a batch is one Take of it.
LEMMA ReleaseTakes ==
    ASSUME IInv, IInv', ConsumerRelease
    PROVE  Fifo!Next
<1>1. /\ Contents \in Seq(Descriptors) /\ Len(Contents) = Filled
      /\ \A i \in 1..Filled : Contents[i] = Cell(i)
    BY ContentsAre DEF IInv, CellByCell
<1>2. /\ Contents' \in Seq(Descriptors) /\ Len(Contents') = Filled'
      /\ \A i \in 1..Filled' : Contents'[i] = Cell(i)'
    <2>1. TypeOK'
        BY DEF IInv
    <2>2. TypeOK' => CellByCell'
        BY ContentsAre, PTL
    <2> QED BY <2>1, <2>2 DEF CellByCell
<1>3. Filled' = Filled - Read /\ Read \in 1..Filled /\ Filled \in Nat
    BY ReleaseShrinks, Bounds
<1>4. \A i \in Int : Cell(i)' = Cell(Read + i)
    BY ReleaseShrinks
<1>5. /\ SubSeq(Contents, Read + 1, Filled) \in Seq(Descriptors)
      /\ Len(SubSeq(Contents, Read + 1, Filled)) = Filled - Read
      /\ \A i \in 1..(Filled - Read) : SubSeq(Contents, Read + 1, Filled)[i] = Contents[Read + i]
    <2>1. \A i \in (Read + 1)..Filled : Contents[i] \in Descriptors
        BY <1>1, <1>3, ElementOfSeq
    <2> QED BY <2>1, <1>3, SubSeqProperties
<1>6. ASSUME NEW i \in 1..(Filled - Read)
      PROVE  Contents'[i] = SubSeq(Contents, Read + 1, Filled)[i]
    <2>1. Read + i \in 1..Filled /\ i \in Int
        BY <1>3
    <2> QED BY <2>1, <1>1, <1>2, <1>3, <1>4, <1>5
<1>7. Contents' = SubSeq(Contents, Read + 1, Len(Contents))
    BY <1>1, <1>2, <1>3, <1>5, <1>6, SeqEqual
<1> QED BY <1>1, <1>3, <1>7 DEF Fifo!Next, Fifo!Take

\* Every other step leaves the queue as it is.
LEMMA OthersStutter ==
    ASSUME IInv, [Next]_vars, ~ProducerPublish, ~ConsumerRelease
    PROVE  UNCHANGED Contents
<1>1. CASE ProducerWrite
    <2>1. producer' = producer /\ consumer' = consumer /\ Filled \in 0..NumDescs
        BY <1>1, WriteSpares, Bounds
    <2>2. \A i \in 1..Filled : Cell(i)' = Cell(i)
        <3>1. \A i \in 1..Filled : i \in 1..NumDescs /\ i # Filled + Written + 1
            BY Bounds
        <3> QED BY <3>1, <1>1, WriteSpares
    <2>3. \A i \in 1..Distance(producer, consumer) :
              slots'[(consumer + i - 1) % NumDescs] = slots[(consumer + i - 1) % NumDescs]
        BY <2>1, <2>2 DEF Filled, Cell
    <2> QED BY <2>1, <2>3 DEF Contents
<1>2. CASE ~ProducerWrite
    <2>1. UNCHANGED <<producer, consumer, slots>>
        BY <1>2 DEF Next, vars, ProducerReserve, ConsumerLoad, ConsumerRead
    <2> QED BY <2>1 DEF Contents
<1> QED BY <1>1, <1>2

\* One ring of the package, at the grain of its loads, slot accesses and
\* stores, is a bounded first-in first-out queue: no descriptor is lost,
\* repeated, reordered or invented, across any number of wraps.
THEOREM RingIsFifo == Spec => ImplementsFifo
<1>1. Init => Fifo!Init
    <2> SUFFICES ASSUME Init PROVE Contents = <<>>
        BY DEF Fifo!Init
    <2>1. Distance(producer, consumer) = 0
        BY NoDistance DEF Init
    <2> QED BY <2>1 DEF Contents
<1>2. IInv /\ IInv' /\ [Next]_vars => [Fifo!Next]_(Fifo!vars)
    <2> SUFFICES ASSUME IInv, IInv', [Next]_vars PROVE [Fifo!Next]_(Fifo!vars)
        OBVIOUS
    <2>1. CASE ProducerPublish
        BY <2>1, PublishPuts
    <2>2. CASE ConsumerRelease
        BY <2>2, ReleaseTakes
    <2>3. CASE ~ProducerPublish /\ ~ConsumerRelease
        BY <2>3, OthersStutter DEF Fifo!vars
    <2> QED BY <2>1, <2>2, <2>3
<1> QED BY <1>1, <1>2, Invariant, PTL DEF Spec, ImplementsFifo, Fifo!Spec
=============================================================================
