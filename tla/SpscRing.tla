------------------------------- MODULE SpscRing -------------------------------
(***************************************************************************)
(* One AF_XDP ring at the level of its shared memory (socket.go): a slot   *)
(* array and two free-running indices of fixed width.  The producer loads  *)
(* the consumer's index, clamps its batch to the free slots, writes the    *)
(* descriptors one by one and only then stores its own index; the consumer *)
(* mirrors it.  Every load, slot access and store is a step of its own, so *)
(* the two sides interleave at the grain of the real memory operations.    *)
(*                                                                         *)
(* The package is the producer of the fill and tx rings and the consumer   *)
(* of the rx and completion rings; the kernel, which is outside the        *)
(* repository, plays the other side by the same protocol, so one module    *)
(* serves the four rings.                                                  *)
(***************************************************************************)
EXTENDS Naturals, Sequences

CONSTANTS
    NumDescs,       \* ring size, a power of two (NewSocket refuses others)
    IndexMod,       \* 2^32 in the code: the indices are uint32
    Descriptors,    \* what a slot may hold
    MaxBatch        \* bound on a requested batch, larger than the ring

ASSUME RingAssumption ==
    /\ NumDescs \in Nat \ {0}
    /\ IndexMod \in Nat
    /\ 2 * NumDescs <= IndexMod
    /\ IndexMod % NumDescs = 0
    /\ MaxBatch \in Nat \ {0}

VARIABLES
    producer,       \* the shared producer index
    consumer,       \* the shared consumer index
    slots,          \* the descriptor array
    pPc,            \* producer: "idle" or "writing"
    pPending,       \* descriptors the producer still has to write
    pCursor,        \* the producer's local copy of its index ("prod")
    cPc,            \* consumer: "idle" or "reading"
    cLeft,          \* descriptors the consumer still has to read
    cCursor,        \* the consumer's local copy of its index ("cons")
    cScratch        \* descriptors read in this batch (rxScratch)

pVars == <<pPc, pPending, pCursor>>
cVars == <<cPc, cLeft, cCursor, cScratch>>
vars  == <<producer, consumer, slots, pVars, cVars>>

Indices == 0..(IndexMod - 1)

(***************************************************************************)
(* Index arithmetic.                                                       *)
(***************************************************************************)

\* uint32 subtraction.
Distance(to, from) == (to + IndexMod - from) % IndexMod

\* idx & mask, the mask being NumDescs - 1 with NumDescs a power of two.
SlotOf(idx) == idx % NumDescs

\* Mutant of Successor: the index is kept in a wider integer and never wraps.
SuccessorUnwrapped(idx) == idx + 1

Successor(idx) == (idx + 1) % IndexMod

\* NumFreeFillSlots and NumFreeTxSlots: an underflowed difference means the
\* loads were torn, and the code then answers the whole ring.
FreeSlots(prod, cons) ==
    LET n == Distance(NumDescs, Distance(prod, cons))
    IN  IF n <= NumDescs THEN n ELSE NumDescs

\* NumReceived and NumCompleted: never more than the ring.
Available(prod, cons) ==
    LET n == Distance(prod, cons)
    IN  IF n > NumDescs THEN NumDescs ELSE n

Clamp(n, limit) == IF n > limit THEN limit ELSE n

(***************************************************************************)
(* Initial state: the kernel hands out rings whose indices are equal.  Any *)
(* value is allowed, so the wrap-around is one publication away.           *)
(***************************************************************************)
Init ==
    /\ producer \in Indices
    /\ consumer = producer
    /\ slots \in {[s \in 0..(NumDescs - 1) |-> d] : d \in Descriptors}
    /\ pPc = "idle" /\ pPending = <<>> /\ pCursor = producer
    /\ cPc = "idle" /\ cLeft = 0 /\ cCursor = consumer /\ cScratch = <<>>

(***************************************************************************)
(* Producer: Fill on the fill ring, Transmit on the tx ring.               *)
(***************************************************************************)

\* Load both indices, clamp the batch to the free slots, keep the rest.  An
\* empty batch returns at once.
ProducerReserve(batch) ==
    LET n == Clamp(Len(batch), FreeSlots(producer, consumer))
    IN  /\ pPc = "idle"
        /\ n > 0
        /\ pPc' = "writing"
        /\ pPending' = SubSeq(batch, 1, n)
        /\ pCursor' = producer
        /\ UNCHANGED <<producer, consumer, slots, cVars>>

\* One iteration of the descriptor loop.
ProducerWrite ==
    /\ pPc = "writing"
    /\ pPending # <<>>
    /\ slots' = [slots EXCEPT ![SlotOf(pCursor)] = Head(pPending)]
    /\ pCursor' = Successor(pCursor)
    /\ pPending' = Tail(pPending)
    /\ UNCHANGED <<producer, consumer, pPc, cVars>>

\* Mutant of ProducerPublish: the index is stored before the slots are written.
PublishBeforeWrite ==
    /\ pPc = "writing"
    /\ producer' = (pCursor + Len(pPending)) % IndexMod
    /\ pPc' = IF pPending = <<>> THEN "idle" ELSE "writing"
    /\ UNCHANGED <<consumer, slots, pPending, pCursor, cVars>>

\* The store-release of the producer index after the loop.
ProducerPublish ==
    /\ pPc = "writing"
    /\ pPending = <<>>
    /\ producer' = pCursor
    /\ pPc' = "idle"
    /\ UNCHANGED <<consumer, slots, pPending, pCursor, cVars>>

(***************************************************************************)
(* Consumer: Receive on the rx ring, Complete on the completion ring.      *)
(***************************************************************************)

ConsumerLoad(max) ==
    LET n == Clamp(max, Available(producer, consumer))
    IN  /\ cPc = "idle"
        /\ n > 0
        /\ cPc' = "reading"
        /\ cLeft' = n
        /\ cCursor' = consumer
        /\ cScratch' = <<>>
        /\ UNCHANGED <<producer, consumer, slots, pVars>>

ConsumerRead ==
    /\ cPc = "reading"
    /\ cLeft > 0
    /\ cScratch' = Append(cScratch, slots[SlotOf(cCursor)])
    /\ cCursor' = Successor(cCursor)
    /\ cLeft' = cLeft - 1
    /\ UNCHANGED <<producer, consumer, slots, pVars, cPc>>

\* Mutant of ConsumerRelease: the slots are given back before they are read.
ReleaseBeforeRead ==
    /\ cPc = "reading"
    /\ consumer' = (cCursor + cLeft) % IndexMod
    /\ cPc' = IF cLeft = 0 THEN "idle" ELSE "reading"
    /\ UNCHANGED <<producer, slots, pVars, cLeft, cCursor, cScratch>>

\* The store-release of the consumer index: the peer may reuse the slots now.
ConsumerRelease ==
    /\ cPc = "reading"
    /\ cLeft = 0
    /\ consumer' = cCursor
    /\ cPc' = "idle"
    /\ UNCHANGED <<producer, slots, pVars, cLeft, cCursor, cScratch>>

Batches == UNION {[1..n -> Descriptors] : n \in 1..MaxBatch}

Next ==
    \/ \E batch \in Batches : ProducerReserve(batch)
    \/ ProducerWrite
    \/ ProducerPublish
    \/ \E max \in 1..MaxBatch : ConsumerLoad(max)
    \/ ConsumerRead
    \/ ConsumerRelease

Spec == Init /\ [][Next]_vars

(***************************************************************************)
(* Properties.                                                             *)
(***************************************************************************)

TypeOK ==
    /\ producer \in Indices /\ consumer \in Indices
    /\ slots \in [0..(NumDescs - 1) -> Descriptors]
    /\ pPc \in {"idle", "writing"} /\ pCursor \in Indices
    /\ pPending \in Seq(Descriptors)
    /\ cPc \in {"idle", "reading"} /\ cCursor \in Indices
    /\ cLeft \in 0..NumDescs
    /\ cScratch \in Seq(Descriptors)

\* The queue the two indices stand for: the published, unreleased slots.
Contents ==
    [i \in 1..Distance(producer, consumer) |-> slots[(consumer + i - 1) % NumDescs]]

\* The batch the consumer is copying out (Receive, Complete) is always the
\* oldest part of the ring's contents, in order: no slot is overwritten or
\* published half-written under the reader, across any number of wraps.
ReadsOldest ==
    cPc = "reading" => /\ Len(cScratch) + cLeft <= Len(Contents)
                       /\ cScratch = SubSeq(Contents, 1, Len(cScratch))

\* The ring is a bounded first-in first-out queue of descriptors.
Fifo == INSTANCE BoundedFifo WITH Capacity <- NumDescs, fifo <- Contents
ImplementsFifo == Fifo!Spec
=============================================================================
