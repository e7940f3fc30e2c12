----------------------------- MODULE BoundedFifo -----------------------------
(***************************************************************************)
(* What one AF_XDP ring promises its two sides: a first-in first-out queue *)
(* that never holds more than Capacity descriptors, filled in batches by   *)
(* one side and drained in batches by the other.  SpscRing implements it   *)
(* with two wrapping indices and a slot array; Socket uses four of them.   *)
(***************************************************************************)
EXTENDS Naturals, Sequences

CONSTANTS
    Capacity,       \* the ring's descriptor count
    Descriptors     \* the values a slot may hold

VARIABLE fifo       \* the descriptors published and not yet released, oldest first

vars == <<fifo>>

Init == fifo = <<>>

\* The producer publishes a batch: it joins the back of the queue in order.
Put(batch) ==
    /\ Len(fifo) + Len(batch) <= Capacity
    /\ fifo' = fifo \o batch

\* The consumer releases the n oldest descriptors.
Take(n) == fifo' = SubSeq(fifo, n + 1, Len(fifo))

Next ==
    \/ \E n \in 1..Capacity : \E batch \in [1..n -> Descriptors] : Put(batch)
    \/ \E n \in 1..Len(fifo) : Take(n)

Spec == Init /\ [][Next]_vars
=============================================================================
