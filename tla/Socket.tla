-------------------------------- MODULE Socket --------------------------------
(***************************************************************************)
(* The data path of one AF_XDP socket (socket.go, pool.go): two frame      *)
(* pools, four rings shared with the kernel, a receive goroutine (Fill,    *)
(* Receive, Recycle) and a transmit goroutine (Alloc, Transmit, Complete,  *)
(* SendFunc), all moving UMEM frames from place to place without a lock.   *)
(*                                                                         *)
(* Each ring is the bounded queue that SpscRing implements.  A call that   *)
(* reads the peer's index and acts on it later is two steps, so that the   *)
(* kernel and the other goroutine run in between.  The kernel's moves are  *)
(* external: modelled from what the package expects of it.                 *)
(***************************************************************************)
EXTENDS Naturals, Sequences

CONSTANTS
    NumFrames,                  \* frames in the UMEM
    TxFrames,                   \* how many of them, the last ones, are for transmit
    FillRingNumDescs, RxRingNumDescs, TxRingNumDescs, CompletionRingNumDescs,
    TxReuseRxFrames,            \* hairpin mode: rx frames may be transmitted in place
    Headroom,                   \* where in a frame the kernel puts a packet
    MaxCount                    \* bound on the n of a call, larger than a ring

RxFrames == NumFrames - TxFrames

\* What NewSocket accepts, as far as the data path depends on it.
ASSUME SocketAssumption ==
    /\ NumFrames \in Nat /\ TxFrames \in Nat
    /\ 0 < TxFrames /\ TxFrames < NumFrames
    /\ FillRingNumDescs \in Nat /\ FillRingNumDescs <= RxFrames
    /\ RxRingNumDescs \in Nat /\ TxRingNumDescs \in Nat /\ CompletionRingNumDescs \in Nat
    /\ TxReuseRxFrames \in BOOLEAN
    /\ Headroom \in Nat
    /\ MaxCount \in Nat

VARIABLES
    at,             \* at[p]: the frame addresses held by place p, oldest first
    numFilled,      \* frames the receive side believes are with the kernel
    numTransmitted, \* frames the transmit side believes are with the kernel
    rxPc, rxN,      \* receive goroutine: what it is doing, the count it settled on
    txPc, txN,      \* transmit goroutine, likewise
    txFrom,         \* the place whose frames the transmit goroutine is queueing
    sending,        \* the transmit goroutine is inside SendFunc
    reaped          \* completion slots Complete has read and not yet released

rxVars == <<rxPc, rxN>>
txVars == <<txPc, txN, txFrom, sending, reaped>>
vars   == <<at, numFilled, numTransmitted, rxVars, txVars>>

(***************************************************************************)
(* Addresses and places.  An address is a frame and an offset inside it.   *)
(***************************************************************************)
Frames    == 0..(NumFrames - 1)
Addresses == [frame : Frames, off : {0, Headroom}]

\* frameBase: chunks are aligned, so addr - addr % FrameSize drops the offset.
FrameBase(addr) == [addr EXCEPT !.off = 0]

\* Mutant of Bases: the address goes back as the kernel reported it.
RawAddresses(addrs) == addrs

Bases(addrs) == [i \in 1..Len(addrs) |-> FrameBase(addrs[i])]

RxPlaces == {"rxPool", "popScratch", "fillRing", "rxDriver", "rxRing", "rxHeld"}
TxPlaces == {"txPool", "txHeld", "txRing", "txDriver", "completionRing"}
Places   == RxPlaces \cup TxPlaces

Oldest(s, n)   == SubSeq(s, 1, n)
Rest(s, n)     == SubSeq(s, n + 1, Len(s))
Clamp(n, limit) == IF n > limit THEN limit ELSE n

\* The frames moved leave src with rest and join the end of dst.
Move(src, rest, moved, dst) ==
    at' = [at EXCEPT ![src] = rest, ![dst] = @ \o moved]

\* newFramePool: count whole frames from index base on.
NewFramePool(base, count) ==
    [i \in 1..count |-> [frame |-> base + i - 1, off |-> 0]]

\* framePool.pop: the n most recently pushed frames, in stack order.
PopMove(pool, n, dst) ==
    LET keep == Len(at[pool]) - n
    IN  Move(pool, Oldest(at[pool], keep), Rest(at[pool], keep), dst)

\* Mutant of FreeFillSlots: the full ring seen as having one slot left.
FreeFillSlotsOffByOne == FillRingNumDescs + 1 - Len(at["fillRing"])

FreeFillSlots == FillRingNumDescs - Len(at["fillRing"])
FreeTxSlots   == TxRingNumDescs - Len(at["txRing"])

(***************************************************************************)
(* Initial state: NewSocket has split the UMEM into the two pools and      *)
(* filled the fill ring, which it does before it binds.                    *)
(***************************************************************************)
Init ==
    /\ at = [p \in Places |->
                CASE p = "rxPool"   -> NewFramePool(0, RxFrames - FillRingNumDescs)
                  [] p = "fillRing" -> NewFramePool(RxFrames - FillRingNumDescs, FillRingNumDescs)
                  [] p = "txPool"   -> NewFramePool(RxFrames, TxFrames)
                  [] OTHER          -> <<>>]
    /\ numFilled = FillRingNumDescs
    /\ numTransmitted = 0
    /\ rxPc = "idle" /\ rxN = 0
    /\ txPc = "idle" /\ txN = 0 /\ txFrom = "txHeld" /\ sending = FALSE /\ reaped = 0

(***************************************************************************)
(* The two sides run in goroutines of their own, except in hairpin mode,   *)
(* where one goroutine must drive both.                                    *)
(***************************************************************************)
RxMayCall == rxPc = "idle" /\ (TxReuseRxFrames => txPc = "idle")
TxMayCall == txPc = "idle" /\ (TxReuseRxFrames => rxPc = "idle")

(***************************************************************************)
(* Receive goroutine.                                                      *)
(***************************************************************************)

\* Fill, up to its write of the descriptors: load the fill ring's indices,
\* clamp, pop.  Nothing to post returns 0 and changes nothing.
FillReserve(n) ==
    LET k == Clamp(Clamp(n, FreeFillSlots), Len(at["rxPool"]))
    IN  /\ RxMayCall
        /\ k > 0
        /\ PopMove("rxPool", k, "popScratch")
        /\ rxPc' = "fill" /\ rxN' = k
        /\ UNCHANGED <<numFilled, numTransmitted, txVars>>

\* Mutant of FillPublish: the scratch slice is not truncated afterwards.
FillKeepsScratch ==
    /\ rxPc = "fill"
    /\ Move("popScratch", at["popScratch"], at["popScratch"], "fillRing")
    /\ numFilled' = numFilled + rxN
    /\ rxPc' = "idle" /\ rxN' = 0
    /\ UNCHANGED <<numTransmitted, txVars>>

\* Fill, from the store of the producer index on.
FillPublish ==
    /\ rxPc = "fill"
    /\ Move("popScratch", <<>>, at["popScratch"], "fillRing")
    /\ numFilled' = numFilled + rxN
    /\ rxPc' = "idle" /\ rxN' = 0
    /\ UNCHANGED <<numTransmitted, txVars>>

\* Receive: NumReceived, then the copy of the descriptors.
ReceiveLoad(max) ==
    LET k == Clamp(max, Len(at["rxRing"]))
    IN  /\ RxMayCall
        /\ k > 0
        /\ rxPc' = "receive" /\ rxN' = k
        /\ UNCHANGED <<at, numFilled, numTransmitted, txVars>>

\* Mutant of ReceiveRelease: the count is lowered by the largest request.
ReceiveCountsRequest ==
    /\ rxPc = "receive"
    /\ Move("rxRing", Rest(at["rxRing"], rxN), Oldest(at["rxRing"], rxN), "rxHeld")
    /\ numFilled' = numFilled - MaxCount
    /\ rxPc' = "idle" /\ rxN' = 0
    /\ UNCHANGED <<numTransmitted, txVars>>

\* Mutant of ReceiveRelease: what is left on the ring is counted, not what was taken.
ReceiveMiscounts ==
    /\ rxPc = "receive"
    /\ Move("rxRing", Rest(at["rxRing"], rxN), Oldest(at["rxRing"], rxN), "rxHeld")
    /\ numFilled' = numFilled - Len(at["rxRing"])
    /\ rxPc' = "idle" /\ rxN' = 0
    /\ UNCHANGED <<numTransmitted, txVars>>

\* Receive: the store of the consumer index; the caller owns the frames.
ReceiveRelease ==
    /\ rxPc = "receive"
    /\ Move("rxRing", Rest(at["rxRing"], rxN), Oldest(at["rxRing"], rxN), "rxHeld")
    /\ numFilled' = numFilled - rxN
    /\ rxPc' = "idle" /\ rxN' = 0
    /\ UNCHANGED <<numTransmitted, txVars>>

\* Recycle of the first n frames the caller still holds.
Recycle(n) ==
    /\ RxMayCall
    /\ n <= Len(at["rxHeld"])
    /\ Move("rxHeld", Rest(at["rxHeld"], n), Bases(Oldest(at["rxHeld"], n)), "rxPool")
    /\ UNCHANGED <<numFilled, numTransmitted, rxVars, txVars>>

(***************************************************************************)
(* Transmit goroutine.                                                     *)
(***************************************************************************)

\* Mutant of AllocCount: only the pool limits it.
AllocIgnoresRing(n) == Clamp(n, Len(at["txPool"]))

\* The frames Alloc(n) hands out: capped by the ring's free slots and the pool.
AllocCount(n) == Clamp(Clamp(n, FreeTxSlots), Len(at["txPool"]))

\* Alloc reuses its slice, so the caller has queued the previous one.
Alloc(n) ==
    /\ TxMayCall
    /\ at["txHeld"] = <<>>
    /\ AllocCount(n) > 0
    /\ PopMove("txPool", AllocCount(n), "txHeld")
    /\ UNCHANGED <<numFilled, numTransmitted, rxVars, txVars>>

\* Transmit of the first n descriptors of a place the caller holds: Alloc's,
\* or in hairpin mode received ones.  The load of the ring's indices and the
\* clamp; the caller keeps what does not fit.
TransmitLoad(from, n) ==
    LET k == Clamp(n, FreeTxSlots)
    IN  /\ TxMayCall
        /\ n <= Len(at[from])
        /\ k > 0
        /\ txPc' = "transmit" /\ txN' = k /\ txFrom' = from
        /\ UNCHANGED <<at, numFilled, numTransmitted, rxVars, sending, reaped>>

\* Transmit: the store of the producer index.
TransmitPublish ==
    /\ txPc = "transmit"
    /\ Move(txFrom, Rest(at[txFrom], txN), Oldest(at[txFrom], txN), "txRing")
    /\ numTransmitted' = numTransmitted + txN
    /\ txPc' = "idle" /\ txN' = 0 /\ txFrom' = "txHeld" /\ sending' = FALSE
    /\ UNCHANGED <<numFilled, rxVars, reaped>>

\* Mutant of CompleteLoad: the request is not capped by what has completed.
CompleteUncapped(n) ==
    /\ TxMayCall
    /\ Len(at["completionRing"]) > 0
    /\ txPc' = "complete" /\ txN' = n
    /\ UNCHANGED <<at, numFilled, numTransmitted, rxVars, txFrom, sending, reaped>>

\* Complete: NumCompleted and the clamp.
CompleteLoad(n) ==
    LET k == Clamp(n, Len(at["completionRing"]))
    IN  /\ TxMayCall
        /\ k > 0
        /\ txPc' = "complete" /\ txN' = k
        /\ UNCHANGED <<at, numFilled, numTransmitted, rxVars, txFrom, sending, reaped>>

\* Mutant of PoolOf: every completed frame is a transmit frame.
AlwaysTxPool(addr) == "txPool"

\* Which pool a completed frame returns to: in hairpin mode the one its
\* address lies in.
PoolOf(addr) ==
    IF TxReuseRxFrames /\ addr.frame < RxFrames THEN "rxPool" ELSE "txPool"

\* One iteration of Complete's loop.  The slot is not released yet.
CompleteOne ==
    LET addr == Head(at["completionRing"])
    IN  /\ txPc = "complete"
        /\ reaped < txN
        /\ Move("completionRing", Tail(at["completionRing"]), <<FrameBase(addr)>>, PoolOf(addr))
        /\ reaped' = reaped + 1
        /\ UNCHANGED <<numFilled, numTransmitted, rxVars, txPc, txN, txFrom, sending>>

\* Mutant of CompleteRelease: the load after the loop counts slots reclaimed twice over.
CompleteMiscounts ==
    /\ txPc = "complete"
    /\ reaped = txN
    /\ numTransmitted' = numTransmitted - Len(at["completionRing"])
    /\ reaped' = 0
    /\ txPc' = IF sending THEN "alloc" ELSE "idle"
    /\ txN' = 0
    /\ UNCHANGED <<at, numFilled, rxVars, txFrom, sending>>

\* Complete: the store of the consumer index.
CompleteRelease ==
    /\ txPc = "complete"
    /\ reaped = txN
    /\ numTransmitted' = numTransmitted - txN
    /\ reaped' = 0
    /\ txPc' = IF sending THEN "alloc" ELSE "idle"
    /\ txN' = 0
    /\ UNCHANGED <<at, numFilled, rxVars, txFrom, sending>>

(***************************************************************************)
(* SendFunc (and SendBatch, which calls it): reclaim, allocate, build,     *)
(* transmit.                                                               *)
(***************************************************************************)

\* SendFunc's Complete(NumCompleted()).
SendBegin ==
    /\ TxMayCall
    /\ at["txHeld"] = <<>>
    /\ txPc' = "complete" /\ txN' = Len(at["completionRing"]) /\ sending' = TRUE
    /\ UNCHANGED <<at, numFilled, numTransmitted, rxVars, txFrom, reaped>>

\* Alloc of up to count frames, count the caller's.  Nothing to allocate, for
\* want of ring slots or of pool frames, ends the call.
SendAlloc(count) ==
    LET k == AllocCount(count)
    IN  /\ txPc = "alloc"
        /\ \/ /\ k = 0
              /\ txPc' = "idle" /\ sending' = FALSE
              /\ UNCHANGED at
           \/ /\ k > 0
              /\ txPc' = "build"
              /\ PopMove("txPool", k, "txHeld")
              /\ UNCHANGED sending
        /\ UNCHANGED <<numFilled, numTransmitted, rxVars, txN, txFrom, reaped>>

\* Every build call returned a length in range: on to Transmit's load.
SendBuilt ==
    /\ txPc = "build"
    /\ txPc' = "transmit" /\ txN' = Clamp(Len(at["txHeld"]), FreeTxSlots) /\ txFrom' = "txHeld"
    /\ UNCHANGED <<at, numFilled, numTransmitted, rxVars, sending, reaped>>

\* Mutant of SendBuildRejected: the frames not yet built are forgotten.
SendRejectedLeaks ==
    /\ txPc = "build"
    /\ Move("txHeld", <<>>, Bases(Oldest(at["txHeld"], 1)), "txPool")
    /\ txPc' = "idle" /\ sending' = FALSE
    /\ UNCHANGED <<numFilled, numTransmitted, rxVars, txN, txFrom, reaped>>

\* A build call returned a length out of range: every frame goes back to the
\* pool and nothing is queued.
SendBuildRejected ==
    /\ txPc = "build"
    /\ Move("txHeld", <<>>, Bases(at["txHeld"]), "txPool")
    /\ txPc' = "idle" /\ sending' = FALSE
    /\ UNCHANGED <<numFilled, numTransmitted, rxVars, txN, txFrom, reaped>>

(***************************************************************************)
(* The kernel (external).                                                  *)
(***************************************************************************)

\* The driver takes a buffer to receive into.
DriverTakesBuffer ==
    /\ at["fillRing"] # <<>>
    /\ Move("fillRing", Tail(at["fillRing"]), <<Head(at["fillRing"])>>, "rxDriver")
    /\ UNCHANGED <<numFilled, numTransmitted, rxVars, txVars>>

\* A packet arrives in the driver's next buffer, after the headroom.
DriverReceives ==
    /\ at["rxDriver"] # <<>>
    /\ Len(at["rxRing"]) < RxRingNumDescs
    /\ Move("rxDriver", Tail(at["rxDriver"]),
            <<[Head(at["rxDriver"]) EXCEPT !.off = Headroom]>>, "rxRing")
    /\ UNCHANGED <<numFilled, numTransmitted, rxVars, txVars>>

\* The driver takes a descriptor to send, reserving its completion slot.
DriverTakesPacket ==
    /\ at["txRing"] # <<>>
    /\ Len(at["completionRing"]) + reaped + Len(at["txDriver"]) < CompletionRingNumDescs
    /\ Move("txRing", Tail(at["txRing"]), <<Head(at["txRing"])>>, "txDriver")
    /\ UNCHANGED <<numFilled, numTransmitted, rxVars, txVars>>

\* The i-th packet in flight is done: completions may come out of order.
DriverCompletes(i) ==
    LET inFlight == at["txDriver"]
    IN  /\ Move("txDriver", SubSeq(inFlight, 1, i - 1) \o Rest(inFlight, i),
                <<inFlight[i]>>, "completionRing")
        /\ UNCHANGED <<numFilled, numTransmitted, rxVars, txVars>>

(***************************************************************************)
(* Next-state relation.                                                    *)
(***************************************************************************)
TransmitSources == IF TxReuseRxFrames THEN {"txHeld", "rxHeld"} ELSE {"txHeld"}

ReceiveSide ==
    \/ \E n \in 1..MaxCount : FillReserve(n) \/ ReceiveLoad(n) \/ Recycle(n)
    \/ FillPublish
    \/ ReceiveRelease

TransmitSide ==
    \/ \E n \in 1..MaxCount : Alloc(n) \/ CompleteLoad(n) \/ SendAlloc(n)
    \/ \E from \in TransmitSources, n \in 1..MaxCount : TransmitLoad(from, n)
    \/ TransmitPublish
    \/ CompleteOne
    \/ CompleteRelease
    \/ SendBegin
    \/ SendBuilt
    \/ SendBuildRejected

Kernel ==
    \/ DriverTakesBuffer
    \/ DriverReceives
    \/ DriverTakesPacket
    \/ \E i \in 1..Len(at["txDriver"]) : DriverCompletes(i)

Next == ReceiveSide \/ TransmitSide \/ Kernel

Spec == Init /\ [][Next]_vars

(***************************************************************************)
(* Properties.                                                             *)
(***************************************************************************)

TypeOK ==
    /\ at \in [Places -> Seq(Addresses)]
    /\ numFilled \in Nat /\ numTransmitted \in Nat
    /\ rxPc \in {"idle", "fill", "receive"} /\ rxN \in Nat
    /\ txPc \in {"idle", "transmit", "complete", "alloc", "build"} /\ txN \in Nat
    /\ txFrom \in TransmitSources /\ sending \in BOOLEAN /\ reaped \in Nat

FramesAt(p) == {at[p][i].frame : i \in 1..Len(at[p])}

\* No frame is in two places, or twice in one: a frame the kernel may write
\* or send is in no pool and in no caller's hands (Fill, Receive, Recycle,
\* Alloc, Transmit, Complete and SendFunc's error path all keep it so).
FramesUnique ==
    \A p, q \in Places : \A i \in 1..Len(at[p]), j \in 1..Len(at[q]) :
        at[p][i].frame = at[q][j].frame => p = q /\ i = j

\* No call leaks a frame: each one is always in some place it can return from.
NoFrameLost == \A f \in Frames : \E p \in Places : f \in FramesAt(p)

\* The pools never mix: the receive places hold receive frames only, and
\* outside hairpin mode the transmit places transmit frames only; in hairpin
\* mode Complete still sorts each frame into the pool of its region.
RegionsKept ==
    /\ \A p \in RxPlaces : FramesAt(p) \subseteq 0..(RxFrames - 1)
    /\ \A p \in {"txPool", "txHeld"} : FramesAt(p) \subseteq RxFrames..(NumFrames - 1)
    /\ ~TxReuseRxFrames =>
           \A p \in TxPlaces : FramesAt(p) \subseteq RxFrames..(NumFrames - 1)

\* No ring is ever overfilled, although the free-slot count a call acts on
\* is stale by the time it publishes.
RingsWithinCapacity ==
    /\ Len(at["fillRing"]) <= FillRingNumDescs
    /\ Len(at["rxRing"]) <= RxRingNumDescs
    /\ Len(at["txRing"]) <= TxRingNumDescs
    /\ Len(at["completionRing"]) + reaped <= CompletionRingNumDescs

\* numFilled is exactly the number of receive frames that are neither in the
\* pool nor with the caller, a received packet nobody has read included: Poll's
\* decision not to block when it is zero (socket.go:537) depends on it.  The
\* comment on NumFilled (socket.go:628-629) promises less, the frames "awaiting
\* incoming packets".
FilledIsExact ==
    numFilled = Len(at["fillRing"]) + Len(at["rxDriver"]) + Len(at["rxRing"])

\* numTransmitted is exactly the number of frames queued and not yet
\* reclaimed, counting those Complete is in the middle of reclaiming: the
\* depth SendFunc samples for InflightHW (socket.go:914).  The comment on
\* NumTransmitted (socket.go:859-860) promises less, those "not yet on the
\* completion ring".
TransmittedIsExact ==
    numTransmitted = Len(at["txRing"]) + Len(at["txDriver"])
                        + Len(at["completionRing"]) + reaped

\* Whatever Alloc handed out fits the tx ring when it comes to Transmit, so
\* outside hairpin mode Transmit never leaves a frame with its caller.
AllocatedFits == ~TxReuseRxFrames => Len(at["txHeld"]) <= FreeTxSlots

\* A count settled on before the kernel moved is still covered afterwards:
\* Receive, Complete and Transmit never run past what their place holds.
CountsCovered ==
    /\ rxPc = "receive" => rxN <= Len(at["rxRing"])
    /\ txPc = "complete" => txN - reaped <= Len(at["completionRing"])
    /\ txPc = "transmit" => txN <= Len(at[txFrom]) /\ txN <= FreeTxSlots
    /\ rxPc = "fill" => rxN = Len(at["popScratch"]) /\ rxN <= FreeFillSlots

\* Frames come back to the pools, and are posted to the fill ring, at their
\* base address, wherever in the frame the kernel put the packet.
PoolsHoldBases ==
    \A p \in {"rxPool", "popScratch", "fillRing", "txPool", "txHeld"} :
        \A i \in 1..Len(at[p]) : at[p][i].off = 0

(***************************************************************************)
(* The socket implements FrameOwnership, and each ring a BoundedFifo.      *)
(***************************************************************************)
OwnerOfPlace(p) ==
    CASE p \in {"rxPool", "txPool"}                               -> p
      [] p \in {"popScratch", "rxHeld", "txHeld"}                 -> "caller"
      [] p \in {"fillRing", "rxDriver", "rxRing"}                 -> "rxKernel"
      [] p \in {"txRing", "txDriver", "completionRing"}           -> "txKernel"

PlaceOf(f) == CHOOSE p \in Places : f \in FramesAt(p)

Ownership == INSTANCE FrameOwnership WITH
    RxRegion <- 0..(RxFrames - 1),
    Hairpin  <- TxReuseRxFrames,
    owner    <- [f \in Frames |-> OwnerOfPlace(PlaceOf(f))]

\* Every step of the code is a hand-over of whole frames between one owner
\* and the next.
ImplementsOwnership == Ownership!Spec
=============================================================================
