------------------------------ MODULE TxProgress ------------------------------
(***************************************************************************)
(* Does the transmit side keep going (socket.go: SendFunc, Transmit, Kick, *)
(* kickNeeded; multibuffer.go: sendBatchSG)?  Which frame is where is told *)
(* in Socket; of a descriptor only XDP_PKT_CONTD is kept here, "the packet *)
(* continues in the next descriptor".  What matters is who makes the       *)
(* kernel look at the tx ring: in copy mode only a sendto does, and each   *)
(* drains what the device takes; a zero-copy driver drains on its own      *)
(* until it parks, and says so in the ring's need-wakeup flag.             *)
(*                                                                         *)
(* sendBatchSG sends payloads of one or more frames; when all have one its *)
(* steps are SendFunc's.                                                   *)
(***************************************************************************)
EXTENDS Naturals, Sequences, SequencesExt

CONSTANTS
    TxFrames, TxRingNumDescs, CompletionRingNumDescs,
    MaxTxSegs,          \* frames a packet may span, 18 in the code
    MaxCount,           \* bound on the payloads of one call
    KickBudget,         \* sendto retries in one Kick, TxRingNumDescs/16 + 8 in the code
    Bindings            \* how the socket may be bound and used, see binding

ASSUME TxAssumption ==
    /\ {TxFrames, TxRingNumDescs, CompletionRingNumDescs} \subseteq Nat \ {0}
    /\ {MaxTxSegs, MaxCount, KickBudget} \subseteq Nat \ {0}
    /\ Bindings \subseteq
          [zeroCopy : BOOLEAN, needWakeup : BOOLEAN, sizes : SUBSET (1..(MaxTxSegs + 1))]

VARIABLES
    pool,       \* frames in txPool
    held,       \* descriptors allocated and not yet queued: their CONTD bits
    ring,       \* descriptors on the tx ring: their CONTD bits
    inFlight,   \* frames the device has taken
    completed,  \* frames on the completion ring
    pc,         \* the transmit goroutine
    retries,    \* what is left of Kick's budget
    parked,     \* a zero-copy driver is asleep
    flagged,    \* the need-wakeup flag of the tx ring
    stopped,    \* the application sends no more
    binding     \* chosen once, when the socket is made

frames == <<pool, held, ring, inFlight, completed>>
driver == <<parked, flagged>>
caller == <<stopped, binding>>
vars   == <<frames, pc, retries, driver, caller>>

ZeroCopy   == binding.zeroCopy      \* the mode the kernel granted
NeedWakeup == binding.needWakeup    \* bound with XDP_USE_NEED_WAKEUP

\* What may be passed in one call, each payload given by the frames it needs:
\* always one for SendFunc and for SendBatch without WithMultiBuffer.
Batches == UNION {[1..n -> binding.sizes] : n \in 1..MaxCount}

Init ==
    /\ binding \in Bindings
    /\ pool = TxFrames /\ held = <<>> /\ ring = <<>> /\ inFlight = 0 /\ completed = 0
    /\ pc = "ready" /\ retries = 0
    /\ parked = ZeroCopy
    /\ flagged = NeedWakeup
    /\ stopped = FALSE

Clamp(n, limit) == IF n > limit THEN limit ELSE n

FreeTxSlots == TxRingNumDescs - Len(ring)

\* The descriptors of n payloads of a batch: the bit on all but a last one.
Chain(size)      == [j \in 1..size |-> j < size]
Chains(batch, n) == FlattenSeq([i \in 1..n |-> Chain(batch[i])])

\* fit: whole packets only, as many of the batch as the budget of frames
\* allows.
Fit(batch, budget) ==
    CHOOSE n \in 0..Len(batch) :
        /\ Len(Chains(batch, n)) <= budget
        /\ n = Len(batch) \/ Len(Chains(batch, n + 1)) > budget

\* Mutant of KickNeeded: the flag is not consulted.
KickNeverWhenAdvertised == ~NeedWakeup

KickNeeded == ~NeedWakeup \/ flagged

\* Where a step goes that ends in "if kickNeeded then Kick".
KickIfNeeded ==
    IF KickNeeded THEN pc' = "kick" /\ retries' = KickBudget
                  ELSE pc' = "ready" /\ UNCHANGED retries

(***************************************************************************)
(* The transmit goroutine.                                                 *)
(***************************************************************************)

\* The application calls again; the call starts by reclaiming completed frames.
SendBegin ==
    /\ pc = "ready" /\ ~stopped
    /\ pool' = pool + completed /\ completed' = 0
    /\ pc' = "alloc"
    /\ UNCHANGED <<held, ring, inFlight, retries, driver, caller>>

\* Mutant of SendRingFull: the caller is told to come back, without a kick.
SendRingFullSilent ==
    /\ pc = "alloc" /\ FreeTxSlots = 0
    /\ pc' = "ready"
    /\ UNCHANGED <<frames, retries, driver, caller>>

\* No room on the ring: kick, and return 0.
SendRingFull ==
    /\ pc = "alloc" /\ FreeTxSlots = 0
    /\ KickIfNeeded
    /\ UNCHANGED <<frames, driver, caller>>

TooLong(batch) == \E i \in 1..Len(batch) : batch[i] > MaxTxSegs

\* A payload no packet can span: an error, and nothing of the batch is queued.
SendRejects(batch) ==
    /\ pc = "alloc" /\ FreeTxSlots > 0
    /\ TooLong(batch)
    /\ pc' = "ready"
    /\ UNCHANGED <<frames, retries, driver, caller>>

\* Mutant of SendAlloc: what the pool had is sent, short or not.
SendAllocShort(batch) ==
    LET descs == Chains(batch, Fit(batch, FreeTxSlots))
        got   == SubSeq(descs, 1, Clamp(Len(descs), pool))
    IN  /\ pc = "alloc" /\ FreeTxSlots > 0
        /\ ~TooLong(batch)
        /\ held' = got /\ pool' = pool - Len(got)
        /\ pc' = IF got = <<>> THEN "ready" ELSE "publish"
        /\ UNCHANGED <<ring, inFlight, completed, retries, driver, caller>>

\* Fit the packets to the ring, allocate, refit to what the pool had and give
\* back what is left over.  No whole packet: return 0.
SendAlloc(batch) ==
    LET wanted    == Len(Chains(batch, Fit(batch, FreeTxSlots)))
        allocated == Clamp(wanted, pool)
        got       == Chains(batch, Fit(batch, allocated))
    IN  /\ pc = "alloc" /\ FreeTxSlots > 0
        /\ ~TooLong(batch)
        /\ held' = got /\ pool' = pool - Len(got)
        /\ pc' = IF got = <<>> THEN "ready" ELSE "publish"
        /\ UNCHANGED <<ring, inFlight, completed, retries, driver, caller>>

\* Transmit: the store of the producer index.  Nobody else fills the ring, so
\* there is still room for all that was held.
TransmitPublish ==
    /\ pc = "publish"
    /\ ring' = ring \o held /\ held' = <<>>
    /\ pc' = "decide"
    /\ UNCHANGED <<pool, inFlight, completed, retries, driver, caller>>

\* Transmit: the load of the flag, after the store.
TransmitKick ==
    /\ pc = "decide"
    /\ KickIfNeeded
    /\ UNCHANGED <<frames, driver, caller>>

CallerStops ==
    /\ pc = "ready" /\ ~stopped
    /\ stopped' = TRUE
    /\ UNCHANGED <<frames, pc, retries, driver, binding>>

(***************************************************************************)
(* Kick: sendto until it stops saying EAGAIN or the budget is used up.     *)
(* EINTR repeats the call and changes nothing.  The kernel's side of a     *)
(* sendto is external.                                                     *)
(***************************************************************************)

\* Mutant of KickAgain: the retries are not counted.
KickForever == pc' = "kick" /\ UNCHANGED retries

\* sendto said EAGAIN.
KickAgain ==
    IF retries > 1 THEN pc' = "kick" /\ retries' = retries - 1
                   ELSE pc' = "ready" /\ retries' = 0

\* The device takes the first n descriptors.
Takes(n) == ring' = SubSeq(ring, n + 1, Len(ring)) /\ inFlight' = inFlight + n

CompletionSpace == CompletionRingNumDescs - completed - inFlight

\* A copy-mode sendto takes n descriptors; while some remain it says EAGAIN.
\* Nothing else takes from the ring, so a kick always finds some there.
SendtoDrains(n) ==
    /\ pc = "kick" /\ ~ZeroCopy
    /\ n <= Clamp(Len(ring), CompletionSpace)
    /\ Takes(n)
    /\ IF Len(ring) = n THEN pc' = "ready" /\ retries' = 0 ELSE KickAgain
    /\ UNCHANGED <<pool, held, completed, driver, caller>>

\* The device queue is busy, or there is no completion slot: nothing taken.
SendtoBusy ==
    /\ pc = "kick" /\ ~ZeroCopy /\ ring # <<>>
    /\ KickAgain
    /\ UNCHANGED <<frames, driver, caller>>

\* EBUSY: one descriptor was taken, and Kick returns although more may be left.
SendtoDropped ==
    /\ pc = "kick" /\ ~ZeroCopy
    /\ ring # <<>> /\ CompletionSpace > 0
    /\ Takes(1)
    /\ pc' = "ready" /\ retries' = 0
    /\ UNCHANGED <<pool, held, completed, driver, caller>>

\* In zero-copy mode sendto wakes the driver.
SendtoWakes ==
    /\ pc = "kick" /\ ZeroCopy
    /\ parked' = FALSE /\ flagged' = FALSE
    /\ pc' = "ready" /\ retries' = 0
    /\ UNCHANGED <<frames, caller>>

(***************************************************************************)
(* The device (external).                                                  *)
(***************************************************************************)

DriverSends ==
    /\ ZeroCopy /\ ~parked
    /\ ring # <<>> /\ CompletionSpace > 0
    /\ Takes(1)
    /\ UNCHANGED <<pool, held, completed, pc, retries, driver, caller>>

\* The driver raises its flag first and looks at the ring once more.
DriverAdvertises ==
    /\ ZeroCopy /\ ~parked /\ NeedWakeup /\ ~flagged
    /\ ring = <<>>
    /\ flagged' = TRUE
    /\ UNCHANGED <<frames, pc, retries, parked, caller>>

DriverParks ==
    /\ ZeroCopy /\ ~parked /\ flagged = NeedWakeup
    /\ ring = <<>>
    /\ parked' = TRUE
    /\ UNCHANGED <<frames, pc, retries, flagged, caller>>

DeviceCompletes ==
    /\ inFlight > 0
    /\ inFlight' = inFlight - 1 /\ completed' = completed + 1
    /\ UNCHANGED <<pool, held, ring, pc, retries, driver, caller>>

Kick ==
    \/ \E n \in 1..TxRingNumDescs : SendtoDrains(n)
    \/ SendtoBusy \/ SendtoDropped \/ SendtoWakes

Send ==
    \/ SendBegin \/ SendRingFull
    \/ \E batch \in Batches : SendAlloc(batch)
    \/ TransmitPublish \/ TransmitKick

Device == DriverSends \/ DeviceCompletes

Next ==
    \/ Send \/ (\E batch \in Batches : SendRejects(batch))
    \/ Kick \/ CallerStops \/ Device \/ DriverAdvertises \/ DriverParks

Spec == Init /\ [][Next]_vars

\* The transmit goroutine runs and, while it sends at all, calls in a loop,
\* and not only with batches that are refused.
\* A device asked over and over takes descriptors in the end (it may be busy
\* any finite number of times in a row), and completes what it took.
Fairness ==
    /\ WF_vars(Send)
    /\ SF_vars(\E batch \in Batches : SendAlloc(batch))
    /\ WF_vars(Kick)
    /\ SF_vars(\E n \in 1..TxRingNumDescs : SendtoDrains(n))
    /\ WF_vars(DriverSends)
    /\ WF_vars(DeviceCompletes)

FairSpec == Spec /\ Fairness

(***************************************************************************)
(* Properties.                                                             *)
(***************************************************************************)
TypeOK ==
    /\ pool \in 0..TxFrames
    /\ held \in Seq(BOOLEAN) /\ Len(held) <= TxFrames
    /\ ring \in Seq(BOOLEAN) /\ Len(ring) <= TxRingNumDescs
    /\ inFlight \in 0..CompletionRingNumDescs /\ completed \in 0..CompletionRingNumDescs
    /\ pc \in {"ready", "alloc", "publish", "decide", "kick"}
    /\ retries \in 0..KickBudget
    /\ parked \in BOOLEAN /\ flagged \in BOOLEAN /\ stopped \in BOOLEAN
    /\ binding \in Bindings

\* What the device finds on the ring are whole packets, of no more frames
\* than it accepts: a batch cut short by the ring or by the pool never puts a
\* bare fragment on the wire as though it were a packet.
ChainsWhole ==
    \A i \in 1..Len(ring) :
        \E j \in i..Clamp(i + MaxTxSegs - 1, Len(ring)) : ~ring[j]

\* An application that keeps calling SendFunc (SendBatch) gets to queue
\* packets again and again: a full ring or an empty pool is momentary.
SendingProgresses == (~stopped) ~> (stopped \/ pc = "publish")

\* Kick returns, even from a device that stays busy or a completion ring
\* that stays full.
KickReturns == (pc = "kick") ~> (pc # "kick")

\* In zero-copy mode what was queued is sent even if the application never
\* calls again, as far as there is room to report it sent: no kick that
\* Transmit suppressed was needed.
QueuedIsSent == (stopped /\ ZeroCopy) ~> (ring = <<>> \/ CompletionSpace = 0)
=============================================================================
