-------------------------------- MODULE RxPath --------------------------------
(***************************************************************************)
(* One receive loop end to end (socket.go: Fill, Poll, WakeupRx;           *)
(* multibuffer.go: ReceivePackets, RecyclePackets) against a driver that   *)
(* parks when it runs out of buffers.  Frames are counted; what arrives on *)
(* the rx ring is named, so that packets of several fragments can be       *)
(* followed through ReceivePackets, whose budget may end inside one.       *)
(*                                                                         *)
(* The loop is the one of the package's documentation, in three shapes:    *)
(* blocking in Poll, driving the rings without Poll (WakeupRx), and the    *)
(* forwarder of WithTxReuseRxFrames, which transmits what it received and  *)
(* collects it again with Complete.                                        *)
(***************************************************************************)
EXTENDS Naturals, Sequences, SequencesExt

CONSTANTS
    RxFrames, FillRingNumDescs, RxRingNumDescs,
    TxSlots,        \* free tx ring slots a forwarder starts with
    MaxFragments,   \* frames of the longest packet
    PacketMod,      \* packets are numbered modulo PacketMod
    Bindings        \* how the socket may be bound and used, see binding

ASSUME RxAssumption ==
    /\ {RxFrames, RxRingNumDescs, MaxFragments} \subseteq Nat \ {0}
    /\ FillRingNumDescs \in 1..RxFrames
    /\ TxSlots \in Nat /\ PacketMod \in Nat \ {0, 1}
    /\ MaxFragments <= RxFrames     \* or the longest packet could never be whole
    /\ Bindings \subseteq [needWakeup : BOOLEAN, polls : BOOLEAN, hairpin : BOOLEAN]

VARIABLES
    binding,        \* chosen once, when the socket is made
    pool,           \* frames in rxPool
    posted,         \* frames on the fill ring
    rxRing,         \* fragments on the rx ring, oldest first
    numFilled,      \* what the socket believes the kernel has
    pktPartial,     \* the unfinished packet held back by ReceivePackets
    pkts,           \* the packets the application is working on
    lent, sent,     \* forwarded frames with the device, and on the completion ring
    pc,             \* the receive goroutine
    parked, flagged,\* the driver is asleep; the fill ring's need-wakeup flag
    next            \* the fragment the driver receives next

buffers == <<pool, posted, numFilled>>
held    == <<pktPartial, pkts>>
lending == <<lent, sent>>
driver  == <<parked, flagged>>
vars    == <<binding, buffers, rxRing, held, lending, pc, driver, next>>

\* A fragment: its packet, its place in it, and whether another follows.
Fragments == [pkt : 0..(PacketMod - 1), idx : 1..MaxFragments, contd : BOOLEAN]

\* Hairpin and multi-buffer exclude each other.
Longest == IF binding.hairpin THEN 1 ELSE MaxFragments

Clamp(n, limit) == IF n > limit THEN limit ELSE n

Init ==
    /\ binding \in Bindings
    /\ pool = RxFrames - FillRingNumDescs
    /\ posted = FillRingNumDescs /\ numFilled = FillRingNumDescs
    /\ rxRing = <<>> /\ pktPartial = <<>> /\ pkts = <<>>
    /\ lent = 0 /\ sent = 0
    /\ pc = "complete"
    /\ parked = FALSE /\ flagged = FALSE
    /\ next \in {f \in Fragments : f.pkt = 0 /\ f.idx = 1 /\ (f.contd => Longest > 1)}

(***************************************************************************)
(* The receive goroutine.                                                  *)
(***************************************************************************)

\* Complete: a forwarder's frames come home to the receive pool.
Complete ==
    /\ pc = "complete"
    /\ pool' = pool + sent /\ sent' = 0
    /\ pc' = "fill"
    /\ UNCHANGED <<binding, posted, numFilled, rxRing, held, lent, driver, next>>

\* Fill(NumFreeFillSlots()).
Fill ==
    LET n == Clamp(pool, FillRingNumDescs - posted)
    IN  /\ pc = "fill"
        /\ pool' = pool - n /\ posted' = posted + n /\ numFilled' = numFilled + n
        /\ pc' = IF binding.polls THEN "poll" ELSE "wakeup"
        /\ UNCHANGED <<binding, rxRing, held, lending, driver, next>>

\* Poll returns at once when nothing is with the kernel, unless the driver
\* advertises that it waits for a wakeup.
PollCheck ==
    /\ pc = "poll"
    /\ pc' = IF numFilled = 0 /\ ~flagged THEN "receive" ELSE "syscall"
    /\ UNCHANGED <<binding, buffers, rxRing, held, lending, driver, next>>

\* Mutant of PollSyscall: poll(2) is not relied on to wake the driver.
PollWithoutWakeup ==
    /\ pc = "syscall"
    /\ pc' = "blocked"
    /\ UNCHANGED <<binding, buffers, rxRing, held, lending, driver, next>>

\* poll(2) wakes a driver that advertised, and then waits for a packet.
PollSyscall ==
    /\ pc = "syscall"
    /\ parked' = (parked /\ ~flagged)
    /\ pc' = "blocked"
    /\ UNCHANGED <<binding, buffers, rxRing, held, lending, flagged, next>>

PollReturns ==
    /\ pc = "blocked" /\ rxRing # <<>>
    /\ pc' = "receive"
    /\ UNCHANGED <<binding, buffers, rxRing, held, lending, driver, next>>

\* A timeout, where the application gave one.
PollTimesOut ==
    /\ pc = "blocked"
    /\ pc' = "receive"
    /\ UNCHANGED <<binding, buffers, rxRing, held, lending, driver, next>>

\* NeedsWakeupRx, and WakeupRx when it says so.
WakeupRx ==
    /\ pc = "wakeup"
    /\ parked' = (parked /\ ~flagged)
    /\ pc' = "receive"
    /\ UNCHANGED <<binding, buffers, rxRing, held, lending, flagged, next>>

\* The loop over a run of fragments: each that ends a packet cuts it off.
Cut(frags) ==
    LET after[i \in 0..Len(frags)] ==
            IF i = 0 THEN [pkts |-> <<>>, start |-> 1]
            ELSE LET c == after[i - 1] IN
                 IF frags[i].contd THEN c
                 ELSE [pkts |-> Append(c.pkts, SubSeq(frags, c.start, i)), start |-> i + 1]
    IN  after[Len(frags)]

\* The complete packets at its front, and its tail.
Packets(frags)    == Cut(frags).pkts
Unfinished(frags) == SubSeq(frags, Cut(frags).start, Len(frags))

\* Mutant of ReceivePackets: the held-back fragments are not put in front.
ReceiveForgetsPartial(maxFrames) ==
    LET n   == Clamp(maxFrames, Len(rxRing))
        buf == SubSeq(rxRing, 1, n)
    IN  /\ pc = "receive"
        /\ rxRing' = SubSeq(rxRing, n + 1, Len(rxRing))
        /\ numFilled' = numFilled - n
        /\ pkts' = Packets(buf)
        /\ pktPartial' = Unfinished(buf)
        /\ pc' = "work"
        /\ UNCHANGED <<binding, pool, posted, lending, driver, next>>

\* ReceivePackets: Receive, prepend what was held back, cut into packets and
\* hold the unfinished one back again.
ReceivePackets(maxFrames) ==
    LET n   == Clamp(maxFrames, Len(rxRing))
        buf == pktPartial \o SubSeq(rxRing, 1, n)
    IN  /\ pc = "receive"
        /\ rxRing' = SubSeq(rxRing, n + 1, Len(rxRing))
        /\ numFilled' = numFilled - n
        /\ pkts' = Packets(buf)
        /\ pktPartial' = Unfinished(buf)
        /\ pc' = "work"
        /\ UNCHANGED <<binding, pool, posted, lending, driver, next>>

\* Mutant of RecyclePackets: one frame per packet goes back.
RecycleFirstFragments ==
    /\ pc = "work"
    /\ pool' = pool + Len(pkts)
    /\ pkts' = <<>>
    /\ pc' = "complete"
    /\ UNCHANGED <<binding, posted, numFilled, rxRing, pktPartial, lending, driver, next>>

RecyclePackets ==
    /\ pc = "work"
    /\ pool' = pool + Len(FlattenSeq(pkts))
    /\ pkts' = <<>>
    /\ pc' = "complete"
    /\ UNCHANGED <<binding, posted, numFilled, rxRing, pktPartial, lending, driver, next>>

\* A forwarder transmits what fits the tx ring and recycles the rest.
Forward ==
    LET frames == Len(FlattenSeq(pkts))
        n      == Clamp(frames, TxSlots - lent)
    IN  /\ pc = "work" /\ binding.hairpin
        /\ lent' = lent + n /\ pool' = pool + (frames - n)
        /\ pkts' = <<>>
        /\ pc' = "complete"
        /\ UNCHANGED <<binding, posted, numFilled, rxRing, pktPartial, sent, driver, next>>

(***************************************************************************)
(* The driver and the device (external).                                   *)
(***************************************************************************)

\* A packet's fragment goes into a posted buffer and onto the rx ring.
DriverReceives ==
    /\ ~parked /\ posted > 0 /\ Len(rxRing) < RxRingNumDescs
    /\ posted' = posted - 1
    /\ rxRing' = Append(rxRing, next)
    /\ next' \in {f \in Fragments :
          /\ f.pkt = IF next.contd THEN next.pkt ELSE (next.pkt + 1) % PacketMod
          /\ f.idx = IF next.contd THEN next.idx + 1 ELSE 1
          /\ f.contd => f.idx < Longest}
    /\ UNCHANGED <<binding, pool, numFilled, held, lending, pc, driver>>

\* Out of buffers: the driver raises its flag first and looks once more.
DriverAdvertises ==
    /\ binding.needWakeup /\ ~parked /\ posted = 0 /\ ~flagged
    /\ flagged' = TRUE
    /\ UNCHANGED <<binding, buffers, rxRing, held, lending, pc, parked, next>>

DriverParks ==
    /\ ~parked /\ posted = 0 /\ flagged
    /\ parked' = TRUE
    /\ UNCHANGED <<binding, buffers, rxRing, held, lending, pc, flagged, next>>

DriverRefills ==
    /\ ~parked /\ posted > 0 /\ flagged
    /\ flagged' = FALSE
    /\ UNCHANGED <<binding, buffers, rxRing, held, lending, pc, parked, next>>

DeviceCompletes ==
    /\ lent > 0
    /\ lent' = lent - 1 /\ sent' = sent + 1
    /\ UNCHANGED <<binding, buffers, rxRing, held, pc, driver, next>>

Receiver ==
    \/ Complete \/ Fill \/ PollCheck \/ PollSyscall \/ PollReturns \/ WakeupRx
    \/ \E maxFrames \in 1..RxRingNumDescs : ReceivePackets(maxFrames)
    \/ RecyclePackets \/ Forward

Next ==
    \/ Receiver \/ PollTimesOut
    \/ DriverReceives \/ DriverAdvertises \/ DriverParks \/ DriverRefills
    \/ DeviceCompletes

Spec == Init /\ [][Next]_vars

\* The receive goroutine runs, traffic keeps arriving, and the device sends
\* what it was given.  A timeout is not relied on.
Fairness ==
    /\ WF_vars(Receiver)
    /\ WF_vars(DriverReceives)
    /\ WF_vars(DeviceCompletes)

FairSpec == Spec /\ Fairness

(***************************************************************************)
(* Properties.                                                             *)
(***************************************************************************)
TypeOK ==
    /\ binding \in Bindings
    /\ pool \in 0..RxFrames /\ posted \in 0..FillRingNumDescs
    /\ numFilled = posted + Len(rxRing)
    /\ pool + numFilled + Len(pktPartial) + Len(FlattenSeq(pkts)) + lent + sent = RxFrames
    /\ rxRing \in Seq(Fragments) /\ Len(rxRing) <= RxRingNumDescs
    /\ pc \in {"complete", "fill", "poll", "syscall", "blocked", "wakeup", "receive", "work"}
    /\ parked \in BOOLEAN /\ flagged \in BOOLEAN
    /\ next \in Fragments

\* What the driver delivered and the application has not finished with.
Stream == FlattenSeq(pkts) \o pktPartial \o rxRing

Follows(f, g) ==
    IF f.contd THEN g.pkt = f.pkt /\ g.idx = f.idx + 1
               ELSE g.pkt = (f.pkt + 1) % PacketMod /\ g.idx = 1

Ends(frags) == {i \in 1..Len(frags) : ~frags[i].contd}

\* ReceivePackets hands out whole packets in the order they arrived, however
\* its budgets cut them: none truncated, none joined with its neighbour, no
\* fragment dropped or delivered twice.
PacketsWhole ==
    /\ \A k \in 1..Len(pkts) :
          /\ pkts[k][1].idx = 1
          /\ Ends(pkts[k]) = {Len(pkts[k])}
    /\ pktPartial # <<>> => pktPartial[1].idx = 1 /\ Ends(pktPartial) = {}
    /\ \A i \in 1..Len(Stream) :
          Follows(Stream[i], IF i < Len(Stream) THEN Stream[i + 1] ELSE next)

\* While traffic arrives the loop keeps getting packets: neither a driver
\* that parked nor a Poll that blocks brings it to a halt.
RxKeepsFlowing == []<>(pkts # <<>>)
=============================================================================
