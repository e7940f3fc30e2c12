------------------------------- MODULE Lifecycle -------------------------------
(***************************************************************************)
(* Shutting a socket down while other goroutines use it (socket.go:        *)
(* incref, decref, Poll, Close).  A method brackets itself with a counted  *)
(* reference; Close flips a flag, wakes blocked pollers through an eventfd *)
(* and waits for the count to reach zero before it releases what the       *)
(* methods touch.  Every atomic operation is a step.                       *)
(*                                                                         *)
(* One of the methods is Stats, which extends the wrapping ring indices to *)
(* 64-bit counts by sampling them under a mutex of its own.  The four      *)
(* counters it keeps are alike, and here there is one.                     *)
(***************************************************************************)
EXTENDS Integers, FiniteSets

CONSTANTS
    Goroutines,     \* the goroutines that share the socket
    Samplers,       \* those that call Stats
    MaxDepth,       \* references one call nests (Poll calls NumReceived: 2)
    IndexMod,       \* values of a ring index, 2^32 in the kernel
    MaxPassed       \* bound: packets that pass in a behaviour

ASSUME LifecycleAssumption ==
    /\ IsFiniteSet(Goroutines) /\ Samplers \subseteq Goroutines
    /\ MaxDepth \in Nat \ {0} /\ IndexMod \in Nat \ {0} /\ MaxPassed \in Nat

VARIABLES
    closing,        \* the flag Close flips
    ops,            \* the count of method calls in flight
    wakeSignalled,  \* the eventfd has been written: it stays readable
    fdsOpen,        \* the socket and the eventfd
    ringsAliased,   \* the ring structs point into the mappings
    ringsMapped, umemMapped,
    pc,             \* pc[g]: where goroutine g is, "run" between two steps of interest
    held,           \* held[g]: references g holds, 0 outside any method
    passed,         \* packets the ring has seen; its index is this, wrapped
    statsMu,        \* who holds the mutex: a set of at most one goroutine
    last, total,    \* the ringCounter
    cur,            \* cur[g]: the index g's Stats has loaded
    since           \* since[g]: passed as g's Stats began (what the property needs)

resources == <<fdsOpen, ringsAliased, ringsMapped, umemMapped>>
stats == <<passed, statsMu, last, total, cur, since>>
vars == <<closing, ops, wakeSignalled, resources, pc, held, stats>>

Init ==
    /\ closing = FALSE /\ ops = 0 /\ wakeSignalled = FALSE
    /\ fdsOpen = TRUE /\ ringsAliased = TRUE /\ ringsMapped = TRUE /\ umemMapped = TRUE
    /\ pc = [g \in Goroutines |-> "run"]
    /\ held = [g \in Goroutines |-> 0]
    /\ passed = 0 /\ statsMu = {} /\ last = 0 /\ total = 0
    /\ cur = [g \in Goroutines |-> 0] /\ since = [g \in Goroutines |-> 0]

At(g, label)   == pc[g] = label
Goto(g, label) == pc' = [pc EXCEPT ![g] = label]

(***************************************************************************)
(* incref and decref, around every method; a method may call another.      *)
(***************************************************************************)

\* The first load of closing: a closed socket's method returns at once.
IncrefCheck(g) ==
    /\ At(g, "run")
    /\ held[g] < MaxDepth
    /\ ~closing
    /\ Goto(g, "count")
    /\ UNCHANGED <<closing, ops, wakeSignalled, resources, held, stats>>

IncrefCount(g) ==
    /\ At(g, "count")
    /\ ops' = ops + 1
    /\ Goto(g, "recheck")
    /\ UNCHANGED <<closing, wakeSignalled, resources, held, stats>>

\* Mutant of IncrefRecheck: one check, before the count.
IncrefUnchecked(g) ==
    /\ At(g, "recheck")
    /\ held' = [held EXCEPT ![g] = @ + 1]
    /\ Goto(g, "run")
    /\ UNCHANGED <<closing, ops, wakeSignalled, resources, stats>>

\* The second load of closing.
IncrefRecheck(g) ==
    /\ At(g, "recheck")
    /\ \/ /\ closing
          /\ Goto(g, "refuse")
          /\ UNCHANGED held
       \/ /\ ~closing
          /\ held' = [held EXCEPT ![g] = @ + 1]
          /\ Goto(g, "run")
    /\ UNCHANGED <<closing, ops, wakeSignalled, resources, stats>>

\* Mutant of IncrefRefuse: the refused call keeps its count.
IncrefRefuseLeaks(g) ==
    /\ At(g, "refuse")
    /\ Goto(g, "run")
    /\ UNCHANGED <<closing, ops, wakeSignalled, resources, held, stats>>

IncrefRefuse(g) ==
    /\ At(g, "refuse")
    /\ ops' = ops - 1
    /\ Goto(g, "run")
    /\ UNCHANGED <<closing, wakeSignalled, resources, held, stats>>

\* The deferred decref as a method returns.
Decref(g) ==
    /\ At(g, "run")
    /\ held[g] > 0
    /\ held' = [held EXCEPT ![g] = @ - 1]
    /\ ops' = ops - 1
    /\ UNCHANGED <<closing, wakeSignalled, resources, pc, stats>>

(***************************************************************************)
(* Poll and PollWith: poll(2) on the socket and the eventfd, forever when  *)
(* the timeout is negative.                                                *)
(***************************************************************************)
PollBlock(g) ==
    /\ At(g, "run")
    /\ held[g] = 1
    /\ Goto(g, "blocked")
    /\ UNCHANGED <<closing, ops, wakeSignalled, resources, held, stats>>

\* A packet, another caller's descriptor, or the timeout.
PollReady(g) ==
    /\ At(g, "blocked")
    /\ Goto(g, "run")
    /\ UNCHANGED <<closing, ops, wakeSignalled, resources, held, stats>>

\* Mutant of PollWoken: the poller reads the eventfd, which clears it.
PollConsumesWake(g) ==
    /\ At(g, "blocked")
    /\ wakeSignalled
    /\ wakeSignalled' = FALSE
    /\ Goto(g, "run")
    /\ UNCHANGED <<closing, ops, resources, held, stats>>

\* The eventfd is readable; nobody reads it, so it wakes every poller.
PollWoken(g) ==
    /\ At(g, "blocked")
    /\ wakeSignalled
    /\ Goto(g, "run")
    /\ UNCHANGED <<closing, ops, wakeSignalled, resources, held, stats>>

(***************************************************************************)
(* Stats, within its reference: the index is loaded and the counter        *)
(* brought up to it under statsMu, which only Stats takes.                 *)
(***************************************************************************)

\* The ring's consumer index, as the kernel or the data path stores it.
Index == passed % IndexMod

\* A packet passes.  Stats is documented to be called at least once per 2^32
\* packets, so the index never gets a whole turn ahead of the counter.
PacketPasses ==
    /\ passed < MaxPassed
    /\ passed + 1 - total < IndexMod
    /\ fdsOpen
    /\ passed' = passed + 1
    /\ UNCHANGED <<closing, ops, wakeSignalled, resources, pc, held, statsMu, last, total, cur, since>>

StatsBegin(g) ==
    /\ g \in Samplers
    /\ At(g, "run")
    /\ held[g] = 1
    /\ since' = [since EXCEPT ![g] = passed]
    /\ Goto(g, "lock")
    /\ UNCHANGED <<closing, ops, wakeSignalled, resources, held, passed, statsMu, last, total, cur>>

\* Mutant of StatsLoad: samplers do not exclude each other.
StatsLoadUnlocked(g) ==
    /\ At(g, "lock")
    /\ statsMu' = statsMu \cup {g}
    /\ cur' = [cur EXCEPT ![g] = Index]
    /\ Goto(g, "update")
    /\ UNCHANGED <<closing, ops, wakeSignalled, resources, held, passed, last, total, since>>

\* The lock, and the load of the index under it.
StatsLoad(g) ==
    /\ At(g, "lock")
    /\ statsMu = {}
    /\ statsMu' = {g}
    /\ cur' = [cur EXCEPT ![g] = Index]
    /\ Goto(g, "update")
    /\ UNCHANGED <<closing, ops, wakeSignalled, resources, held, passed, last, total, since>>

\* ringCounter.update, in 32-bit arithmetic, and the unlock.
StatsUpdate(g) ==
    /\ At(g, "update")
    /\ total' = total + ((cur[g] - last) % IndexMod)
    /\ last' = cur[g]
    /\ statsMu' = statsMu \ {g}
    /\ cur' = [cur EXCEPT ![g] = 0] /\ since' = [since EXCEPT ![g] = 0]
    /\ Goto(g, "run")
    /\ UNCHANGED <<closing, ops, wakeSignalled, resources, held, passed>>

(***************************************************************************)
(* NeedsWakeupRx and NeedsWakeupTx called by the application: they read    *)
(* the ring's flags pointer and then what it points to, with no reference. *)
(***************************************************************************)
AccessorLoadsPointer(g) ==
    /\ At(g, "run")
    /\ held[g] = 0
    /\ ringsAliased
    /\ Goto(g, "deref")
    /\ UNCHANGED <<closing, ops, wakeSignalled, resources, held, stats>>

AccessorDereferences(g) ==
    /\ At(g, "deref")
    /\ Goto(g, "run")
    /\ UNCHANGED <<closing, ops, wakeSignalled, resources, held, stats>>

(***************************************************************************)
(* Close.                                                                  *)
(***************************************************************************)

\* Only the first Close goes on; a later one returns nil.
CloseSwap(g) ==
    /\ At(g, "run")
    /\ held[g] = 0
    /\ ~closing
    /\ closing' = TRUE
    /\ Goto(g, "wake")
    /\ UNCHANGED <<ops, wakeSignalled, resources, held, stats>>

CloseSignals(g) ==
    /\ At(g, "wake")
    /\ wakeSignalled' = TRUE
    /\ Goto(g, "drain")
    /\ UNCHANGED <<closing, ops, resources, held, stats>>

\* The sleep loop ends when no call is in flight.
CloseDrained(g) ==
    /\ At(g, "drain")
    /\ ops <= 0
    /\ Goto(g, "closeFds")
    /\ UNCHANGED <<closing, ops, wakeSignalled, resources, held, stats>>

CloseFds(g) ==
    /\ At(g, "closeFds")
    /\ fdsOpen' = FALSE
    /\ Goto(g, "dropAliases")
    /\ UNCHANGED <<closing, ops, wakeSignalled, ringsAliased, ringsMapped, umemMapped, held, stats>>

CloseDropsAliases(g) ==
    /\ At(g, "dropAliases")
    /\ ringsAliased' = FALSE
    /\ Goto(g, "unmapRings")
    /\ UNCHANGED <<closing, ops, wakeSignalled, fdsOpen, ringsMapped, umemMapped, held, stats>>

CloseUnmapsRings(g) ==
    /\ At(g, "unmapRings")
    /\ ringsMapped' = FALSE
    /\ Goto(g, "unmapUmem")
    /\ UNCHANGED <<closing, ops, wakeSignalled, fdsOpen, ringsAliased, umemMapped, held, stats>>

CloseUnmapsUmem(g) ==
    /\ At(g, "unmapUmem")
    /\ umemMapped' = FALSE
    /\ Goto(g, "run")
    /\ UNCHANGED <<closing, ops, wakeSignalled, fdsOpen, ringsAliased, ringsMapped, held, stats>>

Close(g) ==
    \/ CloseSignals(g) \/ CloseDrained(g) \/ CloseFds(g)
    \/ CloseDropsAliases(g) \/ CloseUnmapsRings(g) \/ CloseUnmapsUmem(g)

Incref(g) == IncrefCount(g) \/ IncrefRecheck(g) \/ IncrefRefuse(g)

Next ==
    \/ PacketPasses
    \/ \E g \in Goroutines :
        \/ IncrefCheck(g) \/ Incref(g) \/ Decref(g)
        \/ PollBlock(g) \/ PollReady(g) \/ PollWoken(g)
        \/ StatsBegin(g) \/ StatsLoad(g) \/ StatsUpdate(g)
        \/ AccessorLoadsPointer(g) \/ AccessorDereferences(g)
        \/ CloseSwap(g) \/ Close(g)

Spec == Init /\ [][Next]_vars

\* The Go scheduler runs every runnable goroutine, and a method's code is
\* finite, so it gets to its deferred decref in the end (strong fairness: it
\* may make nested calls on the way).  A sync.Mutex starves no waiter: strong
\* fairness again.  Nothing is assumed of traffic or timeouts: PollReady and
\* PacketPasses have no fairness.
Fairness == \A g \in Goroutines :
    /\ WF_vars(Incref(g))
    /\ WF_vars(PollWoken(g))
    /\ SF_vars(StatsLoad(g)) /\ WF_vars(StatsUpdate(g))
    /\ SF_vars(Decref(g))
    /\ WF_vars(Close(g))

FairSpec == Spec /\ Fairness

(***************************************************************************)
(* Properties.                                                             *)
(***************************************************************************)
Labels == {"run", "count", "recheck", "refuse", "blocked", "lock", "update", "deref", "wake", "drain",
           "closeFds", "dropAliases", "unmapRings", "unmapUmem"}

TypeOK ==
    /\ closing \in BOOLEAN /\ ops \in Nat /\ wakeSignalled \in BOOLEAN
    /\ fdsOpen \in BOOLEAN /\ ringsAliased \in BOOLEAN
    /\ ringsMapped \in BOOLEAN /\ umemMapped \in BOOLEAN
    /\ pc \in [Goroutines -> Labels]
    /\ held \in [Goroutines -> 0..MaxDepth]
    /\ passed \in 0..MaxPassed /\ statsMu \subseteq Goroutines
    /\ last \in 0..(IndexMod - 1) /\ total \in Nat
    /\ cur \in [Goroutines -> 0..(IndexMod - 1)] /\ since \in [Goroutines -> 0..MaxPassed]

\* No use after unmap: while a method that took its reference is running,
\* blocked in Poll included, Close has released nothing it may touch, so the
\* fd it polls cannot have been closed and recycled either.
HeldKeepsResources ==
    \A g \in Goroutines : held[g] > 0 => fdsOpen /\ ringsAliased /\ ringsMapped /\ umemMapped

\* The references methods hold, one by one, and the goroutines that have
\* counted one and do not know yet whether they may keep it.
References == {ref \in Goroutines \X (1..MaxDepth) : ref[2] <= held[ref[1]]}
Attempts   == {g \in Goroutines : pc[g] \in {"recheck", "refuse"}}

\* The counter Close waits on is exactly the references held plus the
\* attempts between their count and their verdict.
OpsIsExact == ops = Cardinality(References) + Cardinality(Attempts)

\* Close finishes: it never waits for a call that nothing will end, be it one
\* of several pollers blocked without a timeout and without traffic, or a
\* sampler waiting for the mutex.
CloseFinishes == closing ~> ~umemMapped

\* The count a Stats call reports was the true one at some moment of that
\* call: however many samplers run, and although the index wraps between and
\* during their samples, nothing is counted twice and no report goes back.
StatsReportTrueCount ==
    [][\A g \in Goroutines :
          At(g, "update") /\ ~At(g, "update")' => total' \in since[g]..passed]_vars

\* What the Socket type's comment promises of a Close at any time: the shared
\* memory outlives every call in flight, NeedsWakeupRx and NeedsWakeupTx too.
AccessorsSafe == \A g \in Goroutines : pc[g] = "deref" => ringsMapped
=============================================================================
