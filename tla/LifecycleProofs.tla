---------------------------- MODULE LifecycleProofs ----------------------------
(***************************************************************************)
(* Proofs about Lifecycle, for any number of goroutines and samplers, any  *)
(* nesting of calls and any width of the ring indices.                     *)
(*                                                                         *)
(* Two arguments.  The count is exact, so a Close that finds it at zero    *)
(* finds no reference held, and none is taken any more once the flag is    *)
(* up.  And the sampler that holds the mutex has loaded the index of a     *)
(* count between the total and the packets passed, less than a turn apart, *)
(* so the wrapped difference it adds is the true one.                      *)
(***************************************************************************)
EXTENDS Lifecycle, FiniteSetTheorems, TLAPS

(***************************************************************************)
(* Division and remainder.                                                 *)
(***************************************************************************)
LEMMA DivMod ==
    ASSUME NEW n \in Nat \ {0}, NEW a \in Int
    PROVE  a \div n \in Int /\ a % n \in 0..(n - 1) /\ a = n * (a \div n) + (a % n)
OBVIOUS

LEMMA AtLeastOnce ==
    ASSUME NEW n \in Nat \ {0}, NEW k \in Int, k >= 1
    PROVE  n * k >= n
OBVIOUS

LEMMA Distributes ==
    ASSUME NEW n \in Int, NEW a \in Int, NEW b \in Int
    PROVE  n * (a - b) = n * a - n * b
OBVIOUS

\* Quotient and remainder are unique.
LEMMA RemainderUnique ==
    ASSUME NEW n \in Nat \ {0}, NEW q \in Int, NEW r \in 0..(n - 1)
    PROVE  (n * q + r) % n = r
<1> DEFINE a == n * q + r
<1>1. a \in Int
    OBVIOUS
<1>2. a \div n \in Int /\ a % n \in 0..(n - 1) /\ a = n * (a \div n) + (a % n)
    BY <1>1, DivMod
<1> DEFINE k == q - (a \div n)
<1>3. k \in Int /\ n * k = (a % n) - r
    <2>1. n * k = n * q - n * (a \div n)
        BY <1>2, Distributes
    <2> QED BY <2>1, <1>2
<1> HIDE DEF k
<1>4. k = 0
    <2>1. CASE k >= 1
        BY <2>1, <1>2, <1>3, AtLeastOnce
    <2>2. CASE k <= -1
        <3>1. n * (0 - k) = 0 - n * k
            BY <1>3
        <3>2. n * (0 - k) >= n
            BY <2>2, <1>3, AtLeastOnce
        <3> QED BY <1>2, <1>3, <3>1, <3>2
    <2> QED BY <1>3, <2>1, <2>2
<1> HIDE DEF a
<1> QED BY <1>1, <1>2, <1>3, <1>4 DEF a

\* How far one counter is ahead of another, by less than a turn, can be read
\* off their remainders.
LEMMA RemaindersApart ==
    ASSUME NEW n \in Nat \ {0}, NEW a \in Int, NEW b \in Int, b - a \in 0..(n - 1)
    PROVE  ((b % n) - (a % n)) % n = b - a
<1> DEFINE q == (a \div n) - (b \div n)
<1>1. /\ a \div n \in Int /\ a % n \in 0..(n - 1) /\ a = n * (a \div n) + (a % n)
      /\ b \div n \in Int /\ b % n \in 0..(n - 1) /\ b = n * (b \div n) + (b % n)
    BY DivMod
<1>2. q \in Int /\ n * q = n * (a \div n) - n * (b \div n)
    BY <1>1, Distributes
<1>3. (b % n) - (a % n) = n * q + (b - a)
    BY <1>1, <1>2
<1> HIDE DEF q
<1> QED BY <1>2, <1>3, RemainderUnique

(***************************************************************************)
(* The inductive invariant.                                                *)
(***************************************************************************)
Closer    == {"wake", "drain", "closeFds", "dropAliases", "unmapRings", "unmapUmem"}
Releasing == {"closeFds", "dropAliases", "unmapRings", "unmapUmem"}

Intact == fdsOpen /\ ringsAliased /\ ringsMapped /\ umemMapped

\* An attempt has room for the reference it may get.
AttemptsHaveRoom ==
    \A g \in Goroutines : pc[g] \in {"count", "recheck", "refuse"} => held[g] < MaxDepth

\* Close releases after the flag is up and when no reference is held.
ReleasedUnused ==
    /\ \A g \in Goroutines : pc[g] \in Closer => closing
    /\ ~Intact \/ (\E g \in Goroutines : pc[g] \in Releasing) =>
           closing /\ \A h \in Goroutines : held[h] = 0

\* The counter trails the packets by less than a turn of the index, and what
\* it keeps of the index is its own remainder.
CounterTrails ==
    /\ passed - total \in 0..(IndexMod - 1)
    /\ last = total % IndexMod

\* The index g holds was the ring's at some time since g's call began, and
\* nobody has advanced the counter past it.
LoadedInTime(g) ==
    \E n \in Nat : n \in since[g]..passed /\ total <= n /\ cur[g] = n % IndexMod

SamplersExclude ==
    /\ \A g \in Goroutines : pc[g] = "update" => statsMu = {g} /\ LoadedInTime(g)
    /\ \A g \in Goroutines : pc[g] = "lock" => since[g] <= passed

IInv == TypeOK /\ OpsIsExact /\ AttemptsHaveRoom /\ ReleasedUnused /\ CounterTrails /\ SamplersExclude

(***************************************************************************)
(* Counting.                                                               *)
(***************************************************************************)
LEMMA CountedAreFinite ==
    TypeOK => /\ IsFiniteSet(References) /\ Cardinality(References) \in Nat
              /\ IsFiniteSet(Attempts) /\ Cardinality(Attempts) \in Nat
<1> SUFFICES ASSUME TypeOK
             PROVE  /\ IsFiniteSet(References) /\ Cardinality(References) \in Nat
                    /\ IsFiniteSet(Attempts) /\ Cardinality(Attempts) \in Nat
    OBVIOUS
<1>1. IsFiniteSet(Goroutines) /\ IsFiniteSet(1..MaxDepth)
    BY LifecycleAssumption, FS_Interval
<1>2. IsFiniteSet(Goroutines \X (1..MaxDepth))
    BY <1>1, FS_Product
<1>3. References \subseteq Goroutines \X (1..MaxDepth) /\ Attempts \subseteq Goroutines
    BY DEF References, Attempts
<1>4. IsFiniteSet(References) /\ IsFiniteSet(Attempts)
    BY <1>1, <1>2, <1>3, FS_Subset
<1> QED BY <1>4, FS_CardinalityType

\* A reference taken is one more, and one dropped one less.
LEMMA ReferenceTaken ==
    ASSUME TypeOK, NEW g \in Goroutines, held[g] < MaxDepth, held' = [held EXCEPT ![g] = @ + 1]
    PROVE  Cardinality(References') = Cardinality(References) + 1
<1>1. held \in [Goroutines -> 0..MaxDepth] /\ MaxDepth \in Nat
    BY LifecycleAssumption DEF TypeOK
<1>2. References' = References \cup {<<g, held[g] + 1>>}
    BY <1>1 DEF References
<1>3. <<g, held[g] + 1>> \notin References
    BY <1>1 DEF References
<1> QED BY <1>2, <1>3, CountedAreFinite, FS_AddElement

LEMMA ReferenceDropped ==
    ASSUME TypeOK, NEW g \in Goroutines, held[g] > 0, held' = [held EXCEPT ![g] = @ - 1]
    PROVE  Cardinality(References') = Cardinality(References) - 1
<1>1. held \in [Goroutines -> 0..MaxDepth] /\ MaxDepth \in Nat
    BY LifecycleAssumption DEF TypeOK
<1>2. References' = References \ {<<g, held[g]>>}
    BY <1>1 DEF References
<1>3. <<g, held[g]>> \in References
    BY <1>1 DEF References
<1> QED BY <1>2, <1>3, CountedAreFinite, FS_RemoveElement

\* An attempt begins or ends.
LEMMA AttemptBegins ==
    ASSUME TypeOK, NEW g \in Goroutines, g \notin Attempts,
           pc' = [pc EXCEPT ![g] = "recheck"]
    PROVE  Cardinality(Attempts') = Cardinality(Attempts) + 1
<1>1. Attempts' = Attempts \cup {g}
    BY DEF Attempts, TypeOK
<1> QED BY <1>1, CountedAreFinite, FS_AddElement

LEMMA AttemptEnds ==
    ASSUME TypeOK, NEW g \in Goroutines, g \in Attempts, pc' = [pc EXCEPT ![g] = "run"]
    PROVE  Cardinality(Attempts') = Cardinality(Attempts) - 1
<1>1. Attempts' = Attempts \ {g}
    BY DEF Attempts, TypeOK
<1> QED BY <1>1, CountedAreFinite, FS_RemoveElement

\* Every other step of a goroutine leaves both as they are.
LEMMA CountsFrame ==
    ASSUME OpsIsExact, TypeOK, NEW g \in Goroutines, NEW label, Goto(g, label),
           label \in {"recheck", "refuse"} <=> pc[g] \in {"recheck", "refuse"},
           UNCHANGED <<ops, held>>
    PROVE  OpsIsExact'
<1>1. References' = References
    BY DEF References
<1>2. Attempts' = Attempts
    BY DEF Attempts, Goto, TypeOK
<1> QED BY <1>1, <1>2 DEF OpsIsExact

(***************************************************************************)
(* Steps of a kind.                                                        *)
(***************************************************************************)

\* What stays of the statistics when a step does not touch them.
LEMMA StatsFrame ==
    ASSUME IInv, NEW g \in Goroutines, NEW label, Goto(g, label), label \notin {"lock", "update"},
           UNCHANGED stats
    PROVE  CounterTrails' /\ SamplersExclude'
<1>1. CounterTrails'
    BY DEF IInv, CounterTrails, stats
<1>2. SamplersExclude'
    BY DEF IInv, SamplersExclude, LoadedInTime, TypeOK, Goto, stats
<1> QED BY <1>1, <1>2

\* A goroutine goes on, outside Close and incref, and changes nothing else.
LEMMA PlainStep ==
    ASSUME IInv, NEW g \in Goroutines, NEW label \in Labels, Goto(g, label),
           label \notin {"recheck", "refuse", "lock", "update"} \cup Closer,
           pc[g] \notin {"recheck", "refuse"},
           label = "count" => held[g] < MaxDepth,
           UNCHANGED <<closing, ops, wakeSignalled, resources, held, stats>>
    PROVE  IInv'
<1>1. TypeOK'
    BY DEF IInv, TypeOK, Goto, resources, stats
<1>2. OpsIsExact'
    BY CountsFrame DEF IInv
<1>3. AttemptsHaveRoom'
    BY DEF IInv, AttemptsHaveRoom, TypeOK, Goto
<1>4. ReleasedUnused'
    BY DEF IInv, ReleasedUnused, TypeOK, Goto, Intact, resources, Closer, Releasing
<1>5. CounterTrails' /\ SamplersExclude'
    BY StatsFrame
<1> QED BY <1>1, <1>2, <1>3, <1>4, <1>5 DEF IInv

\* A goroutine goes on in Close, which takes something away only when no
\* reference is held.
LEMMA CloserStep ==
    ASSUME IInv, NEW g \in Goroutines, NEW label \in Closer \cup {"run"}, Goto(g, label),
           pc[g] \notin {"recheck", "refuse"},
           closing',
           wakeSignalled' \in BOOLEAN, fdsOpen' \in BOOLEAN, ringsAliased' \in BOOLEAN,
           ringsMapped' \in BOOLEAN, umemMapped' \in BOOLEAN, closing' \in BOOLEAN,
           ~Intact' \/ label \in Releasing => \A h \in Goroutines : held[h] = 0,
           UNCHANGED <<ops, held, stats>>
    PROVE  IInv'
<1>1. TypeOK'
    BY DEF IInv, TypeOK, Goto, stats, Closer, Labels
<1>2. OpsIsExact'
    BY CountsFrame DEF IInv, Closer
<1>3. AttemptsHaveRoom'
    BY DEF IInv, AttemptsHaveRoom, TypeOK, Goto, Closer
<1>4. ReleasedUnused'
    <2>1. ASSUME NEW h \in Goroutines, pc'[h] \in Releasing PROVE \A k \in Goroutines : held[k] = 0
        BY <2>1 DEF IInv, ReleasedUnused, TypeOK, Goto
    <2> QED BY <2>1 DEF ReleasedUnused
<1>5. CounterTrails' /\ SamplersExclude'
    BY StatsFrame DEF Closer
<1> QED BY <1>1, <1>2, <1>3, <1>4, <1>5 DEF IInv

\* A step of incref or decref, once it is known to keep the count exact.
LEMMA CountingStep ==
    ASSUME IInv, NEW g \in Goroutines, OpsIsExact', ops' \in Nat,
           pc' \in [Goroutines -> Labels], held' \in [Goroutines -> 0..MaxDepth],
           \A h \in Goroutines : h # g => pc'[h] = pc[h] /\ held'[h] = held[h],
           pc'[g] \in {"run", "recheck", "refuse"},
           pc'[g] \in {"recheck", "refuse"} => held'[g] < MaxDepth,
           ~closing \/ held'[g] <= held[g],
           UNCHANGED <<closing, wakeSignalled, resources, stats>>
    PROVE  IInv'
<1>1. TypeOK'
    BY DEF IInv, TypeOK, resources, stats
<1>2. AttemptsHaveRoom'
    BY DEF IInv, AttemptsHaveRoom
<1>3. ReleasedUnused'
    <2>1. \A h \in Goroutines : pc'[h] \in Closer => pc[h] = pc'[h]
        BY DEF Closer
    <2>2. ASSUME closing, \A h \in Goroutines : held[h] = 0
          PROVE  \A h \in Goroutines : held'[h] = 0
        <3>1. held'[g] = 0
            BY <2>2 DEF IInv, TypeOK
        <3> QED BY <2>2, <3>1
    <2>3. Releasing \subseteq Closer
        BY DEF Releasing, Closer
    <2> QED BY <2>1, <2>2, <2>3 DEF IInv, ReleasedUnused, Intact, resources
<1>4. CounterTrails'
    BY DEF IInv, CounterTrails, stats
<1>5. SamplersExclude'
    <2>1. \A h \in Goroutines : pc'[h] \in {"lock", "update"} => pc[h] = pc'[h]
        OBVIOUS
    <2> QED BY <2>1 DEF IInv, SamplersExclude, LoadedInTime, stats
<1> QED BY <1>1, <1>2, <1>3, <1>4, <1>5 DEF IInv

(***************************************************************************)
(* The actions.                                                            *)
(***************************************************************************)
LEMMA IncrefCountKeeps ==
    ASSUME IInv, NEW g \in Goroutines, IncrefCount(g) PROVE IInv'
<1>1. /\ pc[g] = "count" /\ pc' = [pc EXCEPT ![g] = "recheck"] /\ ops' = ops + 1
      /\ UNCHANGED <<closing, wakeSignalled, resources, held, stats>>
    BY DEF IncrefCount, At, Goto
<1>2. OpsIsExact' /\ ops' \in Nat
    <2>1. g \notin Attempts
        BY <1>1 DEF Attempts
    <2>2. Cardinality(Attempts') = Cardinality(Attempts) + 1
        BY <1>1, <2>1, AttemptBegins DEF IInv
    <2>3. References' = References
        BY <1>1 DEF References
    <2> QED BY <1>1, <2>2, <2>3, CountedAreFinite DEF IInv, OpsIsExact
<1>3. held[g] < MaxDepth
    BY <1>1 DEF IInv, AttemptsHaveRoom
<1> QED BY <1>1, <1>2, <1>3, CountingStep DEF IInv, TypeOK, Labels

LEMMA IncrefRecheckKeeps ==
    ASSUME IInv, NEW g \in Goroutines, IncrefRecheck(g) PROVE IInv'
<1>1. /\ pc[g] = "recheck" /\ g \in Attempts /\ held[g] < MaxDepth
      /\ UNCHANGED <<closing, ops, wakeSignalled, resources, stats>>
    BY DEF IncrefRecheck, At, Attempts, IInv, AttemptsHaveRoom
<1>2. pc \in [Goroutines -> Labels] /\ held \in [Goroutines -> 0..MaxDepth] /\ ops \in Nat
      /\ MaxDepth \in Nat
    BY LifecycleAssumption DEF IInv, TypeOK
<1>3. CASE closing /\ Goto(g, "refuse") /\ held' = held
    <2>1. OpsIsExact'
        BY <1>1, <1>3, CountsFrame DEF IInv
    <2> QED BY <2>1, <1>1, <1>2, <1>3, CountingStep DEF Goto, Labels
<1>4. CASE ~closing /\ held' = [held EXCEPT ![g] = @ + 1] /\ Goto(g, "run")
    <2>1. Cardinality(References') = Cardinality(References) + 1
        BY <1>1, <1>4, ReferenceTaken DEF IInv
    <2>2. Cardinality(Attempts') = Cardinality(Attempts) - 1
        BY <1>1, <1>4, AttemptEnds DEF IInv, Goto
    <2>3. OpsIsExact'
        BY <1>1, <2>1, <2>2, CountedAreFinite DEF IInv, OpsIsExact
    <2>4. held' \in [Goroutines -> 0..MaxDepth]
        BY <1>1, <1>2, <1>4
    <2>5. /\ pc' \in [Goroutines -> Labels] /\ pc'[g] = "run"
          /\ \A h \in Goroutines : h # g => pc'[h] = pc[h] /\ held'[h] = held[h]
        BY <1>2, <1>4 DEF Goto, Labels
    <2> QED BY <2>3, <2>4, <2>5, <1>1, <1>2, <1>4, CountingStep
<1> QED BY <1>3, <1>4 DEF IncrefRecheck

LEMMA IncrefRefuseKeeps ==
    ASSUME IInv, NEW g \in Goroutines, IncrefRefuse(g) PROVE IInv'
<1>1. /\ g \in Attempts /\ pc' = [pc EXCEPT ![g] = "run"] /\ ops' = ops - 1
      /\ UNCHANGED <<closing, wakeSignalled, resources, held, stats>>
    BY DEF IncrefRefuse, At, Goto, Attempts
<1>2. OpsIsExact' /\ ops' \in Nat
    <2>1. Cardinality(Attempts') = Cardinality(Attempts) - 1
        BY <1>1, AttemptEnds DEF IInv
    <2>2. References' = References
        BY <1>1 DEF References
    <2>3. Cardinality(Attempts) # 0
        BY <1>1, CountedAreFinite, FS_EmptySet DEF IInv
    <2> QED BY <1>1, <2>1, <2>2, <2>3, CountedAreFinite DEF IInv, OpsIsExact
<1>3. /\ pc' \in [Goroutines -> Labels] /\ held \in [Goroutines -> 0..MaxDepth]
      /\ pc'[g] = "run" /\ \A h \in Goroutines : h # g => pc'[h] = pc[h]
      /\ held[g] <= held[g]
    BY <1>1, LifecycleAssumption DEF IInv, TypeOK, Labels
<1> QED BY <1>1, <1>2, <1>3, CountingStep

LEMMA DecrefKeeps ==
    ASSUME IInv, NEW g \in Goroutines, Decref(g) PROVE IInv'
<1>1. /\ pc[g] = "run" /\ held[g] > 0 /\ held' = [held EXCEPT ![g] = @ - 1] /\ ops' = ops - 1
      /\ UNCHANGED <<closing, wakeSignalled, resources, pc, stats>>
    BY DEF Decref, At
<1>2. OpsIsExact' /\ ops' \in Nat
    <2>1. Cardinality(References') = Cardinality(References) - 1
        BY <1>1, ReferenceDropped DEF IInv
    <2>2. Attempts' = Attempts
        BY <1>1 DEF Attempts
    <2>3. Cardinality(References) # 0
        <3>1. <<g, held[g]>> \in References
            BY <1>1, LifecycleAssumption DEF IInv, TypeOK, References
        <3> QED BY <3>1, CountedAreFinite, FS_EmptySet DEF IInv
    <2> QED BY <1>1, <2>1, <2>2, <2>3, CountedAreFinite DEF IInv, OpsIsExact
<1>3. /\ held' \in [Goroutines -> 0..MaxDepth] /\ held'[g] <= held[g]
      /\ \A h \in Goroutines : h # g => held'[h] = held[h]
      /\ pc \in [Goroutines -> Labels]
    BY <1>1, LifecycleAssumption DEF IInv, TypeOK
<1> QED BY <1>1, <1>2, <1>3, CountingStep

\* The steps that only move a goroutine on.
LEMMA MovesOnKeep ==
    ASSUME IInv, NEW g \in Goroutines,
           \/ IncrefCheck(g) \/ PollBlock(g) \/ PollReady(g) \/ PollWoken(g)
           \/ AccessorLoadsPointer(g) \/ AccessorDereferences(g)
    PROVE  IInv'
<1>1. PICK label \in {"count", "blocked", "run", "deref"} :
          /\ Goto(g, label) /\ pc[g] \notin {"recheck", "refuse"}
          /\ label = "count" => held[g] < MaxDepth
          /\ UNCHANGED <<closing, ops, wakeSignalled, resources, held, stats>>
    BY DEF IncrefCheck, PollBlock, PollReady, PollWoken, AccessorLoadsPointer, AccessorDereferences, At
<1>2. label \in Labels /\ label \notin {"recheck", "refuse", "lock", "update"} \cup Closer
    BY <1>1 DEF Labels, Closer
<1> QED BY <1>1, <1>2, PlainStep

LEMMA CloseSwapKeeps ==
    ASSUME IInv, NEW g \in Goroutines, CloseSwap(g) PROVE IInv'
<1>1. /\ pc[g] = "run" /\ ~closing /\ closing' = TRUE /\ Goto(g, "wake")
      /\ UNCHANGED <<ops, wakeSignalled, resources, held, stats>>
    BY DEF CloseSwap, At
<1>2. Intact
    BY <1>1 DEF IInv, ReleasedUnused
<1>3. Intact' /\ fdsOpen' \in BOOLEAN /\ ringsAliased' \in BOOLEAN /\ ringsMapped' \in BOOLEAN
      /\ umemMapped' \in BOOLEAN /\ wakeSignalled' \in BOOLEAN /\ closing' \in BOOLEAN
    BY <1>1, <1>2 DEF Intact, resources, IInv, TypeOK
<1>4. "wake" \in Closer \cup {"run"} /\ "wake" \notin Releasing
    BY DEF Closer, Releasing
<1> QED BY <1>1, <1>3, <1>4, CloserStep

\* Close goes on to release only once it has read the count at zero: then no
\* reference is held, for the count is exact.
LEMMA DrainedMeansUnused ==
    ASSUME IInv, ops <= 0 PROVE \A h \in Goroutines : held[h] = 0
<1>1. Cardinality(References) = 0
    BY CountedAreFinite DEF IInv, OpsIsExact
<1>2. References = {}
    BY <1>1, CountedAreFinite, FS_EmptySet DEF IInv
<1> SUFFICES ASSUME NEW h \in Goroutines, held[h] # 0 PROVE FALSE
    OBVIOUS
<1>3. <<h, held[h]>> \in References
    BY LifecycleAssumption DEF IInv, TypeOK, References
<1> QED BY <1>2, <1>3

LEMMA CloseKeeps ==
    ASSUME IInv, NEW g \in Goroutines, Close(g) PROVE IInv'
<1>1. /\ pc[g] \in Closer /\ closing /\ closing' = closing
      /\ UNCHANGED <<ops, held, stats>>
    BY DEF Close, CloseSignals, CloseDrained, CloseFds, CloseDropsAliases, CloseUnmapsRings,
           CloseUnmapsUmem, At, Closer, IInv, ReleasedUnused
<1>2. pc[g] \notin {"recheck", "refuse"}
    BY <1>1 DEF Closer
<1>3. /\ wakeSignalled' \in BOOLEAN /\ fdsOpen' \in BOOLEAN /\ ringsAliased' \in BOOLEAN
      /\ ringsMapped' \in BOOLEAN /\ umemMapped' \in BOOLEAN /\ closing' \in BOOLEAN
    BY <1>1 DEF Close, CloseSignals, CloseDrained, CloseFds, CloseDropsAliases, CloseUnmapsRings,
                CloseUnmapsUmem, resources, IInv, TypeOK
<1>4. PICK label \in Closer \cup {"run"} :
          /\ Goto(g, label)
          /\ ~Intact' \/ label \in Releasing => \A h \in Goroutines : held[h] = 0
    <2>1. ~Intact \/ pc[g] \in Releasing => \A h \in Goroutines : held[h] = 0
        BY DEF IInv, ReleasedUnused
    <2>2. CASE CloseSignals(g)
        BY <2>1, <2>2 DEF CloseSignals, Closer, Releasing, Intact, resources
    <2>3. CASE CloseDrained(g)
        BY <2>3, DrainedMeansUnused DEF CloseDrained, Closer
    <2>4. CASE CloseFds(g) \/ CloseDropsAliases(g) \/ CloseUnmapsRings(g) \/ CloseUnmapsUmem(g)
        BY <2>1, <2>4 DEF CloseFds, CloseDropsAliases, CloseUnmapsRings, CloseUnmapsUmem, At,
                          Closer, Releasing
    <2> QED BY <2>2, <2>3, <2>4 DEF Close
<1> QED BY <1>1, <1>2, <1>3, <1>4, CloserStep

LEMMA PacketPassesKeeps ==
    ASSUME IInv, PacketPasses PROVE IInv'
<1>1. /\ passed < MaxPassed /\ passed + 1 - total < IndexMod /\ passed' = passed + 1
      /\ UNCHANGED <<closing, ops, wakeSignalled, resources, pc, held, statsMu, last, total, cur, since>>
    BY DEF PacketPasses
<1>2. TypeOK'
    BY <1>1, LifecycleAssumption DEF IInv, TypeOK, resources
<1>3. OpsIsExact'
    BY <1>1 DEF IInv, OpsIsExact, References, Attempts
<1>4. AttemptsHaveRoom' /\ ReleasedUnused'
    BY <1>1 DEF IInv, AttemptsHaveRoom, ReleasedUnused, Intact, resources
<1>5. passed \in Nat /\ total \in Nat /\ IndexMod \in Nat /\ \A g \in Goroutines : since[g] \in Nat
    BY LifecycleAssumption DEF IInv, TypeOK
<1>6. CounterTrails'
    BY <1>1, <1>5 DEF IInv, CounterTrails
<1>7. ASSUME NEW g \in Goroutines, LoadedInTime(g) PROVE LoadedInTime(g)'
    <2>1. PICK n \in Nat : n \in since[g]..passed /\ total <= n /\ cur[g] = n % IndexMod
        BY <1>7 DEF LoadedInTime
    <2>2. n \in since'[g]..passed' /\ total' <= n /\ cur'[g] = n % IndexMod
        BY <1>1, <1>5, <2>1
    <2> QED BY <2>2 DEF LoadedInTime
<1>8. SamplersExclude'
    BY <1>1, <1>5, <1>7 DEF IInv, SamplersExclude
<1> QED BY <1>2, <1>3, <1>4, <1>6, <1>8 DEF IInv

(***************************************************************************)
(* Stats.                                                                  *)
(***************************************************************************)
LEMMA StatsBeginKeeps ==
    ASSUME IInv, NEW g \in Goroutines, StatsBegin(g) PROVE IInv'
<1>1. /\ pc[g] = "run" /\ Goto(g, "lock") /\ since' = [since EXCEPT ![g] = passed]
      /\ UNCHANGED <<closing, ops, wakeSignalled, resources, held, passed, statsMu, last, total, cur>>
    BY DEF StatsBegin, At
<1>2. TypeOK'
    BY <1>1 DEF IInv, TypeOK, Goto, Labels, resources
<1>3. OpsIsExact'
    BY <1>1, CountsFrame DEF IInv
<1>4. AttemptsHaveRoom' /\ ReleasedUnused'
    BY <1>1 DEF IInv, TypeOK, AttemptsHaveRoom, ReleasedUnused, Goto, Intact, resources, Closer, Releasing
<1>5. CounterTrails'
    BY <1>1 DEF IInv, CounterTrails
<1>6. SamplersExclude'
    <2>1. ASSUME NEW h \in Goroutines, h # g
          PROVE  pc'[h] = pc[h] /\ since'[h] = since[h] /\ cur'[h] = cur[h]
        BY <1>1, <2>1 DEF Goto, IInv, TypeOK
    <2>2. pc'[g] = "lock" /\ since'[g] = passed /\ passed \in Nat
        BY <1>1, LifecycleAssumption DEF Goto, IInv, TypeOK
    <2>3. ASSUME NEW h \in Goroutines, pc'[h] = "update" PROVE statsMu' = {h} /\ LoadedInTime(h)'
        BY <2>1, <2>2, <2>3, <1>1 DEF IInv, SamplersExclude, LoadedInTime
    <2>4. ASSUME NEW h \in Goroutines, pc'[h] = "lock" PROVE since'[h] <= passed'
        BY <2>1, <2>2, <2>4, <1>1 DEF IInv, SamplersExclude
    <2> QED BY <2>3, <2>4 DEF SamplersExclude
<1> QED BY <1>2, <1>3, <1>4, <1>5, <1>6 DEF IInv

\* The mutex is free, so nobody else is between load and update; the index
\* loaded is that of the packets passed by now.
LEMMA StatsLoadKeeps ==
    ASSUME IInv, NEW g \in Goroutines, StatsLoad(g) PROVE IInv'
<1>1. /\ pc[g] = "lock" /\ Goto(g, "update") /\ statsMu = {} /\ statsMu' = {g}
      /\ cur' = [cur EXCEPT ![g] = passed % IndexMod]
      /\ UNCHANGED <<closing, ops, wakeSignalled, resources, held, passed, last, total, since>>
    BY DEF StatsLoad, At, Index
<1>2. passed % IndexMod \in 0..(IndexMod - 1) /\ passed \in Nat /\ total \in Nat /\ IndexMod \in Nat \ {0}
      /\ since[g] \in Nat
    <2>1. passed \in Nat /\ total \in Nat /\ IndexMod \in Nat \ {0} /\ since[g] \in Nat
        BY LifecycleAssumption DEF IInv, TypeOK
    <2>2. passed % IndexMod \in 0..(IndexMod - 1)
        BY <2>1, DivMod
    <2> QED BY <2>1, <2>2
<1>3. TypeOK'
    BY <1>1, <1>2 DEF IInv, TypeOK, Goto, Labels, resources
<1>4. OpsIsExact'
    BY <1>1, CountsFrame DEF IInv
<1>5. AttemptsHaveRoom' /\ ReleasedUnused'
    BY <1>1 DEF IInv, TypeOK, AttemptsHaveRoom, ReleasedUnused, Goto, Intact, resources, Closer, Releasing
<1>6. CounterTrails'
    BY <1>1 DEF IInv, CounterTrails
<1>7. SamplersExclude'
    <2>1. \A h \in Goroutines : h # g => pc'[h] = pc[h] /\ pc[h] # "update"
        BY <1>1 DEF Goto, IInv, TypeOK, SamplersExclude
    <2>2. pc'[g] = "update" /\ cur'[g] = passed % IndexMod
        BY <1>1 DEF Goto, IInv, TypeOK
    <2>3. LoadedInTime(g)'
        <3>1. since[g] <= passed /\ passed - total \in 0..(IndexMod - 1)
            BY <1>1 DEF IInv, SamplersExclude, CounterTrails
        <3>2. passed \in since[g]..passed /\ total <= passed
            BY <3>1, <1>2
        <3> QED BY <3>2, <2>2, <1>1, <1>2 DEF LoadedInTime
    <2> QED BY <2>1, <2>2, <2>3, <1>1 DEF IInv, SamplersExclude
<1> QED BY <1>3, <1>4, <1>5, <1>6, <1>7 DEF IInv

\* What update adds is how far the index had really moved.
LEMMA UpdateIsExact ==
    ASSUME IInv, NEW g \in Goroutines, StatsUpdate(g)
    PROVE  /\ total' \in since[g]..passed /\ total' \in Nat /\ total <= total'
           /\ cur[g] = total' % IndexMod /\ statsMu' = {}
<1>1. pc[g] = "update" /\ total' = total + ((cur[g] - last) % IndexMod) /\ statsMu' = statsMu \ {g}
    BY DEF StatsUpdate, At
<1>2. PICK n \in Nat : n \in since[g]..passed /\ total <= n /\ cur[g] = n % IndexMod
    BY <1>1 DEF IInv, SamplersExclude, LoadedInTime
<1>3. /\ IndexMod \in Nat \ {0} /\ total \in Nat /\ passed \in Nat /\ since[g] \in Nat
      /\ passed - total \in 0..(IndexMod - 1) /\ last = total % IndexMod
    BY LifecycleAssumption DEF IInv, TypeOK, CounterTrails
<1>4. n - total \in 0..(IndexMod - 1)
    BY <1>2, <1>3
<1>5. (cur[g] - last) % IndexMod = n - total
    <2>1. ((n % IndexMod) - (total % IndexMod)) % IndexMod = n - total
        <3>1. n \in Int /\ total \in Int /\ IndexMod \in Nat \ {0}
            BY <1>3
        <3> QED BY <3>1, <1>4, RemaindersApart, Zenon
    <2> QED BY <2>1, <1>2, <1>3
<1>6. total' = n
    BY <1>1, <1>2, <1>3, <1>5
<1> QED BY <1>1, <1>2, <1>6 DEF IInv, SamplersExclude

LEMMA StatsUpdateKeeps ==
    ASSUME IInv, NEW g \in Goroutines, StatsUpdate(g) PROVE IInv'
<1>1. /\ pc[g] = "update" /\ Goto(g, "run") /\ last' = cur[g]
      /\ cur' = [cur EXCEPT ![g] = 0] /\ since' = [since EXCEPT ![g] = 0]
      /\ UNCHANGED <<closing, ops, wakeSignalled, resources, held, passed>>
    BY DEF StatsUpdate, At
<1>2. /\ total' \in since[g]..passed /\ total' \in Nat /\ total <= total'
      /\ cur[g] = total' % IndexMod /\ statsMu' = {}
    BY UpdateIsExact
<1>3. /\ IndexMod \in Nat \ {0} /\ total \in Nat /\ passed \in Nat /\ since[g] \in Nat /\ MaxPassed \in Nat
      /\ passed - total \in 0..(IndexMod - 1)
    BY LifecycleAssumption DEF IInv, TypeOK, CounterTrails
<1>4. TypeOK'
    <2>1. cur[g] \in 0..(IndexMod - 1) /\ 0 \in 0..(IndexMod - 1) /\ 0 \in 0..MaxPassed
        BY <1>3 DEF IInv, TypeOK
    <2> QED BY <2>1, <1>1, <1>2 DEF IInv, TypeOK, Goto, Labels, resources
<1>5. OpsIsExact'
    BY <1>1, CountsFrame DEF IInv
<1>6. AttemptsHaveRoom' /\ ReleasedUnused'
    BY <1>1 DEF IInv, TypeOK, AttemptsHaveRoom, ReleasedUnused, Goto, Intact, resources, Closer, Releasing
<1>7. CounterTrails'
    <2>1. passed - total' \in 0..(IndexMod - 1)
        <3> DEFINE t == total'
                   apart == passed - total
        <3>1. t \in Nat /\ total <= t /\ t <= passed
            BY <1>2, <1>3
        <3>2. passed - t = apart - (t - total) /\ apart \in 0..(IndexMod - 1)
            BY <3>1, <1>3
        <3> HIDE DEF t, apart
        <3>3. t - total \in Nat /\ passed - t \in Nat
            BY <3>1, <1>3
        <3>4. passed - t \in 0..(IndexMod - 1)
            BY <3>2, <3>3, <1>3
        <3> QED BY <3>4 DEF t
    <2> QED BY <2>1, <1>1, <1>2 DEF CounterTrails
<1>8. SamplersExclude'
    <2>1. \A h \in Goroutines : h # g => pc'[h] = pc[h] /\ pc[h] # "update" /\ since'[h] = since[h]
        BY <1>1 DEF Goto, IInv, TypeOK, SamplersExclude
    <2>2. pc'[g] = "run"
        BY <1>1 DEF Goto, IInv, TypeOK
    <2> QED BY <2>1, <2>2, <1>1 DEF IInv, SamplersExclude
<1> QED BY <1>4, <1>5, <1>6, <1>7, <1>8 DEF IInv

(***************************************************************************)
(* The theorems.                                                           *)
(***************************************************************************)
LEMMA InitHolds == Init => IInv
<1> SUFFICES ASSUME Init PROVE IInv
    OBVIOUS
<1>1. MaxDepth \in Nat /\ IndexMod \in Nat \ {0} /\ MaxPassed \in Nat
    BY LifecycleAssumption
<1>2. TypeOK
    <2>1. 0 \in 0..MaxDepth /\ 0 \in 0..(IndexMod - 1) /\ 0 \in 0..MaxPassed /\ 0 \in Nat
        BY <1>1
    <2>2. /\ pc \in [Goroutines -> Labels] /\ held \in [Goroutines -> 0..MaxDepth]
          /\ cur \in [Goroutines -> 0..(IndexMod - 1)] /\ since \in [Goroutines -> 0..MaxPassed]
        BY <2>1 DEF Init, Labels
    <2> QED BY <2>1, <2>2 DEF Init, TypeOK
<1>3. OpsIsExact
    <2>1. References = {} /\ Attempts = {}
        BY <1>1 DEF Init, References, Attempts
    <2> QED BY <2>1, FS_EmptySet DEF Init, OpsIsExact
<1>4. AttemptsHaveRoom /\ ReleasedUnused
    BY DEF Init, AttemptsHaveRoom, ReleasedUnused, Intact, Closer, Releasing
<1>5. CounterTrails
    <2>1. 0 % IndexMod = 0 /\ 0 - 0 \in 0..(IndexMod - 1)
        BY <1>1
    <2> QED BY <2>1 DEF Init, CounterTrails
<1>6. SamplersExclude
    BY DEF Init, SamplersExclude
<1> QED BY <1>2, <1>3, <1>4, <1>5, <1>6 DEF IInv

LEMMA NextKeeps == IInv /\ [Next]_vars => IInv'
<1> SUFFICES ASSUME IInv, [Next]_vars PROVE IInv'
    OBVIOUS
<1>1. CASE UNCHANGED vars
    BY <1>1 DEF vars, stats, resources, IInv, TypeOK, OpsIsExact, References, Attempts, AttemptsHaveRoom,
                ReleasedUnused, Intact, CounterTrails, SamplersExclude, LoadedInTime
<1>2. CASE PacketPasses
    BY <1>2, PacketPassesKeeps
<1>3. ASSUME NEW g \in Goroutines,
             \/ IncrefCheck(g) \/ Incref(g) \/ Decref(g)
             \/ PollBlock(g) \/ PollReady(g) \/ PollWoken(g)
             \/ AccessorLoadsPointer(g) \/ AccessorDereferences(g)
      PROVE  IInv'
    BY <1>3, MovesOnKeep, IncrefCountKeeps, IncrefRecheckKeeps, IncrefRefuseKeeps, DecrefKeeps DEF Incref
<1>4. ASSUME NEW g \in Goroutines, StatsBegin(g) \/ StatsLoad(g) \/ StatsUpdate(g) PROVE IInv'
    BY <1>4, StatsBeginKeeps, StatsLoadKeeps, StatsUpdateKeeps
<1>5. ASSUME NEW g \in Goroutines, CloseSwap(g) \/ Close(g) PROVE IInv'
    BY <1>5, CloseSwapKeeps, CloseKeeps
<1> QED BY <1>1, <1>2, <1>3, <1>4, <1>5 DEF Next

\* What holds between any two atomic operations of any goroutines.
THEOREM Invariant == Spec => []IInv
<1>1. Init => IInv
    BY InitHolds
<1>2. IInv /\ [Next]_vars => IInv'
    BY NextKeeps
<1> QED BY <1>1, <1>2, PTL DEF Spec

\* Close releases the descriptors, the aliases and the mappings only when no
\* method that took its reference is running, a blocked Poll included.
THEOREM NoUseAfterUnmap == Spec => []HeldKeepsResources
<1>1. IInv => HeldKeepsResources
    <2> SUFFICES ASSUME IInv, NEW g \in Goroutines, held[g] > 0 PROVE Intact
        BY DEF HeldKeepsResources, Intact
    <2>1. held[g] # 0
        BY DEF IInv, TypeOK
    <2> QED BY <2>1 DEF IInv, ReleasedUnused
<1> QED BY <1>1, Invariant, PTL

\* The counter incref and decref keep with separate atomic operations is
\* exactly the references held and the attempts not yet decided.
THEOREM CountExact == Spec => []OpsIsExact
<1>1. IInv => OpsIsExact
    BY DEF IInv
<1> QED BY <1>1, Invariant, PTL

\* Only its own StatsUpdate ends a sampler's call.
LEMMA UpdatesOwnCall ==
    ASSUME IInv, [Next]_vars, NEW g \in Goroutines, At(g, "update"), ~At(g, "update")'
    PROVE  StatsUpdate(g)
<1>1. pc[g] = "update" /\ pc'[g] # "update" /\ pc \in [Goroutines -> Labels]
    BY DEF At, IInv, TypeOK
<1>2. PICK h \in Goroutines :
          \/ IncrefCheck(h) \/ Incref(h) \/ Decref(h)
          \/ PollBlock(h) \/ PollReady(h) \/ PollWoken(h)
          \/ StatsBegin(h) \/ StatsLoad(h) \/ StatsUpdate(h)
          \/ AccessorLoadsPointer(h) \/ AccessorDereferences(h)
          \/ CloseSwap(h) \/ Close(h)
    BY <1>1 DEF Next, vars, PacketPasses
<1>3. CASE StatsUpdate(h)
    <2>1. h = g
        BY <1>1, <1>3 DEF StatsUpdate, Goto
    <2> QED BY <1>3, <2>1
<1>4. CASE ~StatsUpdate(h)
    <2>1. pc[h] # "update"
        BY <1>2, <1>4 DEF At, IncrefCheck, Incref, IncrefCount, IncrefRecheck, IncrefRefuse, Decref, PollBlock,
            PollReady, PollWoken, StatsBegin, StatsLoad, AccessorLoadsPointer, AccessorDereferences,
            CloseSwap, Close, CloseSignals, CloseDrained, CloseFds, CloseDropsAliases, CloseUnmapsRings,
            CloseUnmapsUmem
    <2>2. (\E label : Goto(h, label)) \/ pc' = pc
        BY <1>2, <1>4 DEF IncrefCheck, Incref, IncrefCount, IncrefRecheck, IncrefRefuse, Decref, PollBlock,
            PollReady, PollWoken, StatsBegin, StatsLoad, AccessorLoadsPointer, AccessorDereferences,
            CloseSwap, Close, CloseSignals, CloseDrained, CloseFds, CloseDropsAliases, CloseUnmapsRings,
            CloseUnmapsUmem
    <2> QED BY <2>1, <2>2, <1>1 DEF Goto
<1> QED BY <1>3, <1>4

\* Every Stats call reports a count that was the true one at some moment of
\* that call, whatever other samplers and the traffic do, and although the
\* index wraps between and during the samples.
THEOREM StatsReport == Spec => StatsReportTrueCount
<1> DEFINE Reports(g) == At(g, "update") /\ ~At(g, "update")' => total' \in since[g]..passed
<1>1. IInv /\ [Next]_vars => [\A g \in Goroutines : Reports(g)]_vars
    BY UpdatesOwnCall, UpdateIsExact
<1> QED BY <1>1, Invariant, PTL DEF Spec, StatsReportTrueCount
=============================================================================
