------------------------------ MODULE FleetProofs ------------------------------
(***************************************************************************)
(* Proofs about Fleet, for any number of fleets and queues, every mode and *)
(* choice of options, and any number of bounces of the link.               *)
(*                                                                         *)
(* The invariant says, for each place an Open or a Close can be at, which  *)
(* queues have a socket, which are in the map and which are enabled: those *)
(* its loop has passed, and those it has still to come to.  What ties the  *)
(* fleets together is the one program an interface has, the queues' one    *)
(* socket each, and the handles on the tuning.                             *)
(***************************************************************************)
EXTENDS Fleet, FiniteSetTheorems, TLAPS

(***************************************************************************)
(* The inductive invariant.                                                *)
(***************************************************************************)

\* The queues the loops of Open and Close take before queue n, and after it.
Before(n) == {queue \in Queues : queue < n}
Beyond(n) == {queue \in Queues : queue > n}
From(n)   == Beyond(n) \cup {n}
UpTo(n)   == Before(n) \cup {n}

\* What the maps of f may hold of the queues S: it may have no maps.
Mine(f, S) == IF f \in txOnly THEN {} ELSE S

Ended     == {"idle", "failed", "closed"}
Bare      == Ended \cup {"build", "remove", "removing", "attach", "restore"}
Unbound   == Bare \cup {"undoing", "detach", "detaching"}
Whole     == {"tune", "pin", "up", "waiting"}
Attached  == {"socket", "putSocket", "putQueue", "closeAll", "unregister", "delete", "closeSocket",
              "detach"} \cup Whole
MayBeTuned == {"pin", "up", "waiting", "unregister", "delete", "closeSocket", "detach", "detaching",
               "restore"}

\* Without links one fleet at a time is open.
Exclusive == ~links => \A f, g \in Fleets : pc[f] # "idle" /\ pc[g] # "idle" => f = g

ProgramPlaced(f) ==
    /\ pc[f] \in Attached <=> attached = f
    /\ pc[f] \in {"up", "waiting"} <=> f \in pinned
    /\ pc[f] \in Ended \cup {"restore"} => loaded[f] = {}
    /\ pc[f] = "build" =>
           loaded[f] \in {{}} \cup (IF f \in txOnly THEN {} ELSE {{"qidconf"}, {"qidconf", "xsks"}})

\* The sockets, and the XSK map.
SocketsPlaced(f) ==
    /\ pc[f] \in Unbound              => socks[f] = {}
    /\ pc[f] = "socket"               => socks[f] = Before(q[f])
    /\ pc[f] \in {"putSocket", "putQueue"} => socks[f] = UpTo(q[f])
    /\ pc[f] \in Whole                => socks[f] = Queues
    /\ pc[f] \in {"unregister", "delete", "closeSocket"} => socks[f] = From(q[f])

SocketsMapped(f) ==
    /\ xsks[f] \subseteq Mine(f, socks[f])
    /\ pc[f] \in {"putQueue", "delete"} => f \notin txOnly
    /\ pc[f] \in {"socket", "putSocket"} => xsks[f] = Mine(f, Before(q[f]))
    /\ pc[f] \in {"putQueue", "delete", "unregister"} \cup Whole => xsks[f] = Mine(f, socks[f])
    /\ pc[f] = "closeSocket" => Mine(f, Beyond(q[f])) \subseteq xsks[f]

\* The queues enabled.
QueuesEnabled(f) ==
    /\ qidconf[f] \subseteq Mine(f, Queues)
    /\ pc[f] \in Bare => qidconf[f] = {}
    /\ pc[f] \in {"socket", "putSocket", "putQueue"} =>
           /\ Mine(f, Before(q[f])) \subseteq qidconf[f]
           /\ bind[f] = 1 => qidconf[f] = Mine(f, Before(q[f]))
    /\ pc[f] \in Whole => qidconf[f] = Mine(f, Queues)
    /\ f \notin failed =>
           /\ pc[f] = "unregister" => qidconf[f] = Mine(f, From(q[f]))
           /\ pc[f] \in {"delete", "closeSocket"} => qidconf[f] = Mine(f, Beyond(q[f]))
           /\ pc[f] = "detach" => qidconf[f] = {}

Placed == \A f \in Fleets :
              ProgramPlaced(f) /\ SocketsPlaced(f) /\ SocketsMapped(f) /\ QueuesEnabled(f)

\* What a tuning finds and puts aside: a value lost to an earlier one is ours.
Found == [a \in Attributes |-> IF a \in lost THEN "ours" ELSE "host"]

Tuned ==
    /\ napi = IF handle = {} THEN Found ELSE OurValues
    /\ handle # {} => saved = Found
    /\ \A f \in handle : pc[f] \in MayBeTuned

\* A bounce takes a reading, and the next one begins before Stable of them.
Bouncing ==
    /\ ~carrier => bounces > 0
    /\ carrier /\ bounces > 0 => quiet < Stable

\* The readings in a row are readings since the carrier last changed.
Waited(f) ==
    /\ pc[f] # "waiting" => ups[f] = 0
    /\ ups[f] > 0 => \/ carrier /\ (bounces > 0 => ups[f] <= quiet)
                     \/ ~carrier /\ quiet = 0
    /\ f \in settled => pc[f] = "up"

LinkFollowed == Bouncing /\ LinkUpIsSettled /\ \A f \in Fleets : Waited(f)

\* Only without links can a Detach leave its program.
LeftWithoutLinks == attached = "left" => ~links

IInv == TypeOK /\ Exclusive /\ Placed /\ LeftWithoutLinks /\ Tuned /\ LinkFollowed

\* The constants, and the queues as numbers.
LEMMA Constants ==
    /\ NumQueues \in Nat \ {0}
    /\ \A f \in Fleets : f # "none" /\ f # "leftover" /\ f # "left" /\ f # "foreign"
    /\ Len(Groups) \in 1..2
    /\ \A i \in 1..Len(Groups) : Len(Groups[i].binds) \in 1..2
<1>1. CASE Mode = "auto"
    BY <1>1, FleetAssumption DEF Groups, ModeGroups, NumQueues
<1>2. CASE Mode = "generic"
    BY <1>2, FleetAssumption DEF Groups, ModeGroups, NumQueues
<1>3. CASE Mode = "nativeZC"
    BY <1>3, FleetAssumption DEF Groups, ModeGroups, NumQueues
<1>4. CASE Mode = "native"
    BY <1>4, FleetAssumption DEF Groups, ModeGroups, NumQueues
<1> QED BY <1>1, <1>2, <1>3, <1>4, FleetAssumption

\* A loop over the queues begins with none behind it, hands each queue on to
\* the next and ends with none before it.
LEMMA QueueLoop ==
    /\ 0 \in Queues /\ Before(0) = {} /\ From(0) = Queues
    /\ \A n \in Queues :
           /\ Before(n) \subseteq Queues /\ Beyond(n) \subseteq Queues
           /\ UpTo(n) \subseteq Queues /\ From(n) \subseteq Queues
           /\ UpTo(n) = Before(n) \cup {n} /\ From(n) = Beyond(n) \cup {n}
           /\ n \notin Before(n) /\ n \notin Beyond(n)
           /\ n + 1 < NumQueues  => n + 1 \in Queues /\ Before(n + 1) = UpTo(n) /\ From(n + 1) = Beyond(n)
           /\ n + 1 >= NumQueues => UpTo(n) = Queues /\ Beyond(n) = {}
<1>1. NumQueues \in Nat \ {0}
    BY Constants
<1>2. 0 \in Queues /\ Before(0) = {} /\ From(0) = Queues
    BY <1>1 DEF Queues, Before, From, Beyond
<1>3. ASSUME NEW n \in Queues
      PROVE  /\ Before(n) \subseteq Queues /\ Beyond(n) \subseteq Queues
             /\ UpTo(n) \subseteq Queues /\ From(n) \subseteq Queues
             /\ UpTo(n) = Before(n) \cup {n} /\ From(n) = Beyond(n) \cup {n}
             /\ n \notin Before(n) /\ n \notin Beyond(n)
    BY <1>1 DEF Queues, Before, From, Beyond, UpTo
<1>4. ASSUME NEW n \in Queues, n + 1 < NumQueues
      PROVE  n + 1 \in Queues /\ Before(n + 1) = UpTo(n) /\ From(n + 1) = Beyond(n)
    BY <1>1, <1>4 DEF Queues, Before, From, Beyond, UpTo
<1>5. ASSUME NEW n \in Queues, n + 1 >= NumQueues
      PROVE  UpTo(n) = Queues /\ Beyond(n) = {}
    BY <1>1, <1>5 DEF Queues, Before, From, Beyond, UpTo
<1> QED BY <1>2, <1>3, <1>4, <1>5

(***************************************************************************)
(* The other fleets.                                                       *)
(***************************************************************************)
Opens(f) ==
    \/ OpenRefuses(f) \/ OpenStart(f) \/ OpenBuild(f) \/ OpenRemove(f) \/ OpenRemoved(f)
    \/ OpenResisted(f) \/ OpenLookupFails(f) \/ OpenAttach(f) \/ OpenSocket(f)
    \/ RegisterNothing(f) \/ RegisterPutSocket(f) \/ RegisterPutQueue(f) \/ OpenClosesOne(f)
    \/ OpenNextBind(f) \/ OpenTune(f) \/ OpenPin(f)

Detaches(f) == Detach(f) \/ DetachFails(f) \/ DetachGivesUp(f)

Closes(f) ==
    \/ CloseUnpin(f) \/ UnregisterNothing(f) \/ UnregisterQueue(f) \/ UnregisterSocket(f)
    \/ CloseSocket(f) \/ CloseRestore(f)

Step(f) == Opens(f) \/ WaitLinkUp(f) \/ Closes(f) \/ Detaches(f) \/ Forget(f) \/ Collect(f)

FleetPlaced(f) == ProgramPlaced(f) /\ SocketsPlaced(f) /\ SocketsMapped(f) /\ QueuesEnabled(f)

\* All that FleetPlaced reads of g.
Untouched(g) ==
    /\ pc'[g] = pc[g] /\ q'[g] = q[g] /\ bind'[g] = bind[g] /\ loaded'[g] = loaded[g]
    /\ socks'[g] = socks[g] /\ xsks'[g] = xsks[g] /\ qidconf'[g] = qidconf[g]
    /\ g \in failed' <=> g \in failed
    /\ g \in pinned' <=> g \in pinned
    /\ attached' = g <=> attached = g

LEMMA UntouchedStays ==
    ASSUME UNCHANGED fixed, NEW g \in Fleets, Untouched(g), FleetPlaced(g)
    PROVE  FleetPlaced(g)'
<1>1. ProgramPlaced(g)'
    BY DEF fixed, Untouched, FleetPlaced, ProgramPlaced
<1>2. SocketsPlaced(g)'
    BY DEF fixed, Untouched, FleetPlaced, SocketsPlaced
<1>3. SocketsMapped(g)'
    BY DEF fixed, Untouched, FleetPlaced, SocketsMapped, Mine
<1>4. QueuesEnabled(g)'
    BY DEF fixed, Untouched, FleetPlaced, QueuesEnabled, Mine
<1> QED BY <1>1, <1>2, <1>3, <1>4 DEF FleetPlaced

\* A fleet whose program is not attached takes no other's off the interface:
\* links keep it, and without them there is no other.
LEMMA NotTakenOff ==
    ASSUME IInv, NEW f \in Fleets, NEW g \in Fleets, f # g, pc[f] # "idle", attached = g
    PROVE  links /\ HeldByLink
<1>1. pc[g] # "idle"
    BY DEF IInv, Placed, ProgramPlaced, Attached, Whole
<1> QED BY <1>1, Constants DEF IInv, Exclusive, HeldByLink, TypeOK

\* What the steps of a Detach have in common: f has not its program on the
\* interface any longer, and either waits or has released it and goes on.
LEMMA DetachEffect ==
    ASSUME IInv, NEW f \in Fleets, Detaches(f)
    PROVE  /\ UNCHANGED <<fixed, socks, bind, q, pinned, reachable, tuning, link>>
           /\ pc[f] \in {"closeAll", "detach", "undoing", "detaching"} /\ socks[f] = {}
           /\ failed' = failed \/ failed' = failed \cup {f}
           /\ attached' # f
           /\ \/ attached' = attached
              \/ attached' = "none"
              \/ attached' = "left" /\ ~links /\ attached = f
           /\ \/ /\ UNCHANGED <<loaded, qidconf, xsks, group>>
                 /\ \/ pc[f] = "closeAll" /\ Goto(f, "undoing")
                    \/ pc[f] = "detach" /\ Goto(f, "detaching")
              \/ /\ Release(f)
                 /\ \/ pc[f] \in {"detach", "detaching"} /\ Goto(f, "restore") /\ UNCHANGED group
                    \/ pc[f] \in {"closeAll", "undoing"} /\ NextGroup(f)
<1>t. TypeOK /\ ProgramPlaced(f) /\ SocketsPlaced(f)
    BY DEF IInv, Placed
<1>1. CASE Detach(f) \/ DetachFails(f)
    BY <1>t, <1>1, Constants DEF Detach, DetachLink, DetachNetlink, DetachRemoved, DetachFails, AfterDetach,
        Detaching, Removing, InClose, WithError, Detached, At, fixed, cursors, SocketsPlaced, Unbound,
        Release
<1>2. CASE DetachGivesUp(f)
    BY <1>t, <1>2 DEF DetachGivesUp, AfterDetach, Removing, InClose, WithError, At, SocketsPlaced,
        ProgramPlaced, Unbound, Attached, Whole
<1> QED BY <1>1, <1>2 DEF Detaches

\* Of the program on the interface a Detach takes away its own; without links
\* whichever it is.
LEMMA DetachTakes ==
    ASSUME NEW f \in Fleets, Detaches(f)
    PROVE  pc[f] # "idle" /\ (attached' # attached => attached = f \/ ~links)
BY DEF Detaches, Detach, DetachLink, DetachNetlink, DetachRemoved, DetachFails, DetachGivesUp, Detaching,
       Removing, Detached, At

LEMMA OthersUntouched ==
    ASSUME IInv, NEW f \in Fleets, NEW g \in Fleets, f # g, Step(f)
    PROVE  Untouched(g)
<1> USE DEF TypeOK
<1>t. TypeOK
    BY DEF IInv
<1>1. CASE Opens(f) /\ ~OpenRemove(f) /\ ~OpenAttach(f)
    BY <1>t, <1>1 DEF Opens, Untouched, OpenRefuses, OpenStart, OpenLookupFails, OpenBuild,
        OpenRemoved, OpenResisted, OpenSocket, RegisterNothing, RegisterPutSocket, RegisterPutQueue,
        OpenClosesOne, OpenNextBind, OpenTune, OpenPin, Goto, Release, NextGroup, NextQueue,
        CloseSocketOf, program, fixed, cursors, owners, link, tuning
<1>2. CASE OpenRemove(f) \/ OpenAttach(f)
    <2>1. attached = g => links /\ HeldByLink
        BY <1>2, NotTakenOff DEF OpenRemove, OpenAttach, At
    <2> QED BY <1>t, <1>2, <2>1, Constants DEF Untouched, OpenRemove, OpenAttach,
                HeldByLink, Goto, Release, NextGroup, program, fixed, cursors, owners, link, At
<1>3. CASE WaitLinkUp(f) \/ Forget(f)
    BY <1>t, <1>3 DEF Untouched, WaitLinkUp, WaitBegin, WaitReadsUp, WaitReadsDown, WaitTimesOut, Forget,
        Goto, program, fixed, cursors, owners
<1>4. CASE Closes(f)
    BY <1>t, <1>4 DEF Untouched, Closes, CloseUnpin, UnregisterNothing, UnregisterQueue, UnregisterSocket,
        CloseSocket, CloseSocketOf, CloseRestore, Goto, program, fixed, cursors, owners
<1>5. CASE Collect(f)
    <2>1. attached = g => links /\ HeldByLink
        BY <1>5, NotTakenOff DEF Collect, At
    <2> QED BY <1>t, <1>5, <2>1, Constants DEF Untouched, Collect,
                HeldByLink, Goto, Release, program, fixed, cursors, owners, At
<1>6. CASE Detaches(f)
    <2>1. attached = g => attached' = g
        BY <1>6, NotTakenOff, DetachTakes
    <2>2. attached' = g => attached = g
        BY <1>6, DetachEffect, Constants
    <2>3. /\ UNCHANGED <<q, bind, socks, pinned>>
          /\ \/ UNCHANGED <<loaded, qidconf, xsks>>
             \/ Release(f)
          /\ \E label : Goto(f, label)
          /\ failed' = failed \/ failed' = failed \cup {f}
        BY <1>6, DetachEffect DEF NextGroup
    <2>4. /\ loaded'[g] = loaded[g] /\ xsks'[g] = xsks[g] /\ qidconf'[g] = qidconf[g]
        BY <1>t, <2>3 DEF Release
    <2>5. pc'[g] = pc[g] /\ (g \in failed' <=> g \in failed)
        BY <1>t, <2>3 DEF Goto
    <2> QED BY <2>1, <2>2, <2>3, <2>4, <2>5 DEF Untouched
<1> QED BY <1>1, <1>2, <1>3, <1>4, <1>5, <1>6 DEF Step

(***************************************************************************)
(* The fleet that takes the step.  Each lemma takes the steps of a kind.   *)
(***************************************************************************)

\* What the parts of the program make, in order.
LEMMA BuildInOrder ==
    ASSUME IInv, NEW f \in Fleets, OpenBuild(f), ~At(f, "failed")'
    PROVE  \/ pc'[f] = "remove"
           \/ /\ pc'[f] = "build" /\ f \notin txOnly
              /\ loaded'[f] \in {{"qidconf"}, {"qidconf", "xsks"}}
<1> DEFINE part == Parts(f)[Cardinality(loaded[f]) + 1]
<1>1. /\ loaded' = [loaded EXCEPT ![f] = @ \cup {part}]
      /\ IF part = "prog" THEN Goto(f, "remove") ELSE UNCHANGED pc
      /\ pc[f] = "build"
    BY DEF OpenBuild, At, Goto, IInv, TypeOK
<1>2. loaded[f] \in {{}} \cup (IF f \in txOnly THEN {} ELSE {{"qidconf"}, {"qidconf", "xsks"}})
    BY <1>1 DEF IInv, Placed, ProgramPlaced
<1>3. /\ Cardinality({}) = 0
      /\ Cardinality({"qidconf"}) = 1
      /\ Cardinality({"qidconf", "xsks"}) = 2
    <2>1. IsFiniteSet({}) /\ Cardinality({}) = 0
        BY FS_EmptySet
    <2>2. IsFiniteSet({"qidconf"}) /\ Cardinality({"qidconf"}) = 1
        BY FS_Singleton
    <2>3. Cardinality({"qidconf"} \cup {"xsks"}) = 2
        BY <2>2, FS_AddElement
    <2>4. {"qidconf"} \cup {"xsks"} = {"qidconf", "xsks"}
        OBVIOUS
    <2> QED BY <2>1, <2>2, <2>3, <2>4
<1>4. CASE f \in txOnly
    <2>1. Parts(f) = <<"prog">> /\ loaded[f] = {}
        BY <1>2, <1>4 DEF Parts
    <2>2. part = "prog"
        BY <1>3, <2>1
    <2> QED BY <1>1, <2>2 DEF Goto, IInv, TypeOK
<1>5. CASE f \notin txOnly
    <2>1. Parts(f) = <<"qidconf", "xsks", "prog">>
        BY <1>5 DEF Parts
    <2>2. CASE loaded[f] = {}
        BY <1>1, <1>3, <1>5, <2>1, <2>2 DEF IInv, TypeOK
    <2>3. CASE loaded[f] = {"qidconf"}
        <3>1. part = "xsks"
            BY <1>3, <2>1, <2>3
        <3> QED BY <1>1, <1>5, <2>3, <3>1 DEF IInv, TypeOK
    <2>4. CASE loaded[f] = {"qidconf", "xsks"}
        <3>1. part = "prog"
            BY <1>3, <2>1, <2>4
        <3> QED BY <1>1, <3>1 DEF Goto, IInv, TypeOK
    <2> QED BY <1>2, <1>5, <2>2, <2>3, <2>4
<1> QED BY <1>4, <1>5

\* Before the sockets, and after them.
BareStep(f) ==
    \/ OpenRefuses(f) \/ OpenStart(f) \/ OpenBuild(f) \/ OpenRemove(f) \/ OpenRemoved(f)
    \/ OpenResisted(f) \/ OpenLookupFails(f) \/ CloseRestore(f)
    \/ OpenAttach(f) /\ attached' = attached
    \/ Collect(f)

LEMMA BareSteps ==
    ASSUME IInv, NEW f \in Fleets, BareStep(f), UNCHANGED txOnly
    PROVE  FleetPlaced(f)'
<1>t. TypeOK /\ FleetPlaced(f)
    BY DEF IInv, Placed, FleetPlaced
<1>1. pc'[f] \in Bare /\ attached' # f /\ f \notin pinned'
    BY <1>t, Constants
       DEF TypeOK, FleetPlaced, ProgramPlaced, BareStep, OpenRefuses, OpenStart, OpenBuild, OpenRemove,
           OpenRemoved, OpenResisted, OpenLookupFails, CloseRestore, OpenAttach, Collect,
           At, Goto, NextGroup, Bare, Ended, Attached, Whole, owners, program
<1>2. socks'[f] = {} /\ xsks'[f] = {} /\ qidconf'[f] = {}
    BY <1>t
       DEF TypeOK, FleetPlaced, ProgramPlaced, SocketsPlaced, SocketsMapped, QueuesEnabled, BareStep,
           OpenRefuses, OpenStart, OpenBuild, OpenRemove, OpenRemoved, OpenResisted, OpenLookupFails,
           CloseRestore, OpenAttach, Collect, At, Goto, Release, Bare, Unbound, Ended, Mine, program,
           Whole, Attached
<1>3. /\ pc'[f] \in Ended \cup {"restore"} => loaded'[f] = {}
      /\ pc'[f] = "build" =>
             loaded'[f] \in {{}} \cup (IF f \in txOnly THEN {} ELSE {{"qidconf"}, {"qidconf", "xsks"}})
    <2>1. CASE OpenBuild(f) /\ ~At(f, "failed")'
        BY <1>t, <2>1, BuildInOrder DEF Ended
    <2>2. CASE ~(OpenBuild(f) /\ ~At(f, "failed")')
        BY <1>t, <2>2
           DEF TypeOK, FleetPlaced, ProgramPlaced, BareStep, OpenRefuses, OpenStart, OpenBuild, OpenRemove,
               OpenRemoved, OpenResisted, OpenLookupFails, CloseRestore, OpenAttach, Collect,
               At, Goto, NextGroup, Release, Bare, Ended, program, owners
    <2> QED BY <2>1, <2>2
<1> QED BY <1>1, <1>2, <1>3
        DEF FleetPlaced, ProgramPlaced, SocketsPlaced, SocketsMapped, QueuesEnabled, Mine, Bare, Unbound, Ended,
            Attached, Whole

\* The attach, and the loop of registerSockets.
RegisterStep(f) ==
    \/ OpenAttach(f) /\ attached' # attached
    \/ OpenSocket(f) \/ RegisterNothing(f) \/ RegisterPutSocket(f) \/ RegisterPutQueue(f)
    \/ OpenClosesOne(f) \/ OpenNextBind(f)

LEMMA RegisterSteps ==
    ASSUME IInv, NEW f \in Fleets, RegisterStep(f), UNCHANGED txOnly
    PROVE  FleetPlaced(f)'
<1> DEFINE n == q[f]
<1>t. TypeOK /\ FleetPlaced(f) /\ n \in Queues
    BY DEF IInv, Placed, FleetPlaced, TypeOK
<1>l. /\ 0 \in Queues /\ Before(0) = {}
      /\ Before(n) \subseteq Queues /\ UpTo(n) \subseteq Queues
      /\ UpTo(n) = Before(n) \cup {n} /\ n \notin Before(n)
      /\ n + 1 < NumQueues => Before(n + 1) = UpTo(n)
      /\ ~(n + 1 < NumQueues) => UpTo(n) = Queues
    BY <1>t, QueueLoop, Constants DEF Queues
<1> HIDE DEF n
<1> USE DEF Goto, At, NextQueue
<1>1. ProgramPlaced(f)'
    BY <1>t DEF n, TypeOK, FleetPlaced, ProgramPlaced, RegisterStep, OpenAttach, OpenSocket, RegisterNothing,
        RegisterPutSocket, RegisterPutQueue, OpenClosesOne, OpenNextBind, Attached, Whole, Ended, Bare,
        owners, program
<1> USE DEF Mine, Whole, Ended, Bare, Unbound
<1>2. CASE OpenAttach(f) /\ attached' # attached
    <2>1. /\ pc'[f] = "socket" /\ q'[f] = 0 /\ bind'[f] = 1
          /\ socks'[f] = {} /\ xsks'[f] = {} /\ qidconf'[f] = {}
        BY <1>t, <1>2 DEF TypeOK, FleetPlaced, SocketsPlaced, SocketsMapped, QueuesEnabled, OpenAttach
    <2> QED BY <1>1, <1>l, <2>1 DEF FleetPlaced, SocketsPlaced, SocketsMapped, QueuesEnabled
<1>3. CASE OpenSocket(f)
    <2>1. /\ q'[f] = n /\ bind'[f] = bind[f] /\ xsks'[f] = xsks[f] /\ qidconf'[f] = qidconf[f]
          /\ \/ pc'[f] = "putSocket" /\ socks'[f] = socks[f] \cup {n}
             \/ pc'[f] = "closeAll" /\ socks'[f] = socks[f]
          /\ pc[f] = "socket"
        BY <1>t, <1>3 DEF n, TypeOK, OpenSocket, program, cursors
    <2> QED BY <1>1, <1>l, <1>t, <2>1 DEF n, FleetPlaced, SocketsPlaced, SocketsMapped, QueuesEnabled
<1>4. CASE RegisterNothing(f)
    <2>1. /\ bind'[f] = bind[f] /\ xsks'[f] = xsks[f] /\ qidconf'[f] = qidconf[f] /\ socks'[f] = socks[f]
          /\ f \in txOnly /\ pc[f] = "putSocket"
          /\ \/ n + 1 < NumQueues /\ q'[f] = n + 1 /\ pc'[f] = "socket"
             \/ ~(n + 1 < NumQueues) /\ q'[f] = n /\ pc'[f] = "tune"
        BY <1>t, <1>4 DEF n, TypeOK, RegisterNothing, program
    <2> QED BY <1>1, <1>l, <1>t, <2>1 DEF n, FleetPlaced, SocketsPlaced, SocketsMapped, QueuesEnabled
<1>5. CASE RegisterPutSocket(f)
    <2>1. /\ q'[f] = n /\ bind'[f] = bind[f] /\ socks'[f] = socks[f] /\ qidconf'[f] = qidconf[f]
          /\ f \notin txOnly /\ pc[f] = "putSocket"
          /\ \/ pc'[f] = "putQueue" /\ xsks'[f] = xsks[f] \cup {n}
             \/ pc'[f] = "closeAll" /\ xsks'[f] = xsks[f]
        BY <1>t, <1>5 DEF n, TypeOK, RegisterPutSocket, program, cursors
    <2> QED BY <1>1, <1>l, <1>t, <2>1 DEF n, FleetPlaced, SocketsPlaced, SocketsMapped, QueuesEnabled
<1>6. CASE RegisterPutQueue(f)
    <2>1. /\ bind'[f] = bind[f] /\ socks'[f] = socks[f] /\ xsks'[f] = xsks[f] /\ pc[f] = "putQueue"
          /\ \/ pc'[f] = "closeAll" /\ qidconf'[f] = qidconf[f]
             \/ /\ qidconf'[f] = qidconf[f] \cup {n}
                /\ \/ n + 1 < NumQueues /\ q'[f] = n + 1 /\ pc'[f] = "socket"
                   \/ ~(n + 1 < NumQueues) /\ q'[f] = n /\ pc'[f] = "tune"
        BY <1>t, <1>6 DEF n, TypeOK, RegisterPutQueue, program
    <2> USE <1>1, <1>l, <1>t, <2>1 DEF FleetPlaced, SocketsPlaced, SocketsMapped, QueuesEnabled
    <2>2. CASE pc'[f] = "closeAll"
        BY <2>2
    <2>3. CASE pc'[f] = "socket"
        BY <2>3, SMTT(60) DEF n
    <2>4. CASE pc'[f] = "tune"
        BY <2>4, SMTT(60) DEF n
    <2> QED BY <2>2, <2>3, <2>4
<1>7. CASE OpenClosesOne(f)
    <2>1. /\ pc'[f] = "closeAll" /\ qidconf'[f] = qidconf[f]
          /\ \E queue : socks'[f] = socks[f] \ {queue} /\ xsks'[f] = xsks[f] \ {queue}
        BY <1>t, <1>7 DEF TypeOK, OpenClosesOne, CloseSocketOf
    <2> QED BY <1>1, <1>t, <2>1 DEF FleetPlaced, SocketsPlaced, SocketsMapped, QueuesEnabled
<1>8. CASE OpenNextBind(f)
    <2>1. /\ pc'[f] = "socket" /\ q'[f] = 0 /\ bind'[f] = bind[f] + 1 /\ socks[f] = {}
          /\ socks'[f] = socks[f] /\ xsks'[f] = xsks[f] /\ qidconf'[f] = qidconf[f]
          /\ bind[f] \in 1..2
        BY <1>t, <1>8 DEF TypeOK, OpenNextBind, program
    <2>2. bind'[f] # 1
        BY <2>1
    <2> QED BY <1>1, <1>l, <1>t, <2>1, <2>2 DEF FleetPlaced, SocketsPlaced, SocketsMapped, QueuesEnabled
<1> QED BY <1>1, <1>2, <1>3, <1>4, <1>5, <1>6, <1>7, <1>8 DEF FleetPlaced, RegisterStep

\* A fleet that is up, or about to be.
WholeStep(f) == OpenTune(f) \/ OpenPin(f) \/ WaitLinkUp(f) \/ Forget(f) \/ CloseUnpin(f)

LEMMA WholeSteps ==
    ASSUME IInv, NEW f \in Fleets, WholeStep(f), UNCHANGED txOnly
    PROVE  FleetPlaced(f)'
<1>t. TypeOK /\ FleetPlaced(f)
    BY DEF IInv, Placed, FleetPlaced
<1>l. From(0) = Queues
    BY QueueLoop
<1> USE DEF Goto, At
<1>1. ProgramPlaced(f)'
    BY <1>t DEF TypeOK, FleetPlaced, ProgramPlaced, WholeStep, OpenTune, OpenPin, WaitLinkUp, WaitBegin,
        WaitReadsUp, WaitReadsDown, WaitTimesOut, Forget, CloseUnpin, Attached, Whole, Ended, owners, program
<1>2. /\ bind'[f] = bind[f] /\ xsks'[f] = xsks[f] /\ qidconf'[f] = qidconf[f] /\ socks'[f] = socks[f]
      /\ \/ pc[f] \in Whole /\ pc'[f] \in Whole
         \/ pc[f] \in Whole /\ pc'[f] = "unregister" /\ q'[f] = 0
         \/ pc[f] = "closed" /\ pc'[f] = "closed"
    BY <1>t DEF TypeOK, WholeStep, OpenTune, OpenPin, WaitLinkUp, WaitBegin,
        WaitReadsUp, WaitReadsDown, WaitTimesOut, Forget, CloseUnpin, Whole, program, cursors
<1>3. SocketsPlaced(f)' /\ SocketsMapped(f)' /\ QueuesEnabled(f)'
    BY <1>t, <1>l, <1>2 DEF FleetPlaced, SocketsPlaced, SocketsMapped, QueuesEnabled, Whole, Bare, Unbound,
        Ended, Mine
<1> QED BY <1>1, <1>3 DEF FleetPlaced

\* The loop of Close.
CloseStep(f) ==
    UnregisterNothing(f) \/ UnregisterQueue(f) \/ UnregisterSocket(f) \/ CloseSocket(f)

LEMMA CloseSteps ==
    ASSUME IInv, NEW f \in Fleets, CloseStep(f), UNCHANGED txOnly
    PROVE  FleetPlaced(f)'
<1> DEFINE n == q[f]
<1>t. TypeOK /\ FleetPlaced(f) /\ n \in Queues
    BY DEF IInv, Placed, FleetPlaced, TypeOK
<1>l. /\ Beyond(n) \subseteq Queues /\ From(n) \subseteq Queues
      /\ From(n) = Beyond(n) \cup {n} /\ n \notin Beyond(n)
      /\ n + 1 < NumQueues => From(n + 1) = Beyond(n)
      /\ ~(n + 1 < NumQueues) => Beyond(n) = {}
    BY <1>t, QueueLoop, Constants DEF Queues
<1> HIDE DEF n
<1> USE DEF Goto, At
<1>1. ProgramPlaced(f)'
    BY <1>t, Constants DEF n, TypeOK, FleetPlaced, ProgramPlaced, CloseStep, UnregisterNothing,
        UnregisterQueue, UnregisterSocket, CloseSocket, Attached, Whole,
        Ended, Bare, owners, program
<1> USE DEF Mine, Whole, Ended, Bare, Unbound
<1>2. CASE UnregisterNothing(f)
    <2>1. /\ pc[f] = "unregister" /\ pc'[f] = "closeSocket" /\ q'[f] = n /\ f \in txOnly
          /\ socks'[f] = socks[f] /\ xsks'[f] = xsks[f] /\ qidconf'[f] = qidconf[f]
        BY <1>t, <1>2 DEF n, TypeOK, UnregisterNothing, program, cursors
    <2> QED BY <1>1, <1>l, <1>t, <2>1 DEF n, FleetPlaced, SocketsPlaced, SocketsMapped, QueuesEnabled
<1>3. CASE UnregisterQueue(f)
    <2>1. /\ pc[f] = "unregister" /\ q'[f] = n /\ f \notin txOnly
          /\ socks'[f] = socks[f] /\ xsks'[f] = xsks[f]
          /\ \/ pc'[f] = "delete" /\ qidconf'[f] = qidconf[f] \ {n} /\ failed' = failed
             \/ pc'[f] = "closeSocket" /\ qidconf'[f] = qidconf[f] /\ f \in failed'
        BY <1>t, <1>3 DEF n, TypeOK, UnregisterQueue, cursors
    <2> QED BY <1>1, <1>l, <1>t, <2>1, SMTT(60) DEF n, FleetPlaced, SocketsPlaced, SocketsMapped, QueuesEnabled
<1>4. CASE UnregisterSocket(f)
    <2>1. /\ pc[f] = "delete" /\ pc'[f] = "closeSocket" /\ q'[f] = n /\ (f \in failed => f \in failed')
          /\ socks'[f] = socks[f] /\ qidconf'[f] = qidconf[f]
          /\ xsks'[f] = xsks[f] \/ xsks'[f] = xsks[f] \ {n}
        BY <1>t, <1>4 DEF n, TypeOK, UnregisterSocket, cursors
    <2> QED BY <1>1, <1>l, <1>t, <2>1 DEF n, FleetPlaced, SocketsPlaced, SocketsMapped, QueuesEnabled
<1>5. CASE CloseSocket(f)
    <2>1. /\ pc[f] = "closeSocket" /\ failed' = failed /\ qidconf'[f] = qidconf[f]
          /\ socks'[f] = socks[f] \ {n} /\ xsks'[f] = xsks[f] \ {n}
          /\ \/ n + 1 < NumQueues /\ q'[f] = n + 1 /\ pc'[f] = "unregister"
             \/ ~(n + 1 < NumQueues) /\ pc'[f] = "detach"
        BY <1>t, <1>5 DEF n, TypeOK, CloseSocket, CloseSocketOf, owners
    <2> QED BY <1>1, <1>l, <1>t, <2>1 DEF n, FleetPlaced, SocketsPlaced, SocketsMapped, QueuesEnabled
<1> QED BY <1>1, <1>2, <1>3, <1>4, <1>5 DEF FleetPlaced, CloseStep

\* The detach, of Open and of Close.
LEMMA DetachSteps ==
    ASSUME IInv, NEW f \in Fleets, Detaches(f)
    PROVE  FleetPlaced(f)'
<1>t. TypeOK /\ FleetPlaced(f)
    BY DEF IInv, Placed, FleetPlaced
<1>1. /\ txOnly' = txOnly /\ socks'[f] = {} /\ xsks[f] = {} /\ attached' # f /\ pinned' = pinned
      /\ \/ pc'[f] \in {"undoing", "detaching"} /\ xsks'[f] = {} /\ qidconf'[f] = qidconf[f]
         \/ /\ pc'[f] \in {"restore", "failed", "build"}
            /\ loaded'[f] = {} /\ qidconf'[f] = {} /\ xsks'[f] = {}
    <2>1. socks[f] = {} /\ xsks[f] = {}
        BY <1>t, DetachEffect DEF FleetPlaced, SocketsMapped, Mine
    <2> QED BY <1>t, <2>1, DetachEffect DEF TypeOK, fixed, Goto, Release, NextGroup
<1>2. f \notin pinned
    BY <1>t, DetachEffect DEF FleetPlaced, ProgramPlaced
<1> QED BY <1>t, <1>1, <1>2 DEF FleetPlaced, ProgramPlaced, SocketsPlaced, SocketsMapped, QueuesEnabled,
            Mine, Bare, Unbound, Ended, Attached, Whole

(***************************************************************************)
(* Every step.                                                             *)
(***************************************************************************)
World == ForeignAttaches \/ ForeignDetaches \/ LinkDrops \/ LinkReturns

LEMMA NextIsAStep ==
    ASSUME Next
    PROVE  World \/ \E f \in Fleets : Step(f)
BY DEF Next, World, Step, Opens, Open, Closes, Close, Detaches

LEMMA StepKinds ==
    ASSUME NEW f \in Fleets, Step(f)
    PROVE  BareStep(f) \/ RegisterStep(f) \/ WholeStep(f) \/ CloseStep(f) \/ Detaches(f)
BY DEF Step, Opens, Closes, BareStep, RegisterStep, WholeStep, CloseStep

LEMMA FixedStays ==
    ASSUME [Next]_vars
    PROVE  UNCHANGED fixed
<1>1. CASE UNCHANGED vars
    BY <1>1 DEF vars, program
<1>2. CASE World
    BY <1>2 DEF World, ForeignAttaches, ForeignDetaches, LinkDrops, LinkReturns, program
<1>3. ASSUME NEW f \in Fleets, Opens(f) \/ WaitLinkUp(f) PROVE UNCHANGED fixed
    BY <1>3 DEF Opens, OpenRefuses, OpenStart, OpenLookupFails, OpenBuild, OpenRemove,
        OpenRemoved, OpenResisted, OpenAttach, OpenSocket, RegisterNothing, RegisterPutSocket,
        RegisterPutQueue, OpenClosesOne, OpenNextBind, OpenTune, OpenPin, WaitLinkUp,
        WaitBegin, WaitReadsUp, WaitReadsDown, WaitTimesOut, program
<1>4. ASSUME NEW f \in Fleets, Closes(f) \/ Forget(f) \/ Collect(f) PROVE UNCHANGED fixed
    BY <1>4 DEF Closes, CloseUnpin, UnregisterNothing, UnregisterQueue, UnregisterSocket, CloseSocket,
        CloseRestore, Forget, Collect, program
<1>5. ASSUME NEW f \in Fleets, Detaches(f) PROVE UNCHANGED fixed
    BY <1>5 DEF Detaches, Detach, DetachLink, DetachNetlink, DetachRemoved, DetachFails, DetachGivesUp,
        AfterDetach
<1> QED BY <1>1, <1>2, <1>3, <1>4, <1>5, NextIsAStep DEF Step

LEMMA PlacedStep ==
    ASSUME IInv, [Next]_vars
    PROVE  Placed'
<1>1. UNCHANGED fixed
    BY FixedStays
<1>2. SUFFICES ASSUME NEW g \in Fleets PROVE FleetPlaced(g)'
    BY DEF Placed, FleetPlaced
<1>3. FleetPlaced(g)
    BY DEF IInv, Placed, FleetPlaced
<1>4. CASE UNCHANGED vars \/ World
    <2>1. Untouched(g)
        BY <1>4, Constants DEF World, ForeignAttaches, ForeignDetaches, LinkDrops, LinkReturns, Untouched,
            vars, program, cursors, owners
    <2> QED BY <1>1, <1>3, <2>1, UntouchedStays
<1>5. ASSUME NEW f \in Fleets, Step(f) PROVE FleetPlaced(g)'
    <2>1. CASE f = g
        BY <1>1, <1>5, <2>1, StepKinds, BareSteps, RegisterSteps, WholeSteps, CloseSteps, DetachSteps DEF fixed
    <2>2. CASE f # g
        BY <1>1, <1>3, <1>5, <2>2, OthersUntouched, UntouchedStays
    <2> QED BY <2>1, <2>2
<1> QED BY <1>4, <1>5, NextIsAStep

LEMMA ExclusiveStep ==
    ASSUME IInv, [Next]_vars
    PROVE  Exclusive'
<1>1. links' = links
    BY FixedStays DEF fixed
<1>2. CASE UNCHANGED vars \/ World
    BY <1>1, <1>2 DEF World, ForeignAttaches, ForeignDetaches, LinkDrops, LinkReturns, vars, IInv, Exclusive
<1>3. ASSUME NEW f \in Fleets, Step(f) PROVE Exclusive'
    <2>1. \A g \in Fleets : g # f => pc'[g] = pc[g]
        BY <1>3, OthersUntouched DEF Untouched
    <2>2. CASE pc[f] # "idle"
        BY <1>1, <2>1, <2>2 DEF IInv, Exclusive
    <2>3. CASE pc[f] = "idle"
        <3>d. ~Detaches(f)
            BY <2>3, DetachTakes
        <3>1. links \/ \A g \in Fleets : pc[g] = "idle"
            BY <1>3, <2>3, <3>d DEF Step, Opens, OpenRefuses, OpenStart, MayOpen, At, OpenLookupFails,
                OpenBuild, OpenRemove, OpenRemoved, OpenResisted, OpenAttach, OpenSocket, RegisterNothing,
                RegisterPutSocket, RegisterPutQueue, OpenClosesOne, OpenNextBind, OpenTune,
                OpenPin, WaitLinkUp, WaitBegin, WaitReadsUp, WaitReadsDown, WaitTimesOut, Closes,
                CloseUnpin, UnregisterNothing, UnregisterQueue, UnregisterSocket, CloseSocket,
                CloseRestore, Forget, Collect
        <3> QED BY <1>1, <2>1, <3>1 DEF IInv, Exclusive
    <2> QED BY <2>2, <2>3
<1> QED BY <1>2, <1>3, NextIsAStep

\* All steps but two leave the tuning alone, and a fleet that may hold it does
\* not leave the places where it may.
LEMMA TuningFrame ==
    ASSUME IInv, NEW f \in Fleets, Step(f), ~OpenTune(f), ~CloseRestore(f)
    PROVE  UNCHANGED tuning /\ (pc[f] \in MayBeTuned => pc'[f] \in MayBeTuned)
<1>t. TypeOK
    BY DEF IInv
<1> USE DEF TypeOK, At, Goto, MayBeTuned
<1>1. CASE Opens(f)
    BY <1>t, <1>1 DEF Opens, OpenRefuses, OpenStart, OpenLookupFails, OpenBuild,
        OpenRemove, OpenRemoved, OpenResisted, OpenAttach, OpenSocket, RegisterNothing, RegisterPutSocket,
        RegisterPutQueue, OpenClosesOne, OpenNextBind, OpenPin
<1>2. CASE WaitLinkUp(f)
    BY <1>t, <1>2 DEF WaitLinkUp, WaitBegin, WaitReadsUp, WaitReadsDown, WaitTimesOut
<1>3. CASE Closes(f)
    BY <1>t, <1>3 DEF Closes, CloseUnpin, UnregisterNothing, UnregisterQueue, UnregisterSocket, CloseSocket
<1>4. CASE Forget(f) \/ Collect(f)
    BY <1>t, <1>4 DEF Forget, Collect
<1>5. CASE Detaches(f)
    BY <1>t, <1>5, DetachEffect DEF NextGroup
<1> QED BY <1>1, <1>2, <1>3, <1>4, <1>5 DEF Step

LEMMA HandlesAreFinite ==
    ASSUME IInv
    PROVE  /\ IsFiniteSet(handle) /\ tuningRefs = Cardinality(handle) /\ tuningRefs \in Nat
           /\ tuningRefs = 0 <=> handle = {}
<1>1. IsFiniteSet(handle) /\ tuningRefs = Cardinality(handle)
    BY FleetAssumption, FS_Subset DEF IInv, TypeOK
<1> QED BY <1>1, FS_CardinalityType, FS_EmptySet

LEMMA TunedStep ==
    ASSUME IInv, [Next]_vars
    PROVE  Tuned' /\ (tuningRefs = Cardinality(handle))'
<1>t. TypeOK /\ Tuned
    BY DEF IInv
<1>n. /\ IsFiniteSet(handle) /\ tuningRefs = Cardinality(handle) /\ tuningRefs \in Nat
      /\ tuningRefs = 0 <=> handle = {}
    BY HandlesAreFinite
<1>1. CASE UNCHANGED vars \/ World
    <2>1. UNCHANGED <<tuning, pc>>
        BY <1>1 DEF World, ForeignAttaches, ForeignDetaches, LinkDrops, LinkReturns, vars
    <2> QED BY <1>t, <2>1 DEF TypeOK, Tuned, Found, tuning
<1>2. ASSUME NEW f \in Fleets, Step(f)
      PROVE  Tuned' /\ (tuningRefs = Cardinality(handle))'
    <2>o. \A g \in Fleets : g # f => pc'[g] = pc[g]
        BY <1>2, OthersUntouched DEF Untouched
    <2>h. handle \subseteq Fleets
        BY <1>t DEF TypeOK
    <2>1. CASE ~OpenTune(f) /\ ~CloseRestore(f)
        <3>1. /\ handle' = handle /\ tuningRefs' = tuningRefs /\ saved' = saved /\ napi' = napi /\ lost' = lost
              /\ pc[f] \in MayBeTuned => pc'[f] \in MayBeTuned
            BY <1>2, <2>1, TuningFrame DEF tuning
        <3>2. Tuned'
            BY <1>t, <2>o, <2>h, <3>1 DEF Tuned, Found
        <3>3. (tuningRefs = Cardinality(handle))'
            BY <1>n, <3>1, Zenon
        <3> QED BY <3>2, <3>3
    <2>2. CASE OpenTune(f)
        <3>1. pc[f] = "tune" /\ pc'[f] = "pin" /\ f \notin handle
            BY <1>t, <2>2 DEF OpenTune, At, Goto, TypeOK, Tuned, MayBeTuned
        <3>2. CASE UNCHANGED tuning
            BY <1>t, <2>o, <2>h, <3>1, <3>2 DEF TypeOK, Tuned, Found, tuning, MayBeTuned
        <3>3. CASE handle' = handle \cup {f} /\ ~UNCHANGED tuning
            <4>1. tuningRefs' = tuningRefs + 1
                BY <1>n, <2>2, <3>1, <3>3 DEF OpenTune, Tune
            <4>2. Cardinality(handle') = Cardinality(handle) + 1
                BY <1>n, <3>1, <3>3, FS_AddElement
            <4>3. napi' = OurValues /\ saved' = Found /\ lost' = lost
                BY <1>t, <1>n, <2>2, <3>1, <3>3 DEF OpenTune, Tune, Tuned
            <4> QED BY <1>t, <1>n, <2>o, <2>h, <3>1, <3>3, <4>1, <4>2, <4>3 DEF Tuned, Found, MayBeTuned
        <3>4. CASE handle' = handle /\ ~UNCHANGED tuning
            <4>1. /\ tuningRefs' = tuningRefs /\ handle = {}
                  /\ napi' = [napi EXCEPT !.defer = "ours"] /\ lost' = lost \cup {"defer"}
                BY <1>n, <2>2, <3>1, <3>4 DEF OpenTune, Tune
            <4>2. napi = Found /\ Attributes = {"defer", "flush"}
                BY <1>t, <4>1 DEF Tuned, Attributes, HostValues
            <4>3. napi' = Found'
                BY <4>1, <4>2 DEF Found, Attributes
            <4> QED BY <1>n, <3>4, <4>1, <4>3, Zenon DEF Tuned
        <3> QED BY <1>n, <2>2, <3>2, <3>3, <3>4 DEF OpenTune, Tune
    <2>3. CASE CloseRestore(f)
        <3>1. pc[f] = "restore" /\ pc'[f] = "closed"
            BY <1>t, <2>3 DEF CloseRestore, At, Goto, TypeOK
        <3>2. CASE f \notin handle
            <4>1. /\ handle' = handle /\ tuningRefs' = tuningRefs /\ saved' = saved /\ napi' = napi
                  /\ lost' = lost
                BY <2>3, <3>2 DEF CloseRestore, tuning
            <4>2. Tuned'
                BY <1>t, <2>o, <2>h, <3>2, <4>1 DEF Tuned, Found
            <4>3. (tuningRefs = Cardinality(handle))'
                BY <1>n, <4>1, Zenon
            <4> QED BY <4>2, <4>3
        <3>3. CASE f \in handle
            <4>1. handle' = handle \ {f} /\ tuningRefs' = tuningRefs - 1
                BY <2>3, <3>3 DEF CloseRestore
            <4>2. IsFiniteSet(handle') /\ Cardinality(handle') = Cardinality(handle) - 1
                BY <1>n, <3>3, <4>1, FS_RemoveElement
            <4>c. Cardinality(handle') = 0 <=> handle' = {}
                BY <4>2, FS_EmptySet
            <4>3. tuningRefs > 1 <=> handle' # {}
                BY <1>n, <3>3, <4>2, <4>c
            <4>4. napi = OurValues /\ saved = Found
                BY <1>t, <3>3 DEF Tuned
            <4>5. CASE handle' # {}
                <5>1. napi' = napi /\ lost' = lost /\ saved' = saved
                    BY <2>3, <3>3, <4>3, <4>5 DEF CloseRestore
                <5> QED BY <1>t, <1>n, <2>o, <2>h, <3>1, <3>3, <4>1, <4>2, <4>4, <4>5, <5>1 DEF Tuned, Found
            <4>6. CASE handle' = {}
                <5>1. PICK stuck \in SUBSET Attributes :
                          /\ napi' = [a \in Attributes |-> IF a \in stuck THEN napi[a] ELSE saved[a]]
                          /\ lost' = lost \cup stuck
                    BY <2>3, <3>3, <4>3, <4>6 DEF CloseRestore
                <5>2. napi' = Found'
                    BY <4>4, <5>1 DEF Found, OurValues, HostValues, Attributes
                <5> QED BY <1>n, <4>1, <4>2, <4>6, <5>2 DEF Tuned
            <4> QED BY <4>5, <4>6
        <3> QED BY <3>2, <3>3
    <2> QED BY <2>1, <2>2, <2>3
<1> QED BY <1>1, <1>2, NextIsAStep

(***************************************************************************)
(* The link.                                                               *)
(***************************************************************************)

\* One fleet at most is up or waiting: the one whose program is attached.
LEMMA OneIsUp ==
    ASSUME IInv, NEW f \in Fleets
    PROVE  /\ f \in settled \/ ups[f] > 0 => attached = f
           /\ pc[f] \in {"up", "waiting"} => attached = f
BY DEF IInv, Placed, ProgramPlaced, LinkFollowed, Waited, TypeOK, Attached, Whole

LEMMA WaitStep ==
    ASSUME IInv, NEW f \in Fleets, WaitLinkUp(f)
    PROVE  LinkFollowed'
<1>t. /\ carrier \in BOOLEAN /\ bounces \in Nat /\ quiet \in 0..Stable /\ Stable \in Nat \ {0}
      /\ ups \in [Fleets -> 0..(Stable - 1)] /\ settled \subseteq Fleets /\ pc \in [Fleets -> Labels]
    BY FleetAssumption DEF IInv, TypeOK
<1>l. Bouncing /\ LinkUpIsSettled /\ \A g \in Fleets : Waited(g)
    BY DEF IInv, LinkFollowed
<1>o. attached = f /\ \A g \in Fleets : g # f => g \notin settled /\ ~(ups[g] > 0) /\ pc[g] \notin {"up", "waiting"}
    BY OneIsUp DEF WaitLinkUp, WaitBegin, WaitReadsUp, WaitReadsDown, WaitTimesOut, At
<1> USE DEF At, Goto
<1>1. CASE WaitBegin(f)
    BY <1>t, <1>l, <1>o, <1>1 DEF WaitBegin, LinkFollowed, Bouncing, LinkUpIsSettled, Waited
<1>2. CASE WaitReadsUp(f)
    BY <1>t, <1>l, <1>o, <1>2 DEF WaitReadsUp, ReadingPasses, LinkFollowed, Bouncing, LinkUpIsSettled, Waited
<1>3. CASE WaitReadsDown(f)
    BY <1>t, <1>l, <1>o, <1>3 DEF WaitReadsDown, ReadingPasses, LinkFollowed, Bouncing, LinkUpIsSettled, Waited
<1>4. CASE WaitTimesOut(f)
    BY <1>t, <1>l, <1>o, <1>4 DEF WaitTimesOut, LinkFollowed, Bouncing, LinkUpIsSettled, Waited
<1> QED BY <1>1, <1>2, <1>3, <1>4 DEF WaitLinkUp

\* The link's own steps, and those of the fleets that do not wait.
LEMMA LinkStep ==
    ASSUME IInv, [Next]_vars, \A f \in Fleets : ~WaitLinkUp(f)
    PROVE  LinkFollowed'
<1>t. /\ carrier \in BOOLEAN /\ bounces \in Nat /\ quiet \in 0..Stable /\ Stable \in Nat \ {0}
      /\ ups \in [Fleets -> 0..(Stable - 1)] /\ settled \subseteq Fleets /\ pc \in [Fleets -> Labels]
    BY FleetAssumption DEF IInv, TypeOK
<1>l. Bouncing /\ LinkUpIsSettled /\ \A g \in Fleets : Waited(g)
    BY DEF IInv, LinkFollowed
<1>1. CASE UNCHANGED vars \/ ForeignAttaches \/ ForeignDetaches
    <2>1. UNCHANGED <<link, pc>>
        BY <1>1 DEF vars, ForeignAttaches, ForeignDetaches
    <2> QED BY <1>l, <2>1 DEF link, LinkFollowed, Bouncing, LinkUpIsSettled, Waited
<1>2. CASE LinkDrops
    BY <1>t, <1>l, <1>2 DEF LinkDrops, LinkFollowed, Bouncing, LinkUpIsSettled, Waited
<1>3. CASE LinkReturns
    BY <1>t, <1>l, <1>3 DEF LinkReturns, LinkFollowed, Bouncing, LinkUpIsSettled, Waited
<1>4. ASSUME NEW f \in Fleets, Step(f), ~WaitLinkUp(f)
      PROVE  LinkFollowed'
    <2>o. \A g \in Fleets : g # f => pc'[g] = pc[g]
        BY <1>4, OthersUntouched DEF Untouched
    <2>1. CASE OpenAttach(f) /\ UNCHANGED <<bounces, quiet>>
        <3>1. /\ pc[f] = "attach" /\ pc'[f] \notin {"up", "waiting"}
              /\ UNCHANGED <<carrier, bounces, quiet, ups, settled>>
            BY <1>t, <2>1 DEF OpenAttach, At, Goto, NextGroup
        <3> QED BY <1>l, <2>o, <3>1 DEF LinkFollowed, Bouncing, LinkUpIsSettled, Waited
    <2>2. CASE OpenAttach(f) /\ ~UNCHANGED <<bounces, quiet>>
        <3>1. /\ pc[f] = "attach" /\ pc'[f] = "socket" /\ UNCHANGED <<carrier, ups, settled>>
              /\ links => attached = "none"
              /\ bounces' \in {b \in 0..MaxBounces[links] : carrier \/ b > 0} /\ quiet' = 0
            BY <1>t, <2>2 DEF OpenAttach, At, Goto, DriverReinitializes
        <3>2. \A g \in Fleets : g \notin settled /\ ~(ups[g] > 0)
            <4> SUFFICES ASSUME NEW g \in Fleets, g \in settled \/ ups[g] > 0 PROVE FALSE
                OBVIOUS
            <4>1. attached = g /\ g # f
                BY <3>1, OneIsUp DEF IInv, Placed, ProgramPlaced, Attached, Whole
            <4> QED BY <3>1, <4>1, NotTakenOff, Constants
        <3>3. settled = {}
            BY <1>t, <3>2
        <3>4. /\ bounces' \in Nat /\ (~carrier => bounces' > 0) /\ quiet' = 0
            <4>1. MaxBounces[links] \in Nat
                BY FleetAssumption DEF IInv, TypeOK
            <4> QED BY <3>1, <4>1
        <3>5. Bouncing' /\ LinkUpIsSettled'
            BY <1>t, <3>1, <3>3, <3>4 DEF Bouncing, LinkUpIsSettled
        <3>6. \A g \in Fleets : Waited(g)'
            BY <1>t, <1>l, <2>o, <3>1, <3>2 DEF Waited
        <3> QED BY <3>5, <3>6 DEF LinkFollowed
    <2>3. CASE CloseUnpin(f)
        <3>1. /\ pc[f] = "up" /\ pc'[f] = "unregister" /\ settled' = settled \ {f}
              /\ UNCHANGED <<carrier, bounces, quiet, ups>>
            BY <1>t, <2>3 DEF CloseUnpin, At, Goto
        <3> QED BY <1>l, <2>o, <3>1 DEF LinkFollowed, Bouncing, LinkUpIsSettled, Waited
    <2>4. CASE Opens(f) /\ ~OpenAttach(f)
        <3>1. UNCHANGED link /\ pc[f] \notin {"up", "waiting"} /\ pc'[f] # "waiting"
            BY <1>t, <2>4 DEF Opens, OpenRefuses, OpenStart, OpenLookupFails, OpenBuild,
                OpenRemove, OpenRemoved, OpenResisted, OpenSocket, RegisterNothing, RegisterPutSocket,
                RegisterPutQueue, OpenClosesOne, OpenNextBind, OpenTune, OpenPin, At, Goto,
                NextGroup, NextQueue
        <3> QED BY <1>l, <2>o, <3>1 DEF link, LinkFollowed, Bouncing, LinkUpIsSettled, Waited
    <2>5. CASE Closes(f) /\ ~CloseUnpin(f)
        <3>1. UNCHANGED link /\ pc[f] \notin {"up", "waiting"} /\ pc'[f] # "waiting"
            BY <1>t, <2>5 DEF Closes, UnregisterNothing, UnregisterQueue, UnregisterSocket, CloseSocket,
                CloseRestore, At, Goto
        <3> QED BY <1>l, <2>o, <3>1 DEF link, LinkFollowed, Bouncing, LinkUpIsSettled, Waited
    <2>6. CASE Forget(f) \/ Collect(f)
        <3>1. /\ UNCHANGED link
              /\ \/ pc'[f] = pc[f]
                 \/ pc[f] \notin {"up", "waiting"} /\ pc'[f] = "idle"
            BY <1>t, <2>6 DEF Forget, Collect, At, Goto
        <3> QED BY <1>l, <2>o, <3>1 DEF link, LinkFollowed, Bouncing, LinkUpIsSettled, Waited
    <2>7. CASE Detaches(f)
        <3>1. UNCHANGED link /\ pc[f] \notin {"up", "waiting"} /\ pc'[f] # "waiting"
            BY <1>t, <2>7, DetachEffect DEF Goto, NextGroup
        <3> QED BY <1>l, <2>o, <3>1 DEF link, LinkFollowed, Bouncing, LinkUpIsSettled, Waited
    <2> QED BY <1>4, <2>1, <2>2, <2>3, <2>4, <2>5, <2>6, <2>7 DEF Step
<1> QED BY <1>1, <1>2, <1>3, <1>4, NextIsAStep DEF World

(***************************************************************************)
(* Types.                                                                  *)
(***************************************************************************)
ProgramTyped ==
    /\ attached \in Fleets \cup {"none", "leftover", "left", "foreign"}
    /\ loaded \in [Fleets -> SUBSET {"qidconf", "xsks", "prog"}]
    /\ qidconf \in [Fleets -> SUBSET Queues] /\ xsks \in [Fleets -> SUBSET Queues]
    /\ socks \in [Fleets -> SUBSET Queues]

PlacesTyped ==
    /\ pc \in [Fleets -> Labels]
    /\ group \in [Fleets -> 1..Len(Groups)] /\ bind \in [Fleets -> 1..2] /\ q \in [Fleets -> Queues]

OwnersTyped ==
    /\ failed \subseteq Fleets /\ pinned \subseteq Fleets /\ reachable \subseteq Fleets
    /\ handle \subseteq Fleets
    /\ napi \in [defer : {"host", "ours"}, flush : {"host", "ours"}]
    /\ saved \in [defer : {"host", "ours"}, flush : {"host", "ours"}]
    /\ lost \subseteq Attributes

LinkTyped ==
    /\ carrier \in BOOLEAN /\ bounces \in Nat /\ quiet \in 0..Stable
    /\ ups \in [Fleets -> 0..(Stable - 1)] /\ settled \subseteq Fleets

FixedTyped == links \in LinkSupport /\ txOnly \in TxOnly

LEMMA TypesInParts ==
    TypeOK <=> /\ FixedTyped /\ ProgramTyped /\ PlacesTyped /\ OwnersTyped /\ LinkTyped
               /\ tuningRefs = Cardinality(handle)
<1>1. {qidconf, xsks, socks} \subseteq [Fleets -> SUBSET Queues] <=>
          /\ qidconf \in [Fleets -> SUBSET Queues] /\ xsks \in [Fleets -> SUBSET Queues]
          /\ socks \in [Fleets -> SUBSET Queues]
    BY Zenon
<1>2. {failed, pinned, reachable, handle} \subseteq SUBSET Fleets <=>
          /\ failed \subseteq Fleets /\ pinned \subseteq Fleets /\ reachable \subseteq Fleets
          /\ handle \subseteq Fleets
    BY Zenon
<1>3. {napi, saved} \subseteq [defer : {"host", "ours"}, flush : {"host", "ours"}] <=>
          /\ napi \in [defer : {"host", "ours"}, flush : {"host", "ours"}]
          /\ saved \in [defer : {"host", "ours"}, flush : {"host", "ours"}]
    BY Zenon
<1> QED BY <1>1, <1>2, <1>3, Zenon
        DEF TypeOK, FixedTyped, ProgramTyped, PlacesTyped, OwnersTyped, LinkTyped

LEMMA LinkTypesStep ==
    ASSUME IInv, [Next]_vars
    PROVE  LinkTyped'
<1>t. LinkTyped /\ Bouncing
    BY TypesInParts DEF IInv, LinkFollowed
<1>k. Stable \in Nat \ {0} /\ MaxBounces[links] \in Nat
    BY FleetAssumption DEF IInv, TypeOK
<1>1. CASE UNCHANGED vars
    BY <1>t, <1>1 DEF LinkTyped, vars, link
<1>2. CASE World
    <2>1. CASE LinkReturns
        <3>1. bounces > 0 /\ bounces' = bounces - 1 /\ carrier' = TRUE /\ quiet' = 0 /\ UNCHANGED <<ups, settled>>
            BY <1>t, <2>1 DEF LinkReturns, Bouncing
        <3> QED BY <1>t, <1>k, <3>1 DEF LinkTyped
    <2>2. CASE LinkDrops
        <3>1. carrier' = FALSE /\ quiet' = 0 /\ UNCHANGED <<bounces, ups, settled>>
            BY <2>2 DEF LinkDrops
        <3>2. carrier' \in BOOLEAN
            BY <3>1, Zenon
        <3>3. quiet' \in 0..Stable
            BY <1>k, <3>1
        <3> QED BY <1>t, <3>1, <3>2, <3>3, Zenon DEF LinkTyped
    <2>3. CASE ForeignAttaches \/ ForeignDetaches
        BY <1>t, <2>3 DEF ForeignAttaches, ForeignDetaches, LinkTyped, link
    <2> QED BY <1>2, <2>1, <2>2, <2>3 DEF World
<1>3. ASSUME NEW f \in Fleets, Opens(f) PROVE LinkTyped'
    <2>1. CASE OpenAttach(f)
        BY <1>t, <1>k, <2>1 DEF OpenAttach, DriverReinitializes, LinkTyped
    <2>2. CASE ~OpenAttach(f)
        <3>1. UNCHANGED link
            BY <1>3, <2>2 DEF Opens, OpenRefuses, OpenStart, OpenLookupFails, OpenBuild, OpenRemove,
                OpenRemoved, OpenResisted, OpenSocket, RegisterNothing, RegisterPutSocket, RegisterPutQueue,
                OpenClosesOne, OpenNextBind, OpenTune, OpenPin
        <3> QED BY <1>t, <3>1 DEF LinkTyped, link
    <2> QED BY <2>1, <2>2
<1>4. ASSUME NEW f \in Fleets, WaitLinkUp(f) PROVE LinkTyped'
    BY <1>t, <1>k, <1>4 DEF WaitLinkUp, WaitBegin, WaitReadsUp, WaitReadsDown, WaitTimesOut, ReadingPasses,
        LinkTyped
<1>5. ASSUME NEW f \in Fleets, Closes(f) \/ Forget(f) \/ Collect(f) PROVE LinkTyped'
    BY <1>t, <1>5 DEF Closes, CloseUnpin, UnregisterNothing, UnregisterQueue, UnregisterSocket, CloseSocket,
        CloseRestore, Forget, Collect, LinkTyped, link
<1>6. ASSUME NEW f \in Fleets, Detaches(f) PROVE LinkTyped'
    BY <1>t, <1>6, DetachEffect DEF LinkTyped, link
<1> QED BY <1>1, <1>2, <1>3, <1>4, <1>5, <1>6, NextIsAStep DEF Step

LEMMA OwnersTypesStep ==
    ASSUME IInv, [Next]_vars
    PROVE  OwnersTyped'
<1>t. OwnersTyped
    BY TypesInParts DEF IInv
<1> USE DEF OwnersTyped, owners, tuning
<1>1. CASE UNCHANGED vars \/ World
    BY <1>t, <1>1 DEF vars, World, ForeignAttaches, ForeignDetaches, LinkDrops, LinkReturns
<1>2. ASSUME NEW f \in Fleets, Opens(f), ~OpenTune(f) PROVE OwnersTyped'
    BY <1>t, <1>2 DEF Opens, OpenRefuses, OpenStart, OpenLookupFails, OpenBuild, OpenRemove,
        OpenRemoved, OpenResisted, OpenAttach, OpenSocket, RegisterNothing, RegisterPutSocket,
        RegisterPutQueue, OpenClosesOne, OpenNextBind, OpenPin
<1>3. ASSUME NEW f \in Fleets, OpenTune(f) PROVE OwnersTyped'
    BY <1>t, <1>3 DEF OpenTune, Tune, OurValues, Attributes, HostValues
<1>4. ASSUME NEW f \in Fleets, WaitLinkUp(f) \/ Forget(f) \/ Collect(f) PROVE OwnersTyped'
    BY <1>t, <1>4 DEF WaitLinkUp, WaitBegin, WaitReadsUp, WaitReadsDown, WaitTimesOut, Forget, Collect
<1>5. ASSUME NEW f \in Fleets, Closes(f) PROVE OwnersTyped'
    BY <1>t, <1>5 DEF Closes, CloseUnpin, UnregisterNothing, UnregisterQueue, UnregisterSocket, CloseSocket,
        CloseRestore, Attributes, HostValues
<1>6. ASSUME NEW f \in Fleets, Detaches(f) PROVE OwnersTyped'
    BY <1>t, <1>6, DetachEffect
<1> QED BY <1>1, <1>2, <1>3, <1>4, <1>5, <1>6, NextIsAStep DEF Step

\* The places of the other fleets do not change: it is enough to type one.
LEMMA PlacesTypesStep ==
    ASSUME IInv, [Next]_vars
    PROVE  PlacesTyped'
<1>t. PlacesTyped
    BY TypesInParts DEF IInv
<1>k. /\ NumQueues \in Nat \ {0} /\ 0 \in Queues
      /\ Len(Groups) \in 1..2 /\ \A i \in 1..Len(Groups) : Len(Groups[i].binds) \in 1..2
    BY Constants, QueueLoop
<1> USE DEF Goto, cursors
<1>1. CASE UNCHANGED vars \/ World
    BY <1>t, <1>1 DEF PlacesTyped, vars, World, ForeignAttaches, ForeignDetaches, LinkDrops, LinkReturns
<1>2. ASSUME NEW f \in Fleets, Step(f), ~Detaches(f) PROVE PlacesTyped'
    <2>1. pc' \in [Fleets -> Labels]
        <3>1. (\E label \in Labels : Goto(f, label)) \/ pc' = pc
            BY <1>2 DEF Step, Opens, OpenRefuses, OpenStart, OpenLookupFails, OpenBuild, OpenRemove,
                OpenRemoved, OpenResisted, OpenAttach, OpenSocket, RegisterNothing, RegisterPutSocket,
                RegisterPutQueue, OpenClosesOne, OpenNextBind, OpenTune, OpenPin, WaitLinkUp,
                WaitBegin, WaitReadsUp, WaitReadsDown, WaitTimesOut, Forget, Collect, Closes, CloseUnpin,
                UnregisterNothing, UnregisterQueue, UnregisterSocket, CloseSocket, CloseRestore, NextGroup, NextQueue, Labels, Opening, Closing
        <3> QED BY <1>t, <3>1 DEF PlacesTyped
    <2>2. group' \in [Fleets -> 1..Len(Groups)]
        <3>1. \/ group' = group
              \/ group' = [group EXCEPT ![f] = 1]
              \/ group[f] < Len(Groups) /\ group' = [group EXCEPT ![f] = @ + 1]
            BY <1>2 DEF Step, Opens, OpenRefuses, OpenStart, OpenLookupFails, OpenBuild, OpenRemove,
                OpenRemoved, OpenResisted, OpenAttach, OpenSocket, RegisterNothing, RegisterPutSocket,
                RegisterPutQueue, OpenClosesOne, OpenNextBind, OpenTune, OpenPin, WaitLinkUp,
                WaitBegin, WaitReadsUp, WaitReadsDown, WaitTimesOut, Forget, Collect, Closes, CloseUnpin,
                UnregisterNothing, UnregisterQueue, UnregisterSocket, CloseSocket, CloseRestore, NextGroup
        <3> QED BY <1>t, <1>k, <3>1, SMTT(60) DEF PlacesTyped
    <2>3. bind' \in [Fleets -> 1..2]
        <3>1. \/ bind' = bind
              \/ bind' = [bind EXCEPT ![f] = 1]
              \/ bind[f] < Len(Groups[group[f]].binds) /\ bind' = [bind EXCEPT ![f] = @ + 1]
            BY <1>2 DEF Step, Opens, OpenRefuses, OpenStart, OpenLookupFails, OpenBuild, OpenRemove,
                OpenRemoved, OpenResisted, OpenAttach, OpenSocket, RegisterNothing, RegisterPutSocket,
                RegisterPutQueue, OpenClosesOne, OpenNextBind, OpenTune, OpenPin, WaitLinkUp,
                WaitBegin, WaitReadsUp, WaitReadsDown, WaitTimesOut, Forget, Collect, Closes, CloseUnpin,
                UnregisterNothing, UnregisterQueue, UnregisterSocket, CloseSocket, CloseRestore
        <3>2. Len(Groups[group[f]].binds) \in 1..2
            BY <1>t, <1>k DEF PlacesTyped
        <3>3. bind[f] < Len(Groups[group[f]].binds) => bind[f] + 1 \in 1..2
            <4> DEFINE variants == Len(Groups[group[f]].binds)
            <4>1. bind[f] \in 1..2 /\ variants \in 1..2
                BY <1>t, <3>2 DEF PlacesTyped
            <4> HIDE DEF variants
            <4>2. bind[f] < variants => bind[f] + 1 \in 1..2
                BY <4>1
            <4> QED BY <4>2 DEF variants
        <3> QED BY <1>t, <3>1, <3>3 DEF PlacesTyped
    <2>4. q' \in [Fleets -> Queues]
        <3>1. \/ q' = q
              \/ q' = [q EXCEPT ![f] = 0]
              \/ q[f] + 1 < NumQueues /\ q' = [q EXCEPT ![f] = @ + 1]
            BY <1>2 DEF Step, Opens, OpenRefuses, OpenStart, OpenLookupFails, OpenBuild, OpenRemove,
                OpenRemoved, OpenResisted, OpenAttach, OpenSocket, RegisterNothing, RegisterPutSocket,
                RegisterPutQueue, OpenClosesOne, OpenNextBind, OpenTune, OpenPin, WaitLinkUp,
                WaitBegin, WaitReadsUp, WaitReadsDown, WaitTimesOut, Forget, Collect, Closes, CloseUnpin,
                UnregisterNothing, UnregisterQueue, UnregisterSocket, CloseSocket, CloseRestore, NextQueue
        <3>2. q[f] \in Queues /\ (q[f] + 1 < NumQueues => q[f] + 1 \in Queues)
            BY <1>t, QueueLoop DEF PlacesTyped
        <3> QED BY <1>t, <1>k, <3>1, <3>2 DEF PlacesTyped
    <2> QED BY <2>1, <2>2, <2>3, <2>4 DEF PlacesTyped
<1>3. ASSUME NEW f \in Fleets, Detaches(f) PROVE PlacesTyped'
    <2>1. \/ group' = group
          \/ group[f] < Len(Groups) /\ group' = [group EXCEPT ![f] = @ + 1]
        BY <1>3, DetachEffect DEF NextGroup
    <2>2. group' \in [Fleets -> 1..Len(Groups)]
        BY <1>t, <1>k, <2>1, SMTT(60) DEF PlacesTyped
    <2>3. (\E label \in Labels : Goto(f, label)) /\ UNCHANGED <<bind, q>>
        BY <1>3, DetachEffect DEF NextGroup, Labels, Opening, Closing
    <2> QED BY <1>t, <2>2, <2>3 DEF PlacesTyped
<1> QED BY <1>1, <1>2, <1>3, NextIsAStep

LEMMA ProgramTypesStep ==
    ASSUME IInv, [Next]_vars
    PROVE  ProgramTyped'
<1>t. ProgramTyped /\ PlacesTyped
    BY TypesInParts DEF IInv
<1> USE DEF program
<1>1. CASE UNCHANGED vars \/ World
    BY <1>t, <1>1 DEF ProgramTyped, vars, World, ForeignAttaches, ForeignDetaches, LinkDrops, LinkReturns
<1>2. ASSUME NEW f \in Fleets, Step(f), ~Detaches(f) PROVE ProgramTyped'
    <2>q. q[f] \in Queues
        BY <1>t DEF PlacesTyped
    <2>1. attached' \in Fleets \cup {"none", "leftover", "left", "foreign"}
        <3>1. attached' \in {attached, f, "none"}
            BY <1>2 DEF Step, Opens, OpenRefuses, OpenStart, OpenLookupFails, OpenBuild, OpenRemove,
                OpenRemoved, OpenResisted, OpenAttach, OpenSocket, RegisterNothing, RegisterPutSocket,
                RegisterPutQueue, OpenClosesOne, OpenNextBind, OpenTune, OpenPin, WaitLinkUp,
                WaitBegin, WaitReadsUp, WaitReadsDown, WaitTimesOut, Forget, Collect, Closes, CloseUnpin,
                UnregisterNothing, UnregisterQueue, UnregisterSocket, CloseSocket, CloseRestore
        <3> QED BY <1>t, <3>1 DEF ProgramTyped
    <2>2. loaded' \in [Fleets -> SUBSET {"qidconf", "xsks", "prog"}]
        <3>1. CASE OpenBuild(f) /\ ~At(f, "failed")'
            <4>1. loaded' = [loaded EXCEPT ![f] = loaded'[f]]
                BY <1>t, <3>1 DEF OpenBuild, ProgramTyped
            <4>2. CASE pc'[f] = "remove"
                <5>1. pc[f] = "build" /\ loaded' = [loaded EXCEPT ![f] = @ \cup {"prog"}]
                    BY <1>t, <3>1, <4>2 DEF OpenBuild, At, Goto, PlacesTyped
                <5> QED BY <1>t, <5>1 DEF ProgramTyped
            <4>3. CASE pc'[f] # "remove"
                <5>1. loaded'[f] \in SUBSET {"qidconf", "xsks", "prog"}
                    BY <3>1, <4>3, BuildInOrder
                <5> QED BY <1>t, <4>1, <5>1 DEF ProgramTyped
            <4> QED BY <4>2, <4>3
        <3>2. CASE ~(OpenBuild(f) /\ ~At(f, "failed")')
            <4>1. loaded' = loaded \/ loaded' = [loaded EXCEPT ![f] = {}]
                BY <1>2, <3>2, <1>t
                   DEF Step, Opens, OpenRefuses, OpenStart, OpenLookupFails, OpenBuild, OpenRemove,
                       OpenRemoved, OpenResisted, OpenAttach, OpenSocket, RegisterNothing,
                       RegisterPutSocket, RegisterPutQueue, OpenClosesOne, OpenNextBind, OpenTune, OpenPin, WaitLinkUp, WaitBegin, WaitReadsUp, WaitReadsDown, WaitTimesOut,
                       Forget, Collect, Closes, CloseUnpin, UnregisterNothing, UnregisterQueue,
                       UnregisterSocket, CloseSocket, CloseRestore, Release, Goto, At,
                       PlacesTyped
            <4> QED BY <1>t, <4>1 DEF ProgramTyped
        <3> QED BY <3>1, <3>2
    <2>3. qidconf' \in [Fleets -> SUBSET Queues]
        <3>1. \/ qidconf' = qidconf
              \/ qidconf' = [qidconf EXCEPT ![f] = {}]
              \/ qidconf' = [qidconf EXCEPT ![f] = @ \cup {q[f]}]
              \/ qidconf' = [qidconf EXCEPT ![f] = @ \ {q[f]}]
            BY <1>2 DEF Step, Opens, OpenRefuses, OpenStart, OpenLookupFails, OpenBuild, OpenRemove,
                OpenRemoved, OpenResisted, OpenAttach, OpenSocket, RegisterNothing, RegisterPutSocket,
                RegisterPutQueue, OpenClosesOne, OpenNextBind, OpenTune, OpenPin, WaitLinkUp,
                WaitBegin, WaitReadsUp, WaitReadsDown, WaitTimesOut, Forget, Collect, Closes, CloseUnpin,
                UnregisterNothing, UnregisterQueue, UnregisterSocket, CloseSocket, CloseRestore, Release
        <3> QED BY <1>t, <2>q, <3>1 DEF ProgramTyped
    <2>4. xsks' \in [Fleets -> SUBSET Queues] /\ socks' \in [Fleets -> SUBSET Queues]
        <3>1. \/ xsks' = xsks /\ socks' = socks
              \/ xsks' = [xsks EXCEPT ![f] = {}] /\ socks' = socks
              \/ xsks' = [xsks EXCEPT ![f] = @ \cup {q[f]}] /\ socks' = socks
              \/ xsks' = [xsks EXCEPT ![f] = @ \ {q[f]}] /\ socks' = socks
              \/ socks' = [socks EXCEPT ![f] = @ \cup {q[f]}] /\ xsks' = xsks
              \/ \E queue : CloseSocketOf(f, queue)
            BY <1>2 DEF Step, Opens, OpenRefuses, OpenStart, OpenLookupFails, OpenBuild, OpenRemove,
                OpenRemoved, OpenResisted, OpenAttach, OpenSocket, RegisterNothing, RegisterPutSocket,
                RegisterPutQueue, OpenClosesOne, OpenNextBind, OpenTune, OpenPin, WaitLinkUp,
                WaitBegin, WaitReadsUp, WaitReadsDown, WaitTimesOut, Forget, Collect, Closes, CloseUnpin,
                UnregisterNothing, UnregisterQueue, UnregisterSocket, CloseSocket, CloseRestore, Release
        <3> QED BY <1>t, <2>q, <3>1 DEF ProgramTyped, CloseSocketOf
    <2> QED BY <2>1, <2>2, <2>3, <2>4 DEF ProgramTyped
<1>3. ASSUME NEW f \in Fleets, Detaches(f) PROVE ProgramTyped'
    <2>1. /\ attached' \in {attached, "none", "left"} /\ socks' = socks
          /\ \/ UNCHANGED <<loaded, qidconf, xsks>>
             \/ Release(f)
        BY <1>3, DetachEffect
    <2> QED BY <1>t, <2>1 DEF ProgramTyped, Release
<1> QED BY <1>1, <1>2, <1>3, NextIsAStep

LEMMA LeftStep ==
    ASSUME IInv, [Next]_vars
    PROVE  LeftWithoutLinks'
<1>1. links' = links /\ LeftWithoutLinks
    BY FixedStays DEF fixed, IInv
<1>2. CASE UNCHANGED vars \/ World
    BY <1>1, <1>2 DEF LeftWithoutLinks, vars, program, World, ForeignAttaches, ForeignDetaches, LinkDrops,
        LinkReturns
<1>3. ASSUME NEW f \in Fleets, Step(f), ~Detaches(f) PROVE LeftWithoutLinks'
    <2>1. attached' \in {attached, f, "none"}
        BY <1>3 DEF Step, Opens, OpenRefuses, OpenStart, OpenLookupFails, OpenBuild, OpenRemove,
            OpenRemoved, OpenResisted, OpenAttach, OpenSocket, RegisterNothing, RegisterPutSocket,
            RegisterPutQueue, OpenClosesOne, OpenNextBind, OpenTune, OpenPin, WaitLinkUp, WaitBegin,
            WaitReadsUp, WaitReadsDown, WaitTimesOut, Forget, Collect, Closes, CloseUnpin,
            UnregisterNothing, UnregisterQueue, UnregisterSocket, CloseSocket, CloseRestore, program
    <2> QED BY <1>1, <2>1, Constants DEF LeftWithoutLinks
<1>4. ASSUME NEW f \in Fleets, Detaches(f) PROVE LeftWithoutLinks'
    BY <1>1, <1>4, DetachEffect DEF LeftWithoutLinks
<1> QED BY <1>2, <1>3, <1>4, NextIsAStep

LEMMA TypesStep ==
    ASSUME IInv, [Next]_vars
    PROVE  TypeOK'
<1>1. FixedTyped'
    BY TypesInParts, FixedStays DEF IInv, FixedTyped, fixed
<1>2. /\ FixedTyped' /\ ProgramTyped' /\ PlacesTyped' /\ OwnersTyped' /\ LinkTyped'
      /\ (tuningRefs = Cardinality(handle))'
    BY <1>1, ProgramTypesStep, PlacesTypesStep, OwnersTypesStep, LinkTypesStep, TunedStep
<1> QED BY <1>2, TypesInParts, PTL

(***************************************************************************)
(* The theorems.                                                           *)
(***************************************************************************)
LEMMA InitEstablishes == Init => IInv
<1> SUFFICES ASSUME Init PROVE IInv
    OBVIOUS
<1>1. TypeOK
    <2>1. /\ 0 \in Queues /\ 0 \in Nat /\ 0 \in 0..Stable /\ 0 \in 0..(Stable - 1)
          /\ 1 \in 1..Len(Groups) /\ 1 \in 1..2
        <3>1. Stable \in Nat \ {0}
            BY FleetAssumption
        <3>2. 0 \in Queues /\ 1 \in 1..Len(Groups)
            BY QueueLoop, Constants
        <3> QED BY <3>1, <3>2
    <2>2. FixedTyped /\ ProgramTyped /\ OwnersTyped
        BY DEF Init, FixedTyped, ProgramTyped, OwnersTyped, HostValues, Attributes
    <2>3. PlacesTyped /\ LinkTyped
        BY <2>1 DEF Init, PlacesTyped, LinkTyped, Labels
    <2>4. tuningRefs = Cardinality(handle)
        BY FS_EmptySet DEF Init
    <2> QED BY <2>2, <2>3, <2>4, TypesInParts
<1>2. Exclusive /\ LeftWithoutLinks /\ Tuned /\ LinkFollowed
    BY FleetAssumption DEF Init, Exclusive, LeftWithoutLinks, Tuned, Found, HostValues, Attributes, LinkFollowed, Bouncing, LinkUpIsSettled, Waited
<1>3. Placed
    BY Constants DEF Init, Placed, ProgramPlaced, SocketsPlaced, SocketsMapped, QueuesEnabled, Mine, Bare,
        Unbound, Ended, Whole, Attached
<1> QED BY <1>1, <1>2, <1>3 DEF IInv

\* Wherever the Opens and Closes of the fleets are, their sockets, maps, handles
\* and the link are as that place says.
THEOREM Invariant == Spec => []IInv
<1>1. IInv /\ [Next]_vars => IInv'
    <2> SUFFICES ASSUME IInv, [Next]_vars PROVE IInv'
        OBVIOUS
    <2>1. LinkFollowed'
        BY WaitStep, LinkStep
    <2> QED BY <2>1, TypesStep, ExclusiveStep, PlacedStep, LeftStep, TunedStep DEF IInv
<1> QED BY <1>1, InitEstablishes, PTL DEF Spec

\* Every variable keeps its type, and the count of the tuning is the handles'.
THEOREM TypeCorrect == Spec => []TypeOK
<1>1. IInv => TypeOK
    BY DEF IInv
<1> QED BY <1>1, Invariant, PTL

\* From Open's return until Close, every queue of the fleet delivers, whatever
\* other fleets, processes and the garbage collector do meanwhile.
THEOREM OpenDelivers == Spec => []UpDelivers
<1>1. IInv => UpDelivers
    <2> SUFFICES ASSUME IInv, NEW f \in Fleets, pc[f] \in {"up", "waiting"}
                 PROVE  /\ attached = f /\ socks[f] = Queues
                        /\ \A queue \in 0..(TotalQueues - 1) :
                               Verdict(queue) = IF f \notin txOnly /\ queue \in Queues THEN "deliver" ELSE "pass"
        BY DEF UpDelivers
    <2>1. attached = f /\ socks[f] = Queues /\ qidconf[f] = Mine(f, Queues) /\ xsks[f] = Mine(f, Queues)
        BY DEF IInv, Placed, ProgramPlaced, SocketsPlaced, SocketsMapped, QueuesEnabled, Attached, Whole
    <2> QED BY <2>1 DEF Verdict, Mine
<1> QED BY <1>1, Invariant, PTL

\* A packet the filter matches is dropped only in the wake of a failure: in an
\* Open after its first bind variant, or in a Close that met an error.
THEOREM DropsFollowFailure == Spec => []DropsOnlyAfterFailure
<1>1. IInv => DropsOnlyAfterFailure
    <2> SUFFICES ASSUME IInv, NEW queue \in Queues, Verdict(queue) = "drop"
                 PROVE  \/ pc[attached] = "closeAll"
                        \/ bind[attached] > 1 /\ pc[attached] \in {"socket", "putSocket", "putQueue"}
                        \/ attached \in failed
        BY DEF DropsOnlyAfterFailure
    <2>1. PICK f \in Fleets : attached = f /\ queue \in qidconf[f] /\ queue \notin xsks[f]
        BY DEF Verdict
    <2>2. /\ FleetPlaced(f) /\ f \in Fleets /\ attached = f
          /\ bind[f] \in 1..2 /\ q[f] \in Queues
        BY <2>1 DEF IInv, Placed, FleetPlaced, TypeOK
    <2>3. /\ UpTo(q[f]) = Before(q[f]) \cup {q[f]} /\ From(q[f]) = Beyond(q[f]) \cup {q[f]}
        BY <2>2, QueueLoop
    <2>4. pc[f] \in Attached
        BY <2>2 DEF FleetPlaced, ProgramPlaced
    <2> SUFFICES ASSUME pc[f] # "closeAll", f \notin failed,
                        bind[f] = 1 \/ pc[f] \notin {"socket", "putSocket", "putQueue"}
                 PROVE  FALSE
        BY <2>2
    <2>5. CASE pc[f] \in {"socket", "putSocket", "putQueue"}
        BY <2>1, <2>2, <2>3, <2>5 DEF FleetPlaced, SocketsPlaced, SocketsMapped, QueuesEnabled, Mine
    <2>6. CASE pc[f] \in Whole
        BY <2>1, <2>2, <2>6 DEF FleetPlaced, SocketsPlaced, SocketsMapped, QueuesEnabled, Mine, Whole
    <2>7. CASE pc[f] \in {"unregister", "delete", "closeSocket", "detach"}
        BY <2>1, <2>2, <2>3, <2>7 DEF FleetPlaced, SocketsPlaced, SocketsMapped, QueuesEnabled, Mine
    <2> QED BY <2>4, <2>5, <2>6, <2>7 DEF Attached, Whole
<1> QED BY <1>1, Invariant, PTL

\* A fleet that is not open, for an Open that failed at any step or a Close with
\* or without errors, has nothing loaded, pinned, tuned or bound, and its program
\* is not attached but for one case, which links rule out: a Detach that could not
\* reach the interface, after which the program is there and is no fleet's.
THEOREM LeavesNothing == Spec => []NothingLeftBehind
<1>1. IInv => NothingLeftBehind
    BY DEF IInv, Placed, ProgramPlaced, SocketsPlaced, SocketsMapped, QueuesEnabled, LeftWithoutLinks, Tuned,
        MayBeTuned, Mine, NothingLeftBehind, Bare, Unbound, Ended, Attached, Whole
<1> QED BY <1>1, Invariant, PTL

\* Each of the interface's values is the tuning's while some fleet holds it and
\* the host's otherwise, unless a write of that value back failed at some time:
\* any number of fleets, of tunings and of failures to write.
THEOREM TuningHeld == Spec => []TunedWhileHeld
<1>1. IInv => TunedWhileHeld
    BY DEF IInv, Tuned, TunedWhileHeld, Found, OurValues, HostValues, Attributes
<1> QED BY <1>1, Invariant, PTL

\* When WaitLinkUp has reported the link up, no bounce of it is still to come,
\* for any number of bounces and of readings asked for.
THEOREM WaitSettles == Spec => []LinkUpIsSettled
<1>1. IInv => LinkUpIsSettled
    BY DEF IInv, LinkFollowed
<1> QED BY <1>1, Invariant, PTL
=============================================================================
