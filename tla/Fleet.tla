-------------------------------- MODULE Fleet --------------------------------
(***************************************************************************)
(* Opening and closing fleets on one interface (fleet.go, program.go,      *)
(* tune.go): attach an XDP program, bind and register a socket per queue,  *)
(* fall back from one mode to the next when a step fails, tune NAPI, pin   *)
(* the fleet against the garbage collector, and undo it all on Close.      *)
(* Fleets of one process open and close the same interface concurrently,   *)
(* and WaitLinkUp waits out the bounces of the link an attach sets off.    *)
(*                                                                         *)
(* External: the kernel attaches one program to an interface, refuses to   *)
(* remove one held by a BPF link, binds one socket to a queue and drops a  *)
(* closed socket from the XSK map; other processes attach and detach       *)
(* programs of theirs; a driver reinitialized by a native attach bounces   *)
(* the link.                                                               *)
(***************************************************************************)
EXTENDS OpenOptions, FiniteSets

CONSTANTS
    Fleets,         \* fleets of this process on the interface
    TotalQueues,    \* rx queues of the interface
    WithQueues,     \* the option; 0 for all of them
    Mode,           \* "auto", "generic", "nativeZC" or "native"
    AutoTune,       \* WithNoAutoTune is not given
    TxOnly,         \* choices of the fleets opened with MatchNone
    LinkSupport,    \* kernels considered: with XDP links (5.9) TRUE, without FALSE
    Stable,         \* consecutive "up" readings WaitLinkUp wants, 5 in the code
    MaxBounces      \* bound: bounces of the link after an attach, on kernels with links and without

ASSUME FleetAssumption ==
    /\ IsFiniteSet(Fleets)
    /\ TotalQueues \in Nat \ {0} /\ WithQueues \in Nat
    /\ Mode \in {"auto", "generic", "nativeZC", "native"}
    /\ AutoTune \in BOOLEAN /\ LinkSupport \subseteq BOOLEAN
    /\ TxOnly \subseteq SUBSET Fleets
    /\ Stable \in Nat \ {0} /\ MaxBounces \in [BOOLEAN -> Nat]
    /\ {"none", "leftover", "left", "foreign"} \cap Fleets = {}

NumQueues == IF WithQueues > 0 /\ WithQueues < TotalQueues THEN WithQueues ELSE TotalQueues
Queues == 0..(NumQueues - 1)

VARIABLES
    links,          \* the kernel has XDP links
    txOnly,         \* fleets whose program only passes packets, and has no maps
    attached,       \* the interface's program: a fleet's, "leftover" from before, "left" by a
                    \* Detach that failed, "foreign" or "none"
    loaded,         \* loaded[f]: which of f's program and maps are held
    qidconf,        \* qidconf[f]: the queues enabled in f's qidconf_map
    xsks,           \* xsks[f]: the queues with a socket in f's xsks_map
    socks,          \* socks[f]: the queues f has a socket bound to
    pc, group, bind, q,     \* where f's Open or Close is, and its loop cursors
    failed,         \* failed[f]: Close met an error
    pinned,         \* openFleets
    reachable,      \* fleets the application still holds
    handle,         \* fleets holding a napiTuning
    tuningRefs,     \* the count of handles for the interface
    saved,          \* the values the tuning put aside
    napi,           \* the values in force, "host" or "ours"
    lost,           \* history: the values a write of the host's failed to put back
    carrier,        \* the link's operational state is up
    bounces,        \* bounces the link has still to make
    quiet,          \* readings since the carrier changed, or since the attach
    ups,            \* ups[f]: consecutive "up" readings of f's WaitLinkUp
    settled         \* fleets whose WaitLinkUp reported the link up

fixed   == <<links, txOnly>>
program == <<fixed, attached, loaded, qidconf, xsks>>
cursors == <<group, bind, q>>
tuning  == <<handle, tuningRefs, saved, napi, lost>>
owners  == <<failed, pinned, reachable>>
link    == <<carrier, bounces, quiet, ups, settled>>
vars    == <<program, socks, pc, cursors, owners, tuning, link>>

\* napi_defer_hard_irqs and gro_flush_timeout.
HostValues == [defer |-> "host", flush |-> "host"]
OurValues  == [defer |-> "ours", flush |-> "ours"]
Attributes == DOMAIN HostValues

\* A link holds every program but those attached without one.
HeldByLink == links /\ attached \notin {"none", "leftover", "left"}

\* The modes to try, in order.
Groups == ModeGroups(Mode)

At(f, label)   == pc[f] = label
Goto(f, label) == pc' = [pc EXCEPT ![f] = label]

Init ==
    /\ links \in LinkSupport /\ txOnly \in TxOnly
    /\ attached \in {"none", "leftover", "foreign"}
    /\ loaded = [f \in Fleets |-> {}]
    /\ qidconf = [f \in Fleets |-> {}] /\ xsks = [f \in Fleets |-> {}]
    /\ socks = [f \in Fleets |-> {}]
    /\ pc = [f \in Fleets |-> "idle"]
    /\ group = [f \in Fleets |-> 1] /\ bind = [f \in Fleets |-> 1] /\ q = [f \in Fleets |-> 0]
    /\ failed = {} /\ pinned = {} /\ reachable = {}
    /\ handle = {} /\ tuningRefs = 0 /\ napi = HostValues /\ saved = HostValues /\ lost = {}
    /\ carrier = TRUE /\ bounces = 0 /\ quiet = 0
    /\ ups = [f \in Fleets |-> 0] /\ settled = {}

(***************************************************************************)
(* Pieces of the program's life.                                           *)
(***************************************************************************)

\* Program.Close, of the maps and the program.
Release(f) ==
    /\ loaded' = [loaded EXCEPT ![f] = {}]
    /\ qidconf' = [qidconf EXCEPT ![f] = {}]
    /\ xsks' = [xsks EXCEPT ![f] = {}]

\* Mutant of Detached: Detach is skipped, Program.Close is left to do it.
DetachedByCloseOnly(f) == IF attached = f /\ HeldByLink THEN "none" ELSE attached

\* What Program.Detach makes of the interface: our link closed, or whatever
\* is attached removed by netlink.
Detached(f) == IF attached = f \/ ~links THEN "none" ELSE attached

\* Open moves to the next mode group, or gives up after the last.
NextGroup(f) ==
    IF group[f] < Len(Groups)
    THEN Goto(f, "build") /\ group' = [group EXCEPT ![f] = @ + 1]
    ELSE Goto(f, "failed") /\ UNCHANGED group

(***************************************************************************)
(* The world around: other processes' programs, and the link.  After a     *)
(* native attach the carrier may drop and return a few times.  A bounce    *)
(* lasts a reading of the carrier at least, and the next one begins before *)
(* Stable readings have gone by: that is what WaitLinkUp counts on.        *)
(***************************************************************************)
ForeignAttaches ==
    /\ attached = "none"
    /\ attached' = "foreign"
    /\ UNCHANGED <<fixed, loaded, qidconf, xsks, socks, pc, cursors, owners, tuning, link>>

ForeignDetaches ==
    /\ attached = "foreign"
    /\ attached' = "none"
    /\ UNCHANGED <<fixed, loaded, qidconf, xsks, socks, pc, cursors, owners, tuning, link>>

DriverReinitializes(f) ==
    IF Groups[group[f]].native
    THEN bounces' \in {b \in 0..MaxBounces[links] : carrier \/ b > 0} /\ quiet' = 0
    ELSE UNCHANGED <<bounces, quiet>>

LinkDrops ==
    /\ carrier /\ bounces > 0
    /\ carrier' = FALSE /\ quiet' = 0
    /\ UNCHANGED <<program, socks, pc, cursors, owners, tuning, bounces, ups, settled>>

LinkReturns ==
    /\ ~carrier /\ quiet > 0
    /\ carrier' = TRUE /\ quiet' = 0
    /\ bounces' = bounces - 1
    /\ UNCHANGED <<program, socks, pc, cursors, owners, tuning, ups, settled>>

\* Time for another reading passes: a bounce that is due has begun.  After the
\* last one nothing depends on how long the link has been quiet.
ReadingPasses ==
    /\ ~(carrier /\ bounces > 0 /\ quiet + 1 = Stable)
    /\ quiet' = IF bounces > 0 /\ quiet < Stable THEN quiet + 1 ELSE quiet

(***************************************************************************)
(* Open.                                                                   *)
(***************************************************************************)

\* Without links nothing guards a program, and Attach would take a live one of
\* another fleet away: the application opens one fleet at a time (external).
MayOpen(f) == links \/ \A g \in Fleets : At(g, "idle")

\* No filter, no such interface, no queues of it to be read: nothing was begun.
OpenRefuses(f) ==
    /\ At(f, "idle")
    /\ MayOpen(f)
    /\ Goto(f, "failed")
    /\ UNCHANGED <<program, socks, cursors, owners, tuning, link>>

OpenStart(f) ==
    /\ At(f, "idle")
    /\ MayOpen(f)
    /\ Goto(f, "build")
    /\ group' = [group EXCEPT ![f] = 1]
    /\ UNCHANGED <<program, socks, bind, q, owners, tuning, link>>

\* What newFilterProgram makes, in order.
Parts(f) == IF f \in txOnly THEN <<"prog">> ELSE <<"qidconf", "xsks", "prog">>

\* The next part.  A failure closes those made so far; it is no fault of the
\* mode and ends Open.
OpenBuild(f) ==
    LET part == Parts(f)[Cardinality(loaded[f]) + 1]
    IN  /\ At(f, "build")
        /\ \/ /\ loaded' = [loaded EXCEPT ![f] = @ \cup {part}]
              /\ IF part = "prog" THEN Goto(f, "remove") ELSE UNCHANGED pc
           \/ /\ loaded' = [loaded EXCEPT ![f] = {}]
              /\ Goto(f, "failed")
        /\ UNCHANGED <<fixed, attached, qidconf, xsks, socks, cursors, owners, tuning, link>>

\* Attach begins with removeProgram: nothing is attached, or netlink removes
\* what is, which only a link can resist.
OpenRemove(f) ==
    /\ At(f, "remove")
    /\ ~HeldByLink
    /\ attached' = "none"
    /\ Goto(f, IF attached = "none" THEN "attach" ELSE "removing")
    /\ UNCHANGED <<fixed, loaded, qidconf, xsks, socks, cursors, owners, tuning, link>>

\* Its loop asks, with no limit, until the interface reports no program.
OpenRemoved(f) ==
    /\ At(f, "removing")
    /\ attached = "none"
    /\ Goto(f, "attach")
    /\ UNCHANGED <<program, socks, cursors, owners, tuning, link>>

\* A program held by a link: this mode is given up.
OpenResisted(f) ==
    /\ At(f, "remove")
    /\ HeldByLink
    /\ Release(f)
    /\ NextGroup(f)
    /\ UNCHANGED <<fixed, attached, socks, bind, q, owners, tuning, link>>

\* The interface cannot be looked up, before the removal or in the loop.
OpenLookupFails(f) ==
    /\ At(f, "remove") \/ At(f, "removing")
    /\ Release(f)
    /\ NextGroup(f)
    /\ UNCHANGED <<fixed, attached, socks, bind, q, owners, tuning, link>>

\* Attach by link or by netlink, as the kernel allows.  The driver may reject
\* the mode, and another program may have arrived since removeProgram.
OpenAttach(f) ==
    /\ At(f, "attach")
    /\ \/ /\ links => attached = "none"
          /\ attached' = f
          /\ Goto(f, "socket")
          /\ bind' = [bind EXCEPT ![f] = 1] /\ q' = [q EXCEPT ![f] = 0]
          /\ DriverReinitializes(f)
          /\ UNCHANGED <<loaded, qidconf, xsks, group>>
       \/ /\ Release(f)
          /\ NextGroup(f)
          /\ UNCHANGED <<attached, bind, q, bounces, quiet>>
    /\ UNCHANGED <<fixed, socks, owners, tuning, carrier, ups, settled>>

\* registerSockets: NewSocket on the next queue.  A queue binds one socket.
OpenSocket(f) ==
    /\ At(f, "socket")
    /\ \/ /\ \A g \in Fleets : q[f] \notin socks[g]
          /\ socks' = [socks EXCEPT ![f] = @ \cup {q[f]}]
          /\ Goto(f, "putSocket")
       \/ /\ Goto(f, "closeAll")
          /\ UNCHANGED socks
    /\ UNCHANGED <<program, cursors, owners, tuning, link>>

\* The queue is registered: on to the next one.
NextQueue(f) ==
    IF q[f] + 1 < NumQueues
    THEN Goto(f, "socket") /\ q' = [q EXCEPT ![f] = @ + 1]
    ELSE Goto(f, "tune") /\ UNCHANGED q

\* Register finds no maps to put anything in.
RegisterNothing(f) ==
    /\ At(f, "putSocket")
    /\ f \in txOnly
    /\ NextQueue(f)
    /\ UNCHANGED <<program, socks, group, bind, owners, tuning, link>>

\* Register, first half: the socket goes into xsks_map.
RegisterPutSocket(f) ==
    /\ At(f, "putSocket")
    /\ f \notin txOnly
    /\ \/ /\ xsks' = [xsks EXCEPT ![f] = @ \cup {q[f]}]
          /\ Goto(f, "putQueue")
       \/ /\ Goto(f, "closeAll")
          /\ UNCHANGED xsks
    /\ UNCHANGED <<fixed, attached, loaded, qidconf, socks, cursors, owners, tuning, link>>

\* Register, second half: the queue is enabled.
RegisterPutQueue(f) ==
    /\ At(f, "putQueue")
    /\ \/ /\ qidconf' = [qidconf EXCEPT ![f] = @ \cup {q[f]}]
          /\ NextQueue(f)
       \/ /\ Goto(f, "closeAll")
          /\ UNCHANGED <<qidconf, q>>
    /\ UNCHANGED <<fixed, attached, loaded, xsks, socks, group, bind, owners, tuning, link>>

\* The kernel takes a closed socket out of the XSK map.
CloseSocketOf(f, queue) ==
    /\ socks' = [socks EXCEPT ![f] = @ \ {queue}]
    /\ xsks' = [xsks EXCEPT ![f] = @ \ {queue}]

\* registerSockets failed: its sockets are closed one by one (in
\* queue order in the code; here in any).
OpenClosesOne(f) ==
    /\ At(f, "closeAll")
    /\ \E queue \in socks[f] : CloseSocketOf(f, queue)
    /\ UNCHANGED <<fixed, attached, loaded, qidconf, pc, cursors, owners, tuning, link>>

\* Mutant of OpenNextBind: the same variant is tried again.
OpenSameBind(f) ==
    /\ At(f, "closeAll") /\ socks[f] = {}
    /\ bind[f] < Len(Groups[group[f]].binds)
    /\ q' = [q EXCEPT ![f] = 0]
    /\ Goto(f, "socket")
    /\ UNCHANGED <<program, socks, group, bind, owners, tuning, link>>

\* The next bind variant under the same program.
OpenNextBind(f) ==
    /\ At(f, "closeAll") /\ socks[f] = {}
    /\ bind[f] < Len(Groups[group[f]].binds)
    /\ bind' = [bind EXCEPT ![f] = @ + 1] /\ q' = [q EXCEPT ![f] = 0]
    /\ Goto(f, "socket")
    /\ UNCHANGED <<program, socks, group, owners, tuning, link>>

(***************************************************************************)
(* Program.Detach, and the Program.Close that follows it: in Open when no  *)
(* bind variant worked, and in Close.  Open drops the error, Close reports *)
(* it; both go on.                                                         *)
(***************************************************************************)
InClose(f) == At(f, "detach") \/ At(f, "detaching")

Detaching(f) ==
    \/ At(f, "detach")
    \/ At(f, "closeAll") /\ socks[f] = {} /\ bind[f] = Len(Groups[group[f]].binds)

Removing(f) == At(f, "undoing") \/ At(f, "detaching")

\* Open goes on to the next group, Close to the tuning.
AfterDetach(f) ==
    /\ Release(f)
    /\ IF InClose(f) THEN Goto(f, "restore") /\ UNCHANGED group ELSE NextGroup(f)
    /\ UNCHANGED <<fixed, socks, bind, q, pinned, reachable, tuning, link>>

WithError(f) == IF InClose(f) THEN failed \cup {f} ELSE failed

\* By the link.  Closing its descriptor may report an error, and has let go of
\* the descriptor all the same (external: close(2)).
DetachLink(f) ==
    /\ Detaching(f) /\ links
    /\ attached' = Detached(f)
    /\ failed' \in {failed, WithError(f)}
    /\ AfterDetach(f)

\* By removeProgram.  It is done when nothing was attached, and waits when
\* something was.
DetachNetlink(f) ==
    /\ Detaching(f) /\ ~links
    /\ attached' = Detached(f)
    /\ UNCHANGED failed
    /\ IF attached = "none"
       THEN AfterDetach(f)
       ELSE /\ Goto(f, IF InClose(f) THEN "detaching" ELSE "undoing")
            /\ UNCHANGED <<fixed, loaded, qidconf, xsks, socks, cursors, pinned, reachable, tuning, link>>

DetachRemoved(f) ==
    /\ Removing(f) /\ attached = "none"
    /\ UNCHANGED <<attached, failed>>
    /\ AfterDetach(f)

Detach(f) == DetachLink(f) \/ DetachNetlink(f) \/ DetachRemoved(f)

\* The interface cannot be looked up, or netlink refuses: the program stays
\* where it is, when its last owner is about to forget it.
DetachFails(f) ==
    /\ Detaching(f) /\ ~links
    /\ attached' = IF attached = f THEN "left" ELSE attached
    /\ failed' = WithError(f)
    /\ AfterDetach(f)

\* Nor in the loop: our program is gone, and whether another came is not known.
DetachGivesUp(f) ==
    /\ Removing(f)
    /\ failed' = WithError(f)
    /\ UNCHANGED attached
    /\ AfterDetach(f)

(***************************************************************************)
(* NAPI tuning, under its mutex.  Only native mode is tuned.               *)
(***************************************************************************)

\* Mutant of Tune: a failed second write leaves the first in place.
TuneHalfApplied(f) ==
    \/ /\ tuningRefs > 0
       /\ handle' = handle \cup {f} /\ tuningRefs' = tuningRefs + 1
       /\ UNCHANGED <<saved, napi, lost>>
    \/ /\ tuningRefs = 0
       /\ napi' = [napi EXCEPT !.defer = "ours"]
       /\ UNCHANGED <<handle, tuningRefs, saved, lost>>

\* applyNAPITuning: join the tuning in force, or save the values and write
\* ours.  Reading or writing sysfs may fail; when the second write does, the
\* first value is put back, which may fail too and goes unnoticed.
Tune(f) ==
    \/ /\ tuningRefs > 0
       /\ handle' = handle \cup {f} /\ tuningRefs' = tuningRefs + 1
       /\ UNCHANGED <<saved, napi, lost>>
    \/ /\ tuningRefs = 0
       /\ handle' = handle \cup {f} /\ tuningRefs' = 1
       /\ saved' = napi /\ napi' = OurValues
       /\ UNCHANGED lost
    \/ /\ tuningRefs = 0
       /\ UNCHANGED tuning
    \/ /\ tuningRefs = 0
       /\ napi' = [napi EXCEPT !.defer = "ours"]
       /\ lost' = lost \cup {"defer"}
       /\ UNCHANGED <<handle, tuningRefs, saved>>

OpenTune(f) ==
    /\ At(f, "tune")
    /\ IF AutoTune /\ Groups[group[f]].native THEN Tune(f) ELSE UNCHANGED tuning
    /\ Goto(f, "pin")
    /\ UNCHANGED <<program, socks, cursors, owners, link>>

\* Mutant of OpenPin: the fleet is returned and not pinned.
OpenReturnsUnpinned(f) ==
    /\ At(f, "pin")
    /\ reachable' = reachable \cup {f}
    /\ Goto(f, "up")
    /\ UNCHANGED <<program, socks, cursors, failed, pinned, tuning, link>>

\* Open returns the fleet, pinned in openFleets.
OpenPin(f) ==
    /\ At(f, "pin")
    /\ pinned' = pinned \cup {f} /\ reachable' = reachable \cup {f}
    /\ Goto(f, "up")
    /\ UNCHANGED <<program, socks, cursors, failed, tuning, link>>

(***************************************************************************)
(* WaitLinkUp: a reading every 200 ms until enough in a row are "up" or    *)
(* the deadline has passed.                                                *)
(***************************************************************************)
WaitBegin(f) ==
    /\ At(f, "up") /\ f \in reachable
    /\ ups' = [ups EXCEPT ![f] = 0]
    /\ settled' = settled \ {f}
    /\ Goto(f, "waiting")
    /\ UNCHANGED <<program, socks, cursors, owners, tuning, carrier, bounces, quiet>>

WaitReadsUp(f) ==
    /\ At(f, "waiting")
    /\ carrier
    /\ ReadingPasses
    /\ IF ups[f] + 1 >= Stable
       THEN /\ ups' = [ups EXCEPT ![f] = 0]
            /\ settled' = settled \cup {f}
            /\ Goto(f, "up")
       ELSE /\ ups' = [ups EXCEPT ![f] = @ + 1]
            /\ UNCHANGED <<settled, pc>>
    /\ UNCHANGED <<program, socks, cursors, owners, tuning, carrier, bounces>>

\* Mutant of WaitReadsDown: the readings need not be consecutive.
WaitKeepsCount(f) ==
    /\ At(f, "waiting")
    /\ ReadingPasses
    /\ UNCHANGED <<program, socks, pc, cursors, owners, tuning, carrier, bounces, ups, settled>>

\* The link is down, or it cannot be looked up.
WaitReadsDown(f) ==
    /\ At(f, "waiting")
    /\ ReadingPasses
    /\ ups' = [ups EXCEPT ![f] = 0]
    /\ UNCHANGED <<program, socks, pc, cursors, owners, tuning, carrier, bounces, settled>>

WaitTimesOut(f) ==
    /\ At(f, "waiting")
    /\ ups' = [ups EXCEPT ![f] = 0]
    /\ Goto(f, "up")
    /\ UNCHANGED <<program, socks, cursors, owners, tuning, carrier, bounces, quiet, settled>>

WaitLinkUp(f) == WaitBegin(f) \/ WaitReadsUp(f) \/ WaitReadsDown(f) \/ WaitTimesOut(f)

(***************************************************************************)
(* The application lets go of a fleet, and the garbage collector: what is  *)
(* neither pinned nor reachable is finalized, which closes its link.       *)
(***************************************************************************)
Forget(f) ==
    /\ At(f, "up") \/ At(f, "closed")
    /\ f \in reachable
    /\ reachable' = reachable \ {f}
    /\ UNCHANGED <<program, socks, pc, cursors, failed, pinned, tuning, link>>

\* What is collected is "idle" again: the name stands for the next Open.
Collect(f) ==
    /\ At(f, "up") \/ At(f, "closed") \/ At(f, "failed")
    /\ f \notin pinned /\ f \notin reachable
    /\ attached' = IF attached = f /\ HeldByLink THEN "none" ELSE attached
    /\ Release(f)
    /\ failed' = failed \ {f}
    /\ IF At(f, "up")
       THEN UNCHANGED <<pc, cursors>>
       ELSE /\ Goto(f, "idle")
            /\ group' = [group EXCEPT ![f] = 1]
            /\ bind' = [bind EXCEPT ![f] = 1] /\ q' = [q EXCEPT ![f] = 0]
    /\ UNCHANGED <<fixed, socks, pinned, reachable, tuning, link>>

(***************************************************************************)
(* Close: every step is attempted whatever fails before it.                *)
(***************************************************************************)
CloseUnpin(f) ==
    /\ At(f, "up") /\ f \in reachable
    /\ pinned' = pinned \ {f}
    /\ q' = [q EXCEPT ![f] = 0]
    /\ settled' = settled \ {f}
    /\ Goto(f, "unregister")
    /\ UNCHANGED <<program, socks, group, bind, failed, reachable, tuning, carrier, bounces, quiet, ups>>

\* Unregister finds no maps either.
UnregisterNothing(f) ==
    /\ At(f, "unregister")
    /\ f \in txOnly
    /\ Goto(f, "closeSocket")
    /\ UNCHANGED <<program, socks, cursors, owners, tuning, link>>

\* Mutant of UnregisterQueue: the socket leaves the map while its queue is on.
UnregisterSocketFirst(f) ==
    /\ At(f, "unregister")
    /\ f \notin txOnly
    /\ xsks' = [xsks EXCEPT ![f] = @ \ {q[f]}]
    /\ Goto(f, "delete")
    /\ UNCHANGED <<fixed, attached, loaded, qidconf, socks, cursors, owners, tuning, link>>

\* Unregister, first half: the queue is disabled.
UnregisterQueue(f) ==
    /\ At(f, "unregister")
    /\ f \notin txOnly
    /\ \/ /\ qidconf' = [qidconf EXCEPT ![f] = @ \ {q[f]}]
          /\ Goto(f, "delete")
          /\ UNCHANGED failed
       \/ /\ failed' = failed \cup {f}
          /\ Goto(f, "closeSocket")
          /\ UNCHANGED qidconf
    /\ UNCHANGED <<fixed, attached, loaded, xsks, socks, cursors, pinned, reachable, tuning, link>>

\* Unregister, second half: the socket is deleted from the map.
UnregisterSocket(f) ==
    /\ At(f, "delete")
    /\ \/ xsks' = [xsks EXCEPT ![f] = @ \ {q[f]}] /\ UNCHANGED failed
       \/ failed' = failed \cup {f} /\ UNCHANGED xsks
    /\ Goto(f, "closeSocket")
    /\ UNCHANGED <<fixed, attached, loaded, qidconf, socks, cursors, pinned, reachable, tuning, link>>

CloseSocket(f) ==
    /\ At(f, "closeSocket")
    /\ CloseSocketOf(f, q[f])
    /\ IF q[f] + 1 < NumQueues
       THEN Goto(f, "unregister") /\ q' = [q EXCEPT ![f] = @ + 1]
       ELSE Goto(f, "detach") /\ UNCHANGED q
    /\ UNCHANGED <<fixed, attached, loaded, qidconf, group, bind, owners, tuning, link>>

\* Mutant of CloseRestore: the first to close restores, whoever else is open.
CloseRestoresAtOnce(f) ==
    /\ At(f, "restore")
    /\ handle' = handle \ {f}
    /\ tuningRefs' = 0
    /\ napi' = IF f \in handle THEN saved ELSE napi
    /\ Goto(f, "closed")
    /\ UNCHANGED <<program, socks, cursors, owners, saved, lost, link>>

\* restore: the last handle puts the saved values back, each whether or not
\* the other could be written; an error goes unnoticed, and their record goes.
CloseRestore(f) ==
    /\ At(f, "restore")
    /\ IF f \in handle
       THEN /\ handle' = handle \ {f}
            /\ tuningRefs' = tuningRefs - 1
            /\ IF tuningRefs > 1
               THEN UNCHANGED <<saved, napi, lost>>
               ELSE \E stuck \in SUBSET Attributes :
                       /\ napi' = [a \in Attributes |-> IF a \in stuck THEN napi[a] ELSE saved[a]]
                       /\ lost' = lost \cup stuck
                       /\ saved' = HostValues
       ELSE UNCHANGED tuning
    /\ Goto(f, "closed")
    /\ UNCHANGED <<program, socks, cursors, owners, link>>

Open(f) ==
    \/ OpenBuild(f) \/ OpenRemove(f) \/ OpenRemoved(f) \/ OpenResisted(f) \/ OpenAttach(f)
    \/ OpenSocket(f) \/ RegisterNothing(f) \/ RegisterPutSocket(f) \/ RegisterPutQueue(f)
    \/ OpenClosesOne(f) \/ OpenNextBind(f) \/ OpenTune(f) \/ OpenPin(f)
    \/ ~InClose(f) /\ Detach(f)

Close(f) ==
    \/ UnregisterNothing(f) \/ UnregisterQueue(f) \/ UnregisterSocket(f) \/ CloseSocket(f)
    \/ CloseRestore(f)
    \/ InClose(f) /\ Detach(f)

Next ==
    \/ ForeignAttaches \/ ForeignDetaches \/ LinkDrops \/ LinkReturns
    \/ \E f \in Fleets :
        \/ OpenRefuses(f) \/ OpenStart(f) \/ Open(f) \/ OpenLookupFails(f)
        \/ WaitLinkUp(f) \/ CloseUnpin(f) \/ Close(f) \/ DetachFails(f) \/ DetachGivesUp(f)
        \/ Forget(f) \/ Collect(f)

Spec == Init /\ [][Next]_vars

\* A goroutine that has begun Open or Close runs on.  Nothing is assumed of the
\* application, of other processes, of the link, nor that a lookup fails.
FairSpec == Spec /\ \A f \in Fleets : WF_vars(Open(f)) /\ WF_vars(Close(f))

(***************************************************************************)
(* Properties.                                                             *)
(***************************************************************************)
Opening == {"build", "remove", "removing", "attach", "socket", "putSocket", "putQueue",
            "closeAll", "undoing", "tune", "pin"}
Closing == {"unregister", "delete", "closeSocket", "detach", "detaching", "restore"}
Labels == Opening \cup Closing \cup {"idle", "up", "waiting", "closed", "failed"}

TypeOK ==
    /\ links \in LinkSupport /\ txOnly \in TxOnly
    /\ attached \in Fleets \cup {"none", "leftover", "left", "foreign"}
    /\ loaded \in [Fleets -> SUBSET {"qidconf", "xsks", "prog"}]
    /\ {qidconf, xsks, socks} \subseteq [Fleets -> SUBSET Queues]
    /\ pc \in [Fleets -> Labels]
    /\ group \in [Fleets -> 1..Len(Groups)] /\ bind \in [Fleets -> 1..2]
    /\ q \in [Fleets -> Queues]
    /\ {failed, pinned, reachable, handle} \subseteq SUBSET Fleets
    /\ tuningRefs = Cardinality(handle)
    /\ carrier \in BOOLEAN /\ bounces \in Nat /\ quiet \in 0..Stable
    /\ ups \in [Fleets -> 0..(Stable - 1)] /\ settled \subseteq Fleets
    /\ {napi, saved} \subseteq [defer : {"host", "ours"}, flush : {"host", "ours"}]
    /\ lost \subseteq Attributes

\* The fate of a packet the filter matches, at the program's redirect tail: a
\* queue not enabled passes, an enabled one without a socket in the map drops.
Verdict(queue) ==
    CASE attached \notin Fleets              -> "pass"
      [] attached \in Fleets /\ queue \notin qidconf[attached] -> "pass"
      [] attached \in Fleets /\ queue \in qidconf[attached] /\ queue \in xsks[attached] -> "deliver"
      [] OTHER -> "drop"

\* Once Open has returned and until Close, every queue's packets reach its
\* socket: nothing detaches the program, whatever the application lets go of
\* and whatever another Open tries on the interface.  Queues WithQueues leaves
\* out stay with the kernel, and so do those of a fleet that only transmits.
UpDelivers ==
    \A f \in Fleets : pc[f] \in {"up", "waiting"} =>
        /\ attached = f /\ socks[f] = Queues
        /\ \A queue \in 0..(TotalQueues - 1) :
              Verdict(queue) = IF f \notin txOnly /\ queue \in Queues THEN "deliver" ELSE "pass"

\* Registering and unregistering never drops a packet in passing: drops are
\* confined to an Open whose first bind variant failed, until it has worked
\* through the queues again, and to a Close that met an error.
DropsOnlyAfterFailure ==
    \A queue \in Queues : Verdict(queue) = "drop" =>
        \/ pc[attached] = "closeAll"
        \/ bind[attached] > 1 /\ pc[attached] \in {"socket", "putSocket", "putQueue"}
        \/ attached \in failed

\* An Open that fails and a Close leave nothing behind, whichever step failed
\* and whatever error Close met on the way.  The one thing that can stay is
\* the program of a Detach that failed, on a kernel without links: Open drops
\* that error (fleet.go:214), although its comment promises to clean up on any
\* (fleet.go:100).
NothingLeftBehind ==
    /\ \A f \in Fleets : pc[f] \in {"idle", "failed", "closed"} =>
           /\ attached # f
           /\ loaded[f] = {} /\ f \notin pinned \cup handle
           /\ socks[f] = {} /\ qidconf[f] = {} /\ xsks[f] = {}
    /\ attached = "left" => ~links

\* Each of the two values is ours exactly while some fleet holds the tuning: a
\* fleet that closes leaves them to one opened meanwhile, the last one puts
\* the host's back, and so does a tuning that failed half way.  A write of the
\* host's value that fails leaves that value ours, for good, as the next
\* tuning saves it for the host's; it does not touch the other one.
TunedWhileHeld ==
    \A a \in Attributes : napi[a] = IF handle = {} /\ a \notin lost THEN "host" ELSE "ours"

\* Open comes back, with a fleet or an error, through all its modes and bind
\* variants, and so does Close: the one thing that keeps them is another
\* program that arrives on the interface while removeProgram, in Attach or in
\* Detach, waits for it to be empty.
CallsReturn ==
    \A f \in Fleets :
        pc[f] \in Opening \cup Closing ~>
            \/ pc[f] \in {"up", "failed", "closed"}
            \/ pc[f] \in {"removing", "undoing", "detaching"} /\ attached # "none"

\* When WaitLinkUp reports the link up, the bounces of the attach are over: no
\* traffic sent from then on is lost to a link that is about to drop.
LinkUpIsSettled == settled # {} => carrier /\ bounces = 0
=============================================================================
