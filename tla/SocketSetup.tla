------------------------------ MODULE SocketSetup ------------------------------
(***************************************************************************)
(* NewSocket (socket.go, options.go): the options are completed and        *)
(* validated, then a dozen system calls acquire the socket's resources one *)
(* after the other, any of which may fail and must then release everything *)
(* acquired so far.  It is called directly, or by Open with what its list  *)
(* of options comes to.  The values are those of the code.                 *)
(*                                                                         *)
(* External: the kernel refuses a bind that asks for both copy modes.      *)
(***************************************************************************)
EXTENDS OpenOptions, FiniteSets, Functions

CONSTANTS
    RawFrames,      \* what a caller may write in NumFrames
    RawTxFrames,    \* and in TxFrames
    RawRings,       \* and in each of the four ring sizes
    RawFlags,       \* the choices of its other fields
    OptionLists,    \* lists of options given to Open
    Drivers         \* drivers of the interface

ASSUME SetupAssumption ==
    /\ RawFrames \subseteq Int /\ RawTxFrames \subseteq Int
    /\ RawRings \subseteq Int
    /\ RawFlags \subseteq [flags : SUBSET {"sg", "needWakeup", "zerocopy", "copy"},
                             hairpin : BOOLEAN, busyPoll : BOOLEAN,
                             xdp : {"default", "drv", "skb", "hw"}]
    /\ \A l \in OptionLists : /\ Len(l) \in Nat /\ DOMAIN l = 1..Len(l)
                              /\ \A i \in DOMAIN l : IsOption(l[i])

VARIABLES
    list,       \* the options of Open
    driver,     \* the interface's
    native,     \* Open is trying a native mode
    raw,        \* the Options NewSocket is passed
    opts,       \* what NewSocket works with
    phase,      \* "listed", "given", "resolved", "acquiring", "ready", "refused", "failed"
    step,       \* the next step of the acquisition
    resources,  \* what the process holds for this socket
    rings,      \* the rings the kernel was asked to create
    posted      \* the frames on the fill ring

open == <<list, driver, native>>
vars == <<open, raw, opts, phase, step, resources, rings, posted>>

(***************************************************************************)
(* The checks.                                                             *)
(***************************************************************************)

\* v & (v - 1) = 0 for a positive v, up to the largest ring considered.  (Of the
\* negative ones only the least int passes the code's test: it is left out.)
PowersOfTwo == {v \in Nat \ {0} : \E i \in 0..30 : v = 2 ^ i}

\* Mutant of Valid: the fill ring is not compared with the receive pool.
ValidIgnoringPool(o) ==
    /\ o.numFrames > 0
    /\ o.txFrames > 0 /\ o.txFrames < o.numFrames
    /\ ~(o.hairpin /\ "sg" \in o.flags)
    /\ \A r \in Rings : o.ring[r] = 0 \/ o.ring[r] \in PowersOfTwo

\* NewSocket's checks before it acquires anything.
Valid(o) ==
    /\ o.numFrames > 0
    /\ o.txFrames > 0 /\ o.txFrames < o.numFrames
    /\ ~(o.hairpin /\ "sg" \in o.flags)
    /\ \A r \in Rings : o.ring[r] = 0 \/ o.ring[r] \in PowersOfTwo
    /\ o.ring["fill"] <= o.numFrames - o.txFrames

(***************************************************************************)
(* The acquisition, in program order.                                      *)
(***************************************************************************)
BusyPoll(o) ==
    IF o.busyPoll THEN <<"preferBusyPoll", "busyPoll", "busyPollBudget">> ELSE <<>>

IfRing(o, ring, name) == IF o.ring[ring] > 0 THEN <<name>> ELSE <<>>

Acquisition(o) ==
    <<"socket", "eventfd", "umem", "registerUmem", "sizeFill", "sizeCompletion">>
    \o IfRing(o, "rx", "sizeRx") \o IfRing(o, "tx", "sizeTx")
    \o <<"offsets", "mapFill", "mapCompletion">>
    \o IfRing(o, "rx", "mapRx") \o IfRing(o, "tx", "mapTx")
    \o <<"fillPool", "bind">> \o BusyPoll(o)

\* Mutant of FillsPool: the socket is bound and left for its user to fill.
NeverFills(name) == FALSE

\* The step that splits the UMEM and posts the receive frames.
FillsPool(name) == name = "fillPool"

\* Fill(FillRingNumDescs) on the empty ring posts what the receive pool has.
FilledFrom(o) ==
    LET pool == o.numFrames - o.txFrames
    IN  IF o.ring["fill"] > pool THEN pool ELSE o.ring["fill"]

\* What a step leaves the process holding; the others only set options.
Yields == {"socket", "eventfd", "umem", "mapFill", "mapCompletion", "mapRx", "mapTx"}

\* Mutant of ReleasedByClose: the ring mappings are forgotten.
ReleasedButRings == {"socket", "eventfd", "umem"}

\* Close: the two descriptors, every mapping in ringMems, the UMEM.
ReleasedByClose == {"socket", "eventfd", "umem", "mapFill", "mapCompletion", "mapRx", "mapTx"}

RingOfStep == [sizeFill |-> "fill", sizeCompletion |-> "completion", sizeRx |-> "rx", sizeTx |-> "tx"]

(***************************************************************************)
(* Actions.                                                                *)
(***************************************************************************)
Init ==
    /\ \/ /\ raw \in {[numFrames |-> n, frameSize |-> 0, txFrames |-> t, ring |-> rs,
                       flags |-> f.flags, hairpin |-> f.hairpin, busyPoll |-> f.busyPoll,
                       xdp |-> f.xdp] :
                         n \in RawFrames, t \in RawTxFrames, rs \in [Rings -> RawRings],
                         f \in RawFlags}
          /\ phase = "given" /\ list = <<>>
       \/ /\ phase = "listed" /\ list \in OptionLists
          /\ raw = ZeroOptions
    /\ driver \in IF phase = "given" THEN {"other"} ELSE Drivers
    /\ native = FALSE
    /\ opts = raw
    /\ step = 1
    /\ resources = {} /\ rings = {} /\ posted = 0

\* Open calls NewSocket under one of its modes; in which order it tries them
\* is in module Fleet.
OpenTries ==
    /\ phase = "listed"
    /\ LET c == NewConfig(list) IN
       \E g \in Range(ModeGroups(c.mode)) : \E bind \in Range(g.binds) :
          /\ raw' = SocketOptions(c, driver, g, bind)
          /\ native' = g.native
    /\ opts' = raw'
    /\ phase' = "given"
    /\ UNCHANGED <<list, driver, step, resources, rings, posted>>

Resolve ==
    /\ phase = "given"
    /\ opts' = WithDefaults(raw)
    /\ phase' = "resolved"
    /\ UNCHANGED <<open, raw, step, resources, rings, posted>>

Refuse ==
    /\ phase = "resolved" /\ ~Valid(opts)
    /\ phase' = "refused"
    /\ UNCHANGED <<open, raw, opts, step, resources, rings, posted>>

Accept ==
    /\ phase = "resolved" /\ Valid(opts)
    /\ phase' = "acquiring"
    /\ UNCHANGED <<open, raw, opts, step, resources, rings, posted>>

\* The step succeeds; the last one hands the socket to the caller.
StepSucceeds ==
    LET name == Acquisition(opts)[step]
    IN  /\ phase = "acquiring"
        /\ name = "bind" => ~({"zerocopy", "copy"} \subseteq opts.flags)
        /\ resources' = resources \cup ({name} \cap Yields)
        /\ rings' = rings \cup (IF name \in DOMAIN RingOfStep THEN {RingOfStep[name]} ELSE {})
        /\ posted' = IF FillsPool(name) THEN FilledFrom(opts) ELSE posted
        /\ step' = step + 1
        /\ phase' = IF step = Len(Acquisition(opts)) THEN "ready" ELSE "acquiring"
        /\ UNCHANGED <<open, raw, opts>>

\* The step fails: Close, and the error is returned.  Filling cannot fail.
StepFails ==
    /\ phase = "acquiring"
    /\ Acquisition(opts)[step] # "fillPool"
    /\ phase' = "failed"
    /\ resources' = resources \ ReleasedByClose
    /\ UNCHANGED <<open, raw, opts, step, rings, posted>>

Next == OpenTries \/ Resolve \/ Refuse \/ Accept \/ StepSucceeds \/ StepFails

Spec == Init /\ [][Next]_vars

(***************************************************************************)
(* Properties.                                                             *)
(***************************************************************************)
\* What NewSocket accepts satisfies what the data path takes for granted (the
\* assumption of module Socket): two non-empty pools, rings that are powers
\* of two, a fill ring its pool can fill to the last slot.
AcceptedIsSound ==
    phase \in {"acquiring", "ready"} =>
        /\ 0 < opts.txFrames /\ opts.txFrames < opts.numFrames
        /\ \A r \in Rings : opts.ring[r] \in PowersOfTwo
        /\ opts.ring["fill"] <= opts.numFrames - opts.txFrames

SizeNames == {"numFrames", "frameSize", "txFrames"} \cup Rings

SizeOf(o, size) == IF size \in Rings THEN o.ring[size] ELSE o[size]

\* The sizes an option decides, WithOptions all of them.
Sizes(option) ==
    LET value == option.arg IN
    CASE option.name = "WithNumFrames"    -> [size \in {"numFrames"} |-> value]
      [] option.name = "WithFrameSize"    -> [size \in {"frameSize"} |-> value]
      [] option.name = "WithTxFrames"     -> [size \in {"txFrames"} |-> value]
      [] option.name = "WithReceiveHeavy" -> [size \in {"txFrames"} |-> 64]
      [] option.name = "WithRingSize"     -> [size \in Rings |-> value]
      [] option.name = "WithOptions"      -> [size \in SizeNames |-> SizeOf(value, size)]
      [] OTHER                            -> [size \in {} |-> 0]

\* What else an option asks of the sockets Open makes, except for the XDPFlags
\* of WithOptions, which Open overwrites (see OptionsInForce).
Granted(option) ==
    LET value == option.arg IN
    CASE option.name = "WithZeroCopy"        -> native /\ "zerocopy" \in opts.flags
      [] option.name = "WithDriverMode"      -> native
      [] option.name = "WithGenericMode"     -> ~native /\ "copy" \in opts.flags
      [] option.name = "WithNeedWakeup"      -> "needWakeup" \in opts.flags
      [] option.name = "WithTxReuseRxFrames" -> opts.hairpin
      [] option.name = "WithBusyPoll"        -> opts.busyPoll
      [] option.name = "WithMultiBuffer"     -> "sg" \in opts.flags /\ NewConfig(list).multiBuffer
      [] option.name = "WithOptions"         -> /\ value.flags \subseteq opts.flags
                                                /\ value.hairpin => opts.hairpin
                                                /\ value.busyPoll => opts.busyPoll
      [] OTHER                               -> TRUE

\* A later choice of the mode has its way.
Overrides(p, option) == {p.name, option.name} \subseteq DOMAIN Modes

\* WithOptions is documented to come before the others, once.
InOrder == \A i \in DOMAIN list : list[i].name = "WithOptions" => i = 1

\* A size is the one the last option about it names, unless that left it zero.
SizesInForce ==
    \A i \in DOMAIN list : \A size \in DOMAIN Sizes(list[i]) :
        \/ Sizes(list[i])[size] \in {0, SizeOf(opts, size)}
        \/ \E j \in (i + 1)..Len(list) : size \in DOMAIN Sizes(list[j])

\* Whichever mode and bind variant Open ends up with, every option it was
\* given is in force on the sockets, in any order and combination: the sizes
\* are those asked for, none of the caller's flags is lost to the variant's or
\* to another option, and a caller who demands one copy mode is never bound in
\* the other.  XDPFlags are the exception: they are those of the mode that is
\* tried, whatever WithOptions says, although their comment has OpenFleet use
\* them (options.go:80-85).
OptionsInForce ==
    phase = "ready" /\ InOrder =>
        /\ SizesInForce
        /\ \A i \in DOMAIN list :
              Granted(list[i]) \/ \E j \in (i + 1)..Len(list) : Overrides(list[j], list[i])
        /\ Cardinality(opts.flags \cap {"zerocopy", "copy"}) <= 1
        /\ list # <<>> => opts.xdp = IF native THEN "drv" ELSE "skb"

\* And what was not chosen never stands in the way of what was: a caller who
\* leaves TxFrames alone is not refused for the split.
SplitFollowsFrames ==
    phase = "refused" /\ opts.numFrames >= 2
    /\ (IF list = <<>> THEN raw.txFrames = 0 ELSE NewConfig(list).opts.txFrames = 0) =>
        opts.txFrames > 0 /\ opts.txFrames < opts.numFrames

OptionsHonoured == OptionsInForce /\ SplitFollowsFrames

\* A failure at any step leaves nothing behind: no descriptor, no mapping.
FailureLeaksNothing == phase \in {"failed", "refused"} => resources = {}

\* The kernel activates the queue at bind, and by then all four rings exist
\* and are mapped, and the fill ring is full: no accepted options leave it a
\* single slot short.
CompleteBeforeBind ==
    phase = "ready" \/ (phase = "acquiring" /\ Acquisition(opts)[step] = "bind") =>
        /\ rings = Rings /\ resources = Yields
        /\ posted = opts.ring["fill"]
=============================================================================
