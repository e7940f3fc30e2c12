------------------------------ MODULE OpenOptions ------------------------------
(***************************************************************************)
(* The functional options of Open (options.go) and what Open makes of them *)
(* for each mode it tries (fleet.go).  An option is a record: its name and *)
(* its argument.  The options about the filter are in module Filter, those *)
(* about queues and tuning are constants of module Fleet.                  *)
(***************************************************************************)
EXTENDS Integers, Sequences

Rings == {"fill", "completion", "rx", "tx"}

(***************************************************************************)
(* The Options struct.  "flags" are the BindFlags of interest, "xdp" the   *)
(* XDPFlags: how the program attaches, by default as the kernel chooses.   *)
(***************************************************************************)
OptionsType ==
    [numFrames : Int, frameSize : Int, txFrames : Int, ring : [Rings -> Int],
     flags : SUBSET {"sg", "needWakeup", "zerocopy", "copy"}, hairpin : BOOLEAN, busyPoll : BOOLEAN,
     xdp : {"default", "drv", "skb", "hw"}]

ZeroOptions ==
    [numFrames |-> 0, frameSize |-> 0, txFrames |-> 0, ring |-> [r \in Rings |-> 0],
     flags |-> {}, hairpin |-> FALSE, busyPoll |-> FALSE, xdp |-> "default"]

DefaultOptions ==
    [numFrames |-> 8192, frameSize |-> 2048, txFrames |-> 4096, ring |-> [r \in Rings |-> 4096]]

OrDefault(value, default) == IF value = 0 THEN default ELSE value

\* withDefaults: a zero field takes its default, TxFrames half of the frames.
WithDefaults(o) ==
    LET frames == OrDefault(o.numFrames, DefaultOptions.numFrames)
        \* Go's integer division rounds towards zero.
        half   == IF frames >= 0 THEN frames \div 2 ELSE -((-frames) \div 2)
    IN  [o EXCEPT !.numFrames = frames,
                  !.frameSize = OrDefault(@, DefaultOptions.frameSize),
                  !.txFrames  = OrDefault(@, half),
                  !.ring      = [r \in Rings |-> OrDefault(@[r], DefaultOptions.ring[r])]]

(***************************************************************************)
(* The options, as changes of the config.                                  *)
(***************************************************************************)
Modes == [WithZeroCopy |-> "nativeZC", WithDriverMode |-> "native", WithGenericMode |-> "generic"]

\* The options the caller can write: a number, a struct or nothing goes with one.
IsOption(option) ==
    \/ /\ option.name \in {"WithNumFrames", "WithFrameSize", "WithTxFrames", "WithRingSize"}
       /\ option.arg \in Int
    \/ option.name = "WithOptions" /\ option.arg \in OptionsType
    \/ option.name \in DOMAIN Modes \cup {"WithReceiveHeavy", "WithNeedWakeup", "WithTxReuseRxFrames",
                                         "WithBusyPoll", "WithMultiBuffer"}

WithRingSize(c, n) == [c EXCEPT !.opts.ring = [r \in Rings |-> n]]

WithMultiBuffer(c) == [c EXCEPT !.multiBuffer = TRUE, !.opts.flags = @ \cup {"sg"}]

\* WithOptions replaces every field set before it, the flags included.
WithOptions(c, o) == [c EXCEPT !.opts = o]

Apply(c, option) ==
    CASE option.name = "WithNumFrames"       -> [c EXCEPT !.opts.numFrames = option.arg]
      [] option.name = "WithFrameSize"       -> [c EXCEPT !.opts.frameSize = option.arg]
      [] option.name = "WithTxFrames"        -> [c EXCEPT !.opts.txFrames = option.arg]
      [] option.name = "WithReceiveHeavy"    -> [c EXCEPT !.opts.txFrames = 64]
      [] option.name = "WithRingSize"        -> WithRingSize(c, option.arg)
      [] option.name \in DOMAIN Modes        -> [c EXCEPT !.mode = Modes[option.name]]
      [] option.name = "WithNeedWakeup"      -> [c EXCEPT !.opts.flags = @ \cup {"needWakeup"}]
      [] option.name = "WithTxReuseRxFrames" -> [c EXCEPT !.opts.hairpin = TRUE]
      [] option.name = "WithBusyPoll"        -> [c EXCEPT !.opts.busyPoll = TRUE]
      [] option.name = "WithMultiBuffer"     -> WithMultiBuffer(c)
      [] option.name = "WithOptions"         -> WithOptions(c, option.arg)

ZeroConfig == [opts |-> ZeroOptions, mode |-> "auto", multiBuffer |-> FALSE]

\* newConfig: the options in their order, from a zero config.
NewConfig(list) ==
    LET after[n \in 0..Len(list)] == IF n = 0 THEN ZeroConfig ELSE Apply(after[n - 1], list[n])
    IN  after[Len(list)]

(***************************************************************************)
(* What Open makes of the config.                                          *)
(***************************************************************************)

\* The modes to try, in order, each with its bind variants.
ModeGroups(mode) ==
    LET native(binds) == [native |-> TRUE, binds |-> binds]
        generic       == [native |-> FALSE, binds |-> <<"copy">>]
    IN  CASE mode = "generic"  -> <<generic>>
          [] mode = "nativeZC" -> <<native(<<"zerocopy">>)>>
          [] mode = "native"   -> <<native(<<"zerocopy", "copy">>)>>
          [] mode = "auto"     -> <<native(<<"zerocopy", "copy">>), generic>>

\* The zero-copy datapath of the ena driver needs frames of a page.
BaseOptions(c, driver) ==
    LET base == WithDefaults(c.opts)
    IN  IF c.opts.frameSize = 0 /\ c.mode # "generic" /\ driver = "ena"
        THEN [base EXCEPT !.frameSize = 4096]
        ELSE base

XdpFlags(g) == IF g.native THEN "drv" ELSE "skb"

\* Mutant of SocketOptions: the variant's flag replaces the caller's.
SocketOptionsAssigned(c, driver, g, bind) ==
    [BaseOptions(c, driver) EXCEPT !.flags = {bind}, !.xdp = XdpFlags(g)]

\* The options each socket is made with under one bind variant of a group:
\* its flag is added to the caller's, the group's XDPFlags replace the caller's.
SocketOptions(c, driver, g, bind) ==
    [BaseOptions(c, driver) EXCEPT !.flags = @ \cup {bind}, !.xdp = XdpFlags(g)]
=============================================================================
