--------------------------- MODULE SocketSetupProofs ---------------------------
(***************************************************************************)
(* Proofs about SocketSetup, for all numbers a caller may write and all    *)
(* lists of options, of any length.                                        *)
(*                                                                         *)
(* What newConfig computes is found by induction over the list: each       *)
(* option is in force once applied, and stays so until one that overrides  *)
(* it.  What NewSocket holds is found from the steps taken so far.         *)
(***************************************************************************)
EXTENDS SocketSetup, SequenceTheorems, FiniteSetTheorems, WellFoundedInduction, TLAPS

(***************************************************************************)
(* Induction, with the property as the set of the numbers that have it.    *)
(***************************************************************************)
LEMMA LeastNumber ==
    ASSUME NEW T, T \subseteq Nat, T # {}
    PROVE  \E m \in T : \A k \in T : m <= k
<1> DEFINE R == OpToRel(<, Nat)
<1>1. IsWellFoundedOn(R, Nat)
    BY NatLessThanWellFounded
<1>2. \A x, y \in Nat : <<x, y>> \in R <=> x < y
    BY DEF OpToRel
<1> HIDE DEF R
<1>3. PICK m \in T : \A k \in T : ~(<<k, m>> \in R)
    BY <1>1, WFMin, Zenon
<1>4. ASSUME NEW k \in T PROVE m <= k
    <2>1. m \in Nat /\ k \in Nat /\ ~(<<k, m>> \in R)
        BY <1>3
    <2>2. ~(k < m)
        BY <1>2, <2>1, Zenon
    <2> QED BY <2>1, <2>2
<1> QED BY <1>4

LEMMA Induction ==
    ASSUME NEW S, 0 \in S, \A n \in Nat : n \in S => n + 1 \in S
    PROVE  Nat \subseteq S
<1> SUFFICES ASSUME Nat \ S # {} PROVE FALSE
    OBVIOUS
<1>1. PICK m \in Nat \ S : \A k \in Nat \ S : m <= k
    BY LeastNumber
<1>2. m # 0 /\ m - 1 \in Nat /\ m - 1 \in S
    BY <1>1
<1> QED BY <1>1, <1>2

(***************************************************************************)
(* withDefaults.                                                           *)
(***************************************************************************)
Half(n) == IF n >= 0 THEN n \div 2 ELSE -((-n) \div 2)

LEMMA DefaultsInForce ==
    ASSUME NEW o \in OptionsType
    PROVE  /\ WithDefaults(o) \in OptionsType
           /\ WithDefaults(o).numFrames = OrDefault(o.numFrames, 8192)
           /\ WithDefaults(o).frameSize = OrDefault(o.frameSize, 2048)
           /\ WithDefaults(o).txFrames = OrDefault(o.txFrames, Half(OrDefault(o.numFrames, 8192)))
           /\ \A r \in Rings : WithDefaults(o).ring[r] = OrDefault(o.ring[r], 4096)
           /\ WithDefaults(o).flags = o.flags
           /\ WithDefaults(o).hairpin = o.hairpin /\ WithDefaults(o).busyPoll = o.busyPoll
<1> DEFINE frames == OrDefault(o.numFrames, 8192)
<1> DEFINE size == OrDefault(o.frameSize, 2048)
<1> DEFINE tx == OrDefault(o.txFrames, Half(frames))
<1> DEFINE sizes == [r \in Rings |-> OrDefault(o.ring[r], 4096)]
<1>1. /\ DefaultOptions.numFrames = 8192 /\ DefaultOptions.frameSize = 2048
      /\ \A r \in Rings : DefaultOptions.ring[r] = 4096
    BY DEF DefaultOptions
<1>2. WithDefaults(o) = [o EXCEPT !.numFrames = frames, !.frameSize = size, !.txFrames = tx, !.ring = sizes]
    <2> DEFINE written == [r \in Rings |-> OrDefault(o.ring[r], DefaultOptions.ring[r])]
    <2>1. written = sizes
        BY <1>1
    <2>2. WithDefaults(o) = [o EXCEPT !.numFrames = frames, !.frameSize = size, !.txFrames = tx, !.ring = written]
        BY <1>1 DEF WithDefaults, Half
    <2> HIDE DEF written, frames, size, tx, sizes
    <2> QED BY <2>1, <2>2
<1>3. frames \in Int /\ Half(frames) \in Int /\ size \in Int
    BY DEF OptionsType, OrDefault, Half
<1>4. tx \in Int
    BY <1>3 DEF OptionsType, OrDefault
<1>5. sizes \in [Rings -> Int]
    BY DEF OptionsType, OrDefault
<1> HIDE DEF frames, size, tx, sizes
<1>6. o = [numFrames |-> o.numFrames, frameSize |-> o.frameSize, txFrames |-> o.txFrames, ring |-> o.ring,
           flags |-> o.flags, hairpin |-> o.hairpin, busyPoll |-> o.busyPoll, xdp |-> o.xdp]
    BY DEF OptionsType
<1>7. WithDefaults(o) = [numFrames |-> frames, frameSize |-> size, txFrames |-> tx, ring |-> sizes,
                         flags |-> o.flags, hairpin |-> o.hairpin, busyPoll |-> o.busyPoll, xdp |-> o.xdp]
    BY <1>2, <1>6
<1>8. /\ WithDefaults(o) \in OptionsType /\ WithDefaults(o).numFrames = frames
      /\ WithDefaults(o).frameSize = size /\ WithDefaults(o).txFrames = tx
      /\ WithDefaults(o).ring = sizes /\ WithDefaults(o).flags = o.flags
      /\ WithDefaults(o).hairpin = o.hairpin /\ WithDefaults(o).busyPoll = o.busyPoll
    BY <1>3, <1>4, <1>5, <1>7 DEF OptionsType
<1> QED BY <1>8 DEF frames, size, tx, sizes

(***************************************************************************)
(* newConfig.                                                              *)
(***************************************************************************)
Configs == [opts : OptionsType, mode : {"auto", "nativeZC", "native", "generic"}, multiBuffer : BOOLEAN]

\* The configs newConfig goes through: a zero one, then one per option.
LEMMA ConfigByConfig ==
    ASSUME NEW l, Len(l) \in Nat
    PROVE  \E after :
               /\ after[0] = ZeroConfig /\ NewConfig(l) = after[Len(l)]
               /\ \A n \in 1..Len(l) : after[n] = Apply(after[n - 1], l[n])
<1> DEFINE Body(f, n) == [k \in 0..n |-> IF k = 0 THEN ZeroConfig ELSE Apply(f[k - 1], l[k])]
<1> DEFINE S == {n \in Nat : \E f : f = Body(f, n)}
<1>1. 0 \in S
    <2> DEFINE f == [k \in 0..0 |-> ZeroConfig]
    <2>1. f = Body(f, 0)
        OBVIOUS
    <2> QED BY <2>1
<1>2. ASSUME NEW n \in Nat, n \in S PROVE n + 1 \in S
    <2>1. PICK f : f = Body(f, n)
        BY <1>2
    <2> DEFINE g == [k \in 0..(n + 1) |-> IF k = n + 1 THEN Apply(f[n], l[n + 1]) ELSE f[k]]
    <2>2. \A k \in 0..(n + 1) : g[k] = IF k = 0 THEN ZeroConfig ELSE Apply(g[k - 1], l[k])
        <3> SUFFICES ASSUME NEW k \in 0..(n + 1)
                     PROVE  g[k] = IF k = 0 THEN ZeroConfig ELSE Apply(g[k - 1], l[k])
            OBVIOUS
        <3>1. CASE k = n + 1
            BY <3>1
        <3>2. CASE k # n + 1
            BY <2>1, <3>2
        <3> QED BY <3>1, <3>2
    <2>3. g = Body(g, n + 1)
        BY <2>2
    <2> HIDE DEF g
    <2>4. \E h : h = Body(h, n + 1)
        BY <2>3
    <2> QED BY <2>4
<1>3. \E f : f = Body(f, Len(l))
    BY <1>1, <1>2, Induction
<1> DEFINE after == CHOOSE f : f = Body(f, Len(l))
<1>4. after = Body(after, Len(l))
    BY <1>3
<1>5. NewConfig(l) = after[Len(l)]
    BY DEF NewConfig
<1> HIDE DEF after
<1> QED BY <1>4, <1>5

\* A field of the Options of a config is set: the rest of the config stays.
LEMMA SetOpts ==
    ASSUME NEW c \in Configs, NEW o \in OptionsType
    PROVE  LET a == [c EXCEPT !.opts = o] IN
           a \in Configs /\ a.opts = o /\ a.mode = c.mode /\ a.multiBuffer = c.multiBuffer
BY DEF Configs

\* What one option makes of the Options o, field by field.
Rewrites(o, option, n) ==
    /\ n \in OptionsType
    /\ n.numFrames = IF option.name = "WithNumFrames" THEN option.arg ELSE o.numFrames
    /\ n.frameSize = IF option.name = "WithFrameSize" THEN option.arg ELSE o.frameSize
    /\ n.txFrames = IF option.name = "WithTxFrames" THEN option.arg
                    ELSE IF option.name = "WithReceiveHeavy" THEN 64 ELSE o.txFrames
    /\ option.name = "WithRingSize" => \A r \in Rings : n.ring[r] = option.arg
    /\ option.name # "WithRingSize" => n.ring = o.ring
    /\ o.flags \subseteq n.flags
    /\ option.name = "WithNeedWakeup"  => "needWakeup" \in n.flags
    /\ option.name = "WithMultiBuffer" => "sg" \in n.flags
    /\ option.name = "WithTxReuseRxFrames" \/ o.hairpin => n.hairpin
    /\ option.name = "WithBusyPoll" \/ o.busyPoll => n.busyPoll

\* And of a config.
LEMMA ApplyByField ==
    ASSUME NEW c \in Configs, NEW option, IsOption(option), option.name # "WithOptions"
    PROVE  LET a == Apply(c, option) IN
           /\ a \in Configs /\ Rewrites(c.opts, option, a.opts)
           /\ a.mode = IF option.name \in DOMAIN Modes THEN Modes[option.name] ELSE c.mode
           /\ option.name = "WithMultiBuffer" \/ c.multiBuffer => a.multiBuffer
<1> DEFINE a == Apply(c, option)
<1>m. /\ DOMAIN Modes = {"WithZeroCopy", "WithDriverMode", "WithGenericMode"}
      /\ Modes["WithZeroCopy"] = "nativeZC" /\ Modes["WithDriverMode"] = "native"
      /\ Modes["WithGenericMode"] = "generic"
    BY DEF Modes
<1>o. c.opts \in OptionsType
    BY DEF Configs
<1>1. CASE option.name = "WithNumFrames"
    <2> DEFINE n == [c.opts EXCEPT !.numFrames = option.arg]
    <2>1. a = [c EXCEPT !.opts = n]
        BY <1>1, <1>m DEF Apply
    <2>2. Rewrites(c.opts, option, n)
        <3>1. option.arg \in Int
            BY <1>1, <1>m DEF IsOption
        <3>2. /\ n \in OptionsType /\ n.numFrames = option.arg
              /\ n.frameSize = c.opts.frameSize /\ n.txFrames = c.opts.txFrames /\ n.ring = c.opts.ring
              /\ n.flags = c.opts.flags /\ n.hairpin = c.opts.hairpin /\ n.busyPoll = c.opts.busyPoll
            BY <1>o, <3>1 DEF OptionsType
        <3> HIDE DEF n
        <3> QED BY <1>1, <3>2 DEF Rewrites
    <2> HIDE DEF n
    <2> QED BY <1>1, <1>m, <2>1, <2>2, SetOpts DEF Rewrites
<1>2. CASE option.name = "WithFrameSize"
    <2> DEFINE n == [c.opts EXCEPT !.frameSize = option.arg]
    <2>1. a = [c EXCEPT !.opts = n]
        BY <1>2, <1>m DEF Apply
    <2>2. Rewrites(c.opts, option, n)
        <3>1. option.arg \in Int
            BY <1>2, <1>m DEF IsOption
        <3>2. /\ n \in OptionsType /\ n.frameSize = option.arg
              /\ n.numFrames = c.opts.numFrames /\ n.txFrames = c.opts.txFrames /\ n.ring = c.opts.ring
              /\ n.flags = c.opts.flags /\ n.hairpin = c.opts.hairpin /\ n.busyPoll = c.opts.busyPoll
            BY <1>o, <3>1 DEF OptionsType
        <3> HIDE DEF n
        <3> QED BY <1>2, <3>2 DEF Rewrites
    <2> HIDE DEF n
    <2> QED BY <1>2, <1>m, <2>1, <2>2, SetOpts DEF Rewrites
<1>3. CASE option.name = "WithTxFrames"
    <2> DEFINE n == [c.opts EXCEPT !.txFrames = option.arg]
    <2>1. a = [c EXCEPT !.opts = n]
        BY <1>3, <1>m DEF Apply
    <2>2. Rewrites(c.opts, option, n)
        <3>1. option.arg \in Int
            BY <1>3, <1>m DEF IsOption
        <3>2. /\ n \in OptionsType /\ n.txFrames = option.arg
              /\ n.numFrames = c.opts.numFrames /\ n.frameSize = c.opts.frameSize /\ n.ring = c.opts.ring
              /\ n.flags = c.opts.flags /\ n.hairpin = c.opts.hairpin /\ n.busyPoll = c.opts.busyPoll
            BY <1>o, <3>1 DEF OptionsType
        <3> HIDE DEF n
        <3> QED BY <1>3, <3>2 DEF Rewrites
    <2> HIDE DEF n
    <2> QED BY <1>3, <1>m, <2>1, <2>2, SetOpts DEF Rewrites
<1>4. CASE option.name = "WithReceiveHeavy"
    <2> DEFINE n == [c.opts EXCEPT !.txFrames = 64]
    <2>1. a = [c EXCEPT !.opts = n]
        BY <1>4, <1>m DEF Apply
    <2>2. Rewrites(c.opts, option, n)
        BY <1>4, <1>o DEF Rewrites, OptionsType
    <2> HIDE DEF n
    <2> QED BY <1>4, <1>m, <2>1, <2>2, SetOpts DEF Rewrites
<1>5. CASE option.name = "WithRingSize"
    <2> DEFINE sizes == [r \in Rings |-> option.arg]
    <2> DEFINE n == [c.opts EXCEPT !.ring = sizes]
    <2>1. a = [c EXCEPT !.opts = n]
        BY <1>5, <1>m DEF Apply, WithRingSize
    <2>2. Rewrites(c.opts, option, n)
        <3>1. sizes \in [Rings -> Int] /\ \A r \in Rings : sizes[r] = option.arg
            BY <1>5, <1>m DEF IsOption
        <3> HIDE DEF sizes
        <3>2. /\ n \in OptionsType /\ n.ring = sizes
              /\ n.numFrames = c.opts.numFrames /\ n.frameSize = c.opts.frameSize /\ n.txFrames = c.opts.txFrames
              /\ n.flags = c.opts.flags /\ n.hairpin = c.opts.hairpin /\ n.busyPoll = c.opts.busyPoll
            BY <1>o, <3>1 DEF OptionsType
        <3> HIDE DEF n
        <3> QED BY <1>5, <3>1, <3>2 DEF Rewrites
    <2> HIDE DEF n
    <2> QED BY <1>5, <1>m, <2>1, <2>2, SetOpts DEF Rewrites
<1>6. CASE option.name = "WithNeedWakeup"
    <2> DEFINE n == [c.opts EXCEPT !.flags = @ \cup {"needWakeup"}]
    <2>1. a = [c EXCEPT !.opts = n]
        BY <1>6, <1>m DEF Apply
    <2>2. Rewrites(c.opts, option, n)
        <3>1. /\ n \in OptionsType /\ n.flags = c.opts.flags \cup {"needWakeup"}
              /\ n.numFrames = c.opts.numFrames /\ n.frameSize = c.opts.frameSize /\ n.txFrames = c.opts.txFrames
              /\ n.ring = c.opts.ring /\ n.hairpin = c.opts.hairpin /\ n.busyPoll = c.opts.busyPoll
            BY <1>o DEF OptionsType
        <3> HIDE DEF n
        <3> QED BY <1>6, <3>1 DEF Rewrites
    <2> HIDE DEF n
    <2> QED BY <1>6, <1>m, <2>1, <2>2, SetOpts DEF Rewrites
<1>7. CASE option.name = "WithTxReuseRxFrames"
    <2> DEFINE n == [c.opts EXCEPT !.hairpin = TRUE]
    <2>1. a = [c EXCEPT !.opts = n]
        BY <1>7, <1>m DEF Apply
    <2>2. Rewrites(c.opts, option, n)
        <3>1. /\ n \in OptionsType /\ n.hairpin = TRUE
              /\ n.numFrames = c.opts.numFrames /\ n.frameSize = c.opts.frameSize /\ n.txFrames = c.opts.txFrames
              /\ n.ring = c.opts.ring /\ n.flags = c.opts.flags /\ n.busyPoll = c.opts.busyPoll
            BY <1>o DEF OptionsType
        <3> HIDE DEF n
        <3> QED BY <1>7, <3>1, Zenon DEF Rewrites
    <2> HIDE DEF n
    <2> QED BY <1>7, <1>m, <2>1, <2>2, SetOpts DEF Rewrites
<1>8. CASE option.name = "WithBusyPoll"
    <2> DEFINE n == [c.opts EXCEPT !.busyPoll = TRUE]
    <2>1. a = [c EXCEPT !.opts = n]
        BY <1>8, <1>m DEF Apply
    <2>2. Rewrites(c.opts, option, n)
        <3>1. /\ n \in OptionsType /\ n.busyPoll = TRUE
              /\ n.numFrames = c.opts.numFrames /\ n.frameSize = c.opts.frameSize /\ n.txFrames = c.opts.txFrames
              /\ n.ring = c.opts.ring /\ n.flags = c.opts.flags /\ n.hairpin = c.opts.hairpin
            BY <1>o DEF OptionsType
        <3> HIDE DEF n
        <3> QED BY <1>8, <3>1, Zenon DEF Rewrites
    <2> HIDE DEF n
    <2> QED BY <1>8, <1>m, <2>1, <2>2, SetOpts DEF Rewrites
<1>9. CASE option.name \in DOMAIN Modes
    <2>1. a = [c EXCEPT !.mode = Modes[option.name]]
        BY <1>9, <1>m DEF Apply
    <2>2. a \in Configs /\ a.opts = c.opts /\ a.multiBuffer = c.multiBuffer /\ a.mode = Modes[option.name]
        BY <1>9, <1>m, <2>1 DEF Configs
    <2> QED BY <1>9, <1>m, <1>o, <2>2 DEF Rewrites
<1>10. CASE option.name = "WithMultiBuffer"
    <2> DEFINE n == [c.opts EXCEPT !.flags = @ \cup {"sg"}]
    <2>1. a = [c EXCEPT !.multiBuffer = TRUE, !.opts = n]
        BY <1>10, <1>m DEF Apply, WithMultiBuffer
    <2>2. Rewrites(c.opts, option, n)
        <3>1. /\ n \in OptionsType /\ n.flags = c.opts.flags \cup {"sg"}
              /\ n.numFrames = c.opts.numFrames /\ n.frameSize = c.opts.frameSize /\ n.txFrames = c.opts.txFrames
              /\ n.ring = c.opts.ring /\ n.hairpin = c.opts.hairpin /\ n.busyPoll = c.opts.busyPoll
            BY <1>o DEF OptionsType
        <3> HIDE DEF n
        <3> QED BY <1>10, <3>1 DEF Rewrites
    <2> HIDE DEF n
    <2>3. n \in OptionsType
        BY <2>2 DEF Rewrites
    <2>4. a \in Configs /\ a.opts = n /\ a.multiBuffer = TRUE /\ a.mode = c.mode
        BY <2>1, <2>3 DEF Configs
    <2> QED BY <1>10, <1>m, <2>2, <2>4
<1> QED BY <1>1, <1>2, <1>3, <1>4, <1>5, <1>6, <1>7, <1>8, <1>9, <1>10 DEF IsOption

\* What an option asks of the config, but for the sizes.
Recorded(c, option) ==
    LET value == option.arg IN
    CASE option.name \in DOMAIN Modes        -> c.mode = Modes[option.name]
      [] option.name = "WithNeedWakeup"      -> "needWakeup" \in c.opts.flags
      [] option.name = "WithTxReuseRxFrames" -> c.opts.hairpin
      [] option.name = "WithBusyPoll"        -> c.opts.busyPoll
      [] option.name = "WithMultiBuffer"     -> "sg" \in c.opts.flags /\ c.multiBuffer
      [] option.name = "WithOptions"         -> /\ value.flags \subseteq c.opts.flags
                                                /\ (value.hairpin => c.opts.hairpin)
                                                /\ (value.busyPoll => c.opts.busyPoll)
      [] OTHER                               -> TRUE

LEMMA OptionNames ==
    /\ DOMAIN Modes = {"WithZeroCopy", "WithDriverMode", "WithGenericMode"}
    /\ Modes["WithZeroCopy"] = "nativeZC" /\ Modes["WithDriverMode"] = "native"
    /\ Modes["WithGenericMode"] = "generic"
    /\ \A option : IsOption(option) =>
           option.name \in {"WithNumFrames", "WithFrameSize", "WithTxFrames", "WithReceiveHeavy", "WithRingSize",
                            "WithZeroCopy", "WithDriverMode", "WithGenericMode", "WithNeedWakeup",
                            "WithTxReuseRxFrames", "WithBusyPoll", "WithMultiBuffer", "WithOptions"}
BY DEF Modes, IsOption

LEMMA ApplyOptions ==
    ASSUME NEW c \in Configs, NEW option, IsOption(option), option.name = "WithOptions"
    PROVE  /\ Apply(c, option) \in Configs /\ Apply(c, option).opts = option.arg
           /\ option.arg \in OptionsType
<1>1. option.arg \in OptionsType
    BY OptionNames DEF IsOption
<1>2. Apply(c, option) = [c EXCEPT !.opts = option.arg]
    BY OptionNames DEF Apply, WithOptions
<1> QED BY <1>1, <1>2, SetOpts

\* An option just applied is recorded.
LEMMA ApplyRecords ==
    ASSUME NEW c \in Configs, NEW option, IsOption(option)
    PROVE  Apply(c, option) \in Configs /\ Recorded(Apply(c, option), option)
<1>1. CASE option.name = "WithOptions"
    <2> DEFINE a == Apply(c, option)
    <2>1. a \in Configs /\ a.opts = option.arg
        BY <1>1, ApplyOptions
    <2> HIDE DEF a
    <2>2. Recorded(a, option) <=> /\ option.arg.flags \subseteq a.opts.flags
                                  /\ (option.arg.hairpin => a.opts.hairpin)
                                  /\ (option.arg.busyPoll => a.opts.busyPoll)
        BY <1>1, OptionNames DEF Recorded
    <2>3. Recorded(a, option)
        BY <2>1, <2>2, Zenon
    <2> QED BY <2>1, <2>3 DEF a
<1>2. CASE option.name # "WithOptions"
    <2> DEFINE a == Apply(c, option)
    <2>1. /\ a \in Configs /\ Rewrites(c.opts, option, a.opts)
          /\ a.mode = IF option.name \in DOMAIN Modes THEN Modes[option.name] ELSE c.mode
          /\ option.name = "WithMultiBuffer" \/ c.multiBuffer => a.multiBuffer
        BY <1>2, ApplyByField
    <2> HIDE DEF a
    <2>2. Recorded(a, option)
        BY <1>2, <2>1, OptionNames DEF Recorded, Rewrites
    <2> QED BY <2>1, <2>2 DEF a
<1> QED BY <1>1, <1>2

\* One recorded before stays so, or is overridden.
LEMMA ApplyKeeps ==
    ASSUME NEW c \in Configs, NEW option, IsOption(option), option.name # "WithOptions",
           NEW old, IsOption(old), Recorded(c, old), ~Overrides(option, old)
    PROVE  Recorded(Apply(c, option), old)
<1> DEFINE a == Apply(c, option)
<1>1. /\ a \in Configs /\ Rewrites(c.opts, option, a.opts)
      /\ a.mode = IF option.name \in DOMAIN Modes THEN Modes[option.name] ELSE c.mode
      /\ option.name = "WithMultiBuffer" \/ c.multiBuffer => a.multiBuffer
    BY ApplyByField
<1> SUFFICES Recorded(a, old)
    OBVIOUS
<1> HIDE DEF a
<1>2. ~({option.name, old.name} \subseteq DOMAIN Modes)
    BY DEF Overrides
<1>3. CASE old.name \in {"WithNumFrames", "WithFrameSize", "WithTxFrames", "WithReceiveHeavy", "WithRingSize"}
    BY <1>3, OptionNames DEF Recorded
<1>4. CASE old.name \in DOMAIN Modes
    BY <1>1, <1>2, <1>4, OptionNames DEF Recorded
<1>5. CASE old.name \in {"WithNeedWakeup", "WithMultiBuffer"}
    BY <1>1, <1>5, OptionNames DEF Recorded, Rewrites
<1>6. CASE old.name \in {"WithTxReuseRxFrames", "WithBusyPoll"}
    BY <1>1, <1>6, OptionNames DEF Recorded, Rewrites
<1>7. CASE old.name = "WithOptions"
    <2>1. \A d : Recorded(d, old) <=> /\ old.arg.flags \subseteq d.opts.flags
                                     /\ (old.arg.hairpin => d.opts.hairpin)
                                     /\ (old.arg.busyPoll => d.opts.busyPoll)
        BY <1>7, OptionNames DEF Recorded
    <2>2. /\ c.opts.flags \subseteq a.opts.flags
          /\ (c.opts.hairpin => a.opts.hairpin)
          /\ (c.opts.busyPoll => a.opts.busyPoll)
        BY <1>1 DEF Rewrites
    <2>3. old.arg.flags \subseteq a.opts.flags
        BY <2>1, <2>2
    <2>4. (old.arg.hairpin => a.opts.hairpin) /\ (old.arg.busyPoll => a.opts.busyPoll)
        BY <2>1, <2>2, Zenon
    <2> QED BY <2>1, <2>3, <2>4, Zenon
<1> QED BY <1>3, <1>4, <1>5, <1>6, <1>7, OptionNames

\* An option decides its sizes and leaves the others.
LEMMA ApplySizes ==
    ASSUME NEW c \in Configs, NEW option, IsOption(option), NEW size \in SizeNames
    PROVE  /\ Apply(c, option) \in Configs
           /\ SizeOf(Apply(c, option).opts, size) =
                  IF size \in DOMAIN Sizes(option) THEN Sizes(option)[size] ELSE SizeOf(c.opts, size)
<1> DEFINE a == Apply(c, option)
<1>1. CASE option.name = "WithOptions"
    <2>1. Sizes(option) = [s \in SizeNames |-> SizeOf(option.arg, s)]
        BY <1>1 DEF Sizes
    <2> QED BY <1>1, <2>1, ApplyOptions
<1>2. CASE option.name # "WithOptions"
    <2>1. a \in Configs /\ Rewrites(c.opts, option, a.opts)
        BY <1>2, ApplyByField
    <2> HIDE DEF a
    <2>n. size \in {"numFrames", "frameSize", "txFrames"} <=> size \notin Rings
        BY DEF SizeNames, Rings
    <2> SUFFICES SizeOf(a.opts, size) =
                     IF size \in DOMAIN Sizes(option) THEN Sizes(option)[size] ELSE SizeOf(c.opts, size)
        BY <2>1 DEF a
    <2>2. CASE option.name = "WithNumFrames"
        <3>1. Sizes(option) = [s \in {"numFrames"} |-> option.arg]
            BY <2>2 DEF Sizes
        <3> QED BY <2>1, <2>2, <2>n, <3>1 DEF Rewrites, SizeOf, Rings
    <2>3. CASE option.name = "WithFrameSize"
        <3>1. Sizes(option) = [s \in {"frameSize"} |-> option.arg]
            BY <2>3 DEF Sizes
        <3> QED BY <2>1, <2>3, <2>n, <3>1 DEF Rewrites, SizeOf, Rings
    <2>4. CASE option.name = "WithTxFrames"
        <3>1. Sizes(option) = [s \in {"txFrames"} |-> option.arg]
            BY <2>4 DEF Sizes
        <3> QED BY <2>1, <2>4, <2>n, <3>1 DEF Rewrites, SizeOf, Rings
    <2>5. CASE option.name = "WithReceiveHeavy"
        <3>1. Sizes(option) = [s \in {"txFrames"} |-> 64]
            BY <2>5 DEF Sizes
        <3> QED BY <2>1, <2>5, <2>n, <3>1 DEF Rewrites, SizeOf, Rings
    <2>6. CASE option.name = "WithRingSize"
        <3>1. Sizes(option) = [s \in Rings |-> option.arg]
            BY <2>6 DEF Sizes
        <3> QED BY <2>1, <2>6, <2>n, <3>1 DEF Rewrites, SizeOf
    <2>7. CASE option.name \notin {"WithNumFrames", "WithFrameSize", "WithTxFrames", "WithReceiveHeavy",
                                   "WithRingSize"}
        <3>1. Sizes(option) = [s \in {} |-> 0]
            BY <1>2, <2>7 DEF Sizes
        <3> QED BY <2>1, <2>7, <2>n, <3>1 DEF Rewrites, SizeOf
    <2> QED BY <2>2, <2>3, <2>4, <2>5, <2>6, <2>7
<1> QED BY <1>1, <1>2

LEMMA SizesNamed ==
    ASSUME NEW option, IsOption(option)
    PROVE  DOMAIN Sizes(option) \subseteq SizeNames
<1>1. CASE option.name \in {"WithNumFrames", "WithFrameSize", "WithTxFrames", "WithReceiveHeavy", "WithRingSize",
                            "WithOptions"}
    BY <1>1 DEF Sizes, SizeNames
<1>2. CASE option.name \notin {"WithNumFrames", "WithFrameSize", "WithTxFrames", "WithReceiveHeavy",
                               "WithRingSize", "WithOptions"}
    BY <1>2 DEF Sizes
<1> QED BY <1>1, <1>2

\* newConfig records every option of the list, or one that overrides it, and
\* each size as the last option about it has it.
LEMMA ConfigRecords ==
    ASSUME NEW l \in OptionLists
    PROVE  /\ NewConfig(l) \in Configs
           /\ \A i \in DOMAIN l : \A size \in DOMAIN Sizes(l[i]) :
                  \/ SizeOf(NewConfig(l).opts, size) = Sizes(l[i])[size]
                  \/ \E j \in (i + 1)..Len(l) : size \in DOMAIN Sizes(l[j])
           /\ (\A i \in DOMAIN l : l[i].name = "WithOptions" => i = 1) =>
                  \A i \in DOMAIN l : \/ Recorded(NewConfig(l), l[i])
                                      \/ \E j \in (i + 1)..Len(l) : Overrides(l[j], l[i])
<1>1. /\ Len(l) \in Nat /\ DOMAIN l = 1..Len(l) /\ \A i \in 1..Len(l) : IsOption(l[i])
    BY SetupAssumption
<1>2. PICK after : /\ after[0] = ZeroConfig /\ NewConfig(l) = after[Len(l)]
                   /\ \A n \in 1..Len(l) : after[n] = Apply(after[n - 1], l[n])
    BY <1>1, ConfigByConfig
<1> DEFINE InPlace == \A i \in 1..Len(l) : l[i].name = "WithOptions" => i = 1
<1> DEFINE Lasting(n) == \A i \in 1..n : \/ Recorded(after[n], l[i])
                                         \/ \E j \in (i + 1)..n : Overrides(l[j], l[i])
<1> DEFINE Sized(n) == \A i \in 1..n : \A size \in DOMAIN Sizes(l[i]) :
                           \/ SizeOf(after[n].opts, size) = Sizes(l[i])[size]
                           \/ \E j \in (i + 1)..n : size \in DOMAIN Sizes(l[j])
<1> DEFINE S == {n \in Nat : n <= Len(l) => after[n] \in Configs /\ Sized(n) /\ (InPlace => Lasting(n))}
<1>3. 0 \in S
    <2>1. ZeroConfig \in Configs
        BY DEF ZeroConfig, ZeroOptions, Configs, OptionsType
    <2> QED BY <1>2, <2>1
<1>4. ASSUME NEW n \in Nat, n \in S PROVE n + 1 \in S
    <2> SUFFICES ASSUME n + 1 <= Len(l)
                 PROVE  after[n + 1] \in Configs /\ Sized(n + 1) /\ (InPlace => Lasting(n + 1))
        OBVIOUS
    <2>1. /\ after[n] \in Configs /\ Sized(n) /\ (InPlace => Lasting(n)) /\ n + 1 \in 1..Len(l)
        BY <1>1, <1>4
    <2>2. after[n + 1] = Apply(after[n], l[n + 1]) /\ IsOption(l[n + 1])
        BY <1>1, <1>2, <2>1
    <2>3. after[n + 1] \in Configs /\ Recorded(after[n + 1], l[n + 1])
        BY <2>1, <2>2, ApplyRecords
    <2>4. ASSUME InPlace, NEW i \in 1..(n + 1)
          PROVE  Recorded(after[n + 1], l[i]) \/ \E j \in (i + 1)..(n + 1) : Overrides(l[j], l[i])
        <3>1. CASE i = n + 1
            BY <2>3, <3>1
        <3>2. CASE i # n + 1
            <4>1. /\ i \in 1..n /\ i \in 1..Len(l) /\ n + 1 # 1 /\ n + 1 \in (i + 1)..(n + 1)
                  /\ \A j \in (i + 1)..n : j \in (i + 1)..(n + 1)
                BY <2>1, <3>2
            <4>2. IsOption(l[i]) /\ l[n + 1].name # "WithOptions"
                BY <1>1, <2>1, <2>4, <4>1
            <4>3. Recorded(after[n], l[i]) \/ \E j \in (i + 1)..n : Overrides(l[j], l[i])
                BY <2>1, <2>4, <4>1
            <4>4. CASE Recorded(after[n], l[i])
                BY <2>1, <2>2, <4>1, <4>2, <4>4, ApplyKeeps
            <4> QED BY <4>1, <4>3, <4>4
        <3> QED BY <3>1, <3>2
    <2>5. ASSUME NEW i \in 1..(n + 1), NEW size \in DOMAIN Sizes(l[i])
          PROVE  \/ SizeOf(after[n + 1].opts, size) = Sizes(l[i])[size]
                 \/ \E j \in (i + 1)..(n + 1) : size \in DOMAIN Sizes(l[j])
        <3>1. i \in 1..Len(l) /\ IsOption(l[i])
            BY <1>1, <2>1
        <3>2. size \in SizeNames
            BY <2>5, <3>1, SizesNamed
        <3>3. SizeOf(after[n + 1].opts, size) =
                  IF size \in DOMAIN Sizes(l[n + 1]) THEN Sizes(l[n + 1])[size] ELSE SizeOf(after[n].opts, size)
            BY <2>1, <2>2, <3>2, ApplySizes
        <3>4. CASE i = n + 1
            BY <2>5, <3>3, <3>4
        <3>5. CASE i # n + 1
            <4>1. /\ i \in 1..n /\ n + 1 \in (i + 1)..(n + 1)
                  /\ \A j \in (i + 1)..n : j \in (i + 1)..(n + 1)
                BY <3>1, <3>5
            <4>2. SizeOf(after[n].opts, size) = Sizes(l[i])[size] \/ \E j \in (i + 1)..n : size \in DOMAIN Sizes(l[j])
                BY <2>1, <2>5, <4>1
            <4> QED BY <3>3, <4>1, <4>2
        <3> QED BY <3>4, <3>5
    <2> QED BY <2>3, <2>4, <2>5
<1>5. Len(l) \in S
    <2> HIDE DEF S
    <2> QED BY <1>1, <1>3, <1>4, Induction
<1> QED BY <1>1, <1>2, <1>5

(***************************************************************************)
(* What Open makes of the config, and NewSocket of that.                   *)
(***************************************************************************)
Copy == {"zerocopy", "copy"}

LEMMA SocketOptionsByField ==
    ASSUME NEW c \in Configs, NEW d, NEW g, NEW bind \in Copy, NEW base, base = SocketOptions(c, d, g, bind)
    PROVE  /\ base \in OptionsType
           /\ base.numFrames = OrDefault(c.opts.numFrames, 8192)
           /\ c.opts.frameSize # 0 => base.frameSize = c.opts.frameSize
           /\ base.txFrames = OrDefault(c.opts.txFrames, Half(OrDefault(c.opts.numFrames, 8192)))
           /\ \A r \in Rings : base.ring[r] = OrDefault(c.opts.ring[r], 4096)
           /\ base.flags = c.opts.flags \cup {bind}
           /\ base.hairpin = c.opts.hairpin /\ base.busyPoll = c.opts.busyPoll
           /\ base.xdp = XdpFlags(g)
<1> DEFINE w == WithDefaults(c.opts)
<1> DEFINE b == BaseOptions(c, d)
<1>1. c.opts \in OptionsType
    BY DEF Configs
<1>2. /\ w \in OptionsType
      /\ w.numFrames = OrDefault(c.opts.numFrames, 8192)
      /\ w.frameSize = OrDefault(c.opts.frameSize, 2048)
      /\ w.txFrames = OrDefault(c.opts.txFrames, Half(OrDefault(c.opts.numFrames, 8192)))
      /\ \A r \in Rings : w.ring[r] = OrDefault(c.opts.ring[r], 4096)
      /\ w.flags = c.opts.flags
      /\ w.hairpin = c.opts.hairpin /\ w.busyPoll = c.opts.busyPoll
    BY <1>1, DefaultsInForce
<1>3. b = w \/ (c.opts.frameSize = 0 /\ b = [w EXCEPT !.frameSize = 4096])
    BY DEF BaseOptions
<1>4. base = [b EXCEPT !.flags = b.flags \cup {bind}, !.xdp = XdpFlags(g)]
    BY DEF SocketOptions
<1> HIDE DEF w, b
<1>5. /\ b \in OptionsType /\ b.numFrames = w.numFrames
      /\ c.opts.frameSize # 0 => b.frameSize = w.frameSize
      /\ b.txFrames = w.txFrames /\ b.ring = w.ring /\ b.flags = w.flags
      /\ b.hairpin = w.hairpin /\ b.busyPoll = w.busyPoll
    BY <1>2, <1>3 DEF OptionsType
<1>6. /\ base \in OptionsType /\ base.numFrames = b.numFrames /\ base.frameSize = b.frameSize
      /\ base.txFrames = b.txFrames /\ base.ring = b.ring /\ base.flags = b.flags \cup {bind}
      /\ base.hairpin = b.hairpin /\ base.busyPoll = b.busyPoll /\ base.xdp = XdpFlags(g)
    <2> DEFINE e == [b EXCEPT !.flags = b.flags \cup {bind}]
    <2>1. e \in OptionsType
        BY <1>5 DEF OptionsType, Copy
    <2>2. /\ e.numFrames = b.numFrames /\ e.frameSize = b.frameSize /\ e.txFrames = b.txFrames
          /\ e.ring = b.ring /\ e.flags = b.flags \cup {bind}
          /\ e.hairpin = b.hairpin /\ e.busyPoll = b.busyPoll
        BY <1>5 DEF OptionsType
    <2>3. base = [e EXCEPT !.xdp = XdpFlags(g)] /\ XdpFlags(g) \in {"drv", "skb"}
        BY <1>4 DEF XdpFlags
    <2> HIDE DEF e
    <2>4. base \in OptionsType
        BY <2>1, <2>3 DEF OptionsType
    <2>5. /\ base.numFrames = e.numFrames /\ base.frameSize = e.frameSize /\ base.txFrames = e.txFrames
          /\ base.ring = e.ring /\ base.flags = e.flags
          /\ base.hairpin = e.hairpin /\ base.busyPoll = e.busyPoll /\ base.xdp = XdpFlags(g)
        BY <2>1, <2>3 DEF OptionsType
    <2> QED BY <2>2, <2>4, <2>5
<1>7. c.opts.frameSize # 0 => w.frameSize = c.opts.frameSize
    BY <1>2 DEF OrDefault
<1>8. w.hairpin = c.opts.hairpin /\ b.hairpin = w.hairpin /\ base.hairpin = b.hairpin
    <2>1. w.hairpin = c.opts.hairpin
        BY <1>2
    <2>2. b.hairpin = w.hairpin
        BY <1>5
    <2>3. base.hairpin = b.hairpin
        BY <1>6
    <2> QED BY <2>1, <2>2, <2>3
<1>9. w.busyPoll = c.opts.busyPoll /\ b.busyPoll = w.busyPoll /\ base.busyPoll = b.busyPoll
    <2>1. w.busyPoll = c.opts.busyPoll
        BY <1>2
    <2>2. b.busyPoll = w.busyPoll
        BY <1>5
    <2>3. base.busyPoll = b.busyPoll
        BY <1>6
    <2> QED BY <2>1, <2>2, <2>3
<1>10. base.hairpin = c.opts.hairpin
    BY <1>8, Zenon
<1>11. base.busyPoll = c.opts.busyPoll
    BY <1>9, Zenon
<1> QED BY <1>2, <1>5, <1>6, <1>7, <1>10, <1>11

LEMMA ElementOfOne ==
    ASSUME NEW a, NEW i \in DOMAIN <<a>>
    PROVE  <<a>>[i] = a
OBVIOUS

LEMMA ElementOfTwo ==
    ASSUME NEW a, NEW b, NEW i \in DOMAIN <<a, b>>
    PROVE  <<a, b>>[i] = a \/ <<a, b>>[i] = b
OBVIOUS

\* The modes to try for a config, and the copy modes of each.
LEMMA GroupsOfMode ==
    ASSUME NEW mode \in {"auto", "nativeZC", "native", "generic"},
           NEW g \in Range(ModeGroups(mode)), NEW bind \in Range(g.binds)
    PROVE  /\ bind \in Copy
           /\ mode = "nativeZC" => g.native /\ bind = "zerocopy"
           /\ mode = "native" => g.native
           /\ mode = "generic" => ~g.native /\ bind = "copy"
<1>1. PICK i \in DOMAIN ModeGroups(mode) : g = ModeGroups(mode)[i]
    BY DEF Range
<1>2. PICK j \in DOMAIN g.binds : bind = g.binds[j]
    BY DEF Range
<1>3. CASE mode = "generic"
    <2>0. ModeGroups(mode) = <<[native |-> FALSE, binds |-> <<"copy">>]>>
        BY <1>3 DEF ModeGroups
    <2>1. g = [native |-> FALSE, binds |-> <<"copy">>]
        BY <1>1, <2>0, ElementOfOne, ElementOfTwo, Zenon
    <2>2. g.native = FALSE /\ g.binds = <<"copy">>
        BY <2>1
    <2> QED BY <1>2, <1>3, <2>2 DEF Copy
<1>4. CASE mode = "nativeZC"
    <2>0. ModeGroups(mode) = <<[native |-> TRUE, binds |-> <<"zerocopy">>]>>
        BY <1>4 DEF ModeGroups
    <2>1. g = [native |-> TRUE, binds |-> <<"zerocopy">>]
        BY <1>1, <2>0, ElementOfOne, ElementOfTwo, Zenon
    <2>2. g.native = TRUE /\ g.binds = <<"zerocopy">>
        BY <2>1
    <2> QED BY <1>2, <1>4, <2>2 DEF Copy
<1>5. CASE mode = "native"
    <2>0. ModeGroups(mode) = <<[native |-> TRUE, binds |-> <<"zerocopy", "copy">>]>>
        BY <1>5 DEF ModeGroups
    <2>1. g = [native |-> TRUE, binds |-> <<"zerocopy", "copy">>]
        BY <1>1, <2>0, ElementOfOne, ElementOfTwo, Zenon
    <2>2. g.native = TRUE /\ g.binds = <<"zerocopy", "copy">>
        BY <2>1
    <2> QED BY <1>2, <1>5, <2>2 DEF Copy
<1>6. CASE mode = "auto"
    <2> DEFINE both == [native |-> TRUE, binds |-> <<"zerocopy", "copy">>]
    <2> DEFINE only == [native |-> FALSE, binds |-> <<"copy">>]
    <2>0. ModeGroups(mode) = <<both, only>>
        BY <1>6 DEF ModeGroups
    <2> HIDE DEF both, only
    <2>3. i \in DOMAIN <<both, only>> /\ g = <<both, only>>[i]
        BY <1>1, <2>0, Zenon
    <2>4. <<both, only>>[i] = both \/ <<both, only>>[i] = only
        BY <2>3, ElementOfTwo
    <2>1. g = [native |-> TRUE, binds |-> <<"zerocopy", "copy">>] \/ g = [native |-> FALSE, binds |-> <<"copy">>]
        BY <2>3, <2>4, Zenon DEF both, only
    <2>2. g.binds = <<"zerocopy", "copy">> \/ g.binds = <<"copy">>
        BY <2>1
    <2> QED BY <1>2, <1>6, <2>2 DEF Copy
<1> QED BY <1>3, <1>4, <1>5, <1>6

\* An option the config records is granted by every socket made from it.
LEMMA RecordedIsGranted ==
    ASSUME NEW option, IsOption(option), NewConfig(list) \in Configs,
           Recorded(NewConfig(list), option),
           NEW g \in Range(ModeGroups(NewConfig(list).mode)), NEW bind \in Range(g.binds),
           native = g.native, opts = WithDefaults(SocketOptions(NewConfig(list), driver, g, bind))
    PROVE  Granted(option)
<1> DEFINE c == NewConfig(list)
<1> DEFINE base == SocketOptions(c, driver, g, bind)
<1>1. /\ c \in Configs /\ c.mode \in {"auto", "nativeZC", "native", "generic"} /\ c.opts \in OptionsType
      /\ Recorded(c, option)
    BY DEF Configs
<1>2. /\ bind \in Copy
      /\ c.mode = "nativeZC" => native /\ bind = "zerocopy"
      /\ c.mode = "native" => native
      /\ c.mode = "generic" => ~native /\ bind = "copy"
    BY <1>1, GroupsOfMode
<1>3. /\ base \in OptionsType
      /\ base.numFrames = OrDefault(c.opts.numFrames, 8192)
      /\ c.opts.frameSize # 0 => base.frameSize = c.opts.frameSize
      /\ base.txFrames = OrDefault(c.opts.txFrames, Half(OrDefault(c.opts.numFrames, 8192)))
      /\ \A r \in Rings : base.ring[r] = OrDefault(c.opts.ring[r], 4096)
      /\ base.flags = c.opts.flags \cup {bind}
      /\ base.hairpin = c.opts.hairpin /\ base.busyPoll = c.opts.busyPoll
    BY <1>1, <1>2, SocketOptionsByField
<1>4. opts = WithDefaults(base)
    OBVIOUS
<1> HIDE DEF base
<1>5. /\ opts.numFrames = OrDefault(base.numFrames, 8192)
      /\ opts.frameSize = OrDefault(base.frameSize, 2048)
      /\ opts.txFrames = OrDefault(base.txFrames, Half(OrDefault(base.numFrames, 8192)))
      /\ \A r \in Rings : opts.ring[r] = OrDefault(base.ring[r], 4096)
      /\ opts.flags = base.flags
      /\ opts.hairpin = base.hairpin /\ opts.busyPoll = base.busyPoll
    BY <1>3, <1>4, DefaultsInForce
<1>7. opts.flags = c.opts.flags \cup {bind}
    BY <1>3, <1>5
<1>20. opts.hairpin = c.opts.hairpin
    <2>1. base.hairpin = c.opts.hairpin
        BY <1>3
    <2>2. opts.hairpin = base.hairpin
        BY <1>5
    <2> QED BY <2>1, <2>2, Zenon
<1>21. opts.busyPoll = c.opts.busyPoll
    <2>1. base.busyPoll = c.opts.busyPoll
        BY <1>3
    <2>2. opts.busyPoll = base.busyPoll
        BY <1>5
    <2> QED BY <2>1, <2>2, Zenon
<1> HIDE DEF c
<1>8. CASE option.name \in {"WithNumFrames", "WithFrameSize", "WithTxFrames", "WithReceiveHeavy", "WithRingSize"}
    BY <1>8 DEF Granted
<1>12. CASE option.name \in DOMAIN Modes
    BY <1>1, <1>2, <1>7, <1>12, OptionNames DEF Recorded, Granted
<1>13. CASE option.name = "WithNeedWakeup"
    BY <1>1, <1>7, <1>13, OptionNames DEF Recorded, Granted
<1>14. CASE option.name \in {"WithTxReuseRxFrames", "WithBusyPoll"}
    <2>1. option.name = "WithTxReuseRxFrames" => c.opts.hairpin
        BY <1>1, OptionNames DEF Recorded
    <2>2. option.name = "WithBusyPoll" => c.opts.busyPoll
        BY <1>1, OptionNames DEF Recorded
    <2> QED BY <1>20, <1>21, <1>14, <2>1, <2>2 DEF Granted
<1>15. CASE option.name = "WithMultiBuffer"
    <2>1. "sg" \in c.opts.flags /\ c.multiBuffer
        BY <1>1, <1>15, OptionNames DEF Recorded
    <2>2. Granted(option) <=> "sg" \in opts.flags /\ NewConfig(list).multiBuffer
        BY <1>15 DEF Granted
    <2> QED BY <1>7, <2>1, <2>2 DEF c
<1>16. CASE option.name = "WithOptions"
    <2>1. /\ option.arg.flags \subseteq c.opts.flags
          /\ (option.arg.hairpin => c.opts.hairpin)
          /\ (option.arg.busyPoll => c.opts.busyPoll)
        BY <1>1, <1>16, OptionNames DEF Recorded
    <2>2. option.arg.flags \subseteq opts.flags
        BY <1>7, <2>1
    <2>3. Granted(option) <=> /\ option.arg.flags \subseteq opts.flags
                              /\ (option.arg.hairpin => opts.hairpin)
                              /\ (option.arg.busyPoll => opts.busyPoll)
        BY <1>16 DEF Granted
    <2> QED BY <1>20, <1>21, <2>1, <2>2, <2>3, Zenon
<1> QED BY <1>8, <1>12, <1>13, <1>14, <1>15, <1>16, OptionNames

\* And so is a size it has, unless that is zero.
LEMMA SizeIsInForce ==
    ASSUME NewConfig(list) \in Configs, NEW size \in SizeNames, SizeOf(NewConfig(list).opts, size) # 0,
           NEW g \in Range(ModeGroups(NewConfig(list).mode)), NEW bind \in Range(g.binds),
           opts = WithDefaults(SocketOptions(NewConfig(list), driver, g, bind))
    PROVE  SizeOf(opts, size) = SizeOf(NewConfig(list).opts, size)
<1> DEFINE c == NewConfig(list)
<1> DEFINE base == SocketOptions(c, driver, g, bind)
<1>1. c \in Configs /\ c.mode \in {"auto", "nativeZC", "native", "generic"} /\ c.opts \in OptionsType
    BY DEF Configs
<1>2. bind \in Copy
    BY <1>1, GroupsOfMode
<1>3. /\ base \in OptionsType
      /\ base.numFrames = OrDefault(c.opts.numFrames, 8192)
      /\ c.opts.frameSize # 0 => base.frameSize = c.opts.frameSize
      /\ base.txFrames = OrDefault(c.opts.txFrames, Half(OrDefault(c.opts.numFrames, 8192)))
      /\ \A r \in Rings : base.ring[r] = OrDefault(c.opts.ring[r], 4096)
    BY <1>1, <1>2, SocketOptionsByField
<1>4. opts = WithDefaults(base)
    OBVIOUS
<1> HIDE DEF base
<1>5. /\ opts.numFrames = OrDefault(base.numFrames, 8192)
      /\ opts.frameSize = OrDefault(base.frameSize, 2048)
      /\ opts.txFrames = OrDefault(base.txFrames, Half(OrDefault(base.numFrames, 8192)))
      /\ \A r \in Rings : opts.ring[r] = OrDefault(base.ring[r], 4096)
    BY <1>3, <1>4, DefaultsInForce
<1>6. /\ c.opts.numFrames # 0 => opts.numFrames = c.opts.numFrames
      /\ c.opts.frameSize # 0 => opts.frameSize = c.opts.frameSize
      /\ c.opts.txFrames # 0 => opts.txFrames = c.opts.txFrames
      /\ \A r \in Rings : c.opts.ring[r] # 0 => opts.ring[r] = c.opts.ring[r]
    BY <1>3, <1>5 DEF OrDefault
<1>7. SizeOf(c.opts, size) # 0
    OBVIOUS
<1> HIDE DEF c
<1>8. CASE size \in Rings
    BY <1>6, <1>7, <1>8 DEF SizeOf, c
<1>9. CASE size \in {"numFrames", "frameSize", "txFrames"} /\ size \notin Rings
    BY <1>6, <1>7, <1>9 DEF SizeOf, c
<1> QED BY <1>8, <1>9 DEF SizeNames

(***************************************************************************)
(* The acquisition: every ring has a size, so which step comes when does   *)
(* not depend on the options, but for the last three.                      *)
(***************************************************************************)
Names == {"socket", "eventfd", "umem", "registerUmem", "sizeFill", "sizeCompletion", "sizeRx", "sizeTx",
          "offsets", "mapFill", "mapCompletion", "mapRx", "mapTx", "fillPool", "bind",
          "preferBusyPoll", "busyPoll", "busyPollBudget"}

BusyPollSteps == {"preferBusyPoll", "busyPoll", "busyPollBudget"}

\* u is s, then t.
Joins(u, s, t) ==
    /\ u \in Seq(Names) /\ Len(u) = Len(s) + Len(t)
    /\ \A i \in 1..Len(s) : u[i] = s[i]
    /\ \A i \in 1..Len(t) : u[Len(s) + i] = t[i]

LEMMA Concatenated ==
    ASSUME NEW s \in Seq(Names), NEW t \in Seq(Names)
    PROVE  Joins(s \o t, s, t)
BY DEF Joins

LEMMA StepsInOrder ==
    ASSUME NEW o, \A r \in Rings : o.ring[r] > 0, NEW a, a = Acquisition(o)
    PROVE  /\ a \in Seq(Names) /\ Len(a) >= 15
           /\ a[1] = "socket" /\ a[2] = "eventfd" /\ a[3] = "umem" /\ a[4] = "registerUmem"
           /\ a[5] = "sizeFill" /\ a[6] = "sizeCompletion" /\ a[7] = "sizeRx" /\ a[8] = "sizeTx"
           /\ a[9] = "offsets" /\ a[10] = "mapFill" /\ a[11] = "mapCompletion"
           /\ a[12] = "mapRx" /\ a[13] = "mapTx" /\ a[14] = "fillPool" /\ a[15] = "bind"
           /\ \A i \in 16..Len(a) : a[i] \in BusyPollSteps
<1> DEFINE h == <<"socket", "eventfd", "umem", "registerUmem", "sizeFill", "sizeCompletion">>
<1> DEFINE m == <<"offsets", "mapFill", "mapCompletion">>
<1> DEFINE e == <<"fillPool", "bind">>
<1> DEFINE b == BusyPoll(o)
<1> DEFINE x == <<"sizeRx">>
<1> DEFINE y == <<"sizeTx">>
<1> DEFINE v == <<"mapRx">>
<1> DEFINE w == <<"mapTx">>
<1>1. a = ((((((h \o x) \o y) \o m) \o v) \o w) \o e) \o b
    <2>1. \A name : IfRing(o, "rx", name) = <<name>> /\ IfRing(o, "tx", name) = <<name>>
        BY DEF IfRing, Rings
    <2> QED BY <2>1 DEF Acquisition
<1>2. /\ h \in Seq(Names) /\ Len(h) = 6
      /\ h[1] = "socket" /\ h[2] = "eventfd" /\ h[3] = "umem" /\ h[4] = "registerUmem"
      /\ h[5] = "sizeFill" /\ h[6] = "sizeCompletion"
    BY DEF Names
<1>3. m \in Seq(Names) /\ Len(m) = 3 /\ m[1] = "offsets" /\ m[2] = "mapFill" /\ m[3] = "mapCompletion"
    BY DEF Names
<1>4. e \in Seq(Names) /\ Len(e) = 2 /\ e[1] = "fillPool" /\ e[2] = "bind"
    BY DEF Names
<1>5. b \in Seq(Names) /\ Len(b) \in Nat /\ \A i \in 1..Len(b) : b[i] \in BusyPollSteps
    <2>1. CASE o.busyPoll
        <3>1. b = <<"preferBusyPoll", "busyPoll", "busyPollBudget">>
            BY <2>1 DEF BusyPoll
        <3>2. Len(b) = 3 /\ b[1] = "preferBusyPoll" /\ b[2] = "busyPoll" /\ b[3] = "busyPollBudget"
            BY <3>1
        <3>3. b \in Seq(Names)
            BY <3>1 DEF Names
        <3> QED BY <3>2, <3>3 DEF BusyPollSteps
    <2>2. CASE ~o.busyPoll
        <3>1. b = <<>>
            BY <2>2 DEF BusyPoll
        <3> QED BY <3>1
    <2> QED BY <2>1, <2>2
<1>6. /\ x \in Seq(Names) /\ Len(x) = 1 /\ x[1] = "sizeRx"
      /\ y \in Seq(Names) /\ Len(y) = 1 /\ y[1] = "sizeTx"
      /\ v \in Seq(Names) /\ Len(v) = 1 /\ v[1] = "mapRx"
      /\ w \in Seq(Names) /\ Len(w) = 1 /\ w[1] = "mapTx"
    <2>1. "sizeRx" \in Names /\ "sizeTx" \in Names /\ "mapRx" \in Names /\ "mapTx" \in Names
        BY DEF Names
    <2>2. \A name \in Names : <<name>> \in Seq(Names) /\ Len(<<name>>) = 1 /\ <<name>>[1] = name
        OBVIOUS
    <2> QED BY <2>1, <2>2, Zenon
<1> HIDE DEF h, m, e, b, x, y, v, w
<1> DEFINE t1 == h \o x
<1>7. /\ t1 \in Seq(Names) /\ Len(t1) = 7 /\ \A i \in 1..6 : t1[i] = h[i]
      /\ \A i \in 1..1 : t1[6 + i] = x[i]
    <2>1. Joins(t1, h, x)
        BY <1>2, <1>6, Concatenated
    <2> HIDE DEF t1
    <2> QED BY <1>2, <1>6, <2>1 DEF Joins
<1> HIDE DEF t1
<1> DEFINE t2 == t1 \o y
<1>8. /\ t2 \in Seq(Names) /\ Len(t2) = 8 /\ \A i \in 1..7 : t2[i] = t1[i]
      /\ \A i \in 1..1 : t2[7 + i] = y[i]
    <2>1. Joins(t2, t1, y)
        BY <1>7, <1>6, Concatenated
    <2> HIDE DEF t2
    <2> QED BY <1>7, <1>6, <2>1 DEF Joins
<1> HIDE DEF t2
<1> DEFINE t3 == t2 \o m
<1>9. /\ t3 \in Seq(Names) /\ Len(t3) = 11 /\ \A i \in 1..8 : t3[i] = t2[i]
      /\ \A i \in 1..3 : t3[8 + i] = m[i]
    <2>1. Joins(t3, t2, m)
        BY <1>8, <1>3, Concatenated
    <2> HIDE DEF t3
    <2> QED BY <1>8, <1>3, <2>1 DEF Joins
<1> HIDE DEF t3
<1> DEFINE t4 == t3 \o v
<1>10. /\ t4 \in Seq(Names) /\ Len(t4) = 12 /\ \A i \in 1..11 : t4[i] = t3[i]
       /\ \A i \in 1..1 : t4[11 + i] = v[i]
    <2>1. Joins(t4, t3, v)
        BY <1>9, <1>6, Concatenated
    <2> HIDE DEF t4
    <2> QED BY <1>9, <1>6, <2>1 DEF Joins
<1> HIDE DEF t4
<1> DEFINE t5 == t4 \o w
<1>11. /\ t5 \in Seq(Names) /\ Len(t5) = 13 /\ \A i \in 1..12 : t5[i] = t4[i]
       /\ \A i \in 1..1 : t5[12 + i] = w[i]
    <2>1. Joins(t5, t4, w)
        BY <1>10, <1>6, Concatenated
    <2> HIDE DEF t5
    <2> QED BY <1>10, <1>6, <2>1 DEF Joins
<1> HIDE DEF t5
<1> DEFINE t6 == t5 \o e
<1>12. /\ t6 \in Seq(Names) /\ Len(t6) = 15 /\ \A i \in 1..13 : t6[i] = t5[i]
       /\ \A i \in 1..2 : t6[13 + i] = e[i]
    <2>1. Joins(t6, t5, e)
        BY <1>11, <1>4, Concatenated
    <2> HIDE DEF t6
    <2> QED BY <1>11, <1>4, <2>1 DEF Joins
<1> HIDE DEF t6
<1>13. /\ a \in Seq(Names) /\ Len(a) = 15 + Len(b) /\ \A i \in 1..15 : a[i] = t6[i]
       /\ \A i \in 1..Len(b) : a[15 + i] = b[i]
    <2>1. a = t6 \o b
        BY <1>1 DEF t1, t2, t3, t4, t5, t6
    <2>2. Joins(a, t6, b)
        BY <1>5, <1>12, <2>1, Concatenated, Zenon
    <2> QED BY <1>12, <2>2 DEF Joins
<1>14. ASSUME NEW i \in 16..Len(a) PROVE a[i] \in BusyPollSteps
    <2>1. i - 15 \in 1..Len(b) /\ i = 15 + (i - 15)
        BY <1>5, <1>13
    <2> QED BY <1>5, <1>13, <2>1
<1>15. \A i \in 1..13 : a[i] = t5[i]
    BY <1>12, <1>13
<1>16. \A i \in 1..11 : a[i] = t3[i]
    BY <1>10, <1>11, <1>15
<1>17. \A i \in 1..8 : a[i] = t2[i]
    BY <1>9, <1>16
<1>18. \A i \in 1..6 : a[i] = h[i]
    BY <1>7, <1>8, <1>17
<1>19. /\ a[1] = "socket" /\ a[2] = "eventfd" /\ a[3] = "umem" /\ a[4] = "registerUmem"
       /\ a[5] = "sizeFill" /\ a[6] = "sizeCompletion"
    BY <1>2, <1>18
<1>20. a[7] = "sizeRx" /\ a[8] = "sizeTx"
    BY <1>6, <1>7, <1>8, <1>17
<1>21. a[9] = "offsets" /\ a[10] = "mapFill" /\ a[11] = "mapCompletion"
    BY <1>3, <1>9, <1>16
<1>22. a[12] = "mapRx" /\ a[13] = "mapTx"
    BY <1>6, <1>10, <1>11, <1>15
<1>23. a[14] = "fillPool" /\ a[15] = "bind"
    BY <1>4, <1>12, <1>13
<1> QED BY <1>5, <1>13, <1>14, <1>19, <1>20, <1>21, <1>22, <1>23

(***************************************************************************)
(* The inductive invariant: where the options NewSocket works with come    *)
(* from, and what the steps taken so far have left.                        *)
(***************************************************************************)
Begun == phase \in {"acquiring", "ready"}

Typed ==
    /\ phase \in {"listed", "given", "resolved", "acquiring", "ready", "refused", "failed"}
    /\ raw \in OptionsType /\ resources \subseteq Yields /\ rings \subseteq Rings
    /\ step \in Nat \ {0}

\* raw is what some variant of a mode of the config comes to.
MadeFromConfig ==
    \E g \in Range(ModeGroups(NewConfig(list).mode)) : \E bind \in Range(g.binds) :
        raw = SocketOptions(NewConfig(list), driver, g, bind) /\ native = g.native

Origin ==
    /\ phase \in {"listed", "given"} => opts = raw
    /\ phase \notin {"listed", "given"} => opts = WithDefaults(raw)
    /\ phase = "listed" \/ list # <<>> => list \in OptionLists
    /\ phase # "listed" /\ list # <<>> => MadeFromConfig

\* What a step leaves, once taken.
Taken(name) ==
    /\ name \in Yields => name \in resources
    /\ name \in DOMAIN RingOfStep => RingOfStep[name] \in rings
    /\ name = "fillPool" => posted = FilledFrom(opts)
    /\ name = "bind" => ~({"zerocopy", "copy"} \subseteq opts.flags)

Progress ==
    /\ Begun => Valid(opts) /\ \A i \in 1..(step - 1) : Taken(Acquisition(opts)[i])
    /\ phase = "acquiring" => step <= Len(Acquisition(opts))
    /\ phase = "ready" => step = Len(Acquisition(opts)) + 1
    /\ ~Begun => resources = {}
    /\ phase \in {"listed", "given", "resolved"} => step = 1

IInv == Typed /\ Origin /\ Progress

\* What the checks leave is what the data path assumes.
LEMMA ValidIsSound ==
    ASSUME NEW r \in OptionsType, NEW o, o = WithDefaults(r), Valid(o)
    PROVE  /\ o \in OptionsType
           /\ 0 < o.txFrames /\ o.txFrames < o.numFrames
           /\ \A x \in Rings : o.ring[x] \in PowersOfTwo /\ o.ring[x] > 0
           /\ o.ring["fill"] <= o.numFrames - o.txFrames
<1>1. o \in OptionsType /\ \A x \in Rings : o.ring[x] = OrDefault(r.ring[x], 4096)
    BY DefaultsInForce
<1>2. \A n : OrDefault(n, 4096) # 0
    BY DEF OrDefault
<1>3. ASSUME NEW x \in Rings PROVE o.ring[x] \in PowersOfTwo
    <2>1. o.ring[x] # 0
        BY <1>1, <1>2
    <2>2. o.ring[x] = 0 \/ o.ring[x] \in PowersOfTwo
        BY Zenon DEF Valid
    <2> QED BY <2>1, <2>2
<1>4. ASSUME NEW x \in Rings PROVE o.ring[x] > 0
    <2>1. \A n \in PowersOfTwo : n \in Nat /\ n # 0
        BY Zenon DEF PowersOfTwo
    <2>2. o.ring[x] \in Nat /\ o.ring[x] # 0
        BY <1>3, <2>1
    <2> QED BY <2>2
<1>5. 0 < o.txFrames /\ o.txFrames < o.numFrames /\ o.ring["fill"] <= o.numFrames - o.txFrames
    BY <1>1 DEF Valid, OptionsType
<1> QED BY <1>1, <1>3, <1>4, <1>5

LEMMA StepsOf ==
    ASSUME IInv, Begun, NEW a, a = Acquisition(opts)
    PROVE  /\ a \in Seq(Names) /\ Len(a) >= 15 /\ Len(a) \in Nat
           /\ a[1] = "socket" /\ a[2] = "eventfd" /\ a[3] = "umem" /\ a[4] = "registerUmem"
           /\ a[5] = "sizeFill" /\ a[6] = "sizeCompletion" /\ a[7] = "sizeRx" /\ a[8] = "sizeTx"
           /\ a[9] = "offsets" /\ a[10] = "mapFill" /\ a[11] = "mapCompletion"
           /\ a[12] = "mapRx" /\ a[13] = "mapTx" /\ a[14] = "fillPool" /\ a[15] = "bind"
           /\ \A i \in 16..Len(a) : a[i] \in BusyPollSteps
<1>1. raw \in OptionsType /\ opts = WithDefaults(raw) /\ Valid(opts)
    BY DEF IInv, Typed, Origin, Progress, Begun
<1>2. \A r \in Rings : opts.ring[r] > 0
    BY <1>1, ValidIsSound
<1> QED BY <1>2, StepsInOrder, SMTT(60)

LEMMA InitInvariant == Init => IInv
<1> SUFFICES ASSUME Init PROVE IInv
    OBVIOUS
<1>1. CASE phase = "given"
    <2>1. raw \in OptionsType
        <3>1. PICK n \in RawFrames, t \in RawTxFrames, rs \in [Rings -> RawRings], f \in RawFlags :
                  raw = [numFrames |-> n, frameSize |-> 0, txFrames |-> t, ring |-> rs,
                         flags |-> f.flags, hairpin |-> f.hairpin, busyPoll |-> f.busyPoll, xdp |-> f.xdp]
            BY <1>1 DEF Init
        <3>2. /\ n \in Int /\ t \in Int /\ rs \in [Rings -> Int]
              /\ f \in [flags : SUBSET {"sg", "needWakeup", "zerocopy", "copy"},
                        hairpin : BOOLEAN, busyPoll : BOOLEAN, xdp : {"default", "drv", "skb", "hw"}]
            BY SetupAssumption
        <3> QED BY <3>1, <3>2 DEF OptionsType
    <2> QED BY <1>1, <2>1 DEF Init, IInv, Typed, Origin, Progress, Begun
<1>2. CASE phase = "listed"
    <2>1. raw \in OptionsType
        <3>1. raw = ZeroOptions
            BY <1>2 DEF Init
        <3>2. ZeroOptions \in OptionsType
            BY DEF ZeroOptions, OptionsType
        <3> QED BY <3>1, <3>2
    <2> QED BY <1>2, <2>1 DEF Init, IInv, Typed, Origin, Progress, Begun
<1> QED BY <1>1, <1>2 DEF Init

LEMMA OpenTriesKeeps == IInv /\ OpenTries => IInv'
<1> SUFFICES ASSUME IInv, OpenTries PROVE IInv'
    OBVIOUS
<1>0. PICK g \in Range(ModeGroups(NewConfig(list).mode)) : \E bind \in Range(g.binds) :
          raw' = SocketOptions(NewConfig(list), driver, g, bind) /\ native' = g.native
    BY DEF OpenTries
<1>1. PICK bind \in Range(g.binds) :
          raw' = SocketOptions(NewConfig(list), driver, g, bind) /\ native' = g.native
    BY <1>0
<1>2. /\ phase = "listed" /\ phase' = "given" /\ opts' = raw' /\ list' = list /\ driver' = driver
      /\ UNCHANGED <<step, resources, rings, posted>> /\ list \in OptionLists
    BY DEF OpenTries, IInv, Origin
<1>3. NewConfig(list) \in Configs /\ NewConfig(list).mode \in {"auto", "nativeZC", "native", "generic"}
    BY <1>2, ConfigRecords DEF Configs
<1>4. bind \in Copy
    BY <1>3, GroupsOfMode
<1>5. raw' \in OptionsType
    BY <1>1, <1>3, <1>4, SocketOptionsByField
<1>6. MadeFromConfig'
    BY <1>1, <1>2 DEF MadeFromConfig
<1>7. Typed' /\ Origin'
    BY <1>2, <1>5, <1>6 DEF IInv, Typed, Origin
<1>8. Progress'
    BY <1>2 DEF IInv, Progress, Begun
<1> QED BY <1>7, <1>8 DEF IInv

LEMMA CheckKeeps == IInv /\ (Resolve \/ Refuse \/ Accept) => IInv'
<1> SUFFICES ASSUME IInv, Resolve \/ Refuse \/ Accept PROVE IInv'
    OBVIOUS
<1>1. MadeFromConfig' <=> MadeFromConfig
    BY DEF Resolve, Refuse, Accept, open, MadeFromConfig
<1>2. CASE Resolve
    BY <1>1, <1>2 DEF Resolve, open, IInv, Typed, Origin, Progress, Begun
<1>3. CASE Refuse
    BY <1>1, <1>3 DEF Refuse, open, IInv, Typed, Origin, Progress, Begun
<1>4. CASE Accept
    <2>1. Typed' /\ Origin'
        BY <1>1, <1>4 DEF Accept, open, IInv, Typed, Origin
    <2>2. step = 1 /\ step' = 1 /\ raw \in OptionsType /\ opts' = opts /\ opts = WithDefaults(raw) /\ Valid(opts)
        BY <1>4 DEF Accept, open, IInv, Typed, Origin, Progress
    <2>3. \A r \in Rings : opts.ring[r] > 0
        BY <2>2, ValidIsSound
    <2>4. Len(Acquisition(opts)) >= 15
        BY <2>3, StepsInOrder
    <2>5. Progress'
        BY <1>4, <2>2, <2>4 DEF Accept, Progress, Begun
    <2> QED BY <2>1, <2>5 DEF IInv
<1> QED BY <1>2, <1>3, <1>4

LEMMA StepSucceedsKeeps == IInv /\ StepSucceeds => IInv'
<1> SUFFICES ASSUME IInv, StepSucceeds PROVE IInv'
    OBVIOUS
<1> DEFINE a == Acquisition(opts)
<1>1. /\ phase = "acquiring" /\ opts' = opts /\ raw' = raw /\ list' = list /\ driver' = driver
      /\ native' = native /\ step' = step + 1 /\ step \in Nat \ {0} /\ step <= Len(a)
      /\ a[step] = "bind" => ~({"zerocopy", "copy"} \subseteq opts.flags)
      /\ resources' = resources \cup ({a[step]} \cap Yields)
      /\ rings' = rings \cup (IF a[step] \in DOMAIN RingOfStep THEN {RingOfStep[a[step]]} ELSE {})
      /\ posted' = IF a[step] = "fillPool" THEN FilledFrom(opts) ELSE posted
      /\ phase' = IF step = Len(a) THEN "ready" ELSE "acquiring"
    BY DEF StepSucceeds, open, FillsPool, IInv, Typed, Progress
<1>2. Len(a) \in Nat
    BY <1>1, StepsOf DEF Begun
<1>3. MadeFromConfig' <=> MadeFromConfig
    BY <1>1 DEF MadeFromConfig
<1>4. Acquisition(opts') = a /\ FilledFrom(opts') = FilledFrom(opts)
    BY <1>1
<1> HIDE DEF a
<1>5. Typed'
    <2>1. \A s \in DOMAIN RingOfStep : RingOfStep[s] \in Rings
        BY DEF RingOfStep, Rings
    <2> QED BY <1>1, <2>1 DEF IInv, Typed
<1>6. Origin'
    BY <1>1, <1>3 DEF IInv, Origin
<1>7. ASSUME NEW i \in 1..step, NEW name, name = a[i] PROVE Taken(name)'
    <2>1. CASE i = step
        BY <1>1, <1>4, <1>7, <2>1 DEF Taken
    <2>2. CASE i # step
        <3>1. i \in 1..(step - 1)
            BY <1>1, <2>2
        <3>2. Taken(name)
            BY <1>1, <1>7, <3>1 DEF IInv, Progress, Begun, a
        <3>3. /\ resources \subseteq resources' /\ rings \subseteq rings'
              /\ posted = FilledFrom(opts) => posted' = FilledFrom(opts)
            BY <1>1
        <3> QED BY <1>1, <1>4, <3>2, <3>3 DEF Taken
    <2> QED BY <2>1, <2>2
<1>8. Progress'
    <2>1. \A i \in 1..(step' - 1) : Taken(Acquisition(opts)[i])'
        <3> SUFFICES ASSUME NEW i \in 1..(step' - 1) PROVE Taken(Acquisition(opts)[i])'
            OBVIOUS
        <3> DEFINE name == a[i]
        <3>1. i \in 1..step
            BY <1>1
        <3>2. \A n : n = a[i] => Taken(n)'
            BY <1>7, <3>1
        <3>3. Taken(Acquisition(opts)[i])' <=> \A n : n = a[i] => Taken(n)'
            BY <1>4
        <3> QED BY <3>2, <3>3
    <2> QED BY <1>1, <1>2, <1>4, <2>1 DEF IInv, Progress, Begun
<1> QED BY <1>5, <1>6, <1>8 DEF IInv

LEMMA StepFailsKeeps == IInv /\ StepFails => IInv'
<1> SUFFICES ASSUME IInv, StepFails PROVE IInv'
    OBVIOUS
<1>1. MadeFromConfig' <=> MadeFromConfig
    BY DEF StepFails, open, MadeFromConfig
<1>2. resources' = {}
    BY DEF StepFails, IInv, Typed, Yields, ReleasedByClose
<1>3. Typed' /\ Origin'
    BY <1>1, <1>2 DEF StepFails, open, IInv, Typed, Origin
<1>4. Progress'
    BY <1>2 DEF StepFails, Progress, Begun
<1> QED BY <1>3, <1>4 DEF IInv

\* The invariant the theorems below rest on.
THEOREM Invariant == Spec => []IInv
<1>1. Init => IInv
    BY InitInvariant
<1>2. IInv /\ [Next]_vars => IInv'
    <2> SUFFICES ASSUME IInv, [Next]_vars PROVE IInv'
        OBVIOUS
    <2>1. CASE OpenTries
        BY <2>1, OpenTriesKeeps
    <2>2. CASE Resolve \/ Refuse \/ Accept
        BY <2>2, CheckKeeps
    <2>3. CASE StepSucceeds
        BY <2>3, StepSucceedsKeeps
    <2>4. CASE StepFails
        BY <2>4, StepFailsKeeps
    <2>5. CASE UNCHANGED vars
        <3>1. MadeFromConfig' <=> MadeFromConfig
            BY <2>5 DEF vars, open, MadeFromConfig
        <3> QED BY <2>5, <3>1 DEF vars, open, IInv, Typed, Origin, Progress, Begun, Taken
    <2> QED BY <2>1, <2>2, <2>3, <2>4, <2>5 DEF Next
<1> QED BY <1>1, <1>2, PTL DEF Spec

(***************************************************************************)
(* The theorems.                                                           *)
(***************************************************************************)
\* Whichever step of NewSocket fails, or if the options are refused, no
\* descriptor and no mapping is left.
THEOREM FailureIsClean == Spec => []FailureLeaksNothing
<1>1. IInv => FailureLeaksNothing
    BY DEF IInv, Progress, Begun, FailureLeaksNothing
<1> QED BY <1>1, Invariant, PTL

\* For all numbers and lists of options: what NewSocket accepts satisfies the
\* assumption under which the data path is proved.
THEOREM AcceptedFits == Spec => []AcceptedIsSound
<1>1. IInv => AcceptedIsSound
    <2> SUFFICES ASSUME IInv, Begun PROVE AcceptedIsSound
        BY DEF AcceptedIsSound, Begun
    <2>1. raw \in OptionsType /\ opts = WithDefaults(raw) /\ Valid(opts)
        BY DEF IInv, Typed, Origin, Progress, Begun
    <2> QED BY <2>1, ValidIsSound DEF AcceptedIsSound
<1> QED BY <1>1, Invariant, PTL

\* When the kernel is asked to activate the queue, and once NewSocket has
\* returned a socket, the four rings exist and are mapped, and the fill ring
\* holds as many frames as it has slots.
THEOREM QueueIsComplete == Spec => []CompleteBeforeBind
<1>1. IInv => CompleteBeforeBind
    <2> DEFINE a == Acquisition(opts)
    <2> SUFFICES ASSUME IInv, phase = "ready" \/ (phase = "acquiring" /\ a[step] = "bind")
                 PROVE  rings = Rings /\ resources = Yields /\ posted = opts.ring["fill"]
        BY DEF CompleteBeforeBind
    <2>1. Begun /\ step \in Nat \ {0} /\ resources \subseteq Yields /\ rings \subseteq Rings
        BY DEF Begun, IInv, Typed
    <2>2. /\ Len(a) >= 15 /\ Len(a) \in Nat
          /\ a[1] = "socket" /\ a[2] = "eventfd" /\ a[3] = "umem" /\ a[4] = "registerUmem"
          /\ a[5] = "sizeFill" /\ a[6] = "sizeCompletion" /\ a[7] = "sizeRx" /\ a[8] = "sizeTx"
          /\ a[9] = "offsets" /\ a[10] = "mapFill" /\ a[11] = "mapCompletion"
          /\ a[12] = "mapRx" /\ a[13] = "mapTx" /\ a[14] = "fillPool"
        BY <2>1, StepsOf
    <2>3. \A i \in 1..(step - 1) : Taken(a[i])
        BY <2>1 DEF IInv, Progress
    <2>4. /\ phase = "ready" => step = Len(a) + 1
          /\ opts = WithDefaults(raw) /\ raw \in OptionsType /\ Valid(opts)
        BY <2>1 DEF IInv, Typed, Origin, Progress, Begun
    <2> HIDE DEF a
    <2>5. step > 14
        <3> SUFFICES ASSUME step \in 1..14, a[step] = "bind" PROVE FALSE
            BY <2>1, <2>2, <2>4
        <3> QED BY <2>2, SMTT(60)
    <2>6. \A i \in 1..14 : Taken(a[i])
        BY <2>1, <2>3, <2>5
    <2>7. /\ Taken("socket") /\ Taken("eventfd") /\ Taken("umem") /\ Taken("mapFill") /\ Taken("mapCompletion")
          /\ Taken("mapRx") /\ Taken("mapTx")
        <3>1. Taken(a[1]) /\ Taken(a[2]) /\ Taken(a[3]) /\ Taken(a[10]) /\ Taken(a[11]) /\ Taken(a[12]) /\ Taken(a[13])
            BY <2>6
        <3> QED BY <2>2, <3>1
    <2>8. Taken("sizeFill") /\ Taken("sizeCompletion") /\ Taken("sizeRx") /\ Taken("sizeTx") /\ Taken("fillPool")
        <3>1. Taken(a[5]) /\ Taken(a[6]) /\ Taken(a[7]) /\ Taken(a[8]) /\ Taken(a[14])
            BY <2>6
        <3> QED BY <2>2, <3>1
    <2>9. resources = Yields
        BY <2>1, <2>7 DEF Taken, Yields
    <2>10. rings = Rings
        <3>1. /\ {"sizeFill", "sizeCompletion", "sizeRx", "sizeTx"} \subseteq DOMAIN RingOfStep
              /\ RingOfStep["sizeFill"] = "fill" /\ RingOfStep["sizeCompletion"] = "completion"
              /\ RingOfStep["sizeRx"] = "rx" /\ RingOfStep["sizeTx"] = "tx"
            BY DEF RingOfStep
        <3>2. "fill" \in rings /\ "completion" \in rings /\ "rx" \in rings /\ "tx" \in rings
            BY <2>8, <3>1 DEF Taken
        <3> QED BY <2>1, <3>2 DEF Rings
    <2>11. posted = opts.ring["fill"]
        <3>1. /\ opts \in OptionsType /\ opts.ring["fill"] <= opts.numFrames - opts.txFrames
              /\ posted = FilledFrom(opts)
            BY <2>4, <2>8, ValidIsSound DEF Taken
        <3> QED BY <3>1 DEF FilledFrom, OptionsType, Rings
    <2> QED BY <2>9, <2>10, <2>11
<1> QED BY <1>1, Invariant, PTL

\* Whatever list of options Open is given, of any length and in any order, and
\* whichever mode and copy mode it ends up with, every size is the one the last
\* option about it asks for, every other option is in force on the socket or
\* overridden by a later choice of the mode, those inside WithOptions too, one
\* copy mode at most was asked for, and what was left to the default never makes
\* NewSocket refuse.  The XDPFlags inside WithOptions are not among them: those
\* of the mode being tried replace them.
THEOREM OptionsAreHonoured == Spec => []OptionsHonoured
<1>1. IInv => OptionsInForce
    <2> SUFFICES ASSUME IInv, phase = "ready", InOrder
                 PROVE  /\ SizesInForce
                        /\ \A i \in DOMAIN list :
                              Granted(list[i]) \/ \E j \in (i + 1)..Len(list) : Overrides(list[j], list[i])
                        /\ Cardinality(opts.flags \cap {"zerocopy", "copy"}) <= 1
                        /\ list # <<>> => opts.xdp = IF native THEN "drv" ELSE "skb"
        BY DEF OptionsInForce
    <2> DEFINE a == Acquisition(opts)
    <2>1. Cardinality(opts.flags \cap {"zerocopy", "copy"}) <= 1
        <3>1. Len(a) >= 15 /\ Len(a) \in Nat /\ a[15] = "bind"
            BY StepsOf DEF Begun
        <3>2. 15 \in 1..(step - 1) /\ \A i \in 1..(step - 1) : Taken(a[i])
            BY <3>1 DEF IInv, Progress, Begun
        <3>3. ~({"zerocopy", "copy"} \subseteq opts.flags)
            BY <3>1, <3>2 DEF Taken
        <3> DEFINE asked == opts.flags \cap {"zerocopy", "copy"}
        <3>4. asked = {} \/ asked = {"zerocopy"} \/ asked = {"copy"}
            BY <3>3
        <3> HIDE DEF asked
        <3>5. Cardinality(asked) = 0 \/ Cardinality(asked) = 1
            BY <3>4, FS_EmptySet, FS_Singleton
        <3> QED BY <3>5 DEF asked
    <2>2. ASSUME NEW i \in DOMAIN list
          PROVE  Granted(list[i]) \/ \E j \in (i + 1)..Len(list) : Overrides(list[j], list[i])
        <3>1. list # <<>>
            OBVIOUS
        <3>2. list \in OptionLists /\ MadeFromConfig /\ opts = WithDefaults(raw)
            BY <3>1 DEF IInv, Origin
        <3>3. /\ NewConfig(list) \in Configs
              /\ Recorded(NewConfig(list), list[i]) \/ \E j \in (i + 1)..Len(list) : Overrides(list[j], list[i])
            BY <3>2, ConfigRecords DEF InOrder
        <3>4. IsOption(list[i])
            BY <3>2, SetupAssumption
        <3>5. PICK g \in Range(ModeGroups(NewConfig(list).mode)) : \E bind \in Range(g.binds) :
                  raw = SocketOptions(NewConfig(list), driver, g, bind) /\ native = g.native
            BY <3>2 DEF MadeFromConfig
        <3>6. PICK bind \in Range(g.binds) :
                  raw = SocketOptions(NewConfig(list), driver, g, bind) /\ native = g.native
            BY <3>5
        <3>7. CASE Recorded(NewConfig(list), list[i])
            <4>1. opts = WithDefaults(SocketOptions(NewConfig(list), driver, g, bind))
                BY <3>2, <3>6
            <4>2. Granted(list[i])
                BY <3>3, <3>4, <3>6, <3>7, <4>1, RecordedIsGranted, Zenon
            <4> QED BY <4>2
        <3> QED BY <3>3, <3>7
    <2>3. ASSUME NEW i \in DOMAIN list, NEW size \in DOMAIN Sizes(list[i]), Sizes(list[i])[size] # 0
          PROVE  \/ Sizes(list[i])[size] = SizeOf(opts, size)
                 \/ \E j \in (i + 1)..Len(list) : size \in DOMAIN Sizes(list[j])
        <3>1. list # <<>>
            OBVIOUS
        <3>2. list \in OptionLists /\ MadeFromConfig /\ opts = WithDefaults(raw)
            BY <3>1 DEF IInv, Origin
        <3>3. /\ NewConfig(list) \in Configs
              /\ \/ SizeOf(NewConfig(list).opts, size) = Sizes(list[i])[size]
                 \/ \E j \in (i + 1)..Len(list) : size \in DOMAIN Sizes(list[j])
            BY <2>3, <3>2, ConfigRecords
        <3>4. size \in SizeNames
            BY <2>3, <3>2, SetupAssumption, SizesNamed
        <3>5. PICK g \in Range(ModeGroups(NewConfig(list).mode)) : \E bind \in Range(g.binds) :
                  raw = SocketOptions(NewConfig(list), driver, g, bind) /\ native = g.native
            BY <3>2 DEF MadeFromConfig
        <3>6. PICK bind \in Range(g.binds) :
                  raw = SocketOptions(NewConfig(list), driver, g, bind) /\ native = g.native
            BY <3>5
        <3>7. CASE SizeOf(NewConfig(list).opts, size) = Sizes(list[i])[size]
            <4>1. opts = WithDefaults(SocketOptions(NewConfig(list), driver, g, bind))
                BY <3>2, <3>6
            <4>2. SizeOf(NewConfig(list).opts, size) # 0
                BY <2>3, <3>7
            <4> QED BY <3>3, <3>4, <3>6, <3>7, <4>1, <4>2, SizeIsInForce, Zenon
        <3> QED BY <3>3, <3>7
    <2>4. SizesInForce
        BY <2>3 DEF SizesInForce
    <2>5. ASSUME list # <<>>
          PROVE  opts.xdp = IF native THEN "drv" ELSE "skb"
        <3> DEFINE c == NewConfig(list)
        <3>1. list \in OptionLists /\ MadeFromConfig /\ opts = WithDefaults(raw) /\ raw \in OptionsType
            BY <2>5 DEF IInv, Typed, Origin
        <3>2. c \in Configs /\ c.mode \in {"auto", "nativeZC", "native", "generic"}
            BY <3>1, ConfigRecords DEF Configs
        <3>3. PICK g \in Range(ModeGroups(c.mode)) : \E bind \in Range(g.binds) :
                  raw = SocketOptions(c, driver, g, bind) /\ native = g.native
            BY <3>1 DEF MadeFromConfig
        <3>4. PICK bind \in Range(g.binds) : raw = SocketOptions(c, driver, g, bind) /\ native = g.native
            BY <3>3
        <3>5. bind \in Copy
            BY <3>2, GroupsOfMode
        <3> HIDE DEF c
        <3>6. raw.xdp = XdpFlags(g)
            BY <3>2, <3>4, <3>5, SocketOptionsByField
        <3>7. opts.xdp = raw.xdp
            BY <3>1 DEF WithDefaults, OptionsType
        <3> QED BY <3>4, <3>6, <3>7 DEF XdpFlags
    <2> QED BY <2>1, <2>2, <2>4, <2>5
<1>2. IInv => SplitFollowsFrames
    <2> SUFFICES ASSUME IInv, phase = "refused", opts.numFrames >= 2,
                        IF list = <<>> THEN raw.txFrames = 0 ELSE NewConfig(list).opts.txFrames = 0
                 PROVE  opts.txFrames > 0 /\ opts.txFrames < opts.numFrames
        BY DEF SplitFollowsFrames
    <2>1. raw \in OptionsType /\ opts = WithDefaults(raw)
        BY DEF IInv, Typed, Origin
    <2>2. /\ opts \in OptionsType /\ opts.numFrames = OrDefault(raw.numFrames, 8192)
          /\ opts.txFrames = OrDefault(raw.txFrames, Half(OrDefault(raw.numFrames, 8192)))
        BY <2>1, DefaultsInForce
    <2>3. raw.txFrames = 0 \/ raw.txFrames = Half(opts.numFrames)
        <3>1. CASE list = <<>>
            BY <3>1
        <3>2. CASE list # <<>>
            <4> DEFINE c == NewConfig(list)
            <4>1. list \in OptionLists /\ MadeFromConfig
                BY <3>2 DEF IInv, Origin
            <4>2. c \in Configs /\ c.mode \in {"auto", "nativeZC", "native", "generic"} /\ c.opts \in OptionsType
                BY <4>1, ConfigRecords DEF Configs
            <4>3. PICK g \in Range(ModeGroups(c.mode)) : \E bind \in Range(g.binds) : raw = SocketOptions(c, driver, g, bind)
                BY <4>1 DEF MadeFromConfig
            <4>4. PICK bind \in Range(g.binds) : raw = SocketOptions(c, driver, g, bind)
                BY <4>3
            <4>5. bind \in Copy
                BY <4>2, GroupsOfMode
            <4>6. /\ raw.numFrames = OrDefault(c.opts.numFrames, 8192)
                  /\ raw.txFrames = OrDefault(c.opts.txFrames, Half(OrDefault(c.opts.numFrames, 8192)))
                BY <4>2, <4>4, <4>5, SocketOptionsByField
            <4>7. c.opts.txFrames = 0
                BY <3>2
            <4> HIDE DEF c
            <4>8. raw.txFrames = Half(raw.numFrames) /\ raw.numFrames # 0
                BY <4>6, <4>7 DEF OrDefault
            <4> QED BY <2>2, <4>8 DEF OrDefault
        <3> QED BY <3>1, <3>2
    <2>4. opts.txFrames = Half(opts.numFrames)
        BY <2>2, <2>3 DEF OrDefault
    <2>5. opts.numFrames \in Int
        BY <2>2 DEF OptionsType
    <2>6. Half(opts.numFrames) > 0 /\ Half(opts.numFrames) < opts.numFrames
        BY <2>5 DEF Half
    <2> QED BY <2>4, <2>6
<1> QED BY <1>1, <1>2, Invariant, PTL DEF OptionsHonoured
=============================================================================
