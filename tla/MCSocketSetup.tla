---------------------------- MODULE MCSocketSetup ----------------------------
(* SocketSetup on frame counts around the default and around its edges, and *)
(* on lists of up to three options.                                         *)
EXTENDS SocketSetup, SequencesExt

MCRawFrames == {-2, 0, 1, 2, 3, 128, 256, 8192}

MCRawFlags ==
    [flags : SUBSET {"sg"}, hairpin : BOOLEAN, busyPoll : BOOLEAN, xdp : {"default"}]
    \cup [flags : {{"zerocopy", "copy"}}, hairpin : {FALSE}, busyPoll : {FALSE}, xdp : {"default"}]

Plain == {[name |-> n, arg |-> 0] :
            n \in {"WithReceiveHeavy", "WithZeroCopy", "WithDriverMode", "WithGenericMode",
                   "WithNeedWakeup", "WithTxReuseRxFrames", "WithBusyPoll", "WithMultiBuffer"}}

Valued == {[name |-> "WithNumFrames", arg |-> 256], [name |-> "WithFrameSize", arg |-> 2048],
           [name |-> "WithTxFrames", arg |-> 128], [name |-> "WithRingSize", arg |-> 64]}

Replacing ==
    {[name |-> "WithOptions", arg |-> o] :
        o \in {[ZeroOptions EXCEPT !.flags = {"copy"}],
               [ZeroOptions EXCEPT !.flags = {"zerocopy", "needWakeup"}],
               [ZeroOptions EXCEPT !.numFrames = 128, !.ring = [r \in Rings |-> 64]],
               [ZeroOptions EXCEPT !.frameSize = 2048, !.txFrames = 128, !.hairpin = TRUE,
                                   !.busyPoll = TRUE, !.ring["rx"] = 64, !.xdp = "skb"]}}

MCOptionLists == SeqOf(Plain \cup Valued \cup Replacing, 3)
=============================================================================
