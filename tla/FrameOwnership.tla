---------------------------- MODULE FrameOwnership ----------------------------
(***************************************************************************)
(* What a socket promises about its UMEM: every frame has exactly one      *)
(* owner, ownership passes along a few hand-overs only, and a frame never  *)
(* strays into the other direction's pool.  Socket implements it.          *)
(***************************************************************************)
CONSTANTS
    Frames,     \* every frame of the UMEM
    RxRegion,   \* the frames of the receive region
    Hairpin     \* rx frames may be transmitted in place

VARIABLE owner

vars == <<owner>>

Owners == {"rxPool", "txPool", "caller", "rxKernel", "txKernel"}

\* Frames at rest belong to their region's pool, and only receive frames are
\* received into; who may transmit a receive frame depends on the mode.
MayOwn(o, f) ==
    CASE o = "rxPool"   -> f \in RxRegion
      [] o = "txPool"   -> f \notin RxRegion
      [] o = "rxKernel" -> f \in RxRegion
      [] o = "txKernel" -> Hairpin \/ f \notin RxRegion
      [] o = "caller"   -> TRUE

HandOvers ==
    {<<"rxPool", "caller">>, <<"caller", "rxPool">>,
     <<"txPool", "caller">>, <<"caller", "txPool">>,
     <<"caller", "rxKernel">>, <<"rxKernel", "caller">>,
     <<"caller", "txKernel">>, <<"txKernel", "txPool">>, <<"txKernel", "rxPool">>}

Init ==
    /\ owner \in [Frames -> {"rxPool", "rxKernel", "txPool"}]
    /\ \A f \in Frames : MayOwn(owner[f], f)

\* Any number of frames change hands together, all of them between the same two.
HandOver(from, to) ==
    /\ owner' \in [Frames -> Owners]
    /\ \A f \in Frames :
          \/ owner'[f] = owner[f]
          \/ owner[f] = from /\ owner'[f] = to /\ MayOwn(to, f)

Next == \E pair \in HandOvers : HandOver(pair[1], pair[2])

Spec == Init /\ [][Next]_vars
=============================================================================
