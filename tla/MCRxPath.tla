------------------------------ MODULE MCRxPath ------------------------------
EXTENDS RxPath

Binding(nw, polls, hairpin) == [needWakeup |-> nw, polls |-> polls, hairpin |-> hairpin]

\* Every loop but the forwarder that blocks in Poll under need-wakeup.
DocumentedLoops ==
    {Binding(nw, polls, FALSE) : nw \in BOOLEAN, polls \in BOOLEAN}
        \cup {Binding(FALSE, TRUE, TRUE), Binding(TRUE, FALSE, TRUE)}

PollingForwarder == {Binding(TRUE, TRUE, TRUE)}
=============================================================================
