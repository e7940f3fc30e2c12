---------------------------- MODULE MCTxProgress ----------------------------
EXTENDS TxProgress

Binding(zc, nw, sizes) == [zeroCopy |-> zc, needWakeup |-> nw, sizes |-> sizes]

\* Copy mode with packets of one frame, zero-copy mode also with packets of
\* up to three, one frame more being refused.
SingleOrZeroCopy ==
    {Binding(FALSE, nw, {1}) : nw \in BOOLEAN}
        \cup {Binding(TRUE, nw, sizes) : nw \in BOOLEAN, sizes \in {{1}, {1, 2, 3, 4}}}

CopyMultiBuffer == {Binding(FALSE, FALSE, {2})}
CopySingle      == {Binding(FALSE, FALSE, {1})}
=============================================================================
