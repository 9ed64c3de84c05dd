---------------------------- MODULE MCProtoLink -----------------------------
EXTENDS ProtoLink

Set(r, v) == [cmd |-> SET, reg |-> r, val |-> v]
Get(r) == [cmd |-> GET, reg |-> r, val |-> 0]

\* Two registers, one that does not exist, two values, one of them the start
\* of frame.
MCRequests == {Set(0, 7), Set(1, 18), Set(2, 7), Get(0), Get(2)}
FewRequests == {Set(1, 7), Get(1)}
MCMasks == {1}
NoMask == {}
=============================================================================
