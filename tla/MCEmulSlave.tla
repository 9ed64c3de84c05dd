---------------------------- MODULE MCEmulSlave -----------------------------
EXTENDS EmulSlave

Set(r, v) == [cmd |-> SET, reg |-> r, val |-> v]
Get(r) == [cmd |-> GET, reg |-> r, val |-> 0]

MCRequests == {Set(0, 7), Set(0, 18), Set(1, 18), Set(2, 7)}
                \cup { Get(r) : r \in 0 .. 2 }
MCFlags == {0, 1}
MCValues == {0, 234}
=============================================================================
