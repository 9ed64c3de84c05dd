SPECIFICATION Spec
CONSTANTS
    Msgs = {m1, m2, m3}
    Sizes <- MCSizes
    Empty = Empty
    Garbage = Garbage
\* A failed allocation, or a call on no log, stops the program.
CHECK_DEADLOCK FALSE
INVARIANT TypeOK
PROPERTY QueueUnlessReplaced
