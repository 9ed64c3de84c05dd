----------------------------- MODULE ByteStream -----------------------------
(***************************************************************************)
(* What the FIFO of device_stm32.c promises between the USB interrupt and  *)
(* the main loop: bytes received are read, each once and in order.         *)
(***************************************************************************)
EXTENDS Integers, Sequences

VARIABLES wire,  \* bytes the host wrote, not received yet
          queue, \* bytes received, not read yet
          read   \* bytes the current read has taken

vars == <<wire, queue, read>>

Init == wire = << >> /\ queue = << >> /\ read = << >>

Send ==
    /\ Len(wire') > Len(wire)
    /\ SubSeq(wire', 1, Len(wire)) = wire
    /\ UNCHANGED <<queue, read>>

Receive ==
    \E n \in 1 .. Len(wire) :
        /\ wire' = SubSeq(wire, n + 1, Len(wire))
        /\ queue' = queue \o SubSeq(wire, 1, n)
        /\ UNCHANGED read

Take ==
    /\ queue # << >>
    /\ read' = Append(read, Head(queue))
    /\ queue' = Tail(queue)
    /\ UNCHANGED wire

Finish == read' = << >> /\ UNCHANGED <<wire, queue>>

Next == Send \/ Receive \/ Take \/ Finish

Spec == Init /\ [][Next]_vars
=============================================================================
