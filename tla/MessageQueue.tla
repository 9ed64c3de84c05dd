---------------------------- MODULE MessageQueue ----------------------------
(***************************************************************************)
(* What log.h promises of the log between the library, which pushes its    *)
(* traces, and the page, which pops them: a queue of a given capacity that *)
(* refuses a message when it is full and never loses, repeats or reorders  *)
(* one it accepted.                                                        *)
(***************************************************************************)
EXTENDS Integers, Sequences

CONSTANTS Msgs, Sizes, Empty

VARIABLES open,     \* a queue was created
          capacity, \* how many messages it accepts
          queue,    \* the messages it holds
          ret,      \* what the last call not ignored returned
          szMsg     \* the caller's buffer

vars == <<open, capacity, queue, ret, szMsg>>

Init ==
    /\ open = FALSE /\ capacity = 0 /\ queue = << >>
    /\ ret = 0 /\ szMsg = Empty

\* It returns 0, or something else when it fails and there is no queue.
Create(n) ==
    /\ ~open
    /\ \/ open' = TRUE /\ capacity' = n /\ queue' = << >> /\ ret' = 0
       \/ ret' \in Int \ {0} /\ UNCHANGED <<open, capacity, queue>>
    /\ UNCHANGED szMsg

\* A second creation in a row is ignored.
CreateAgain(n) == open /\ UNCHANGED vars

\* It returns -1 when none was created.
Destroy ==
    /\ open' = FALSE /\ queue' = << >>
    /\ ret' = IF open THEN 0 ELSE -1
    /\ UNCHANGED <<capacity, szMsg>>

Push(m) ==
    /\ IF open /\ Len(queue) < capacity THEN queue' = Append(queue, m)
       ELSE UNCHANGED queue
    /\ ret' = IF open /\ Len(queue) >= capacity THEN -2 ELSE 0
    /\ UNCHANGED <<open, capacity, szMsg>>

Pop ==
    /\ IF queue # << >>
       THEN ret' = 1 /\ szMsg' = Head(queue) /\ queue' = Tail(queue)
       ELSE /\ ret' = 0 /\ UNCHANGED queue
            /\ szMsg' = IF open THEN szMsg ELSE Empty
    /\ UNCHANGED <<open, capacity>>

Clear == queue' = << >> /\ UNCHANGED <<open, capacity, ret, szMsg>>

Count == ret' = Len(queue) /\ UNCHANGED <<open, capacity, queue, szMsg>>

Room ==
    /\ ret' = capacity - Len(queue)
    /\ UNCHANGED <<open, capacity, queue, szMsg>>

Next ==
    \/ \E n \in Sizes : Create(n) \/ CreateAgain(n)
    \/ \E m \in Msgs : Push(m)
    \/ Destroy \/ Pop \/ Clear \/ Count \/ Room

Spec == Init /\ [][Next]_vars
=============================================================================
