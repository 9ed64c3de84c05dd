------------------------------ MODULE LogFifo -------------------------------
(***************************************************************************)
(* log.c: the ring of messages of the library's global log.  One slot is   *)
(* sacrificed so that begin = end means empty; the page creates the log    *)
(* with 30 messages, the library pushes to it and the page drains it after *)
(* each operation.  Pointers are slot numbers: they move by LOG_MSG_LEN.   *)
(***************************************************************************)
EXTENDS Integers, Sequences

CONSTANTS
    Msgs,    \* messages, cut to LOG_MSG_LEN
    Sizes,   \* the capacities asked for
    Empty,   \* ""
    Garbage  \* what a fresh allocation holds

\* The product (nbMsg+1) * LOG_MSG_LEN must not wrap at 2^32.
MaxSlots == 28633115 \* 2^32 \div LOG_MSG_LEN
ASSUME LogAssumption ==
    /\ Sizes \subseteq Nat
    /\ \A n \in Sizes : n + 1 <= MaxSlots
    /\ Garbage \notin Msgs

VARIABLES
    inst,  \* _log_global_this: "null", "live", or "dangling" once destroyed;
           \* "killed" when the program died in a call
    nbMsg, ptMsg, begin, end, \* log_handle_t
    ret,   \* what the last call returned
    szMsg  \* the caller's buffer

handle == <<inst, nbMsg, ptMsg, begin, end>>
vars == <<inst, nbMsg, ptMsg, begin, end, ret, szMsg>>

Init ==
    /\ inst = "null" /\ nbMsg = 1 /\ ptMsg = [i \in {0} |-> Garbage]
    /\ begin = 0 /\ end = 0
    /\ ret = 0 /\ szMsg = Empty

-----------------------------------------------------------------------------
\* Mutant: the size of a ring that has wrapped counts the sacrificed slot.
SizeWithoutWrap == IF end >= begin THEN end - begin ELSE begin - end
log_getsize ==
    IF end >= begin THEN end - begin ELSE nbMsg - (begin - end)

log_getfree == nbMsg - log_getsize - 1

\* Mutant: the pointer may stay one past the last slot.
AdvanceLate(p) == IF p + 1 > nbMsg THEN 0 ELSE p + 1
Advance(p) == IF p + 1 >= nbMsg THEN 0 ELSE p + 1

\* A log that is already there is replaced, its messages with it.
log_global_create(n) ==
    /\ inst # "killed"
    /\ inst' = "live"
    /\ nbMsg' = n + 1
    /\ ptMsg' = [i \in 0 .. n |-> Garbage]
    /\ begin' = 0 /\ end' = 0
    /\ ret' = 0
    /\ UNCHANGED szMsg

\* malloc failed, and log_create writes to the handle it has just forgotten.
OutOfMemory ==
    /\ inst # "killed"
    /\ inst' = "killed"
    /\ UNCHANGED <<nbMsg, ptMsg, begin, end, ret, szMsg>>

\* destroy, clear, getsize and getfree of a log that was never created stop at
\* their assertion, and without assertions when they follow the pointer.
CalledOnNull ==
    /\ inst = "null"
    /\ inst' = "killed"
    /\ UNCHANGED <<nbMsg, ptMsg, begin, end, ret, szMsg>>

\* The pointer is not reset: only a creation is defined after it.
log_global_destroy ==
    /\ inst = "live"
    /\ inst' = "dangling"
    /\ ret' = 0
    /\ UNCHANGED <<nbMsg, ptMsg, begin, end, szMsg>>

log_global_push(m) ==
    \/ /\ inst = "null"
       /\ ret' = 0
       /\ UNCHANGED <<handle, szMsg>>
    \/ /\ inst = "live" /\ log_getfree = 0
       /\ ret' = -2
       /\ UNCHANGED <<handle, szMsg>>
    \/ /\ inst = "live" /\ log_getfree # 0
       /\ ptMsg' = [ptMsg EXCEPT ![end] = m]
       /\ end' = Advance(end)
       /\ ret' = 0
       /\ UNCHANGED <<inst, nbMsg, begin, szMsg>>

log_global_pop ==
    \/ /\ inst = "null"
       /\ szMsg' = Empty
       /\ ret' = 0
       /\ UNCHANGED handle
    \/ /\ inst = "live" /\ log_getsize = 0
       /\ ret' = 0
       /\ UNCHANGED <<handle, szMsg>>
    \/ /\ inst = "live" /\ log_getsize # 0
       /\ szMsg' = ptMsg[begin]
       /\ begin' = Advance(begin)
       /\ ret' = 1
       /\ UNCHANGED <<inst, nbMsg, ptMsg, end>>

log_global_clear ==
    /\ inst = "live"
    /\ begin' = end
    /\ UNCHANGED <<inst, nbMsg, ptMsg, end, ret, szMsg>>

log_global_getsize ==
    /\ inst = "live"
    /\ ret' = log_getsize
    /\ UNCHANGED <<handle, szMsg>>

log_global_getfree ==
    /\ inst = "live"
    /\ ret' = log_getfree
    /\ UNCHANGED <<handle, szMsg>>

Next ==
    \/ \E n \in Sizes : log_global_create(n)
    \/ \E m \in Msgs : log_global_push(m)
    \/ OutOfMemory \/ CalledOnNull
    \/ log_global_destroy \/ log_global_pop
    \/ log_global_clear \/ log_global_getsize \/ log_global_getfree

Spec == Init /\ [][Next]_vars

-----------------------------------------------------------------------------
\* Neither pointer leaves the ring, and no caller is ever given a slot that
\* was not written.
TypeOK ==
    /\ inst \in {"null", "live", "dangling", "killed"}
    /\ nbMsg \in Nat \ {0}
    /\ ptMsg \in [0 .. nbMsg - 1 -> Msgs \cup {Garbage}]
    /\ begin \in 0 .. nbMsg - 1 /\ end \in 0 .. nbMsg - 1
    /\ ret \in Int
    /\ szMsg \in Msgs \cup {Empty}

\* The messages from begin to end, around the ring.
At(i) == IF begin + i <= nbMsg THEN begin + (i - 1) ELSE begin + (i - 1) - nbMsg
Held == IF inst = "live" THEN [i \in 1 .. log_getsize |-> ptMsg[At(i)]]
        ELSE << >>

Queue == INSTANCE MessageQueue
         WITH open <- inst = "live", capacity <- nbMsg - 1, queue <- Held

\* Two calls break what log.h promises: a second creation, which it says is
\* ignored (log.h:156), replaces the log, and a call that stops the program
\* returns nothing.
CreatedAgain == inst = "live" /\ \E n \in Sizes : log_global_create(n)
ProgramStops == inst' = "killed"

\* All others keep it, whatever was pushed, popped, cleared, destroyed, created or
\* replaced before, and wherever the ring has wrapped: a full log refuses and
\* an accepted message is popped once and in order, until it is replaced.
QueueUnlessReplaced ==
    /\ Queue!Init
    /\ [][Queue!Next \/ CreatedAgain \/ ProgramStops]_Queue!vars
=============================================================================
