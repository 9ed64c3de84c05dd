---------------------------- MODULE RegisterFile ----------------------------
(***************************************************************************)
(* What the register protocol promises the caller of the master API: a     *)
(* call that returns took effect on the slave's register table at once, or *)
(* was refused because the register does not exist.  Once errors have been *)
(* injected a call may also fail, and then it changes no register.         *)
(***************************************************************************)
EXTENDS Integers

CONSTANTS Sets,   \* write requests: records [cmd, reg, val]
          Gets,   \* read requests
          NbRegs, \* number of registers
          Values  \* what the owner of the table may write directly

VARIABLES regs,    \* the register table
          outcome, \* the last call and what it returned
          faulted  \* errors have been injected

vars == <<regs, outcome, faulted>>

Owned == 0 .. NbRegs - 1

Init ==
    /\ regs = [r \in Owned |-> 0]
    /\ outcome.status = "NONE"
    /\ faulted = FALSE

Returns(req, status, value) ==
    /\ outcome' = [req |-> req, status |-> status, value |-> value]
    /\ UNCHANGED faulted

Set(req) ==
    /\ req.reg \in Owned
    /\ regs' = [regs EXCEPT ![req.reg] = req.val]
    /\ Returns(req, "NO_ERROR", 0)

Get(req) ==
    /\ req.reg \in Owned
    /\ UNCHANGED regs
    /\ Returns(req, "NO_ERROR", regs[req.reg])

Refuse(req) ==
    /\ req.reg \notin Owned
    /\ UNCHANGED regs
    /\ Returns(req, "INVALID_ARG", 0)

Fail(req) ==
    /\ faulted
    /\ outcome'.req = req /\ outcome'.status # "NO_ERROR"
    /\ UNCHANGED <<regs, faulted>>

Poke(r, v) ==
    /\ regs' = [regs EXCEPT ![r] = v]
    /\ UNCHANGED <<outcome, faulted>>

Fault ==
    /\ faulted' = TRUE
    /\ UNCHANGED <<regs, outcome>>

Next ==
    \/ \E req \in Sets : Set(req)
    \/ \E req \in Gets : Get(req)
    \/ \E req \in Sets \cup Gets : Refuse(req) \/ Fail(req)
    \/ \E r \in Owned, v \in Values : Poke(r, v)
    \/ Fault

Spec == Init /\ [][Next]_vars
=============================================================================
