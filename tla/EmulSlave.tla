----------------------------- MODULE EmulSlave ------------------------------
(***************************************************************************)
(* The test device libcomm/devices/device_emulslave.c under a master       *)
(* handle: writing a request runs the slave at once, in the caller's       *)
(* thread, and its answer waits in a stack for the master's read.  There   *)
(* is no concurrency; what is hard is the five-byte stacks, which must be  *)
(* empty again after each call.                                            *)
(***************************************************************************)
EXTENDS ProtoPeers

CONSTANTS
    Requests,   \* the calls the test makes
    NbRegs,     \* EMULSLAVE_NB_REGS
    FlagValues, \* what the test gives to devemulslave_setFlags
    Values      \* what the test writes through devemulslave_getRegisters

ASSUME EmulAssumption ==
    /\ Requests \subseteq Request
    /\ NbRegs \in 1 .. 256
    /\ FlagValues \subseteq 0 .. 3
    /\ Values \subseteq Byte

VARIABLES
    mh,      \* the master's handle
    sh,      \* the emulated slave's handle (slaveThis)
    mstk,    \* priv_masterStk and its size: master to slave
    sstk,    \* priv_slaveStk and its size: slave to master
    regs,    \* the emulated registers
    flags,
    outcome, \* the last call and what it told its caller
    faulted  \* history: EMULSLAVE_FLAG_MASTER_BADCRC was set

vars == <<mh, sh, mstk, sstk, regs, flags, outcome, faulted>>

Stack == [buf : Frame, n : 0 .. proto_FRAME_MAXSIZE]
EmptyStack == [buf |-> [i \in 1 .. proto_FRAME_MAXSIZE |-> 0], n |-> 0]
NoRequest == [cmd |-> GET, reg |-> 0, val |-> 0]

Init ==
    /\ mh = proto_init /\ sh = proto_init
    /\ mstk = EmptyStack /\ sstk = EmptyStack
    /\ regs = [r \in 0 .. NbRegs - 1 |-> 0]
    /\ flags = 0
    /\ outcome = Outcome(NoRequest, "NONE", <<0, 0>>)
    /\ faulted = FALSE

-----------------------------------------------------------------------------
(* The stacks.  A push is all or nothing.                                  *)
Fits(stk, bytes) == Len(bytes) <= proto_FRAME_MAXSIZE - stk.n
Push(stk, bytes) ==
    [buf |-> [i \in 1 .. proto_FRAME_MAXSIZE |->
                IF stk.n < i /\ i <= stk.n + Len(bytes)
                THEN bytes[i - stk.n] ELSE stk.buf[i]],
     n   |-> stk.n + Len(bytes)]

Count(stk, len) == Least(len, stk.n)
Popped(stk, len) == SubSeq(stk.buf, 1, Count(stk, len))

\* What memmove(dst, src + k, src.n - k) leaves in dst.
MoveDown(dst, src, k) ==
    [i \in 1 .. proto_FRAME_MAXSIZE |->
        IF i <= src.n - k THEN src.buf[i + k] ELSE dst.buf[i]]

\* devemulslave_read, called by the master.
ReadRest(stk, len) ==
    [buf |-> MoveDown(stk, stk, Count(stk, len)), n |-> stk.n - Count(stk, len)]

\* devemulslave_fake_read, called by the slave: the bytes left over are moved
\* into the other stack, and stay where they are in this one.
FakeReadMaster(stk, len) == [stk EXCEPT !.n = @ - Count(stk, len)]
FakeReadSlave(sst, stk, len) ==
    [sst EXCEPT !.buf = MoveDown(sst, stk, Count(stk, len))]

devemulslave_isFrame(stk) ==
    /\ stk.buf[1] = proto_START_OF_FRAME
    /\ stk.n >= 2
    /\ stk.buf[3] < proto_LAST
    /\ stk.n = FrameLen(stk.buf[3])

\* EMULSLAVE_FLAG_MASTER_BADCRC; the other flag is read nowhere.
BadCrc(fl) == fl % 2 = 1
Spoiled(stk, fl) ==
    IF BadCrc(fl) /\ devemulslave_isFrame(stk)
    THEN [stk EXCEPT !.buf = [i \in 1 .. proto_FRAME_MAXSIZE |->
                                IF i = 2 THEN (stk.buf[2] + 1) % 256
                                ELSE stk.buf[i]]]
    ELSE stk

\* devemulslave_write when there is room: the stack, spoiled as the flags
\* ask, then one iteration of the slave on it, whose answer is pushed on the
\* other stack, or lost when it does not fit.
EmulWrite(bytes) ==
    LET stk == Spoiled(Push(mstk, bytes), flags)
        len == ReadLen(sh)
        s   == proto_slave_main(sh, regs, Popped(stk, len))
        sst == FakeReadSlave(sstk, stk, len)
    IN  [mstk |-> FakeReadMaster(stk, len),
         sstk |-> IF Fits(sst, s.reply) THEN Push(sst, s.reply) ELSE sst,
         sh   |-> s.hdle,
         regs |-> s.regs]

-----------------------------------------------------------------------------
(* proto_master_get and proto_master_set.                                  *)

Written(req) == proto_writeFrame(mh, req.cmd, RequestArgs(req))

\* No room: write fails and the slave does not run.
CallFails(req) ==
    /\ ~Fits(mstk, WireBytes(req.cmd, RequestArgs(req)))
    /\ mh' = Written(req)
    /\ outcome' = Outcome(req, "ERR_SYS", <<0, 0>>)
    /\ UNCHANGED <<sh, mstk, sstk, regs, flags, faulted>>

Call(req) ==
    /\ Fits(mstk, WireBytes(req.cmd, RequestArgs(req)))
    /\ \E e \in {EmulWrite(WireBytes(req.cmd, RequestArgs(req)))} :
         /\ mstk' = e.mstk
         /\ sh' = e.sh
         /\ regs' = e.regs
         /\ sstk' = ReadRest(e.sstk, ReadLen(mh))
         /\ \E m \in {proto_master_readFrame(Written(req),
                        Popped(e.sstk, ReadLen(mh)), RequestArgs(req))} :
              /\ mh' = m.hdle
              /\ outcome' = Outcome(req, m.status, m.arg)
    /\ UNCHANGED <<flags, faulted>>

SetFlags(fl) ==
    /\ flags' = fl
    /\ faulted' = (faulted \/ BadCrc(fl))
    /\ UNCHANGED <<mh, sh, mstk, sstk, regs, outcome>>

\* The test writes the table through the pointer it was given.
Poke(r, v) ==
    /\ regs' = [regs EXCEPT ![r] = v]
    /\ UNCHANGED <<mh, sh, mstk, sstk, flags, outcome, faulted>>

Next ==
    \/ \E req \in Requests : Call(req) \/ CallFails(req)
    \/ \E fl \in FlagValues : SetFlags(fl)
    \/ \E r \in 0 .. NbRegs - 1, v \in Values : Poke(r, v)

Spec == Init /\ [][Next]_vars

-----------------------------------------------------------------------------
\* The handles, stacks and registers hold what their C types allow.
TypeOK ==
    /\ mh \in Handle /\ sh \in Handle
    /\ mstk \in Stack /\ sstk \in Stack
    /\ regs \in [0 .. NbRegs - 1 -> Byte]
    /\ flags \in 0 .. 3 /\ faulted \in BOOLEAN
    /\ outcome.req \in Request /\ outcome.value \in Byte

\* The device and the two protocol layers together implement the register
\* file: every call of proto_master_set and _get is answered, and takes effect
\* at once.  Once bad CRCs were injected, in whatever state they left the
\* handles and the stacks, a call may also fail, but then changes no register;
\* one that returns proto_NO_ERROR still did what it says.
RF == INSTANCE RegisterFile WITH
        Sets <- { q \in Requests : q.cmd = SET },
        Gets <- { q \in Requests : q.cmd = GET }
ImplementsRegisterFile == RF!Spec

\* While EMULSLAVE_FLAG_MASTER_BADCRC is set, no call changes a register or
\* succeeds.
BadCrcHasNoEffect ==
    [][BadCrc(flags) /\ (mh' # mh \/ outcome' # outcome) =>
         regs' = regs /\ outcome'.status # "NO_ERROR"]_vars
=============================================================================
