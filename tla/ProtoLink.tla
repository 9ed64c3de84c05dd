----------------------------- MODULE ProtoLink ------------------------------
(***************************************************************************)
(* A master and a slave over an asynchronous byte link: the application or *)
(* the PC client calling proto_master_get and proto_master_set, the target *)
(* looping on proto_slave_main, and between them a link that delays, cuts  *)
(* and disturbs.  Each direction is a queue of packets on the wire and a   *)
(* buffer of arrived bytes at the receiver (the tty's on the host, the     *)
(* FIFO of the target), from which a read takes what has arrived.          *)
(***************************************************************************)
EXTENDS ProtoPeers

CONSTANTS
    Requests,    \* the calls the application may make
    NbRegs,      \* registers of the slave, numbered from 0
    ByteWise,    \* TRUE: the link carries single bytes (UART);
                 \* FALSE: a write arrives as one packet (USB bulk)
    NoiseMasks,  \* what noise may be exclusive-ored to a byte in transit
    IoErrors,    \* TRUE: the host's read and write may fail
    MaxCalls,    \* bound: calls made by the application
    MaxNoise     \* bound: bytes disturbed in a behaviour

ASSUME LinkAssumption ==
    /\ Requests \subseteq Request
    /\ NbRegs \in 1 .. 256
    /\ ByteWise \in BOOLEAN
    /\ NoiseMasks \subseteq 1 .. 255
    /\ IoErrors \in BOOLEAN
    /\ MaxCalls \in Nat
    /\ MaxNoise \in Nat

VARIABLES
    mh,        \* master's handle
    mpc,       \* "idle", "reading" (request sent, about to read), "aborted"
    req,       \* the call in progress, or the last one
    sh,        \* slave's handle
    regs,      \* slave's register table
    toSlave,   \* packets on the wire
    srx,       \* bytes arrived at the slave, not read yet
    toMaster,
    mrx,
    (* history *)
    issued,    \* every request sent, in order
    applied,   \* every register write the slave performed, in order
    served,    \* number of frames the slave completed
    refused,   \* number of frames the slave refused for their CRC
    noise,     \* number of bytes disturbed
    before,    \* what noise was when the call in progress, or the last, began
    outcome,   \* what the last finished call told its caller
    inStep     \* TRUE while every call so far ended by decoding a reply

hostVars == <<mh, mpc, req, issued, before, outcome, inStep>>
slaveVars == <<sh, regs, applied, served, refused>>
vars == <<mh, mpc, req, sh, regs, toSlave, srx, toMaster, mrx,
          issued, applied, served, refused, noise, before, outcome, inStep>>

NoRequest == [cmd |-> GET, reg |-> 0, val |-> 0]

Init ==
    /\ mh = proto_init
    /\ mpc = "idle"
    /\ req = NoRequest
    /\ sh = proto_init
    /\ regs = [r \in 0 .. NbRegs - 1 |-> 0]
    /\ toSlave = << >> /\ srx = << >>
    /\ toMaster = << >> /\ mrx = << >>
    /\ issued = << >> /\ applied = << >>
    /\ served = 0 /\ refused = 0 /\ noise = 0 /\ before = 0
    /\ outcome = Outcome(NoRequest, "NONE", <<0, 0>>)
    /\ inStep = TRUE

Packets(bytes) ==
    IF ByteWise THEN [i \in 1 .. Len(bytes) |-> <<bytes[i]>>] ELSE <<bytes>>

\* What a read of at most n bytes returns, and what it leaves.
Taken(rx, n) == SubSeq(rx, 1, Least(n, Len(rx)))
\* Mutant: the bytes read are not removed.
LeftUnread(rx, n) == rx
Left(rx, n) == SubSeq(rx, Least(n, Len(rx)) + 1, Len(rx))

-----------------------------------------------------------------------------
(* The host: one call at a time, in one thread.                            *)

\* First half of proto_master_get/_set: proto_writeFrame.
CallWrites(r) ==
    /\ mpc = "idle"
    /\ Len(issued) < MaxCalls
    /\ req' = r
    /\ mh' = proto_writeFrame(mh, r.cmd, RequestArgs(r))
    /\ before' = noise
    /\ UNCHANGED <<slaveVars, srx, toMaster, mrx, noise>>

Call(r) ==
    /\ CallWrites(r)
    /\ toSlave' = toSlave \o Packets(WireBytes(r.cmd, RequestArgs(r)))
    /\ issued' = Append(issued, r)
    /\ mpc' = "reading"
    /\ UNCHANGED <<outcome, inStep>>

\* The device's write fails before it sent anything: the call returns before
\* it reads.
CallFails(r) ==
    /\ IoErrors
    /\ CallWrites(r)
    /\ issued' = Append(issued, r)
    /\ outcome' = Outcome(r, "ERR_SYS", <<0, 0>>)
    /\ inStep' = FALSE
    /\ UNCHANGED <<mpc, toSlave>>

\* Second half: proto_master_readFrame on what has arrived, if anything.
Return ==
    /\ mpc = "reading"
    /\ mrx' = Left(mrx, ReadLen(mh))
    /\ \E m \in {proto_master_readFrame(mh, Taken(mrx, ReadLen(mh)),
                                         RequestArgs(req))} :
         /\ mh' = m.hdle
         /\ outcome' = Outcome(req, m.status, m.arg)
         /\ inStep' = (inStep /\ m.decoded)
         /\ mpc' = IF m.status = "ABORT" THEN "aborted" ELSE "idle"
    /\ UNCHANGED <<req, issued, slaveVars, toSlave, srx, toMaster, noise,
                   before>>

ReturnFails ==
    /\ IoErrors
    /\ mpc = "reading"
    /\ outcome' = Outcome(req, "ERR_SYS", <<0, 0>>)
    /\ inStep' = FALSE
    /\ mpc' = "idle"
    /\ UNCHANGED <<mh, req, issued, slaveVars, toSlave, srx, toMaster, mrx,
                   noise, before>>

-----------------------------------------------------------------------------
(* The target's main loop.  Iterations that read nothing change nothing.   *)
SlaveMain ==
    /\ srx # << >>
    /\ srx' = Left(srx, ReadLen(sh))
    /\ \E s \in {proto_slave_main(sh, regs, Taken(srx, ReadLen(sh)))} :
         /\ sh' = s.hdle
         /\ regs' = s.regs
         /\ toMaster' = IF s.reply = << >> THEN toMaster
                        ELSE toMaster \o Packets(s.reply)
         /\ applied' = applied \o s.writes
         /\ served' = served + (IF s.result = "SERVED" THEN 1 ELSE 0)
         /\ refused' = refused + (IF s.result = "REFUSED" THEN 1 ELSE 0)
    /\ UNCHANGED <<hostVars, toSlave, mrx, noise>>

-----------------------------------------------------------------------------
(* The link.                                                               *)
DeliverToSlave ==
    /\ toSlave # << >>
    /\ srx' = srx \o Head(toSlave)
    /\ toSlave' = Tail(toSlave)
    /\ UNCHANGED <<hostVars, slaveVars, toMaster, mrx, noise>>

DeliverToMaster ==
    /\ toMaster # << >>
    /\ mrx' = mrx \o Head(toMaster)
    /\ toMaster' = Tail(toMaster)
    /\ UNCHANGED <<hostVars, slaveVars, toSlave, srx, noise>>

\* One byte of the packet about to arrive is disturbed.
Disturb(wire, i, mask) == [wire EXCEPT ![1][i] = Xor(@, mask)]

NoiseToSlave(mask) ==
    /\ noise < MaxNoise
    /\ toSlave # << >>
    /\ \E i \in 1 .. Len(toSlave[1]) : toSlave' = Disturb(toSlave, i, mask)
    /\ noise' = noise + 1
    /\ UNCHANGED <<hostVars, slaveVars, srx, toMaster, mrx>>

NoiseToMaster(mask) ==
    /\ noise < MaxNoise
    /\ toMaster # << >>
    /\ \E i \in 1 .. Len(toMaster[1]) : toMaster' = Disturb(toMaster, i, mask)
    /\ noise' = noise + 1
    /\ UNCHANGED <<hostVars, slaveVars, toSlave, srx, mrx>>

Next ==
    \/ \E r \in Requests : Call(r) \/ CallFails(r)
    \/ Return \/ ReturnFails
    \/ SlaveMain
    \/ DeliverToSlave \/ DeliverToMaster
    \/ \E mask \in NoiseMasks : NoiseToSlave(mask) \/ NoiseToMaster(mask)

\* The target's loop runs for ever and the link delivers what was written;
\* nothing obliges the application to call, nor the noise to happen.  The
\* first formula is WF_vars(SlaveMain) with its ENABLED written out: an
\* iteration changes the state when there is a byte to read and room for it.
SlaveLoops ==
    \/ []<>(srx = << >> \/ ReadLen(sh) = 0)
    \/ []<><<SlaveMain>>_vars
LinkDelivers == WF_vars(DeliverToSlave) /\ WF_vars(DeliverToMaster)
Spec == Init /\ [][Next]_vars
FairSpec == Spec /\ SlaveLoops /\ LinkDelivers

-----------------------------------------------------------------------------
\* The handles, queues, registers and histories hold what their C types
\* allow: in particular no cursor of a handle passes the end of its frame.
TypeOK ==
    /\ mh \in Handle /\ sh \in Handle
    /\ mpc \in {"idle", "reading", "aborted"}
    /\ req \in Request
    /\ regs \in [0 .. NbRegs - 1 -> Byte]
    /\ toSlave \in Seq(Seq(Byte)) /\ toMaster \in Seq(Seq(Byte))
    /\ srx \in Seq(Byte) /\ mrx \in Seq(Byte)
    /\ issued \in Seq(Request) /\ applied \in Seq(Byte \X Byte)
    /\ served \in Nat /\ refused \in Nat
    /\ noise \in Nat /\ before \in Nat
    /\ outcome.req \in Request /\ outcome.value \in Byte
    /\ inStep \in BOOLEAN
-----------------------------------------------------------------------------
\* The register writes performed by the slave (slave_receive, called from
\* proto_slave_main) are writes the application asked for, each at most once
\* and in the order of the calls, however the link cuts or delays the bytes
\* and however often the host gave up waiting.  Requests that hold the start
\* of frame in another place than the first can overlap into a frame that
\* nobody sent, and noise can too: with those the runs look only as far as
\* their bounds.
AppliedWritesRequested ==
    \E call \in [DOMAIN applied -> DOMAIN issued] :
        /\ \A i, j \in DOMAIN applied : i < j => call[i] < call[j]
        /\ \A i \in DOMAIN applied :
              /\ issued[call[i]].cmd = SET
              /\ applied[i] = <<issued[call[i]].reg, issued[call[i]].val>>

\* A disturbed command changes the length of a frame, and the CRC may not
\* tell: the CRC of a set of register 1 to 1 is that of a get of register 1,
\* and a refusal may have that of a reply.  The fifth byte of a frame is that
\* of a request or stays from an earlier one.
FifthBytes == {0} \cup {RequestArgs(r)[2] : r \in Requests}
CrcTellsLength ==
    \A r \in Requests :
        /\ r.cmd = SET => getCRC3(SET, r.reg, r.val) # getCRC2(GET, r.reg)
        /\ \A b \in FifthBytes :
              getCRC3(ERR_ARG, r.reg, b) # getCRC2(REPLY, r.reg)

\* As long as every call was ended by a decoded reply, a call that
\* proto_master_set or _get reports as done was done: the register holds the
\* value written, or the value returned is the register's.  So it is also in
\* the first call on whose way a byte is disturbed, in whatever place, if the
\* CRC tells the lengths.  In the calls after it anything can be reported: a
\* refused frame stays in the slave's handle, and the slave may take its own
\* answer for a request and answer that too.  A call that decoded nothing is
\* not in step, and may report success too (protocomm_ll.c:141).
NoFalseSuccess ==
    /\ mpc = "idle" /\ inStep /\ outcome.status = "NO_ERROR"
    /\ noise = 0 \/ (before = 0 /\ noise = 1 /\ CrcTellsLength)
    =>
        /\ outcome.req.reg \in Registers(regs)
        /\ regs[outcome.req.reg] = IF outcome.req.cmd = SET
                                   THEN outcome.req.val ELSE outcome.value

\* As long as every call was ended by a decoded reply and no byte was
\* disturbed, proto_INVALID_ARG blames a register the slave really does not have.
InvalidArgMeansNoRegister ==
    mpc = "idle" /\ inStep /\ noise = 0 /\ outcome.status = "INVALID_ARG" =>
        outcome.req.reg \notin Registers(regs)

\* proto_slave_main refuses a frame for its CRC only if the link disturbed a
\* byte: cutting, delaying and overlapping requests alone never do, as long as
\* the start of frame is only at the start of the requests.
RefusalMeansNoise == refused > 0 => noise > 0

\* The value a successful get returns is one the register asked for has held
\* at some time, whatever happened to the calls before it and however its
\* answer is cut on the way.
GetReturnsHeldValue ==
    outcome.req.cmd = GET /\ outcome.status = "NO_ERROR" =>
        \/ outcome.value = 0
        \/ \E i \in DOMAIN applied :
              applied[i] = <<outcome.req.reg, outcome.value>>

\* A request sent by an application that got an answer to each of its earlier
\* requests is completed by the slave's loop, which has then completed as
\* many frames as there were requests.
SlaveServesEveryRequest ==
    \A n \in 1 .. MaxCalls :
        (mpc = "reading" /\ Len(issued) = n /\ inStep) ~> (served = n)
=============================================================================
