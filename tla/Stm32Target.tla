---------------------------- MODULE Stm32Target -----------------------------
(***************************************************************************)
(* The target: the USB interrupts and the main loop of the firmware around *)
(* the slave.  Reception (CDC_Receive_FS) pushes a packet into the ring of *)
(* device_stm32.c; the loop (tst_loop_main) pops from it byte by byte,     *)
(* without a lock, then decodes, calls the register table and hands the    *)
(* answer to CDC_Transmit_FS, which drops it while an answer is still      *)
(* waiting for the host to collect it.                                     *)
(*                                                                         *)
(* An interrupt runs to its end without the loop, and never reads "begin", *)
(* so the loop is cut only where it reads what the interrupt writes:       *)
(* between the test of a turn of devstm32_read, its pop_byte, and the rest *)
(* of the iteration, which shares only TxState with the interrupts.  The   *)
(* answer is copied to the endpoint at once: the transmit FIFO's interrupt *)
(* is pending as soon as the transfer is started, and precedes the loop.   *)
(***************************************************************************)
EXTENDS ProtoPeers

CONSTANTS
    Requests,      \* the requests the host may send
    NbRegs,        \* MY_TABLE_LEN
    FifoSize,      \* STM32_FIFO_MAX_SIZE
    PacketSize,    \* CDC_DATA_FS_OUT_PACKET_SIZE
    MaxCalls,      \* bound: requests sent
    MaxUnanswered  \* requests the host sends without waiting for an answer

ASSUME TargetAssumption ==
    /\ Requests \subseteq Request
    /\ NbRegs \in 1 .. 256
    /\ FifoSize \in 2 .. 255
    /\ PacketSize \in 1 .. 255
    /\ MaxCalls \in Nat
    /\ MaxUnanswered \in Nat

VARIABLES
    toTarget, \* bytes the host wrote, not received yet
    buffer, begin, end, \* proto_dev_stm32_t
    tx,       \* the answer in the endpoint; empty when TxState is 0
    pc,       \* the loop is about to "test", to "pop" or to "process"
    got,      \* bytes read in this iteration
    sh,       \* the slave's handle
    regs,     \* _myTable
    (* history *)
    backlog,  \* bytes pushed and not popped
    issued,   \* requests sent
    answers,  \* answers collected by the host
    inStep    \* TRUE while each request waited for the answer to the last

fifo == <<buffer, begin, end>>
host == <<issued, answers, inStep>>
vars == <<toTarget, buffer, begin, end, tx, pc, got, sh, regs, backlog,
          issued, answers, inStep>>

Slots == 0 .. FifoSize - 1

Init ==
    /\ toTarget = << >>
    /\ buffer = [i \in Slots |-> 0] /\ begin = 0 /\ end = 0
    /\ tx = << >>
    /\ pc = "test" /\ got = << >>
    /\ sh = proto_init
    /\ regs = [r \in 0 .. NbRegs - 1 |-> 0]
    /\ backlog = 0
    /\ issued = << >> /\ answers = << >> /\ inStep = TRUE

-----------------------------------------------------------------------------
(* The host.                                                               *)
Send(r) ==
    /\ Len(issued) < MaxCalls
    /\ Len(issued) - Len(answers) < MaxUnanswered
    /\ toTarget' = toTarget \o WireBytes(r.cmd, RequestArgs(r))
    /\ issued' = Append(issued, r)
    /\ inStep' = (inStep /\ Len(issued) = Len(answers))
    /\ UNCHANGED <<fifo, tx, pc, got, sh, regs, backlog, answers>>

-----------------------------------------------------------------------------
(* The interrupts.                                                         *)

\* push_byte for each byte, with no test for a full ring: the last byte
\* written to a slot stays.
Written(bytes, slot) ==
    { i \in 1 .. Len(bytes) : (end + i - 1) % FifoSize = slot }
Pushed(bytes) ==
    [slot \in Slots |->
        IF Written(bytes, slot) = {} THEN buffer[slot]
        ELSE bytes[CHOOSE i \in Written(bytes, slot) :
                      \A j \in Written(bytes, slot) : j <= i]]

\* Mutant: the index is allowed one slot past the buffer.
AdvanceLate(i, n) == (i + n) % (FifoSize + 1)
Advance(i, n) == (i + n) % FifoSize

Receive(n) ==
    /\ n \in 1 .. Len(toTarget)
    /\ toTarget' = SubSeq(toTarget, n + 1, Len(toTarget))
    /\ buffer' = Pushed(SubSeq(toTarget, 1, n))
    /\ end' = Advance(end, n)
    /\ backlog' = backlog + n
    /\ UNCHANGED <<begin, tx, pc, got, sh, regs, host>>

\* The host collects the answer; USBD_CDC_DataIn resets TxState.
DataIn ==
    /\ tx # << >>
    /\ answers' = Append(answers, tx)
    /\ tx' = << >>
    /\ UNCHANGED <<toTarget, fifo, pc, got, sh, regs, backlog, issued, inStep>>

-----------------------------------------------------------------------------
(* The main loop.                                                          *)

\* One test of the loop of devstm32_read.
More == begin # end /\ Len(got) < ReadLen(sh)
Test ==
    /\ pc = "test"
    /\ pc' = IF More THEN "pop" ELSE "process"
    /\ UNCHANGED <<toTarget, fifo, tx, got, sh, regs, backlog, host>>

\* Mutant: the index moves before the byte is read.
PopAdvanceFirst ==
    /\ pc = "pop"
    /\ got' = Append(got, buffer[Advance(begin, 1)])
    /\ begin' = Advance(begin, 1)
    /\ backlog' = backlog - 1
    /\ pc' = "test"
    /\ UNCHANGED <<toTarget, buffer, end, tx, sh, regs, host>>
Pop ==
    /\ pc = "pop"
    /\ got' = Append(got, buffer[begin])
    /\ begin' = Advance(begin, 1)
    /\ backlog' = backlog - 1
    /\ pc' = "test"
    /\ UNCHANGED <<toTarget, buffer, end, tx, sh, regs, host>>

\* CDC_Transmit_FS refuses an answer while TxState is set, and
\* proto_slave_main ignores the refusal.
\* Mutant: TxState stays set after the first answer.
TransmitOnce(reply) == IF answers = << >> /\ tx = << >> THEN reply ELSE tx
Transmit(reply) == IF tx = << >> THEN reply ELSE tx

Process ==
    /\ pc = "process"
    /\ \E s \in {proto_slave_main(sh, regs, got)} :
         /\ sh' = s.hdle
         /\ regs' = s.regs
         /\ tx' = Transmit(s.reply)
    /\ got' = << >>
    /\ pc' = "test"
    /\ UNCHANGED <<toTarget, fifo, backlog, host>>

MainLoop == Test \/ Pop \/ Process

Next ==
    \/ \E r \in Requests : Send(r)
    \/ \E n \in 1 .. PacketSize : Receive(n)
    \/ DataIn
    \/ MainLoop

Spec == Init /\ [][Next]_vars

\* main never leaves its loop, each of whose steps changes pc; the USB host
\* sends what was written to it and polls for answers.
FairSpec ==
    /\ Spec
    /\ []<><<MainLoop>>_vars
    /\ WF_vars(\E n \in 1 .. PacketSize : Receive(n))
    /\ WF_vars(DataIn)

-----------------------------------------------------------------------------
\* The ring's indices stay in it, and the handle, the registers and every
\* byte on the way have their C types.
TypeOK ==
    /\ toTarget \in Seq(Byte) /\ tx \in Seq(Byte) /\ got \in Seq(Byte)
    /\ buffer \in [Slots -> Byte] /\ begin \in Slots /\ end \in Slots
    /\ pc \in {"test", "pop", "process"}
    /\ sh \in Handle
    /\ regs \in [0 .. NbRegs - 1 -> Byte]
    /\ backlog \in Int
    /\ issued \in Seq(Request) /\ answers \in Seq(Seq(Byte))
    /\ inStep \in BOOLEAN

\* What devstm32_read would return if it ran now.
UnreadLen == IF begin <= end THEN end - begin ELSE end + FifoSize - begin
Unread == [i \in 1 .. UnreadLen |-> buffer[(begin + i - 1) % FifoSize]]

\* "Ajouter des octets qui seront lus dans le read() du device": what
\* devstm32_pushBytes was given and devstm32_read did not return yet is
\* still there to be read.
BytesReadable == UnreadLen = backlog

\* While no more bytes are unread than the ring has room for, the interrupt
\* and the loop, sharing the ring without a lock, lose no byte, repeat none
\* and keep their order.
Stream == INSTANCE ByteStream WITH wire <- toTarget, queue <- Unread,
                                   read <- got
FifoIsStream == Stream!Spec

LastSet(reg, n) ==
    { i \in 1 .. n : issued[i].cmd = SET /\ issued[i].reg = reg }
Held(reg, n) ==
    IF LastSet(reg, n) = {} THEN 0
    ELSE issued[CHOOSE i \in LastSet(reg, n) :
                   \A j \in LastSet(reg, n) : j <= i].val
\* A get sends no value, so that any may come back with its refusal.
ExpectedAnswers(n) ==
    LET r == issued[n]
    IN  IF r.reg \in Registers(regs)
        THEN { WireBytes(REPLY,
                  <<IF r.cmd = SET THEN r.reg ELSE Held(r.reg, n - 1), 0>>) }
        ELSE { WireBytes(ERR_ARG, <<r.reg, b>>) :
                  b \in IF r.cmd = SET THEN {r.val} ELSE Byte }

\* A host that waits for each answer receives, for each request, the answer
\* of a register table to which its requests were applied in order.  Of the
\* value in the refusal of a get it says nothing: the code sends a byte of an
\* earlier frame, where protocomm_ll.h:42 has what was sent with the request.
AnswersAreExpected ==
    inStep => \A n \in DOMAIN answers : answers[n] \in ExpectedAnswers(n)

\* A host that waits for its answers gets them: none is dropped because the
\* endpoint is busy, and none is lost between the interrupt and the loop.
EveryRequestAnswered ==
    \A n \in 1 .. MaxCalls :
        (Len(issued) = n /\ inStep) ~> (Len(answers) >= n \/ ~inStep)
=============================================================================
