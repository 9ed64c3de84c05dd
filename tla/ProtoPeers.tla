----------------------------- MODULE ProtoPeers -----------------------------
(***************************************************************************)
(* The two ends of the register protocol as functions of the bytes their   *)
(* device returned: libcomm/protocomm_master.c and protocomm_slave.c.  The *)
(* modules that give them devices decide when the bytes arrive.            *)
(***************************************************************************)
EXTENDS ProtoFrame

CONSTANT NDEBUG \* TRUE when assert() is compiled out of the library

ASSUME NDEBUGAssumption == NDEBUG \in BOOLEAN

\* Register numbers the slave owns are the domain of its table.
Registers(regs) == DOMAIN regs

\* What the callers of the master API ask for.
Request == [cmd : {SET, GET}, reg : Byte, val : Byte]

\* proto_master_set and _get fill the two argument bytes; get zeroes the
\* value, and reuses the same union for the answer.
RequestArgs(req) == <<req.reg, IF req.cmd = SET THEN req.val ELSE 0>>

-----------------------------------------------------------------------------
\* The master: one attempt to read, then one to decode.  The condition that
\* should retry until the delay has passed is always true, so the loop ends
\* after the first attempt whatever it returned.
\* Mutant: any well-formed answer is a success.
ReplyStatusLenient(cmd) ==
    IF cmd \in {REPLY, ERR_CRC, ERR_ARG} THEN "NO_ERROR" ELSE "ERR_PROTO"
ReplyStatus(cmd) ==
    CASE cmd = REPLY   -> "NO_ERROR"
      [] cmd = ERR_CRC -> "PEER_ERR_CRC"
      [] cmd = ERR_ARG -> "INVALID_ARG"
      [] OTHER         -> "ERR_PROTO"

proto_master_readFrame(h, buf, arg) ==
    LET r == proto_readFrame(h, buf)
        d == proto_decodeFrame(r.hdle, arg)
    IN  IF r.status # "NO_ERROR"
        THEN [hdle |-> r.hdle, status |-> r.status, arg |-> arg,
              decoded |-> FALSE]
        ELSE [hdle |-> d.hdle, arg |-> d.arg,
              decoded |-> d.result = "COMPLETED",
              status |->
                CASE d.result = "COMPLETED" -> ReplyStatus(d.cmd)
                  [] d.result = "REFUSED"   -> "ERR_CRC"
                  [] d.result = "WAITING"   ->
                        IF NDEBUG THEN "NO_ERROR" ELSE "ABORT"]

\* What the caller is told: on success, get stores the first argument byte.
Outcome(req, status, arg) ==
    [req |-> req, status |-> status,
     value |-> IF status = "NO_ERROR" /\ req.cmd = GET THEN arg[1] ELSE 0]

-----------------------------------------------------------------------------
\* The slave's user callback, the register table of tst_protocomm.c (the
\* emulated slave's devemulslave_callback is the same code on its own table).
\* Mutant: the register number of a write is not checked.
ReceiveUnchecked(regs, cmd, arg) ==
    IF cmd = SET
    THEN [ok |-> TRUE, arg |-> arg,
          regs |-> [r \in Registers(regs) \cup {arg[1]} |->
                      IF r = arg[1] THEN arg[2] ELSE regs[r]]]
    ELSE IF cmd = GET /\ arg[1] \in Registers(regs)
    THEN [ok |-> TRUE, regs |-> regs, arg |-> <<regs[arg[1]], arg[2]>>]
    ELSE [ok |-> FALSE, regs |-> regs, arg |-> arg]
\* Mutant: the last register is refused.
ReceiveOffByOne(regs, cmd, arg) ==
    IF cmd = SET /\ arg[1] + 1 \in Registers(regs)
    THEN [ok |-> TRUE, arg |-> arg, regs |-> [regs EXCEPT ![arg[1]] = arg[2]]]
    ELSE IF cmd = GET /\ arg[1] + 1 \in Registers(regs)
    THEN [ok |-> TRUE, regs |-> regs, arg |-> <<regs[arg[1]], arg[2]>>]
    ELSE [ok |-> FALSE, regs |-> regs, arg |-> arg]
slave_receive(regs, cmd, arg) ==
    IF cmd = SET /\ arg[1] \in Registers(regs)
    THEN [ok |-> TRUE, arg |-> arg, regs |-> [regs EXCEPT ![arg[1]] = arg[2]]]
    ELSE IF cmd = GET /\ arg[1] \in Registers(regs)
    THEN [ok |-> TRUE, regs |-> regs, arg |-> <<regs[arg[1]], arg[2]>>]
    ELSE [ok |-> FALSE, regs |-> regs, arg |-> arg]

\* One iteration of proto_slave_main.  "reply" is the wire form of the frame
\* it writes, empty when it writes none; "writes" holds the register and
\* value the iteration wrote, if it did.
proto_slave_main(h, regs, buf) ==
    LET r     == proto_readFrame(h, buf)
        d     == proto_decodeFrame(r.hdle, <<0, 0>>)
        cb    == slave_receive(regs, d.cmd, d.arg)
        cmd   == IF cb.ok THEN REPLY ELSE ERR_ARG
        wr    == IF cb.ok /\ d.cmd = SET THEN <<d.arg>> ELSE << >>
        Quiet(hdle) == [hdle |-> hdle, regs |-> regs, reply |-> << >>,
                        writes |-> << >>, result |-> "QUIET"]
        Answer(c, a, table, writes, result) ==
            [hdle |-> proto_writeFrame(d.hdle, c, a), regs |-> table,
             reply |-> WireBytes(c, a), writes |-> writes, result |-> result]
    IN  IF r.status # "NO_ERROR" \/ d.result = "WAITING" THEN Quiet(r.hdle)
        ELSE IF d.result = "COMPLETED"
        THEN Answer(cmd, cb.arg, cb.regs, wr, "SERVED")
        ELSE Answer(d.cmd, d.arg, regs, << >>, "REFUSED")
=============================================================================
