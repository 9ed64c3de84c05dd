----------------------------- MODULE ProtoFrame -----------------------------
(***************************************************************************)
(* The frame layer shared by master and slave, libcomm/protocomm_ll.c:     *)
(* building a frame, collecting received bytes into a handle, and decoding *)
(* what the handle holds.  A frame is the five bytes of proto_Frame_t,     *)
(*     <<start of frame, crc8, command, data 0, data 1>>,                  *)
(* and a handle is the part of proto_hdle_t the functions read and write:  *)
(* its frame, shared by transmission and reception, and its cursor.        *)
(***************************************************************************)
EXTENDS ProtoCrc, Sequences

proto_START_OF_FRAME == 18
proto_ARGS_OFFSET == 3
proto_FRAME_MAXSIZE == 5

SET == 0
GET == 1
REPLY == 2
ERR_CRC == 3
ERR_ARG == 4
proto_LAST == 5

Frame == [1 .. proto_FRAME_MAXSIZE -> Byte]
Handle == [frame : Frame, nb : 0 .. proto_FRAME_MAXSIZE]
Args == Byte \X Byte

ArgsLut == <<2, 1, 1, 1, 2>>
proto_getArgsSize(cmd) == IF cmd < proto_LAST THEN ArgsLut[cmd + 1] ELSE 0

FrameLen(cmd) == proto_ARGS_OFFSET + proto_getArgsSize(cmd)

\* The CRC covers the command and as many argument bytes as it has.
getFrameCRC(f) ==
    LET size == proto_getArgsSize(f[3])
    IN  IF size = 0 THEN getCRC1(f[3])
        ELSE IF size = 1 THEN getCRC2(f[3], f[4])
        ELSE getCRC3(f[3], f[4], f[5])

\* Unused arguments are zeroed before the CRC is computed.
RawFrame(cmd, args) ==
    << proto_START_OF_FRAME, 0, cmd,
       IF proto_getArgsSize(cmd) >= 1 THEN args[1] ELSE 0,
       IF proto_getArgsSize(cmd) >= 2 THEN args[2] ELSE 0 >>
\* Mutant: the CRC is computed before the arguments are copied.
MakeFrameCrcFirst(cmd, args) ==
    [RawFrame(cmd, args) EXCEPT ![2] = getFrameCRC(RawFrame(cmd, <<0, 0>>))]
proto_makeFrame(cmd, args) ==
    [RawFrame(cmd, args) EXCEPT ![2] = getFrameCRC(RawFrame(cmd, args))]

\* The bytes given to the device: the frame cut to its command's length.
WireBytes(cmd, args) == SubSeq(proto_makeFrame(cmd, args), 1, FrameLen(cmd))

proto_init == [frame |-> [i \in 1 .. proto_FRAME_MAXSIZE |-> 0], nb |-> 0]

\* Sending builds the frame in the handle and leaves the cursor alone.
proto_writeFrame(h, cmd, args) ==
    [h EXCEPT !.frame = proto_makeFrame(cmd, args)]

-----------------------------------------------------------------------------
\* proto_pushToFrame: synchronise on the start of frame, copy up to the
\* command, then up to the length that command asks for.  Bytes beyond the
\* frame are dropped.  "full" is the sign of the C result: also TRUE when the
\* input ends before the length is known.
FirstSOF(buf) ==
    IF \E i \in 1 .. Len(buf) : buf[i] = proto_START_OF_FRAME
    THEN CHOOSE i \in 1 .. Len(buf) :
            /\ buf[i] = proto_START_OF_FRAME
            /\ \A j \in 1 .. i - 1 : buf[j] # proto_START_OF_FRAME
    ELSE Len(buf) + 1

Least(a, b) == IF a < b THEN a ELSE b

\* Copy bytes of buf, skipping the first c, until the cursor reaches limit.
Fill(h, buf, c, limit) ==
    LET n == IF h.nb < limit THEN Least(limit - h.nb, Len(buf) - c) ELSE 0
    IN  [frame |-> [i \in 1 .. proto_FRAME_MAXSIZE |->
                      IF h.nb < i /\ i <= h.nb + n
                      THEN buf[c + i - h.nb] ELSE h.frame[i]],
         nb    |-> h.nb + n]

proto_pushToFrame(h, buf) ==
    LET skip   == IF h.nb = 0 THEN FirstSOF(buf) - 1 ELSE 0
        header == Fill(h, buf, skip, proto_ARGS_OFFSET)
        cursor == skip + (header.nb - h.nb)
        length == FrameLen(header.frame[3])
        whole  == Fill(header, buf, cursor, length)
    IN  IF skip = Len(buf) THEN [hdle |-> h, full |-> FALSE]
        ELSE IF cursor = Len(buf) THEN [hdle |-> header, full |-> TRUE]
        ELSE [hdle |-> whole, full |-> whole.nb = length]

\* proto_readFrame, given the bytes the device's read returned.
ReadLen(h) == proto_FRAME_MAXSIZE - h.nb
proto_readFrame(h, buf) ==
    IF buf = << >> THEN [hdle |-> h, status |-> "TIMEOUT"]
    ELSE LET p == proto_pushToFrame(h, buf)
         IN  [hdle   |-> p.hdle,
              status |-> IF p.full THEN "NO_ERROR" ELSE "TIMEOUT"]

-----------------------------------------------------------------------------
\* proto_decodeFrame: only a completed frame releases the cursor.
\* Mutant: the arguments are not waited for.
HasHeader(h) == h.nb >= proto_ARGS_OFFSET
HasFrame(h) ==
    h.nb >= proto_ARGS_OFFSET /\ h.nb >= FrameLen(h.frame[3])
\* Mutant: every frame is accepted.
CrcIgnored(h) == TRUE
CrcMatches(h) == getFrameCRC(h.frame) = h.frame[2]

\* Mutant: a completed frame keeps the cursor.
DecodeKeepsCursor(h, arg) ==
    IF ~HasFrame(h)
    THEN [hdle |-> h, result |-> "WAITING", cmd |-> 0, arg |-> arg]
    ELSE IF ~CrcMatches(h)
    THEN [hdle |-> h, result |-> "REFUSED", cmd |-> ERR_CRC,
          arg |-> <<h.frame[2], getFrameCRC(h.frame)>>]
    ELSE [hdle |-> h, result |-> "COMPLETED",
          cmd |-> h.frame[3], arg |-> <<h.frame[4], h.frame[5]>>]
proto_decodeFrame(h, arg) ==
    IF ~HasFrame(h)
    THEN [hdle |-> h, result |-> "WAITING", cmd |-> 0, arg |-> arg]
    ELSE IF ~CrcMatches(h)
    THEN [hdle |-> h, result |-> "REFUSED", cmd |-> ERR_CRC,
          arg |-> <<h.frame[2], getFrameCRC(h.frame)>>]
    ELSE [hdle |-> [h EXCEPT !.nb = 0], result |-> "COMPLETED",
          cmd |-> h.frame[3], arg |-> <<h.frame[4], h.frame[5]>>]
=============================================================================
