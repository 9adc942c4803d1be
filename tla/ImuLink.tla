------------------------------ MODULE ImuLink ------------------------------
(***************************************************************************)
(* The serial link from the RP2040 IMU bridge to the brain: the frames the *)
(* firmware encodes, a line that may alter or lose bytes, the byte-by-byte *)
(* FrameParser of arachno-imu-proto, and UsbImuBridge::next_frame of       *)
(* arachno-imu-host, which reads the port in chunks and hands the bytes of *)
(* a chunk to the parser until a frame comes out.                          *)
(*                                                                         *)
(* Abstractions.  A byte is an integer; of a stored frame only the bytes   *)
(* the parser reads back are kept (indices 2, 3 and 4 of its buffer).  The *)
(* CRC is modelled by what it detects: a frame decodes exactly when the    *)
(* buffer holds the bytes that were encoded, in order and unaltered        *)
(* (`intact`).  A 16-bit collision is left out.                            *)
(***************************************************************************)
EXTENDS ImuFrames

VARIABLES
    frame,      \* the frame the firmware is sending
    pos,        \* how many of its bytes have left
    len,        \* FrameParser.len
    expected,   \* FrameParser.expected_len
    buffer,     \* FrameParser.buffer[2..4]: version, kind, payload length
    intact,     \* the buffer holds exactly the first len bytes of `frame`
    outcome,    \* what the last push returned
    skip,       \* bytes of the chunk at hand that next_frame will never look at
    faults,     \* line faults and reopenings so far
    clean       \* history: the parser was ready when `frame` began and every
                \* byte of it so far was handed over unaltered

parser == <<len, expected, buffer, intact, outcome>>
linkVars == <<frame, pos, parser, skip, faults, clean>>

NoHeader == [i \in 2 .. 4 |-> 0]

LinkTypeOK ==
    /\ frame \in Frames
    /\ pos \in 0 .. frame_len(frame.payload)
    /\ len \in 0 .. MAX_FRAME_LEN
    /\ expected \in {0} \cup FrameLens
    /\ expected # 0 => len \in HEADER_LEN .. expected - 1
    /\ buffer \in [2 .. 4 -> Byte]
    /\ intact \in BOOLEAN /\ clean \in BOOLEAN
    /\ outcome \in {"none", "frame", "error"}
    /\ skip \in 0 .. MaxChunk - 1
    /\ faults \in 0 .. MaxFaults

LinkInit ==
    /\ frame \in Frames
    /\ pos = 0
    /\ len = 0 /\ expected = 0
    /\ buffer = NoHeader
    /\ intact = FALSE
    /\ outcome = "none"
    /\ skip = 0
    /\ faults = 0
    /\ clean = TRUE

----------------------------------------------------------------------------
(* FrameParser *)

reset == len' = 0 /\ expected' = 0 /\ buffer' = NoHeader /\ intact' = FALSE

\* The parser keeps b as the first byte of a frame.
KeepFirst(good) ==
    /\ len' = 1
    /\ intact' = (good /\ pos = 0)
    /\ UNCHANGED <<expected, buffer>>

HuntFirst(b, good) ==
    /\ len = 0
    /\ outcome' = "none"
    /\ IF b = SYNC_0 THEN KeepFirst(good) ELSE UNCHANGED <<len, expected, buffer, intact>>

\* A broken parser that gives up on a repeated first sync byte.
HuntSecondStrict(b, good) ==
    /\ len = 1
    /\ outcome' = "none"
    /\ IF b = SYNC_1
       THEN len' = 2 /\ intact' = (intact /\ good) /\ UNCHANGED <<expected, buffer>>
       ELSE reset

HuntSecond(b, good) ==
    /\ len = 1
    /\ outcome' = "none"
    /\ IF b = SYNC_1
       THEN len' = 2 /\ intact' = (intact /\ good) /\ UNCHANGED <<expected, buffer>>
       ELSE IF b = SYNC_0 THEN KeepFirst(good) ELSE reset

TooLong ==
    /\ len >= MAX_FRAME_LEN
    /\ reset
    /\ outcome' = "error"

\* The byte that completes the header is judged with it.  A wrong version or a
\* wrong length resets the parser; an unknown kind leaves through `?` and
\* resets nothing.
JudgeHeader(good) ==
    LET payload_len == buffer[4] IN
    IF buffer[2] # PROTOCOL_VERSION THEN reset /\ outcome' = "error"
    ELSE IF buffer[3] \notin FrameKind
    THEN /\ len' = HEADER_LEN
         /\ intact' = (intact /\ good)
         /\ outcome' = "error"
         /\ UNCHANGED <<expected, buffer>>
    ELSE IF ~is_valid_payload_len(buffer[3], payload_len)
    THEN reset /\ outcome' = "error"
    ELSE /\ len' = HEADER_LEN
         /\ expected' = frame_len(payload_len)
         /\ intact' = (intact /\ good)
         /\ outcome' = "none"
         /\ UNCHANGED buffer

Collect(b, good) ==
    /\ len \in 2 .. MAX_FRAME_LEN - 1
    /\ IF len + 1 = HEADER_LEN THEN JudgeHeader(good)
       ELSE IF expected # 0 /\ len + 1 = expected
       THEN /\ reset
            /\ outcome' = IF intact /\ good THEN "frame" ELSE "error"
       ELSE /\ len' = len + 1
            /\ buffer' = IF len \in 2 .. 4 THEN [buffer EXCEPT ![len] = b] ELSE buffer
            /\ intact' = (intact /\ good)
            /\ outcome' = "none"
            /\ UNCHANGED expected

push(b, good) ==
    \/ HuntFirst(b, good)
    \/ HuntSecond(b, good)
    \/ TooLong
    \/ Collect(b, good)

----------------------------------------------------------------------------
(* The host and the line *)

\* next_frame hands the bytes of a chunk to the parser one at a time and
\* returns with the first frame: what is left of the chunk is lost.  Where a
\* chunk ends depends on timing, so any number of further bytes may be.
HandOver(b, good) ==
    IF skip > 0 THEN skip' = skip - 1 /\ UNCHANGED parser
    ELSE /\ push(b, good)
         /\ skip' \in IF outcome' = "frame" THEN 0 .. MaxChunk - 1 ELSE {0}

\* The firmware starts its next frame.
Begin(f) ==
    /\ pos = frame_len(frame.payload)
    /\ frame' = f
    /\ pos' = 0
    /\ intact' = FALSE
    /\ clean' = (len <= 1 /\ skip = 0)
    /\ UNCHANGED <<len, expected, buffer, outcome, skip, faults>>

Sending == pos < frame_len(frame.payload) /\ pos' = pos + 1 /\ UNCHANGED frame
Fault == faults < MaxFaults /\ faults' = faults + 1 /\ clean' = FALSE

Deliver ==
    /\ Sending
    /\ \E b \in Encoded(frame, pos) : HandOver(b, TRUE)
    /\ UNCHANGED <<faults, clean>>

Alter ==
    /\ Sending
    /\ Fault
    /\ \E b \in Noise \ Encoded(frame, pos) : HandOver(b, FALSE)

Lose ==
    /\ Sending
    /\ Fault
    /\ intact' = FALSE
    /\ UNCHANGED <<len, expected, buffer, outcome, skip>>

\* A failed read drops the bridge; the next poll opens it with a new parser.
Reopen ==
    /\ Fault
    /\ reset
    /\ outcome' = "none"
    /\ skip' = 0
    /\ UNCHANGED <<frame, pos>>

LinkNext ==
    \/ \E f \in Frames : Begin(f)
    \/ Deliver
    \/ Alter
    \/ Lose
    \/ Reopen

LinkSpec == LinkInit /\ [][LinkNext]_linkVars

\* The firmware never stops sending, and the brain polls the port every tick.
LinkFairSpec == LinkSpec /\ WF_linkVars((\E f \in Frames : Begin(f)) \/ Deliver)

\* A line that alters bytes and loses none.
AlteringSpec == LinkInit /\ [][(\E f \in Frames : Begin(f)) \/ Deliver \/ Alter]_linkVars

----------------------------------------------------------------------------
(* Properties *)

\* A frame that finds the parser hunting (even with a stray sync byte already
\* in hand) and reaches it undamaged comes out of it, whatever its data bytes
\* look like: push and decode_frame agree with encode_*_frame.
CleanFrameDelivered ==
    clean /\ pos = frame_len(frame.payload) => outcome = "frame"

\* Whatever the line brings, sync bytes inside data included, the parser is
\* soon hunting for a frame again: no prefix of a frame holds it for ever.
ParserLetsGo == []<>(len <= 1)

\* "Stay tolerant during bring-up and resync on the next frame": on a line that
\* only alters bytes, the parser is hunting again when the frame after a damaged
\* one begins.
ResyncOnNextFrame ==
    [][ \A f \in Frames : Begin(f) => len <= 1 ]_linkVars

(***************************************************************************)
(* What a clean frame's delivery rests on: while it arrives, the parser    *)
(* has stored as many bytes as were sent, and the ones it reads back are   *)
(* the encoder's.                                                          *)
(***************************************************************************)
Following ==
    clean =>
        /\ skip = 0 \/ pos = frame_len(frame.payload)
        /\ pos = 0 => len <= 1 /\ expected = 0
        /\ pos \in 1 .. frame_len(frame.payload) - 1 =>
              /\ len = pos /\ intact
              /\ expected = IF pos < HEADER_LEN THEN 0 ELSE frame_len(frame.payload)
              /\ pos > 2 => buffer[2] = PROTOCOL_VERSION
              /\ pos > 3 => buffer[3] = frame.kind
              /\ pos > 4 => buffer[4] = frame.payload
        /\ pos = frame_len(frame.payload) => outcome = "frame"
=============================================================================
