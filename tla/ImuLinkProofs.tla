--------------------------- MODULE ImuLinkProofs ---------------------------
(***************************************************************************)
(* For every choice of the payload lengths, of the data and of the noise:  *)
(* the parser's buffer never overflows and never waits for a frame that    *)
(* cannot end, and a frame that meets a hunting parser and arrives whole   *)
(* is delivered.                                                           *)
(***************************************************************************)
EXTENDS ImuLink, TLAPS

\* The lengths the parser waits for fit its buffer.
LEMMA LengthsFit ==
    /\ MAX_FRAME_LEN \in Nat /\ MAX_FRAME_LEN > HEADER_LEN
    /\ \A n \in FrameLens : n \in HEADER_LEN + 1 .. MAX_FRAME_LEN
BY LengthsAssumption
DEF FrameLens, Frames, MAX_FRAME_LEN, frame_len, HEADER_LEN, CRC_LEN, is_valid_payload_len

\* What the firmware sends is of a known kind and a length the parser takes.
LEMMA FrameFits ==
    ASSUME NEW f \in Frames
    PROVE  /\ f.kind \in FrameKind
           /\ f.payload \in 1 .. 255
           /\ is_valid_payload_len(f.kind, f.payload)
           /\ frame_len(f.payload) \in FrameLens
           /\ frame_len(f.payload) \in HEADER_LEN + 1 .. MAX_FRAME_LEN
<1>1. /\ f.kind \in FrameKind
      /\ f.payload \in 1 .. 255
      /\ is_valid_payload_len(f.kind, f.payload)
  BY LengthsAssumption DEF Frames
<1>2. frame_len(f.payload) \in FrameLens
  BY DEF FrameLens
<1> QED BY <1>1, <1>2, LengthsFit

\* A length the parser accepts is the length of a frame.
LEMMA ValidLength ==
    ASSUME NEW k \in FrameKind, NEW n, is_valid_payload_len(k, n)
    PROVE  frame_len(n) \in FrameLens
<1>1. [kind |-> k, payload |-> n] \in Frames
  BY DEF Frames, is_valid_payload_len
<1> QED BY <1>1 DEF FrameLens

\* A reset clears the parser.
LEMMA CleanHeader == NoHeader \in [2 .. 4 -> Byte]
BY DEF NoHeader, Byte

\* The encoder's header, byte by byte.
LEMMA EncodedHeader ==
    ASSUME NEW f \in Frames, NEW p \in Nat, NEW b \in Encoded(f, p)
    PROVE  /\ p = 0 => b = SYNC_0
           /\ p = 1 => b = SYNC_1
           /\ p = 2 => b = PROTOCOL_VERSION
           /\ p = 3 => b = f.kind
           /\ p = 4 => b = f.payload
           /\ p > 4 => b \in Data
BY DEF Encoded, HEADER_LEN

\* Every byte on the line is a byte.
LEMMA BytesSent ==
    ASSUME NEW f \in Frames, NEW p \in Nat
    PROVE  Encoded(f, p) \subseteq Byte
<1>1. SUFFICES ASSUME NEW b \in Encoded(f, p) PROVE b \in Byte
  OBVIOUS
<1>2. p > 4 \/ p = 0 \/ p = 1 \/ p = 2 \/ p = 3 \/ p = 4
  OBVIOUS
<1>3. f.kind \in Byte /\ f.payload \in Byte
  BY FrameFits DEF Byte, FrameKind, ImuSample, DeviceInfo
<1>4. {SYNC_0, SYNC_1, PROTOCOL_VERSION} \subseteq Byte
  BY DEF Byte, SYNC_0, SYNC_1, PROTOCOL_VERSION
<1> QED
  BY <1>2, <1>3, <1>4, EncodedHeader, BytesAssumption

\* The part of LinkTypeOK that a pushed byte can change.
ParserOK ==
    /\ len \in 0 .. MAX_FRAME_LEN
    /\ expected \in {0} \cup FrameLens
    /\ expected # 0 => len \in HEADER_LEN .. expected - 1
    /\ buffer \in [2 .. 4 -> Byte]
    /\ outcome \in {"none", "frame", "error"}

LEMMA ResetKeepsTypes ==
    ASSUME reset, outcome' \in {"none", "frame", "error"}
    PROVE  ParserOK'
<1>1. len' = 0 /\ expected' = 0 /\ buffer' \in [2 .. 4 -> Byte]
  BY CleanHeader DEF reset
<1> QED BY <1>1, LengthsFit DEF ParserOK

\* A byte leaves the parser within its buffer, with an end to wait for.
LEMMA PushKeepsTypes ==
    ASSUME LinkTypeOK, NEW b \in Byte, NEW good \in BOOLEAN, push(b, good)
    PROVE  ParserOK'
<1> USE LengthsFit DEF ParserOK
<1>r. reset /\ outcome' \in {"none", "frame", "error"} => ParserOK'
  BY ResetKeepsTypes
<1>1. CASE HuntFirst(b, good)
  BY <1>1 DEF HuntFirst, KeepFirst, LinkTypeOK, HEADER_LEN
<1>2. CASE HuntSecond(b, good)
  BY <1>2, <1>r DEF HuntSecond, KeepFirst, LinkTypeOK, HEADER_LEN
<1>3. CASE TooLong
  BY <1>3, <1>r DEF TooLong
<1>4. CASE Collect(b, good)
  <2>1. CASE len + 1 = HEADER_LEN
    <3>1. JudgeHeader(good)
      BY <1>4, <2>1 DEF Collect
    <3>2. expected = 0
      BY <2>1 DEF LinkTypeOK, HEADER_LEN
    <3>3. buffer[3] \in Byte /\ buffer[4] \in Byte
      BY DEF LinkTypeOK
    <3>4. CASE buffer[2] # PROTOCOL_VERSION
      BY <3>1, <3>4, <1>r DEF JudgeHeader
    <3>5. CASE buffer[2] = PROTOCOL_VERSION /\ buffer[3] \notin FrameKind
      BY <3>1, <3>2, <3>5 DEF JudgeHeader, LinkTypeOK, HEADER_LEN
    <3>6. CASE /\ buffer[2] = PROTOCOL_VERSION /\ buffer[3] \in FrameKind
               /\ ~is_valid_payload_len(buffer[3], buffer[4])
      BY <3>1, <3>6, <1>r DEF JudgeHeader
    <3>7. CASE /\ buffer[2] = PROTOCOL_VERSION /\ buffer[3] \in FrameKind
               /\ is_valid_payload_len(buffer[3], buffer[4])
      <4>1. frame_len(buffer[4]) \in FrameLens
        BY <3>7, ValidLength
      <4>2. len' = HEADER_LEN /\ expected' = frame_len(buffer[4])
        BY <3>1, <3>7 DEF JudgeHeader
      <4>3. UNCHANGED buffer /\ outcome' = "none"
        BY <3>1, <3>7 DEF JudgeHeader, LinkTypeOK
      <4> QED BY <4>1, <4>2, <4>3 DEF LinkTypeOK, HEADER_LEN
    <3> QED BY <3>4, <3>5, <3>6, <3>7
  <2>2. CASE len + 1 # HEADER_LEN /\ expected # 0 /\ len + 1 = expected
    BY <1>4, <2>2, <1>r DEF Collect
  <2>3. CASE len + 1 # HEADER_LEN /\ ~(expected # 0 /\ len + 1 = expected)
    BY <1>4, <2>3 DEF Collect, LinkTypeOK, HEADER_LEN
  <2> QED BY <2>1, <2>2, <2>3
<1> QED BY <1>1, <1>2, <1>3, <1>4 DEF push

\* The same for a byte on its way through next_frame.
LEMMA HandOverKeepsTypes ==
    ASSUME LinkTypeOK, NEW b \in Byte, NEW good \in BOOLEAN, HandOver(b, good)
    PROVE  ParserOK' /\ skip' \in 0 .. MaxChunk - 1
<1>1. CASE skip > 0
  BY <1>1, BoundsAssumption DEF HandOver, LinkTypeOK, parser, ParserOK
<1>2. CASE ~(skip > 0)
  BY <1>2, PushKeepsTypes, BoundsAssumption DEF HandOver
<1> QED BY <1>1, <1>2

\* The two flags stay truth values.
LEMMA FlagStep ==
    ASSUME intact \in BOOLEAN, clean \in BOOLEAN, [LinkNext]_linkVars
    PROVE  intact' \in BOOLEAN /\ clean' \in BOOLEAN
<1>1. ASSUME NEW b, NEW good \in BOOLEAN, HandOver(b, good)
      PROVE  intact' \in BOOLEAN
  BY <1>1
  DEF HandOver, parser, push, HuntFirst, HuntSecond, KeepFirst, TooLong, Collect,
      JudgeHeader, reset
<1>2. CASE Deliver
  BY <1>1, <1>2 DEF Deliver
<1>3. CASE Alter
  BY <1>1, <1>3 DEF Alter, Fault
<1>4. CASE Lose \/ Reopen
  BY <1>4 DEF Lose, Reopen, Fault, reset
<1>5. CASE \E f \in Frames : Begin(f)
  BY <1>5 DEF Begin
<1>6. CASE UNCHANGED linkVars
  BY <1>6 DEF linkVars, parser
<1> QED BY <1>2, <1>3, <1>4, <1>5, <1>6 DEF LinkNext

\* LinkTypeOK without its flags.
LineOK ==
    /\ frame \in Frames
    /\ pos \in 0 .. frame_len(frame.payload)
    /\ skip \in 0 .. MaxChunk - 1
    /\ faults \in 0 .. MaxFaults

LEMMA TypeStep ==
    ASSUME LinkTypeOK, [LinkNext]_linkVars
    PROVE  LinkTypeOK'
<1> SUFFICES LineOK' /\ ParserOK'
  <2>1. intact' \in BOOLEAN /\ clean' \in BOOLEAN
    BY FlagStep DEF LinkTypeOK
  <2> QED BY <2>1 DEF LinkTypeOK, LineOK, ParserOK
<1>0. frame \in Frames /\ pos \in Nat /\ LineOK /\ ParserOK
  BY FrameFits, LengthsFit DEF LinkTypeOK, ParserOK, LineOK
<1> DEFINE L == frame_len(frame.payload)
<1>a. L \in Nat
  BY <1>0, FrameFits, LengthsFit DEF HEADER_LEN
<1>b. Sending => frame' \in Frames /\ pos' \in 0 .. L /\ L' = L
  BY <1>0, <1>a DEF Sending, LineOK
<1>c. Fault => faults' \in 0 .. MaxFaults
  BY <1>0, BoundsAssumption DEF Fault, LineOK
<1>1. ASSUME NEW f \in Frames, Begin(f)
      PROVE  LineOK' /\ ParserOK'
  <2>1. LineOK'
    BY <1>0, <1>1, FrameFits DEF Begin, HEADER_LEN, LineOK
  <2> QED BY <1>0, <1>1, <2>1 DEF Begin, ParserOK
<1>2. CASE Deliver
  <2>1. PICK b \in Byte : HandOver(b, TRUE)
    BY <1>2, <1>0, BytesSent DEF Deliver
  <2>2. ParserOK' /\ skip' \in 0 .. MaxChunk - 1
    BY <2>1, HandOverKeepsTypes
  <2> QED BY <1>0, <1>2, <1>b, <2>2 DEF Deliver, LineOK
<1>3. CASE Alter
  <2>1. PICK b \in Byte : HandOver(b, FALSE)
    BY <1>3, BytesAssumption DEF Alter
  <2>2. ParserOK' /\ skip' \in 0 .. MaxChunk - 1
    BY <2>1, HandOverKeepsTypes
  <2> QED BY <1>3, <1>b, <1>c, <2>2 DEF Alter, LineOK
<1>4. CASE Lose
  <2>1. LineOK'
    BY <1>0, <1>4, <1>b, <1>c DEF Lose, LineOK
  <2> QED BY <1>0, <1>4, <2>1 DEF Lose, ParserOK
<1>5. CASE Reopen
  <2>1. LineOK'
    BY <1>0, <1>5, <1>c, BoundsAssumption DEF Reopen, LineOK
  <2>2. reset /\ outcome' = "none"
    BY <1>5 DEF Reopen
  <2> QED BY <2>1, <2>2, ResetKeepsTypes
<1>6. CASE UNCHANGED linkVars
  BY <1>0, <1>6 DEF linkVars, parser, ParserOK, LineOK
<1> QED BY <1>1, <1>2, <1>3, <1>4, <1>5, <1>6 DEF LinkNext

LEMMA LinkTypeInit == LinkInit => LinkTypeOK
<1> SUFFICES ASSUME LinkInit PROVE LinkTypeOK
  OBVIOUS
<1>1. frame \in Frames /\ pos = 0 /\ pos \in 0 .. frame_len(frame.payload)
  BY FrameFits DEF LinkInit, HEADER_LEN
<1>2. intact \in BOOLEAN /\ clean \in BOOLEAN
  BY DEF LinkInit
<1>3. /\ skip \in 0 .. MaxChunk - 1 /\ faults \in 0 .. MaxFaults
      /\ len = 0 /\ expected = 0 /\ outcome = "none"
      /\ buffer \in [2 .. 4 -> Byte]
  BY BoundsAssumption, CleanHeader DEF LinkInit
<1> QED BY <1>1, <1>2, <1>3, LengthsFit DEF LinkTypeOK

\* The parser's length stays within its buffer and, once it waits for a frame's
\* end, that end lies ahead of it and within the buffer.
THEOREM ParserInBounds == LinkSpec => []LinkTypeOK
BY LinkTypeInit, TypeStep, PTL DEF LinkSpec

----------------------------------------------------------------------------
\* Which branch of push a byte takes is the parser's length alone.
LEMMA PushByLength ==
    ASSUME LinkTypeOK, NEW b, NEW good, push(b, good)
    PROVE  /\ len = 0 => HuntFirst(b, good)
           /\ len = 1 => HuntSecond(b, good)
           /\ len \in 2 .. MAX_FRAME_LEN - 1 => Collect(b, good)
<1>1. HuntFirst(b, good) => len = 0
  BY DEF HuntFirst
<1>2. HuntSecond(b, good) => len = 1
  BY DEF HuntSecond
<1>3. TooLong => len >= MAX_FRAME_LEN
  BY DEF TooLong
<1>4. Collect(b, good) => len \in 2 .. MAX_FRAME_LEN - 1
  BY DEF Collect
<1>5. /\ len = 0 => len # 1 /\ ~(len >= MAX_FRAME_LEN) /\ len \notin 2 .. MAX_FRAME_LEN - 1
      /\ len = 1 => ~(len >= MAX_FRAME_LEN) /\ len \notin 2 .. MAX_FRAME_LEN - 1
      /\ len \in 2 .. MAX_FRAME_LEN - 1 => len # 0 /\ len # 1 /\ ~(len >= MAX_FRAME_LEN)
  BY LengthsFit DEF HEADER_LEN
<1> QED BY <1>1, <1>2, <1>3, <1>4, <1>5, Zenon DEF push

\* One undamaged byte of a frame the parser is following keeps it following.
LEMMA DeliverFollows ==
    ASSUME LinkTypeOK, Following, Deliver, clean
    PROVE  Following'
<1> DEFINE L == frame_len(frame.payload)
<1>1. L \in HEADER_LEN + 1 .. MAX_FRAME_LEN /\ MAX_FRAME_LEN \in Nat
  BY FrameFits, LengthsFit DEF LinkTypeOK
<1>2. /\ frame \in Frames /\ frame' = frame
      /\ pos \in 0 .. L - 1 /\ pos' = pos + 1
  BY <1>1 DEF Deliver, Sending, LinkTypeOK, HEADER_LEN
<1>3. skip = 0
  BY <1>1, <1>2 DEF Following, LinkTypeOK
<1>4. PICK b \in Encoded(frame, pos), good \in BOOLEAN : good /\ HandOver(b, good)
  BY DEF Deliver
<1>5. push(b, good) /\ good
  <2>1. ~(skip > 0)
    BY <1>3
  <2> QED BY <1>4, <2>1, Zenon DEF HandOver
<1>6. outcome' # "frame" => skip' = 0
  BY <1>3, <1>4 DEF HandOver
\* What the byte must do to the parser, by where the frame stands.
<1>7. SUFFICES
        IF pos' = L THEN outcome' = "frame"
        ELSE /\ outcome' = "none" /\ len' = pos' /\ intact'
             /\ expected' = IF pos' < HEADER_LEN THEN 0 ELSE L
             /\ pos' > 2 => buffer'[2] = PROTOCOL_VERSION
             /\ pos' > 3 => buffer'[3] = frame.kind
             /\ pos' > 4 => buffer'[4] = frame.payload
  <2>1. CASE pos' = L
    BY <1>1, <1>2, <2>1, <1>7 DEF Following, HEADER_LEN
  <2>2. CASE pos' # L
    BY <1>1, <1>2, <1>6, <2>2, <1>7 DEF Following, HEADER_LEN
  <2> QED BY <2>1, <2>2
<1>8. CASE pos = 0
  <2>1. b = SYNC_0 /\ (len = 0 \/ len = 1) /\ expected = 0
    BY <1>2, <1>4, <1>8, EncodedHeader DEF Following, LinkTypeOK, HEADER_LEN
  <2>2. HuntFirst(b, good) \/ HuntSecond(b, good)
    BY <1>5, <2>1, PushByLength
  <2>3. KeepFirst(good) /\ outcome' = "none"
    BY <2>1, <2>2 DEF HuntFirst, HuntSecond, SYNC_0, SYNC_1
  <2>4. /\ len' = 1 /\ expected' = 0
    BY <2>1, <2>3 DEF KeepFirst
  <2>5. intact'
    BY <1>5, <1>8, <2>3, Zenon DEF KeepFirst
  <2> QED BY <1>1, <1>2, <1>8, <2>3, <2>4, <2>5 DEF HEADER_LEN
<1>9. CASE pos = 1
  <2>1. b = SYNC_1 /\ len = 1 /\ intact /\ expected = 0
    BY <1>1, <1>2, <1>4, <1>9, EncodedHeader DEF Following, LinkTypeOK, HEADER_LEN
  <2>2. HuntSecond(b, good)
    BY <1>5, <2>1, PushByLength
  <2>3. len' = 2 /\ intact' = (intact /\ good) /\ expected' = 0 /\ outcome' = "none"
    BY <2>1, <2>2 DEF HuntSecond
  <2>4. intact'
    BY <1>5, <2>1, <2>3, Zenon
  <2>5. len' = 2 /\ expected' = 0 /\ outcome' = "none"
    BY <2>3, Zenon
  <2> QED BY <1>1, <1>2, <1>9, <2>4, <2>5 DEF HEADER_LEN
<1>10. CASE pos \in 2 .. L - 1
  <2>1. /\ len = pos
        /\ expected = IF pos < HEADER_LEN THEN 0 ELSE L
        /\ pos > 2 => buffer[2] = PROTOCOL_VERSION
        /\ pos > 3 => buffer[3] = frame.kind
        /\ pos > 4 => buffer[4] = frame.payload
    BY <1>1, <1>2, <1>10 DEF Following, HEADER_LEN
  <2>2. intact
    BY <1>1, <1>2, <1>10 DEF Following, LinkTypeOK, HEADER_LEN
  <2>3. Collect(b, good)
    <3>1. len \in 2 .. MAX_FRAME_LEN - 1
      BY <1>1, <1>10, <2>1
    <3> QED BY <1>5, <3>1, PushByLength
  <2>4. CASE pos \in 2 .. 4
    <3>1. /\ pos = 2 => b = PROTOCOL_VERSION
          /\ pos = 3 => b = frame.kind
          /\ pos = 4 => b = frame.payload
      BY <1>2, <1>4, <2>4, EncodedHeader
    <3>2. /\ len' = len + 1 /\ expected' = 0 /\ outcome' = "none"
          /\ buffer' = [buffer EXCEPT ![len] = b]
      BY <2>1, <2>3, <2>4 DEF Collect, HEADER_LEN
    <3>3. intact'
      <4>1. intact' = (intact /\ good)
        BY <2>1, <2>3, <2>4 DEF Collect, HEADER_LEN
      <4> QED BY <1>5, <2>2, <4>1, Zenon
    <3>4. /\ pos' > 2 => buffer'[2] = PROTOCOL_VERSION
          /\ pos' > 3 => buffer'[3] = frame.kind
          /\ pos' > 4 => buffer'[4] = frame.payload
      BY <1>2, <2>1, <2>4, <3>1, <3>2 DEF LinkTypeOK
    <3> QED BY <1>1, <1>2, <2>1, <2>4, <3>2, <3>3, <3>4 DEF HEADER_LEN
  <2>5. CASE pos = 5
    <3>1. JudgeHeader(good)
      BY <2>1, <2>3, <2>5 DEF Collect, HEADER_LEN
    <3>2. /\ buffer[2] = PROTOCOL_VERSION /\ buffer[3] \in FrameKind
          /\ is_valid_payload_len(buffer[3], buffer[4])
      BY <1>2, <2>1, <2>5, FrameFits
    <3>3. /\ len' = HEADER_LEN /\ expected' = L /\ outcome' = "none"
          /\ UNCHANGED buffer
      BY <2>1, <2>5, <3>1, <3>2 DEF JudgeHeader
    <3>4. intact'
      <4>1. intact' = (intact /\ good)
        BY <3>1, <3>2 DEF JudgeHeader
      <4> QED BY <1>5, <2>2, <4>1, Zenon
    <3> QED BY <1>1, <1>2, <2>1, <2>5, <3>3, <3>4 DEF HEADER_LEN
  <2>6. CASE pos \in HEADER_LEN .. L - 2
    <3>1. /\ len' = len + 1 /\ expected' = expected
          /\ buffer' = buffer /\ outcome' = "none"
      BY <1>1, <2>1, <2>3, <2>6 DEF Collect, HEADER_LEN
    <3>2. intact'
      <4>1. intact' = (intact /\ good)
        BY <1>1, <2>1, <2>3, <2>6 DEF Collect, HEADER_LEN
      <4> QED BY <1>5, <2>2, <4>1, Zenon
    <3> QED BY <1>1, <1>2, <2>1, <2>6, <3>1, <3>2 DEF HEADER_LEN
  <2>7. CASE pos = L - 1 /\ pos \geq HEADER_LEN
    <3>1. outcome' = IF intact /\ good THEN "frame" ELSE "error"
      BY <1>1, <2>1, <2>3, <2>7 DEF Collect, HEADER_LEN
    <3> QED BY <1>1, <1>2, <1>5, <2>2, <2>7, <3>1 DEF HEADER_LEN
  <2> QED BY <1>1, <1>10, <2>4, <2>5, <2>6, <2>7 DEF HEADER_LEN
<1> QED BY <1>1, <1>2, <1>8, <1>9, <1>10 DEF HEADER_LEN

LEMMA FollowingStep ==
    ASSUME LinkTypeOK, Following, [LinkNext]_linkVars
    PROVE  Following'
<1>1. ASSUME NEW f \in Frames, Begin(f)
      PROVE  Following'
  <2>1. pos' = 0 /\ frame' = f /\ len' = len /\ expected' = expected /\ skip' = skip
    BY <1>1 DEF Begin
  <2>2. clean' => len <= 1 /\ skip = 0
    BY <1>1 DEF Begin
  <2>3. frame_len(f.payload) > HEADER_LEN
    BY FrameFits, LengthsFit DEF HEADER_LEN
  <2>4. len <= 1 => expected = 0
    BY DEF LinkTypeOK, HEADER_LEN
  <2> QED BY <2>1, <2>2, <2>3, <2>4 DEF Following, HEADER_LEN
<1>2. CASE Deliver
  <2>1. CASE clean
    BY <1>2, <2>1, DeliverFollows
  <2>2. CASE ~clean
    BY <1>2, <2>2 DEF Deliver, Following
  <2> QED BY <2>1, <2>2
<1>3. CASE Alter \/ Lose \/ Reopen
  BY <1>3 DEF Alter, Lose, Reopen, Fault, Following
<1>4. CASE UNCHANGED linkVars
  BY <1>4 DEF linkVars, parser, Following
<1> QED BY <1>1, <1>2, <1>3, <1>4 DEF LinkNext

LEMMA FollowingInit == LinkInit => Following
BY FrameFits DEF LinkInit, Following, HEADER_LEN

\* Within a frame that arrives undamaged the parser holds exactly what was sent of it
\* (FrameParser::push).
THEOREM ParserFollows == LinkSpec => []Following
BY FollowingInit, FollowingStep, ParserInBounds, PTL DEF LinkSpec

\* A frame that finds the parser hunting and arrives undamaged is delivered,
\* with sync bytes in its data or without.
THEOREM CleanFramesDelivered == LinkSpec => []CleanFrameDelivered
<1>1. Following => CleanFrameDelivered
  BY DEF Following, CleanFrameDelivered
<1> QED BY <1>1, ParserFollows, PTL

=============================================================================
