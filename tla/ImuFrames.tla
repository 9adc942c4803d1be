-------------------------------- MODULE ImuFrames --------------------------------
(***************************************************************************)
(* The frames of the IMU bridge: their kinds and lengths (arachno-imu-     *)
(* proto), and the bytes that may stand in them.                           *)
(***************************************************************************)
EXTENDS Integers

CONSTANTS
    Data,            \* bytes a payload or a sequence number takes
    Noise,           \* bytes an altered byte may turn into
    SamplePayload,   \* IMU_SAMPLE_PAYLOAD_LEN (26 in the code)
    InfoPayload,     \* DEVICE_INFO_PAYLOAD_LEN (12)
    InfoPayloadV1,   \* DEVICE_INFO_PAYLOAD_LEN_V1 (8)
    MaxChunk,        \* bytes one read of the port returns at most (64)
    MaxFaults        \* bound on altered and lost bytes and on reopenings

Byte == 0 .. 255

ASSUME BytesAssumption == Data \subseteq Byte /\ Noise \subseteq Byte

ASSUME LengthsAssumption ==
    /\ InfoPayloadV1 \in 1 .. 255 /\ InfoPayload \in 1 .. 255
    /\ SamplePayload \in 1 .. 255
    /\ InfoPayloadV1 < InfoPayload /\ InfoPayload < SamplePayload

ASSUME BoundsAssumption == MaxChunk \in Nat \ {0} /\ MaxFaults \in Nat

SYNC_0 == 165
SYNC_1 == 90
PROTOCOL_VERSION == 1
HEADER_LEN == 6
CRC_LEN == 2

ImuSample == 1
DeviceInfo == 2
FrameKind == {ImuSample, DeviceInfo}

frame_len(payload_len) == HEADER_LEN + payload_len + CRC_LEN
MAX_FRAME_LEN == frame_len(SamplePayload)

is_valid_payload_len(kind, payload_len) ==
    \/ kind = DeviceInfo /\ payload_len \in {InfoPayloadV1, InfoPayload}
    \/ kind = ImuSample /\ payload_len = SamplePayload

\* Frames on the line: the current firmware's two, and the shorter device
\* info of the firmware the parser still accepts.
Frames == {f \in [kind : FrameKind, payload : {SamplePayload, InfoPayload, InfoPayloadV1}] :
              is_valid_payload_len(f.kind, f.payload)}

FrameLens == {frame_len(f.payload) : f \in Frames}

\* What encode_*_frame puts at index p of the frame: a fixed header, then the
\* sequence number, the payload and the CRC, which may be any data.
Encoded(f, p) ==
    IF p < HEADER_LEN - 1
    THEN {<<SYNC_0, SYNC_1, PROTOCOL_VERSION, f.kind, f.payload>>[p + 1]}
    ELSE Data

================================================================================
