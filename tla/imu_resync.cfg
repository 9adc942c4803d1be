SPECIFICATION AlteringSpec
CONSTANTS
    Data <- PlainData
    Noise <- PlainNoise
    SamplePayload = 5
    InfoPayload = 3
    InfoPayloadV1 = 2
    MaxChunk = 1
    MaxFaults = 1
PROPERTIES
    ResyncOnNextFrame
