SPECIFICATION PartsSpec
CONSTANTS
    NumServos = 3
    NumEntries = 2
    NumLegs = 2
    SkipLayDown = FALSE
    Data <- AnyData
    Noise <- AnyNoise
    SamplePayload = 5
    InfoPayload = 3
    InfoPayloadV1 = 2
    MaxChunk = 4
    MaxFaults = 1
    BusServos = 2
    BusLimits = {1, 2}
    BusPlaces = {1, 2}
    Attempts = 2
    Readbacks = 2
    MaxLate = 1
    WaitedFor = {1, 2}
    Confirm = 2
    WaitTimeout = 5
    Interval = 2
    DrainMax = 2
    Strikes = 2
    MaxLost = 1
    MaxLine = 3
    None = None
INVARIANTS
    PartsTypeOK
    OkMeansApplied
    WritesUnlocked
    PushesAtLowLimit
    OnlyMovedLegIsStrong
    RaisedAtRest
    OkMeansHeld
    CleanFrameDelivered
    WaitsTell
    BootTells
    FeedTells
PROPERTIES
    TorqueOnHere
    OkMeansDone
    NothingHangs
CHECK_DEADLOCK FALSE
