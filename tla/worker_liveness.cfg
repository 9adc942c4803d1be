SPECIFICATION FairSpec
CONSTANTS
    NumServos = 2
    Modes <- TelemetryAndStand
    Stride = 1
    TrajectoryLog = FALSE
    VoltageLimit = 2
    AttitudeLimit = 2
    Readings <- OkAndHot
    ImuSamples <- OnlyLevel
    LimitConfigured = TRUE
    MaxQueue = 0
PROPERTIES
    ModeHonoured
    ArmsOrHalts
