SPECIFICATION Spec
CONSTANTS
    NumServos = 2
    Modes <- MovingModes
    Stride = 1
    TrajectoryLog = FALSE
    VoltageLimit = 2
    AttitudeLimit = 2
    Readings <- OkAndHot
    ImuSamples <- OnlyLevel
    LimitConfigured = FALSE
    MaxQueue = 0
INVARIANTS
    MovesFromMeasuredPose
