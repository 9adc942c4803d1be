SPECIFICATION HistorySpec
CONSTANTS
    NumServos = 2
    Modes <- Standing
    Stride = 1
    TrajectoryLog = TRUE
    VoltageLimit = 3
    AttitudeLimit = 2
    Readings <- OkAndLow
    ImuSamples <- OnlyLevel
    LimitConfigured = FALSE
    MaxQueue = 0
PROPERTIES
    ArmFromFreshPose
    OneSagDoesNotTrip
