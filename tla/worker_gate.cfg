SPECIFICATION Spec
CONSTANTS
    NumServos = 2
    Modes <- EveryMode
    Stride = 1
    TrajectoryLog = FALSE
    VoltageLimit = 2
    AttitudeLimit = 2
    Readings <- OnlyOk
    ImuSamples <- LevelAndTilted
    LimitConfigured = TRUE
    MaxQueue = 1
INVARIANTS
    LimitsRestored
    GoalsSynced
    DriveChecked
PROPERTIES
    ImplementsMotionGate
