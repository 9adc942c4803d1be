SPECIFICATION Spec
CONSTANTS
    NumServos = 2
    Modes <- EveryMode
    Stride = 1
    TrajectoryLog = TRUE
    VoltageLimit = 2
    AttitudeLimit = 2
    Readings <- EveryReading
    ImuSamples <- OnlyLevel
    LimitConfigured = TRUE
    MaxQueue = 0
INVARIANTS
    TypeOK
    ArmedOnLiveBus
    TorqueFlagHonest
    DriveChecked
PROPERTIES
    FirstFaultStays
