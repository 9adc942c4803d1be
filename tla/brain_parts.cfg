SPECIFICATION PartsSpec
CONSTANTS
    left = left
    right = right
    here = here
    there = there
    Servos <- TwoServos
    Positions <- TwoPositions
    Groups <- Singles
    MaxQueue = 1
    Joints = {1, 2}
    References = {1}
    Ticks = {1, 2}
    NoPose = NoPose
    Offline = Offline
    PanelGroups <- TwoServos
    PanelValues <- TwoPositions
    Slots <- TwoSlots
    first = first
    second = second
    NoState = NoState
    NoTicks = NoTicks
    NoEntry = NoEntry
    Unreadable = Unreadable
    Feet <- Square
    Limit = 1
    Lowest <- Low
    Highest = 2
    StartPitch = 0
    StartRoll = 1
    Asked <- SomeAngles
    NoStance = NoStance
SYMMETRY Either
INVARIANTS
    PartsTypeOK
    ArmedHasTarget
    FileHolds
PROPERTIES
    RestartKeeps
    SlidersAndTargetAgree
    TiltFollowsSliders
