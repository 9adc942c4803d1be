SPECIFICATION PartsSpec
CONSTANTS
    left = left
    right = right
    here = here
    there = there
    Servos <- TwoServos
    Positions <- TwoPositions
    MaxQueue = 1
    NoPose = NoPose
    NoServo = NoServo
    Offline = Offline
    NoWalk = NoWalk
    Late <- OnTimeOrLate
    Settings <- Configured
    Shifts <- Moved
    Lives <- SomeLives
    MaxTime = 48
SYMMETRY Either
INVARIANTS
    PartsTypeOK
    SendsWhenReady
    TorqueRemembered
    CoxaeLast
    GaitCarries
PROPERTIES
    UtilityMovesItsServo
    LeapsOnlyWhere
