SPECIFICATION Spec
CONSTANTS
    left = left
    right = right
    here = here
    there = there
    NoPose = NoPose
    Offline = Offline
    Servos <- TwoServos
    Positions <- TwoPositions
    Groups <- Singles
    MaxQueue = 1
SYMMETRY Either
PROPERTIES
    UtilityKeepsOthers
