SPECIFICATION Spec
CONSTANTS
    left = left
    right = right
    here = here
    there = there
    Servos <- TwoServos
    Positions <- TwoPositions
    MaxQueue = 1
    NoPose = NoPose
    NoServo = NoServo
    Offline = Offline
PROPERTIES
    FreshFeedback
