SPECIFICATION EepromSpec
CONSTANTS
    NumServos = 3
    NumEntries = 2
INVARIANTS
    RelockTried
