SPECIFICATION FairSpec
CONSTANTS
    Adapters = 3
    Turns = 6
    MaxChanges = 2
    None = None
INVARIANT RefusedNotUsed
PROPERTIES TurnsComeRound RefusalsRotate
CHECK_DEADLOCK FALSE
