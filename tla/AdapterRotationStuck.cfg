SPECIFICATION FairSpec
CONSTANTS
    Adapters = 2
    Turns = 2
    MaxChanges = 0
    None = None
PROPERTY EveryoneInTurn
CHECK_DEADLOCK FALSE
