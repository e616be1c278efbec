SPECIFICATION FairSpec
CONSTANTS
    Task = {t1, t2}
    Menu = {213}
    Keys = {302}
    Stored <- MCStored
    Calls <- MCCalls
    Edits <- MCEdits
    MaxWire = 2
    None = None
INVARIANTS TypeOK RightDrink
PROPERTIES OperationsEnd KeepsPromise
