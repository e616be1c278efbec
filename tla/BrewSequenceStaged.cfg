SPECIFICATION Spec
CONSTANTS
    Task = {t1, t2}
    Menu = {201, 213}
    Keys = {302}
    Stored <- MCStored
    Calls = {}
    Edits = {}
    MaxWire = 2
    None = None
INVARIANT StagedIsSelected
