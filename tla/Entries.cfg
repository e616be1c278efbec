SPECIFICATION FairSpec
CONSTANTS
    Machine = {m1, m2}
    Flow = {f1, f2}
    MaxTrouble = 3
    None = None
INVARIANTS TypeOK OneEntry ClientsOwned OneAgent
PROPERTY ComesUp
