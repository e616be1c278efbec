SPECIFICATION FairSpec
CONSTANTS
    Task = {t1, t2}
    Reg = {r1, r2}
    Challenge = {c1, c2}
    StaleRetries = 2
    MaxWire = 1
    None = None
INVARIANTS TypeOK OneExchange NoCrossTalk RightRegister KeyAgreement
PROPERTIES CallsEnd ComesNearer
