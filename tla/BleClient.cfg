SPECIFICATION FairSpec
CONSTANTS
    Task = {t1, t2}
    Link = {l1, l2}
    Chars = 2
    Ops = {"poll", "run", "clear", "close"}
    Stubborn = {l2}
    None = None
INVARIANTS TypeOK OneLadder SessionOnItsLink
PROPERTIES LiveSessionKept OneSession NoLinkForgotten CallsEnd ComesNearer
