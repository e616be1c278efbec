SPECIFICATION Spec
CONSTANTS
    Task = {t1}
    Link = {l1, l2}
    Chars = 2
    Ops = {"run"}
    Stubborn = {}
    None = None
PROPERTY Escalates
