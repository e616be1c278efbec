SPECIFICATION Spec
CONSTANTS
    Byte = {"S", "E", "A", "H", "R"}
    S = "S"
    E = "E"
    Command <- MCCommand
    Size <- MCSize
    Sound <- MCSound
    Limit = 9
    Mtu = 4
    None = None
INVARIANTS TypeOK IntactFrameHeard
