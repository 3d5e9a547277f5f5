SPECIFICATION SyncSpec
CONSTANTS
    None = None
    Requests = {r1, r2, r3}
    Keys = {k1}
SYMMETRY Symmetry
INVARIANTS
    SyncSafe
    StreamEnds
PROPERTY TerminalKept
