SPECIFICATION Spec
CONSTANTS
    None = None
    Jobs = {j1}
    Workers = {w1, w2}
    MaxAttempts = 2
SYMMETRY Symmetry
INVARIANTS
    IInv
    WritesAccepted
    NoDuplicateSideEffect
PROPERTIES
    TerminalImmutable
    CompletedByHolder
    ImplementsLifecycle
