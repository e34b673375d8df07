SPECIFICATION Spec
CONSTANTS
    KSystem = KSystem
    KShell = KShell
    Users = {u1, u2}
    NULL = NULL
    TICKER = 3
    TICKS_MODULUS = 4
    MaxTyped = 2
    TypeAhead = TRUE
INVARIANT
    AddedTasksInRing
