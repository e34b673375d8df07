SPECIFICATION KeyFairSpec
CONSTANTS
    SIZE = 4
    Keys = {3, 29, 42, 54, 58}
    Shifts = {42, 54}
    CAPS = 58
    Keymaps = {"azerty", "qwerty"}
    Scancodes <- TwoLayouts
INVARIANTS
    ShiftNeverStuck
PROPERTIES
    ImplementsCharQueue
    CharsServed
