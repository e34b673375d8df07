SPECIFICATION KstdlibSpec
CONSTANTS
    WORD = 8
    Chars = {"%", "-", " ", "0", "1", "2", "8", "d", "x", "l"}
    Values <- Edges
    MaxLen = 4
INVARIANTS
    NumbersRead
    NumbersPrinted
