SPECIFICATION KstdlibSpec
CONSTANTS
    WORD = 8
    Chars = {"%", "x", "X"}
    Values <- Edges
    MaxLen = 3
INVARIANTS
    HexBare
