SPECIFICATION ShellSpec
CONSTANTS
    SIZE = 7
    ABOVE = 2
    ARGV_MAX = 2
    COLS = 4
    LINES = 3
    Keys = {"a", " "}
    Commands <- TwoCommands
    ClearName <- AB
    Prompt <- Dollar
    Warning <- Sorry
    Outputs <- SomeOutputs
    Leftovers <- CleanOrNot
    MaxLines = 2
INVARIANTS
    LineOnScreen
    ArgvIsTheWords
    ParserStaysInLine
