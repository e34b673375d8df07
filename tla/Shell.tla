------------------------------- MODULE Shell -------------------------------
(***************************************************************************)
(* The kernel shell: its line editor, the text screen it echoes to and the *)
(* parser that cuts a line into arguments.                                 *)
(*                                                                         *)
(* The line buffer is an array on the stack of the shell's task, never     *)
(* cleared: what earlier lines and earlier users of that memory left behind*)
(* the line is still there when the parser runs over it.  mem is the buffer*)
(* (cells 0 .. SIZE - 1) and the stack above it.  A character is a string  *)
(* of length one, NUL the empty string.                                    *)
(*                                                                         *)
(* Only the shell's own output is modelled, one line at a time: the date in*)
(* the prompt and what a command prints are small texts.                   *)
(***************************************************************************)
EXTENDS Integers, SequencesExt

CONSTANTS
    SIZE,              \* KERNEL_SHELL_BUFFER_SIZE
    ABOVE,             \* bound: cells of the stack above the buffer
    ARGV_MAX,          \* SHELL_ARGV_MAX_COUNT
    COLS, LINES,       \* VGA_COLUMNS_MAX, VGA_LINES_MAX
    Keys,              \* characters typed
    Commands,          \* shell_commands: their names, in order
    ClearName,         \* the one that clears the screen
    Prompt, Warning,   \* what print_shell_prompt and an unknown command print
    Outputs,           \* what the other commands may print
    Leftovers,         \* what the stack may hold before the shell starts
    MaxLines           \* bound: lines entered

ASSUME ShellAssumption ==
    /\ SIZE \in Nat \ {0} /\ ABOVE \in Nat /\ ARGV_MAX \in Nat \ {0} /\ MaxLines \in Nat
    /\ COLS \in Nat \ {0} /\ LINES \in Nat \ {0, 1}
    /\ Len(Prompt) + SIZE <= COLS * (LINES - 1)
    /\ \A c \in Range(Commands) : Len(c) < SIZE

VARIABLES mem, index, tty, ran, smashed, lines

vars == <<mem, index, tty, ran, smashed, lines>>

NUL == ""
Blank == " "
Backspace == "BS"
Delimiters == {"\t", "\n", " "}

----------------------------------------------------------------------------
(* The screen: cells row by row, and the cursor                            *)

CursorSet(t, x, y) == [t EXCEPT !.x = x, !.y = y]
CursorAdd(t, dx) ==
    LET x == t.x + dx
    IN  IF x >= COLS THEN CursorSet(t, x % COLS, t.y + x \div COLS) ELSE CursorSet(t, x, t.y)

VgaPutcAt(t, x, y, c) ==
    IF x >= COLS \/ y >= LINES THEN t ELSE [t EXCEPT !.cells[y * COLS + x] = c]

VgaScrollLine(t) ==
    [t EXCEPT !.cells = [i \in DOMAIN @ |-> IF i < COLS * (LINES - 1) THEN @[i + COLS] ELSE Blank]]

VgaFill(t, c) == [t EXCEPT !.cells = [i \in DOMAIN @ |-> c]]

\* Mutant: in the first column a backspace only blanks the cell under the
\* cursor.
TtyBackspaceStays(t) ==
    LET b == IF t.x > 0 THEN CursorAdd(t, -1) ELSE t
    IN  VgaPutcAt(b, b.x, b.y, Blank)

TtyBackspace(t) ==
    LET b == CASE t.x > 0 -> CursorAdd(t, -1)
               [] t.x = 0 /\ t.y > 0 -> CursorSet(t, COLS - 1, t.y - 1)
               [] OTHER -> t
    IN  VgaPutcAt(b, b.x, b.y, Blank)

TtyNewline(t) ==
    IF t.y >= LINES - 1 THEN CursorSet(VgaScrollLine(t), 0, LINES - 1) ELSE CursorSet(t, 0, t.y + 1)

TtyPutc(t, c) ==
    LET put == VgaPutcAt(t, t.x, t.y, c)
        last == t.y >= LINES - 1 /\ t.x = COLS - 1
    IN  CASE c = Backspace -> TtyBackspace(t)
          [] c = "\n" -> TtyNewline(t)
          [] c \notin {Backspace, "\n"} /\ last -> CursorSet(VgaScrollLine(put), 0, LINES - 1)
          [] OTHER -> CursorAdd(put, 1)

TtyPuts(t, s) == FoldLeft(TtyPutc, t, s)

----------------------------------------------------------------------------
(* The parser.  It knows no end but NUL: the stack past what is modelled is*)
(* taken to be NUL.                                                        *)

At(m, i) == IF i \in DOMAIN m THEN m[i] ELSE NUL

\* The first cell from i on whose content is not in s, or is in s.
SkipAll(m, i, s) == CHOOSE k \in i .. i + Cardinality(DOMAIN m) + 1 :
                      At(m, k) \notin s /\ \A j \in i .. k - 1 : At(m, j) \in s
SkipTo(m, i, s) == CHOOSE k \in i .. i + Cardinality(DOMAIN m) + 1 :
                      At(m, k) \in s /\ \A j \in i .. k - 1 : At(m, j) \notin s

Kstrlen(m, i) == SkipTo(m, i, {NUL}) - i
StringAt(m, i) == [k \in 1 .. Kstrlen(m, i) |-> m[i + k - 1]]

Kmemmove(m, dst, src, n) ==
    [k \in DOMAIN m |-> IF k \in dst .. dst + n - 1 THEN At(m, k - dst + src) ELSE m[k]]

\* The word in progress ends at a delimiter.  The NUL a run of delimiters ends
\* at is stepped over like any character.
RECURSIVE GetArgc(_, _, _)
GetArgc(m, b, inWord) ==
    LET e == SkipAll(m, b, Delimiters)
        still == inWord /\ e = b
    IN  CASE At(m, b) = NUL -> 0
          [] At(m, b) # NUL /\ ~still /\ At(m, e) # NUL -> 1 + GetArgc(m, e + 1, TRUE)
          [] OTHER -> GetArgc(m, e + 1, still)

\* Mutant: the search for the next word starts one cell late.
RECURSIVE FormattingLate(_, _, _)
FormattingLate(m, i, jump) ==
    IF At(m, i) = NUL THEN m
    ELSE LET end == SkipTo(m, i, Delimiters \union {NUL})
             cut == [k \in DOMAIN m |-> IF k = end THEN NUL ELSE m[k]]
             next == SkipAll(cut, end + 2 + jump, Delimiters)
         IN  FormattingLate(Kmemmove(cut, end + 1, next, Kstrlen(cut, next) + 1), end + 1, next - end - 1)

\* Mutant: the delimiters after the first are not squeezed out.
FormattingKeepsGaps(m, i, jump) ==
    [k \in DOMAIN m |-> IF k < SkipTo(m, 0, {NUL}) /\ m[k] \in Delimiters THEN NUL ELSE m[k]]

\* Every word ended by a NUL and what follows the delimiters moved down to it.
\* jump_tmp keeps its value from one gap to the next.
RECURSIVE FormattingBuffer(_, _, _)
FormattingBuffer(m, i, jump) ==
    IF At(m, i) = NUL THEN m
    ELSE LET end == SkipTo(m, i, Delimiters \union {NUL})
             cut == [k \in DOMAIN m |-> IF k = end THEN NUL ELSE m[k]]
             next == SkipAll(cut, end + 1 + jump, Delimiters)
         IN  FormattingBuffer(Kmemmove(cut, end + 1, next, Kstrlen(cut, next) + 1), end + 1, next - end - 1)

\* As many words as follow each other with one NUL between them.
RECURSIVE GetArgv(_, _)
GetArgv(m, b) ==
    IF At(m, b) = NUL THEN <<>> ELSE <<StringAt(m, b)>> \o GetArgv(m, b + Kstrlen(m, b) + 1)

----------------------------------------------------------------------------
(* The shell                                                               *)

KshellClear(t) == CursorSet(VgaFill(t, Blank), 0, 0)

\* kshell_execute_command, with out printed by the command.
ExecuteCommand(t, argv, out) ==
    CASE argv = <<>> -> t
      [] argv # <<>> /\ argv[1] \notin Range(Commands) -> TtyPuts(t, Warning)
      [] argv # <<>> /\ argv[1] \in Range(Commands) /\ argv[1] = ClearName -> KshellClear(t)
      [] OTHER -> TtyPuts(t, out)

PrintShellPrompt(t) == TtyPuts(t, Prompt)

\* ran is what the last key had setup_run_shell_command make of the line, next
\* whether the cell behind its end held anything.
Line(m, n) == [k \in 1 .. n |-> m[k - 1]]
NoRun == [line |-> <<>>, next |-> FALSE, argc |-> 0, argv |-> <<>>]

SetupRunShellCommand(ended, formatted) ==
    [line |-> Line(ended, index), next |-> At(ended, index + 1) # NUL,
     argc |-> GetArgc(ended, 0, FALSE), argv |-> GetArgv(formatted, 0)]

KeyEnter ==
    LET ended == [mem EXCEPT ![index] = NUL]
        formatted == FormattingBuffer(ended, 0, 0)
        run == SetupRunShellCommand(ended, formatted)
        shown == TtyPutc(tty, "\n")
    IN  /\ lines < MaxLines /\ ~smashed
        /\ lines' = lines + 1
        /\ index' = 0
        /\ IF ended[0] = NUL
           THEN /\ mem' = ended
                /\ ran' = NoRun
                /\ tty' = PrintShellPrompt(shown)
                /\ UNCHANGED smashed
           ELSE /\ mem' = formatted
                /\ ran' = run
                /\ smashed' = (Len(run.argv) > ARGV_MAX \/ \E k \in DOMAIN mem : k >= SIZE /\ formatted[k] # mem[k])
                /\ \E out \in Outputs : tty' = PrintShellPrompt(ExecuteCommand(shown, run.argv, out))

KeyBackspace ==
    /\ ~smashed
    /\ index > 0
    /\ tty' = TtyPutc(tty, Backspace)
    /\ index' = index - 1
    /\ ran' = NoRun
    /\ UNCHANGED <<mem, smashed, lines>>

\* The first command the line is the start of takes its place.
KeyTab ==
    LET matching == {i \in DOMAIN Commands : IsPrefix(Line(mem, index), Commands[i])}
        c == Commands[CHOOSE i \in matching : \A j \in matching : i <= j]
    IN  /\ ~smashed
        /\ index > 0
        /\ matching # {}
        /\ tty' = TtyPuts(tty, SubSeq(c, index + 1, Len(c)))
        /\ mem' = [k \in DOMAIN mem |-> IF k < Len(c) THEN c[k + 1] ELSE IF k = Len(c) THEN NUL ELSE mem[k]]
        /\ index' = Len(c)
        /\ ran' = NoRun
        /\ UNCHANGED <<smashed, lines>>

KeyChar(c) ==
    /\ ~smashed
    /\ index < SIZE - 1
    /\ mem' = [mem EXCEPT ![index] = c]
    /\ tty' = TtyPutc(tty, c)
    /\ index' = index + 1
    /\ ran' = NoRun
    /\ UNCHANGED <<smashed, lines>>

\* What a shell with a broken stack does next is anybody's guess.
Smashed == smashed /\ UNCHANGED vars

ShellInit ==
    /\ mem \in Leftovers
    /\ index = 0
    /\ tty = PrintShellPrompt([cells |-> [i \in 0 .. COLS * LINES - 1 |-> Blank], x |-> 0, y |-> 0])
    /\ ran = NoRun
    /\ smashed = FALSE
    /\ lines = 0

ShellNext == KeyEnter \/ KeyBackspace \/ KeyTab \/ (\E c \in Keys : KeyChar(c)) \/ Smashed

ShellSpec == ShellInit /\ [][ShellNext]_vars

----------------------------------------------------------------------------
(* What is checked                                                         *)

\* The characters before the cursor, over row ends and after any scrolling,
\* are the line being typed: what a backspace or a completion does to the
\* buffer it does to the screen.
LineOnScreen ==
    LET cursor == tty.y * COLS + tty.x
    IN  /\ tty.x < COLS /\ tty.y < LINES /\ cursor >= index
        /\ \A k \in 0 .. index - 1 : tty.cells[cursor - index + k] = mem[k]

\* The words of a line, by their places.
Starts(s) == {i \in DOMAIN s : s[i] \notin Delimiters /\ (i = 1 \/ s[i - 1] \in Delimiters)}
WordFrom(s, i) ==
    LET n == CHOOSE n \in i .. Len(s) : (\A j \in i .. n : s[j] \notin Delimiters)
                                        /\ (n = Len(s) \/ s[n + 1] \in Delimiters)
    IN  SubSeq(s, i, n)
Words(s) == [i \in 1 .. Cardinality(Starts(s)) |-> WordFrom(s, SetToSortSeq(Starts(s), <)[i])]

\* Two delimiters in a row with two words still to come.
WideGap(s) == \E i \in DOMAIN s : /\ i < Len(s) /\ s[i] \in Delimiters /\ s[i + 1] \in Delimiters
                                  /\ Cardinality({k \in Starts(s) : k > i}) >= 2
Trailing(s) == s # <<>> /\ Last(s) \in Delimiters

\* A command gets the words of the line and their number, unless the line
\* starts with a delimiter (nothing is run), has a gap of several delimiters
\* before its last word but one (jump_tmp), or ends in one with something left
\* behind it (which is counted too).
ArgvIsTheWords ==
    LET s == ran.line
    IN  s # <<>> /\ s[1] \notin Delimiters /\ ~WideGap(s) /\ ~(Trailing(s) /\ ran.next) =>
          /\ ran.argc = Cardinality(Starts(s))
          /\ Len(ran.argv) >= ran.argc
          /\ SubSeq(ran.argv, 1, ran.argc) = Words(s)

\* The parser leaves argv and the stack above the buffer alone unless the line
\* has too many words or something was left right behind it: whatever the gaps,
\* it never looks further than the cell after the line's end.
ParserStaysInLine ==
    smashed => \/ Cardinality(Starts(ran.line)) > ARGV_MAX
               \/ ran.next
=============================================================================
