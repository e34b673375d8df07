------------------------------ MODULE Kstdlib ------------------------------
(***************************************************************************)
(* The number readers and the formatter of kstdlib, as pure functions: what*)
(* kstrtol and katoi make of a text, and what kprintf and ksprintf print   *)
(* for it when it is a format.  One text, typed character by character, is *)
(* given to all of them.                                                   *)
(*                                                                         *)
(* A character is a string of length one, a text a sequence of them.  WORD *)
(* stands for both widths of the code, 32 bits and 64: the long and the    *)
(* short conversions differ in how they divide.  Every conversion of a     *)
(* format is given the same number, %s its decimal text.                   *)
(***************************************************************************)
EXTENDS Integers, SequencesExt

CONSTANTS
    WORD,              \* bits of an int
    Chars,             \* characters a text is made of
    Values,            \* numbers printed
    MaxLen             \* bound: length of a text

ASSUME KstdlibAssumption == WORD \in Nat \ {0, 1} /\ MaxLen \in Nat

VARIABLE text

K_LONG_MAX == 2 ^ (WORD - 1) - 1
NUL == ""
DigitChars == <<"0", "1", "2", "3", "4", "5", "6", "7", "8", "9", "a", "b", "c", "d", "e", "f">>
UpperChars == <<"0", "1", "2", "3", "4", "5", "6", "7", "8", "9", "A", "B", "C", "D", "E", "F">>

\* The character at i of a text, which ends in NUL.
At(s, i) == IF i \in DOMAIN s THEN s[i] ELSE NUL
From(s, i) == SubSeq(s, i, Len(s))

\* An int32_t or int64_t keeps the low bits.
Wrap(n) == ((n + 2 ^ (WORD - 1)) % 2 ^ WORD) - 2 ^ (WORD - 1)

----------------------------------------------------------------------------
(* Reading                                                                 *)

Kisdigit(c) == c \in {DigitChars[i] : i \in 1 .. 10}

CharToDigit(c) ==
    CASE \E i \in 1 .. 16 : DigitChars[i] = c -> (CHOOSE i \in 1 .. 16 : DigitChars[i] = c) - 1
      [] \E i \in 11 .. 16 : UpperChars[i] = c -> (CHOOSE i \in 11 .. 16 : UpperChars[i] = c) - 1
      [] OTHER -> -1

\* Long division, a bit at a time from the highest.
KdivmodU64(value, base) ==
    FoldRight(LAMBDA i, qc :
                LET carry == 2 * qc.rem + ((value \div 2 ^ i) % 2)
                IN  IF carry >= base THEN [quotient |-> qc.quotient + 2 ^ i, rem |-> carry - base]
                    ELSE [qc EXCEPT !.rem = carry],
              [i \in 1 .. WORD |-> i - 1], [quotient |-> 0, rem |-> 0])

RECURSIVE SkipSpaces(_)
SkipSpaces(s) == IF At(s, 1) \in {" ", "\t"} THEN SkipSpaces(Tail(s)) ELSE s

\* The base, and where its digits start.
DetectBase(s, base) ==
    CASE base # 0 -> [base |-> base, s |-> s]
      [] base = 0 /\ At(s, 1) = "0" /\ At(s, 2) \in {"x", "X"} -> [base |-> 16, s |-> From(s, 3)]
      [] base = 0 /\ At(s, 1) = "0" /\ At(s, 2) \notin {"x", "X"} -> [base |-> 8, s |-> From(s, 2)]
      [] OTHER -> [base |-> 10, s |-> s]

\* Mutant: the last digit is not held against the limit.
FitsLoose(value, base, digit) == value <= KdivmodU64(K_LONG_MAX, base).quotient

\* accumulate: value * base + digit must not pass K_LONG_MAX.
Fits(value, base, digit) ==
    LET limit == KdivmodU64(K_LONG_MAX, base)
    IN  ~(value > limit.quotient \/ (value = limit.quotient /\ digit > limit.rem))

Failed == [ok |-> FALSE, value |-> 0]

RECURSIVE Accumulate(_, _, _, _)
Accumulate(s, base, value, parsed) ==
    LET digit == CharToDigit(At(s, 1))
    IN  CASE At(s, 1) = NUL \/ digit < 0 \/ digit >= base -> [ok |-> parsed, value |-> value]
          [] At(s, 1) # NUL /\ digit \in 0 .. base - 1 /\ ~Fits(value, base, digit) -> Failed
          [] OTHER -> Accumulate(Tail(s), base, value * base + digit, TRUE)

Kstrtol(str, wanted) ==
    LET p == SkipSpaces(str)
        signed == At(p, 1) \in {"-", "+"}
        b == DetectBase(IF signed THEN Tail(p) ELSE p, wanted)
        r == Accumulate(b.s, b.base, 0, FALSE)
    IN  IF b.base \notin 2 .. 16 \/ ~r.ok THEN Failed
        ELSE [r EXCEPT !.value = IF At(p, 1) = "-" THEN -@ ELSE @]

\* katoi looks for a digit without looking for the end of the text: what it
\* meets behind it decides, if the text has none.
RECURSIVE KatoiSkip(_, _)
KatoiSkip(s, minus) ==
    CASE s = <<>> -> [s |-> s, minus |-> minus]
      [] s # <<>> /\ Kisdigit(At(s, 1)) -> [s |-> s, minus |-> minus]
      [] OTHER -> KatoiSkip(Tail(s), IF s[1] = "-" THEN minus + 1 ELSE minus)

RECURSIVE KatoiDigits(_, _)
KatoiDigits(s, result) ==
    IF Kisdigit(At(s, 1)) THEN KatoiDigits(Tail(s), Wrap(result * 10 + CharToDigit(s[1]))) ELSE result

Katoi(str, behind) ==
    LET r == KatoiSkip(str \o <<NUL>> \o behind, 0)
    IN  Wrap(KatoiDigits(r.s, 0) * (IF r.minus % 2 = 0 THEN 1 ELSE -1))

----------------------------------------------------------------------------
(* Printing                                                                *)

\* Digits, the lowest first in temp, then turned round.
RECURSIVE Temp(_, _, _)
Temp(value, base, digits) ==
    IF value = 0 THEN <<>> ELSE <<digits[(value % base) + 1]>> \o Temp(value \div base, base, digits)

Kuitoa(value, base, digits) == IF value = 0 THEN <<"0">> ELSE Reverse(Temp(value, base, digits))

\* The same with the division done by kdivmod_u64.
RECURSIVE Temp64(_, _)
Temp64(value, base) ==
    LET d == KdivmodU64(value, base)
    IN  IF value = 0 THEN <<>> ELSE <<DigitChars[d.rem + 1]>> \o Temp64(d.quotient, base)

Kuitoa64(value, base) == IF value = 0 THEN <<"0">> ELSE Reverse(Temp64(value, base))

\* The cast of -value to unsigned.
Magnitude(value) == (-value) % 2 ^ WORD

Kitoa(value) ==
    IF value < 0 THEN <<"-">> \o Kuitoa(Magnitude(value), 10, DigitChars) ELSE Kuitoa(value, 10, DigitChars)
Kitoa64(value) == IF value < 0 THEN <<"-">> \o Kuitoa64(Magnitude(value), 10) ELSE Kuitoa64(value, 10)

Pad(n, c) == [i \in 1 .. n |-> c]

\* Mutant: zeros go before the sign.
KprintPaddedSign(str, width, pad) ==
    LET out == Pad(IF width > Len(str) THEN width - Len(str) ELSE 0, pad) \o str
    IN  [out |-> out, count |-> Len(out)]

\* Padding on the left; zeros go behind the sign.
KprintPadded(str, width, pad) ==
    LET padding == IF width > Len(str) THEN width - Len(str) ELSE 0
        sign == At(str, 1) = "-" /\ pad = "0" /\ padding > 0
        out == IF sign THEN <<"-">> \o Pad(padding, pad) \o Tail(str) ELSE Pad(padding, pad) \o str
    IN  [out |-> out, count |-> (IF sign THEN 1 + Len(Tail(str)) ELSE Len(str)) + padding]

RECURSIVE Width(_, _, _)
Width(format, i, width) ==
    IF Kisdigit(At(format, i)) THEN Width(format, i + 1, width * 10 + CharToDigit(format[i]))
    ELSE [i |-> i, width |-> width]

\* A zero to pad with, then a width, then l.
KparseFormat(format, i) ==
    LET zero == At(format, i) = "0"
        w == Width(format, IF zero THEN i + 1 ELSE i, 0)
        long == At(format, w.i) = "l"
    IN  [pad |-> IF zero THEN "0" ELSE " ", width |-> w.width, long |-> long,
         i |-> IF long THEN w.i + 1 ELSE w.i]

Behind(prefix, p) == [out |-> prefix \o p.out, count |-> Len(prefix) + p.count]

\* What a conversion prints of its argument.  One the switch does not know is
\* printed as it stands: by ksprintf its character, by kprintf all the format
\* that is left.
KhandleFormat(format, f, value, rest) ==
    LET c == At(format, f.i)
        hex == IF f.long THEN Kuitoa64(value % 2 ^ WORD, 16)
               ELSE Kuitoa(value % 2 ^ WORD, 16, DigitChars)
    IN  CASE c = "d" -> KprintPadded(IF f.long THEN Kitoa64(value) ELSE Kitoa(value), f.width, f.pad)
          [] c = "x" -> Behind(<<"0", "x">>, KprintPadded(hex, f.width, f.pad))
          [] c = "X" -> Behind(<<"0", "X">>, KprintPadded(Kuitoa(value % 2 ^ WORD, 16, UpperChars), f.width, f.pad))
          [] c = "b" -> KprintPadded(Kuitoa(value % 2 ^ WORD, 2, DigitChars), f.width, f.pad)
          [] c = "p" -> Behind(<<"0", "x">>, KprintPadded(Kuitoa(value % 2 ^ WORD, 16, DigitChars),
                                               IF f.width > 2 THEN f.width - 2 ELSE 0, f.pad))
          [] c = "s" -> KprintPadded(Kitoa(value), f.width, " ")
          [] c = "c" -> KprintPadded(<<"c">>, f.width, " ")
          [] c = "%" -> [out |-> <<"%">>, count |-> 1]
          [] OTHER -> [out |-> <<"%">> \o rest, count |-> 2]

\* The loop of kprintf (whole) and of ksprintf, every argument being value.
RECURSIVE Run(_, _, _, _)
Run(format, i, value, whole) ==
    IF At(format, i) = NUL THEN [out |-> <<>>, count |-> 0]
    ELSE LET spec == format[i] = "%" /\ At(format, i + 1) # NUL
             f == KparseFormat(format, i + 1)
             one == IF ~spec THEN [out |-> <<format[i]>>, count |-> 1]
                    ELSE KhandleFormat(format, f, value,
                           IF whole THEN From(format, f.i) ELSE <<At(format, f.i)>>)
             more == Run(format, IF spec THEN f.i + 1 ELSE i + 1, value, whole)
         IN  [out |-> one.out \o more.out, count |-> one.count + more.count]

Kprintf(format, value) == Run(format, 1, value, TRUE)
Ksprintf(format, value) == Run(format, 1, value, FALSE)

----------------------------------------------------------------------------
KstdlibInit == text = <<>>
Type == Len(text) < MaxLen /\ \E c \in Chars : text' = Append(text, c)
Typed == Len(text) = MaxLen /\ UNCHANGED text

KstdlibSpec == KstdlibInit /\ [][Type \/ Typed]_text

----------------------------------------------------------------------------
(* What is checked                                                         *)

\* The value of a run of digits, by places.
ValueOf(s, base) ==
    FoldFunctionOnSet(+, 0, [i \in DOMAIN s |-> CharToDigit(s[i]) * base ^ (Len(s) - i)], DOMAIN s)

\* The longest run of digits of a base that s starts with.
Digits(s, base) ==
    LET n == CHOOSE n \in 0 .. Len(s) :
               /\ \A i \in 1 .. n : CharToDigit(s[i]) \in 0 .. base - 1
               /\ CharToDigit(At(s, n + 1)) \notin 0 .. base - 1
    IN  SubSeq(s, 1, n)

Strip(s) == From(s, CHOOSE i \in 1 .. Len(s) + 1 :
                      At(s, i) \notin {" ", "\t"} /\ \A j \in 1 .. i - 1 : s[j] \in {" ", "\t"})

\* kstrtol reads spaces, a sign and digits of its base, and says no when there
\* are none or they do not fit, at the limit too; katoi reads the first digits
\* there are, turned round by every minus before them, as far as a word goes.
NumbersRead ==
    /\ \A base \in {2, 10, 16} :
         LET s == Strip(text)
             d == Digits(IF At(s, 1) \in {"-", "+"} THEN Tail(s) ELSE s, base)
             v == ValueOf(d, base)
         IN  Kstrtol(text, base) =
               IF d = <<>> \/ v > K_LONG_MAX THEN Failed
               ELSE [ok |-> TRUE, value |-> IF At(s, 1) = "-" THEN -v ELSE v]
    /\ (\E i \in DOMAIN text : Kisdigit(text[i])) =>
         LET i == CHOOSE i \in DOMAIN text : Kisdigit(text[i]) /\ \A j \in 1 .. i - 1 : ~Kisdigit(text[j])
             minus == Cardinality({j \in 1 .. i - 1 : text[j] = "-"})
         IN  Katoi(text, <<"7">>) = Wrap(ValueOf(Digits(From(text, i), 10), 10) * (-1) ^ minus)

\* A percent sign before a character the switch does not know.
RECURSIVE Unknown(_)
Unknown(i) ==
    CASE At(text, i) = NUL -> FALSE
      [] At(text, i) = "%" /\ At(text, i + 1) # NUL ->
           LET f == KparseFormat(text, i + 1)
           IN  At(text, f.i) \notin {"d", "x", "X", "b", "p", "s", "c", "%"} \/ Unknown(f.i + 1)
      [] OTHER -> Unknown(i + 1)

\* ksprintf writes as many characters as it says; kprintf writes the same and
\* says the same unless a conversion is unknown: then it prints all that is left of
\* the format, goes on with it, and counts two, which is not "the total number of
\* characters printed" its comment promises; a decimal number printed alone, at
\* any width, is as wide as asked or as itself and read back as itself; and %x
\* prints 0x and digits that are read back as the number.
NumbersPrinted ==
    \A v \in Values :
      /\ Ksprintf(text, v).count = Len(Ksprintf(text, v).out)
      /\ Unknown(1) \/ Kprintf(text, v) = Ksprintf(text, v)
      /\ LET f == KparseFormat(text, 2)
             out == Kprintf(text, v).out
             plain == Len(text) = f.i /\ At(text, 1) = "%"
         IN  /\ plain /\ text[f.i] = "d" /\ v > -2 ^ (WORD - 1) =>
                  /\ Kstrtol(out, 10) = [ok |-> TRUE, value |-> v]
                  /\ Len(out) = (IF f.width > Len(Kitoa(v)) THEN f.width ELSE Len(Kitoa(v)))
             /\ plain /\ text[f.i] = "x" /\ v >= 0 /\ f.pad = "0" =>
                  /\ SubSeq(out, 1, 2) = <<"0", "x">>
                  /\ Kstrtol(From(out, 3), 16) = [ok |-> TRUE, value |-> v]

\* kprintf's comment: "%x - Unsigned hexadecimal integer, lowercase: kprintf("%x",
\* 255) -> "ff"", and the same for %X.  The conversion puts 0x before the digits.
HexBare ==
    \A v \in Values :
      text \in {<<"%", "x">>, <<"%", "X">>} =>
        Kprintf(text, v).out =
          Kuitoa(v % 2 ^ WORD, 16, IF text[2] = "x" THEN DigitChars ELSE UpperChars)
=============================================================================
