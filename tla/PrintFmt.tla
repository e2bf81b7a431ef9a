------------------------------ MODULE PrintFmt ------------------------------
(***************************************************************************)
(* libs/printfmt.c: vprintfmt, one step per character of ordinary text,    *)
(* flag or conversion, writing through sprintputch into the buffer of      *)
(* vsnprintf.  Characters are one-letter strings; NUL ends a format.  An   *)
(* argument is chosen when va_arg asks for it.                             *)
(***************************************************************************)
EXTENDS Integers, Sequences, SequencesExt, FiniteSetsExt

CONSTANTS
    Directives,        \* formats by their parts, each between two letters A
    Unknown,           \* formats whose one escape is not known
    Ints, Longs,       \* arguments of type int and long
    Widths,            \* arguments for *
    Strings,           \* arguments of %s
    IntMod, LongMod,   \* 2^32 and 2^64 in the code
    MAXERROR,
    BufSizes           \* sizes of the buffer

Digit == <<"0", "1", "2", "3", "4", "5", "6", "7", "8", "9", "a", "b", "c", "d", "e", "f">>
ValueOfDigit(c) == (CHOOSE i \in 1 .. 16 : Digit[i] = c) - 1
Decimal == {Digit[i] : i \in 1 .. 10}
Escape == Decimal \cup {"-", "*", ".", "#", "l", "c", "e", "s", "d", "u", "o", "p", "x", "%"}

ASSUME PrintFmtAssumption ==
    /\ Ints \subseteq -(IntMod \div 2) + 1 .. IntMod \div 2 - 1
    /\ Longs \subseteq -(LongMod \div 2) .. LongMod \div 2 - 1
    /\ BufSizes \subseteq Nat /\ MAXERROR \in Nat

VARIABLES
    dir,    \* history: the parts of the format, or <<>>
    fmt, i, \* the format and the index of the next character
    o,      \* padc, width, precision, lflag, altflag
    out,    \* history: every character put
    buf,    \* what sprintputch has stored, at most size - 1
    size,
    arg,    \* history: the argument converted
    pc

fmtvars == <<dir, fmt, i, o, out, buf, size, arg, pc>>

Repeat(c, n) == [j \in 1 .. n |-> c]
Rep(c, n) == IF n > 0 THEN Repeat(c, n) ELSE <<>>
Prefix(x, n) == SubSeq(x, 1, IF n < Len(x) THEN n ELSE Len(x))
Ch == IF i <= Len(fmt) THEN fmt[i] ELSE "NUL"

----------------------------------------------------------------------------
RECURSIVE printnum(_, _, _, _)

\* Mutant: the width is not counted down.
PrintnumWide(num, base, width, padc) ==
    IF num >= base
    THEN Append(printnum(num \div base, base, width, padc), Digit[(num % base) + 1])
    ELSE Append(Rep(padc, width - 1), Digit[(num % base) + 1])

printnum(num, base, width, padc) ==
    IF num >= base
    THEN Append(printnum(num \div base, base, width - 1, padc), Digit[(num % base) + 1])
    ELSE Append(Rep(padc, width - 1), Digit[(num % base) + 1])

\* getuint and getint: an argument as unsigned long long or long long.
getuint(v, lflag) == v % (IF lflag = 0 THEN IntMod ELSE LongMod)
getint(v, lflag) == v

\* %s: characters before, of, and behind the string.
PutString(p, w, precision, padc, altflag) ==
    LET n == IF precision < 0 THEN Len(p) ELSE Len(Prefix(p, precision))
        pads == w > 0 /\ padc # "-"
        rest == IF pads THEN IF w - n > 0 THEN 0 ELSE w - n ELSE w
    IN  (IF pads THEN Rep(padc, w - n) ELSE <<>>)
            \o [j \in 1 .. n |-> IF altflag /\ p[j] = "bell" THEN "?" ELSE p[j]]
            \o Rep(" ", rest - n)

----------------------------------------------------------------------------
Fresh == [padc |-> " ", width |-> -1, precision |-> -1, lflag |-> 0, altflag |-> FALSE]

FmtInit ==
    /\ \/ dir \in Directives
          /\ fmt = <<"A", "%">> \o dir.flags \o dir.width \o dir.precision \o dir.l
                      \o <<dir.conv, "A">>
       \/ dir = <<>> /\ fmt \in Unknown
    /\ i = 1 /\ o = Fresh /\ out = <<>> /\ buf = <<>> /\ arg = <<>>
    /\ size \in BufSizes
    /\ pc = "call"

\* vsnprintf: no room for the terminating null is an error.
vsnprintf ==
    /\ pc = "call"
    /\ pc' = IF size = 0 THEN "E_INVAL" ELSE "text"
    /\ UNCHANGED <<dir, fmt, i, o, out, buf, size, arg>>

\* sprintputch of each character: counted, and stored while there is room.
Put(chars) ==
    /\ out' = out \o chars
    /\ buf' = buf \o Prefix(chars, size - 1 - Len(buf))

Text ==
    /\ pc = "text"
    /\ \/ /\ Ch = "NUL" /\ pc' = "done"
          /\ UNCHANGED <<i, o, out, buf>>
       \/ /\ Ch = "%" /\ pc' = "escape" /\ i' = i + 1 /\ o' = Fresh
          /\ UNCHANGED <<out, buf>>
       \/ /\ Ch \notin {"NUL", "%"} /\ Put(<<Ch>>) /\ i' = i + 1
          /\ UNCHANGED <<o, pc>>
    /\ UNCHANGED <<dir, fmt, size, arg>>

\* A flag, the goto reswitch cases.
Flags(next, k) ==
    /\ o' = next /\ i' = i + k
    /\ UNCHANGED <<dir, fmt, out, buf, size, arg, pc>>

\* process_precision
Process(n) == IF o.width < 0 THEN [o EXCEPT !.width = n, !.precision = -1]
              ELSE [o EXCEPT !.precision = n]

\* The number at i, and its length.
Number ==
    LET end == CHOOSE j \in i + 1 .. Len(fmt) + 1 :
                  /\ j = Len(fmt) + 1 \/ fmt[j] \notin Decimal
                  /\ \A h \in i .. j - 1 : fmt[h] \in Decimal
        val[j \in i - 1 .. end - 1] == IF j < i THEN 0 ELSE 10 * val[j - 1] + ValueOfDigit(fmt[j])
    IN  [n |-> val[end - 1], len |-> end - i]

Flag ==
    /\ pc = "escape"
    /\ \/ Ch \in {"-", "0"} /\ Flags([o EXCEPT !.padc = Ch], 1)
       \/ Ch \in Decimal \ {"0"} /\ Flags(Process(Number.n), Number.len)
       \/ Ch = "*" /\ \E n \in Widths : Flags(Process(n), 1)
       \/ Ch = "." /\ Flags([o EXCEPT !.width = IF @ < 0 THEN 0 ELSE @], 1)
       \/ Ch = "#" /\ Flags([o EXCEPT !.altflag = TRUE], 1)
       \/ Ch = "l" /\ Flags([o EXCEPT !.lflag = @ + 1], 1)

\* A conversion puts its characters, and text goes on behind it.
Convert(a, chars) ==
    /\ Put(chars)
    /\ arg' = a /\ i' = i + 1 /\ pc' = "text"
    /\ UNCHANGED <<dir, fmt, o, size>>

Args == IF o.lflag = 0 THEN Ints ELSE Longs
Num(num, base) == printnum(num, base, o.width, o.padc)

Conversion ==
    /\ pc = "escape"
    /\ \/ Ch = "%" /\ Convert(<<>>, <<"%">>)
       \/ Ch = "c" /\ Convert(<<"z">>, <<"z">>)
       \/ Ch = "s" /\ \E p \in Strings :
             Convert(<<p>>, PutString(p, o.width, o.precision, o.padc, o.altflag))
       \/ Ch = "e" /\ \E a \in Ints :
             LET err == IF a < 0 THEN -a ELSE a
             IN  Convert(<<a>>, IF err > MAXERROR \/ err = 0
                                THEN <<"error", " ">> \o printnum(err, 10, -1, " ")
                                ELSE <<"message of", err>>)
       \/ Ch = "d" /\ \E a \in Args :
             LET v == getint(a, o.lflag)
             IN  Convert(<<a>>, IF v < 0 THEN <<"-">> \o Num(-v, 10) ELSE Num(v, 10))
       \/ Ch = "u" /\ \E a \in Args : Convert(<<a>>, Num(getuint(a, o.lflag), 10))
       \/ Ch = "o" /\ \E a \in Args : Convert(<<a>>, Num(getuint(a, o.lflag), 8))
       \/ Ch = "x" /\ \E a \in Args : Convert(<<a>>, Num(getuint(a, o.lflag), 16))
       \/ Ch = "p" /\ \E a \in Longs : Convert(<<a>>, <<"0", "x">> \o Num(getuint(a, 2), 16))

\* default: a percent sign, then the characters behind it once more, as text.
UnknownEscape ==
    /\ pc = "escape" /\ Ch \notin Escape
    /\ Put(<<"%">>)
    /\ i' = Max({j \in 2 .. i : fmt[j - 1] = "%"})
    /\ pc' = "text"
    /\ UNCHANGED <<dir, fmt, o, size, arg>>

Done == pc \in {"done", "E_INVAL"} /\ UNCHANGED fmtvars

FmtNext == vsnprintf \/ Text \/ Flag \/ Conversion \/ UnknownEscape \/ Done

----------------------------------------------------------------------------
\* The buffer holds the first characters put, and the terminating null fits.
BufferExact ==
    /\ size > 0 => Len(buf) < size
    /\ buf = Prefix(out, IF size = 0 THEN 0 ELSE size - 1)

\* A format with an escape that is not known, or cut off, is printed as it stands,
\* flags and widths included.
UnknownIsText == pc = "done" /\ dir = <<>> => out = fmt

\* The number that a sequence of digits stands for.
Value(ds, base) == FoldSet(LAMBDA j, acc : acc + ValueOfDigit(ds[j]) * base ^ (Len(ds) - j), 0, DOMAIN ds)

BaseOf(conv) == CASE conv = "o" -> 8 [] conv \in {"x", "p"} -> 16 [] OTHER -> 10
Numeric == {"d", "u", "o", "x", "p"}

\* The characters between the two letters.
Field == SubSeq(out, 2, Len(out) - 1)
Negative == dir.conv = "d" /\ arg[1] < 0
Sign == IF Negative THEN <<"-">> ELSE IF dir.conv = "p" THEN <<"0", "x">> ELSE <<>>
Magnitude ==
    IF dir.conv = "d" THEN IF Negative THEN -arg[1] ELSE arg[1]
    ELSE arg[1] % (IF dir.conv # "p" /\ dir.l = <<>> THEN IntMod ELSE LongMod)

\* Digits of the magnitude, without leading zeros, and the width that counts.
IsNumeral(ds) ==
    /\ Range(ds) \subseteq Range(Digit) /\ (Len(ds) > 1 => ds[1] # "0")
    /\ Value(ds, BaseOf(dir.conv)) = Magnitude
Width == IF dir.width = <<>> THEN 0 ELSE o.width
PadFlag == IF dir.flags = <<>> THEN " " ELSE Last(dir.flags)
Printed(convs) == IF pc = "done" /\ dir # <<>> THEN dir.conv \in convs ELSE FALSE

\* A number is printed as its sign, padding with spaces or zeros, and the digits of
\* its magnitude in the base of the conversion: read back they give the argument, for
\* negative and unsigned arguments of both sizes, and padding makes up for the width
\* exactly.  Flag - is left out: its comment says that it pads on the right, the code
\* pads on the left, with minus signs.
NumbersExact == Printed(Numeric) /\ PadFlag # "-" =>
    LET body == SubSeq(Field, Len(Sign) + 1, Len(Field))
    IN  /\ Prefix(Field, Len(Sign)) = Sign
        /\ \E n \in 0 .. Len(body) - 1 :
              LET ds == SubSeq(body, n + 1, Len(body))
              IN  /\ Prefix(body, n) = Rep(PadFlag, n)
                  /\ IsNumeral(ds)
                  /\ n = IF Width > Len(ds) THEN Width - Len(ds) ELSE 0

\* The characters of a string argument that its precision keeps.
Kept == IF dir.precision = <<>> THEN arg[1] ELSE Prefix(arg[1], ValueOfDigit(dir.precision[2]))

\* A string without a width (the head of printfmt.c keeps widths for numbers, the code
\* pads strings too) comes out as its first precision characters; an error
\* code and its negative as the same message, any other as its number; a character
\* and a percent sign as they are.
OthersExact ==
    /\ Printed({"s"}) /\ dir.width = <<>> => Field = Kept
    /\ Printed({"e"}) =>
          LET n == IF arg[1] < 0 THEN -arg[1] ELSE arg[1]
          IN  IF n \in 1 .. MAXERROR THEN Field = <<"message of", n>>
              ELSE Prefix(Field, 2) = <<"error", " ">> /\ Value(SubSeq(Field, 3, Len(Field)), 10) = n
    /\ Printed({"c"}) => Field = arg
    /\ Printed({"%"}) => Field = <<"%">>

\* Every format comes out as these say, whatever the flags, widths and precisions in
\* front of its conversion, and for a buffer of any size.
FormatExact == BufferExact /\ UnknownIsText /\ NumbersExact /\ OthersExact
=============================================================================
