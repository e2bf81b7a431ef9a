------------------------------- MODULE CString -------------------------------
(***************************************************************************)
(* libs/string.c over a small memory: mem is an array of bytes whose last  *)
(* byte is zero.  The loops are recursive operators; the properties compare *)
(* them with definitions of what they should compute.  strcpy and memcpy   *)
(* are called as their comments require: the result fits, and strcpy's     *)
(* source and destination, and memcpy's, do not overlap.                   *)
(***************************************************************************)
EXTENDS Integers, Sequences, SequencesExt, FiniteSetsExt

CONSTANTS
    L,      \* bytes of memory, without the last
    Byte,   \* values of a byte
    Base    \* arguments of strtol

ASSUME CStringAssumption == L \in Nat \ {0} /\ Byte \subseteq 0 .. 255 /\ 0 \in Byte

VARIABLE mem

Addr == 0 .. L - 1
Memory == [0 .. L -> Byte]

\* Characters of ASCII.
SP == 32
TAB == 9
PLUS == 43
MINUS == 45
ZERO == 48
NINE == 57
UpperA == 65
UpperX == 88
UpperZ == 90
LowerA == 97
LowerX == 120
LowerZ == 122

----------------------------------------------------------------------------
RECURSIVE strlen(_, _), strnlen(_, _, _), strcpy(_, _, _), strncpy(_, _, _, _),
          strcmp(_, _, _), strncmp(_, _, _, _), strfind(_, _, _), Digits(_, _, _, _),
          memset(_, _, _, _), memcmp(_, _, _, _), Blanks(_, _)

strlen(m, s) == IF m[s] = 0 THEN 0 ELSE 1 + strlen(m, s + 1)

strnlen(m, s, len) == IF len = 0 \/ m[s] = 0 THEN 0 ELSE 1 + strnlen(m, s + 1, len - 1)

strcpy(m, dst, src) ==
    LET next == [m EXCEPT ![dst] = m[src]]
    IN  IF m[src] = 0 THEN next ELSE strcpy(next, dst + 1, src + 1)

strncpy(m, dst, src, len) ==
    IF len = 0 THEN m ELSE strncpy([m EXCEPT ![dst] = m[src]], dst + 1,
                                   IF m[src] # 0 THEN src + 1 ELSE src, len - 1)

strcmp(m, s1, s2) ==
    IF m[s1] # 0 /\ m[s1] = m[s2] THEN strcmp(m, s1 + 1, s2 + 1) ELSE m[s1] - m[s2]

strncmp(m, s1, s2, n) ==
    IF n > 0 /\ m[s1] # 0 /\ m[s1] = m[s2] THEN strncmp(m, s1 + 1, s2 + 1, n - 1)
    ELSE IF n = 0 THEN 0 ELSE m[s1] - m[s2]

\* strfind stops at the end of the string where strchr returns NULL, here -1.
strfind(m, s, c) == IF m[s] = 0 \/ m[s] = c THEN s ELSE strfind(m, s + 1, c)
strchr(m, s, c) == LET p == strfind(m, s, c) IN IF m[p] = 0 THEN -1 ELSE p

memset(m, s, c, n) == IF n = 0 THEN m ELSE memset([m EXCEPT ![s] = c], s + 1, c, n - 1)

\* The bytes at the offsets of seq, copied in this order.
CopyBytes(m, dst, src, seq) ==
    FoldLeft(LAMBDA acc, i : [acc EXCEPT ![dst + i] = acc[src + i]], m, seq)

memcpy(m, dst, src, n) == CopyBytes(m, dst, src, [i \in 1 .. n |-> i - 1])

\* Mutant: the direction is the same for any overlap.
MemmoveForward(m, dst, src, n) == CopyBytes(m, dst, src, [i \in 1 .. n |-> i - 1])

memmove(m, dst, src, n) ==
    IF src < dst /\ src + n > dst
    THEN CopyBytes(m, dst, src, [i \in 1 .. n |-> n - i])
    ELSE CopyBytes(m, dst, src, [i \in 1 .. n |-> i - 1])

memcmp(m, s1, s2, n) ==
    IF n = 0 THEN 0 ELSE IF m[s1] # m[s2] THEN m[s1] - m[s2]
    ELSE memcmp(m, s1 + 1, s2 + 1, n - 1)

----------------------------------------------------------------------------
(***************************************************************************)
(* strtol, with the value and the address it stores through endptr.        *)
(***************************************************************************)

\* The digit a character stands for; 99 when it is none.
DigitOf(c) ==
    IF ZERO <= c /\ c <= NINE THEN c - ZERO
    ELSE IF LowerA <= c /\ c <= LowerZ THEN c - LowerA + 10
    ELSE IF UpperA <= c /\ c <= UpperZ THEN c - UpperA + 10 ELSE 99

\* Mutant: the base counts as a digit.
DigitsLoose(m, s, base, val) ==
    IF DigitOf(m[s]) > base THEN [val |-> val, end |-> s]
    ELSE Digits(m, s + 1, base, val * base + DigitOf(m[s]))

Digits(m, s, base, val) ==
    IF DigitOf(m[s]) >= base THEN [val |-> val, end |-> s]
    ELSE Digits(m, s + 1, base, val * base + DigitOf(m[s]))

Blanks(m, s) == IF m[s] \in {SP, TAB} THEN Blanks(m, s + 1) ELSE s

strtol(m, s, base) ==
    LET b == Blanks(m, s)
        neg == m[b] = MINUS
        p == IF m[b] \in {PLUS, MINUS} THEN b + 1 ELSE b
        r == IF base \in {0, 16} /\ m[p] = ZERO /\ m[p + 1] = LowerX THEN Digits(m, p + 2, 16, 0)
             ELSE IF base = 0 /\ m[p] = ZERO THEN Digits(m, p + 1, 8, 0)
             ELSE Digits(m, p, IF base = 0 THEN 10 ELSE base, 0)
    IN  [val |-> IF neg THEN -r.val ELSE r.val, end |-> r.end]

----------------------------------------------------------------------------
InMemory(p, n) == p + n <= L
Apart(p, q, n) == p + n <= q \/ q + n <= p

MemInit == mem = [a \in 0 .. L |-> 0]

Set(s, c, n) == InMemory(s, n) /\ mem' = memset(mem, s, c, n)
Move(dst, src, n) == InMemory(dst, n) /\ InMemory(src, n) /\ mem' = memmove(mem, dst, src, n)
Copy(dst, src, n) ==
    InMemory(dst, n) /\ InMemory(src, n) /\ Apart(dst, src, n) /\ mem' = memcpy(mem, dst, src, n)
CopyString(dst, src) ==
    LET n == strlen(mem, src) + 1
    IN  InMemory(dst, n) /\ Apart(dst, src, n) /\ mem' = strcpy(mem, dst, src)
CopyN(dst, src, n) ==
    InMemory(dst, n) /\ Apart(dst, src, n) /\ mem' = strncpy(mem, dst, src, n)

MemNext ==
    \/ \E s \in Addr, c \in Byte, n \in 0 .. L : Set(s, c, n)
    \/ \E d, s \in Addr, n \in 0 .. L : Move(d, s, n)
    \/ \E d, s \in Addr, n \in 0 .. L : Copy(d, s, n)
    \/ \E d, s \in Addr : CopyString(d, s)
    \/ \E d, s \in Addr, n \in 0 .. L : CopyN(d, s, n)

----------------------------------------------------------------------------
\* The string at s, without its end.
End(s) == Min({p \in s .. L : mem[p] = 0})
Str(s) == [i \in 1 .. End(s) - s |-> mem[s + i - 1]]

\* Memory with n bytes at dst replaced by what new says, all else as it was.
Written(dst, n, new(_)) ==
    [a \in 0 .. L |-> IF dst <= a /\ a < dst + n THEN new(a - dst) ELSE mem[a]]

\* memmove copies as if over a buffer, for every overlap, and writes nothing else;
\* memcpy does when source and destination are apart.
MovesExact == \A d, s \in Addr, n \in 0 .. L : InMemory(d, n) /\ InMemory(s, n) =>
    LET moved == Written(d, n, LAMBDA i : mem[s + i])
    IN  /\ memmove(mem, d, s, n) = moved
        /\ Apart(d, s, n) => memcpy(mem, d, s, n) = moved

\* strncpy fills n bytes, with zeros behind the end of the source, and reads nothing
\* behind it; strcpy copies the string with its end.
StringCopiesExact == \A d, s \in Addr, n \in 0 .. L : InMemory(d, n) /\ Apart(d, s, n) =>
    /\ strncpy(mem, d, s, n) =
          Written(d, n, LAMBDA i : IF s + i < End(s) THEN mem[s + i] ELSE 0)
    /\ n = Len(Str(s)) + 1 => strcpy(mem, d, s) = Written(d, n, LAMBDA i : mem[s + i])

\* The order of sequences, as a sign.
Order(x, y) ==
    LET differ == {i \in 1 .. Len(x) : i <= Len(y) /\ x[i] # y[i]}
    IN  IF x = y THEN 0
        ELSE IF differ = {} THEN IF Len(x) < Len(y) THEN -1 ELSE 1
        ELSE IF x[Min(differ)] < y[Min(differ)] THEN -1 ELSE 1
Signum(x) == IF x < 0 THEN -1 ELSE IF x = 0 THEN 0 ELSE 1
UpTo(x, n) == SubSeq(x, 1, IF n < Len(x) THEN n ELSE Len(x))

\* strcmp and strncmp order strings, and their first n bytes, as unsigned
\* sequences; memcmp orders bytes; strnlen, strchr and strfind look no further
\* than the end of the string.
ScansExact == \A s, t \in Addr :
    /\ strlen(mem, s) = Len(Str(s))
    /\ Signum(strcmp(mem, s, t)) = Order(Str(s), Str(t))
    /\ \A n \in 0 .. L :
          /\ strnlen(mem, s, n) = Len(UpTo(Str(s), n))
          /\ Signum(strncmp(mem, s, t, n)) = Order(UpTo(Str(s), n), UpTo(Str(t), n))
          /\ InMemory(s, n) /\ InMemory(t, n) =>
                Signum(memcmp(mem, s, t, n)) = Order([i \in 1 .. n |-> mem[s + i - 1]],
                                                   [i \in 1 .. n |-> mem[t + i - 1]])
    /\ \A c \in Byte \ {0} :
          LET hits == {p \in s .. End(s) - 1 : mem[p] = c}
          IN  /\ strchr(mem, s, c) = IF hits = {} THEN -1 ELSE Min(hits)
              /\ strfind(mem, s, c) = IF hits = {} THEN End(s) ELSE Min(hits)

\* The memory and string functions compute what their comments say, on every memory:
\* for every overlap, at count 0, at the end of a string, and where both meet.
MemoryCorrect == MovesExact /\ StringCopiesExact /\ ScansExact

\* The value of the bytes from p to e - 1 as digits of a base.
ValueOf(p, e, base) == FoldSet(LAMBDA i, acc : acc + DigitOf(mem[i]) * base ^ (e - 1 - i), 0, p .. e - 1)
RunEnd(p, base) == Min({q \in p .. L : DigitOf(mem[q]) >= base})

\* The first character at s that is no blank, and the one behind a sign there.
SignAt(s) == Min({q \in s .. L : mem[q] \notin {SP, TAB}})
NumberAt(s) == IF mem[SignAt(s)] \in {PLUS, MINUS} THEN SignAt(s) + 1 ELSE SignAt(s)
HexMark(s, x) == mem[NumberAt(s)] = ZERO /\ mem[NumberAt(s) + 1] = x

\* strtol: blanks, a sign, a prefix by the base, then the longest run of digits, read
\* as a number in that base.  The prefix 0X of base 16 is left out: the comment
\* of strtol has it, the code does not.
StrtolCorrect == \A s \in Addr, base \in Base : ~(base = 16 /\ HexMark(s, UpperX)) =>
    LET b == SignAt(s)
        p == NumberAt(s)
        hex == base \in {0, 16} /\ HexMark(s, LowerX)
        radix == IF hex THEN 16 ELSE IF base # 0 THEN base ELSE IF mem[p] = ZERO THEN 8 ELSE 10
        first == IF hex THEN p + 2 ELSE p
        value == ValueOf(first, RunEnd(first, radix), radix)
    IN  strtol(mem, s, base) = [val |-> IF mem[b] = MINUS THEN -value ELSE value,
                                end |-> RunEnd(first, radix)]
=============================================================================
