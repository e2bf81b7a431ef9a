------------------------------ MODULE MCLibrary ------------------------------
(* Instance of Library for TLC: int has four bits, long six. *)
EXTENDS Library

Parts(fl, w, p, l, c) ==
    [flags : fl, width : w, precision : p, l : l, conv : c]

Some == Parts({<<>>, <<"0">>, <<"-">>, <<"0", "-">>}, {<<>>, <<"4">>, <<"1", "2">>, <<"*">>}, {<<>>},
              {<<>>, <<"l">>}, {"d", "u", "o", "x", "p"})
    \cup Parts({<<>>, <<"0">>, <<"-">>}, {<<>>, <<"4">>, <<"*">>}, {<<>>, <<".", "2">>}, {<<>>}, {"s"})
    \cup Parts({<<>>, <<"#">>}, {<<>>}, {<<>>}, {<<>>}, {"c", "e", "%"})

FlagChar == {"-", "0", "3", ".", "l", "#", "*"}
Cut == {<<"%">> \o f : f \in UNION {[1 .. n -> FlagChar] : n \in 0 .. 3}}
NotKnown == Cut \cup {x \o <<"q", "A">> : x \in Cut}

\* Blank, minus, the digits 0 and 8, the letters X and x, and a byte above 127.
SomeBytes == {0, 32, 45, 48, 56, 88, 120, 200}

SomeInts == {-7, -1, 0, 5, 7}
SomeLongs == {-32, -9, 0, 31}
SomeStrings == {<<>>, <<"b", "c">>, <<"b", "c", "d", "f", "g">>}
=============================================================================
