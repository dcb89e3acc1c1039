---------------------------- MODULE MCJsonText -----------------------------
(* Strings of up to three pieces and numbers of up to six characters for JsonText. *)
EXTENDS JsonText

Raw == {"ctl", "lf", "quote", "/", "u", "n", "N", "A", "0", "blank", "wide", "s2"}
Escapes == {<<"\\", c>> : c \in DOMAIN Short \cup {"N"}}

\* A unit of each sort, digits in both cases.
ByNumber ==
  {<<"\\", "u">> \o PushHex4(unit) : unit \in {0, 1, 2, 3, 4, 6, 11, 13, 19} \cup Surrogates}
  \cup {<<"\\", "u", "A", "1">>, <<"\\", "u", "A", "2">>, <<"\\", "u", "2", "A">>}

\* Escapes left unfinished.
Broken == {<<"\\">>, <<"\\", "u">>, <<"\\", "u", "0">>, <<"\\", "u", "N">>,
           <<"\\", "u", "0", "quote">>}

MCPieces == {<<c>> : c \in Raw} \cup Escapes \cup ByNumber \cup Broken

\* The floats are the multiples of 1/9 up to 8/9, and of 1/9 to 81 times a number from 3
\* to 8: to 648, and infinity from the middle of that and 729.
MCMinExponent == -2
=============================================================================
