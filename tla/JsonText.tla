------------------------------ MODULE JsonText ------------------------------
(***************************************************************************)
(* The bytes inside a JSON string or number, and everything that looks at   *)
(* them: the scanners of the tape (tokfold-core: tape.rs), the reader and   *)
(* writer of the MCP server (tokfold-mcp: json.rs), E1's respelling of       *)
(* strings (e1_minify.rs), the strings that are kept as they are spelled    *)
(* (never_compress.rs) and the cost model (estimator.rs).                   *)
(*                                                                          *)
(* The scale is smaller: a \u escape has HexLen digits of base 5, so that   *)
(* there are 25 code units instead of 65 536, and a unit of each sort;      *)
(* numerals have base Ten, and a float is a number of Precision digits of   *)
(* base FloatBase, so that most numerals are no float, as with f64.         *)
(***************************************************************************)
EXTENDS Integers, SequencesExt

CONSTANTS
  Pieces,       \* what may be typed next inside a string
  NumberChars,  \* characters that may be typed in a number
  MaxPieces,    \* bound: pieces typed in a string
  MaxChars,     \* bound: characters typed in a number
  Density,      \* ALPHANUMERIC_CHARS_PER_TOKEN_TENTHS: less than the u and digits of an escape
  IntDigits,    \* an integer of more digits is no i64
  SuffixDigits, \* an integral float of at most so many digits is written with ".0"
  FloatBase, Precision,     \* a float is m times a power of FloatBase, m of Precision digits
  MinExponent, MaxExponent, \* and these are the powers
  TellingDigits, \* so many digits tell any two floats apart
  FloatDigits,  \* a number of more digits before its point is larger than any float
  FloatZeros    \* one with more zeros after its point rounds to zero

-----------------------------------------------------------------------------
(* Characters. A name of more than one letter stands for one character:     *)
(* "quote" for ", "blank" for a space, "lf" for a newline, "ctl" for a      *)
(* control without a short escape, "wide" for one of three bytes, "s1" to   *)
(* "s4" for those beyond the code units.                                    *)

HexLen == 2

\* The characters by code unit; "high" and "low" are surrogates and no characters.
Units == <<"ctl", "lf", "quote", "\\", "/", "u", "n", "0", "1", "2", "3", "a", "A", "blank",
           "-", "+", ".", "e", "E", "wide", "high", "high", "low", "low", "N">>

Surrogates == {20, 21, 22, 23}
Beyond == <<"s1", "s2", "s3", "s4">>

\* What may stand in a text.
Characters == (ToSet(Units) \cup ToSet(Beyond)) \ {"high", "low"}

\* The base of the numerals, whose digits are 0 to 3.
Ten == 4

ASSUME JsonTextAssumption ==
  /\ \A piece \in Pieces : piece \in Seq(Characters)
  /\ MaxPieces \in Nat /\ MaxChars \in Nat
  /\ Density \in Nat \ {0} /\ Density <= 10 * (HexLen + 1)
  /\ 0 < SuffixDigits /\ SuffixDigits < IntDigits /\ IntDigits < FloatDigits
  /\ FloatBase \in Nat \ {0, 1} /\ Precision \in Nat \ {0} /\ FloatZeros \in Nat
  /\ MinExponent \in Int /\ MinExponent <= 0 /\ MaxExponent \in Nat
  /\ FloatBase ^ (Precision + MaxExponent) <= Ten ^ FloatDigits
  /\ TellingDigits \in Nat \ {0} /\ FloatBase ^ Precision < Ten ^ (TellingDigits - 1)
  /\ 2 * FloatBase ^ (-MinExponent) <= Ten ^ (FloatZeros + 1)

CharOf(unit) == Units[unit + 1]
IsHigh(unit) == unit \in {20, 21}
IsLow(unit)  == unit \in {22, 23}
Joined(high, low) == Beyond[(2 * (high - 20)) + (low - 22) + 1]

Digits == {"0", "1", "2", "3"}
HexVal == [c \in Digits \cup {"a", "A"} |->
             CASE c = "0" -> 0 [] c = "1" -> 1 [] c = "2" -> 2 [] c = "3" -> 3 [] OTHER -> 4]
HexDigit(value) == <<"0", "1", "2", "3", "a">>[value + 1]

Control == {"ctl", "lf"}
NonAscii == {"wide"} \cup ToSet(Beyond)

\* The escapes of one character, and what they stand for.
Short == [c \in {"quote", "\\", "/", "n"} |-> IF c = "n" THEN "lf" ELSE c]

At(t, i) == IF i \in DOMAIN t THEN t[i] ELSE "end"

Accepted(next) == [ok |-> TRUE, at |-> next]
Refused(at)    == [ok |-> FALSE, at |-> at]

-----------------------------------------------------------------------------
(* tape.rs *)

\* scan_string, from an opening quote: past the closing one, or the offending place.
ScanString(t, start) ==
  LET scan[i \in Nat] ==
        CASE At(t, i) = "end" -> Refused(i)
          [] At(t, i) = "quote" -> Accepted(i + 1)
          [] At(t, i) = "\\" ->
               CASE At(t, i + 1) \in DOMAIN Short -> scan[i + 2]
                 [] At(t, i + 1) = "u" ->
                      LET bad == {k \in 1..HexLen : At(t, i + 1 + k) \notin DOMAIN HexVal}
                      IN IF bad = {} THEN scan[i + 2 + HexLen]
                         ELSE Refused(i + 1 + Min(bad))
                 [] OTHER -> Refused(i + 1)
          [] At(t, i) \in Control -> Refused(i)
          [] OTHER -> scan[i + 1]
  IN scan[start + 1]

\* Past the digits at i.
DigitsEnd(t, i) ==
  CHOOSE j \in i..(Len(t) + 1) :
    At(t, j) \notin Digits /\ \A k \in i..(j - 1) : At(t, k) \in Digits

\* The places a number is read by: its first digit, and where its integer, its fraction,
\* the mark of its exponent and the exponent end. Each begins where the one before ends.
NumberMarks(t, start) ==
  LET first == IF At(t, start) = "-" THEN start + 1 ELSE start
      int   == IF At(t, first) = "0" THEN first + 1 ELSE DigitsEnd(t, first)
      frac  == IF At(t, int) = "." THEN DigitsEnd(t, int + 1) ELSE int
      mark  == IF At(t, frac) \notin {"e", "E"} THEN frac
               ELSE IF At(t, frac + 1) \in {"+", "-"} THEN frac + 2 ELSE frac + 1
  IN [first |-> first, int |-> int, frac |-> frac, mark |-> mark, exp |-> DigitsEnd(t, mark)]

\* Mutant: a point needs no digit after it.
BarePointPasses(t, m) == FALSE
FractionMissing(t, m) == At(t, m.int) = "." /\ m.frac = m.int + 1

ExponentMissing(t, m) == At(t, m.frac) \in {"e", "E"} /\ m.exp = m.mark
LeadingZero(t, m) == At(t, m.first) = "0" /\ At(t, m.int) \in Digits

\* scan_number: a leading zero is refused at the zero.
ScanNumber(t, start) ==
  LET Judged(m) ==
        IF m.int = m.first \/ LeadingZero(t, m) THEN Refused(m.first)
        ELSE IF FractionMissing(t, m) THEN Refused(m.frac)
        ELSE IF ExponentMissing(t, m) THEN Refused(m.exp)
        ELSE Accepted(m.exp)
  IN Judged(NumberMarks(t, start))

-----------------------------------------------------------------------------
(* never_compress.rs: a lexeme in which a rule's literal occurs, as it is   *)
(* spelled, is protected.                                                   *)

\* Two rules in the place of the table: one that ignores case and one that does not.
RULES == {[literal |-> <<"n", "/">>, case_sensitive |-> FALSE],
          [literal |-> <<"u", "N">>, case_sensitive |-> TRUE]}

Lower(c) == CASE c = "A" -> "a" [] c = "N" -> "n" [] c = "E" -> "e" [] OTHER -> c

MatchesLine(rule, line) ==
  \E start \in 0..(Len(line) - Len(rule.literal)) :
    \A k \in DOMAIN rule.literal :
      \/ line[start + k] = rule.literal[k]
      \/ ~rule.case_sensitive /\ Lower(line[start + k]) = Lower(rule.literal[k])

IsProtected(line) == \E rule \in RULES : MatchesLine(rule, line)

-----------------------------------------------------------------------------
(* e1_minify.rs *)

None == -1

\* read_hex4: the code unit of the digits at i.
ReadHex4(t, i) ==
  LET value[k \in 0..HexLen] ==
        IF k = 0 THEN 0 ELSE (5 * value[k - 1]) + HexVal[t[i + (k - 1)]]
  IN IF \A k \in 0..(HexLen - 1) : At(t, i + k) \in DOMAIN HexVal
     THEN value[HexLen] ELSE None

\* combine_surrogate_pair: the escape at i and the one after it are a pair.
CombinesPair(high, t, i) ==
  /\ IsHigh(high)
  /\ At(t, i + 2 + HexLen) = "\\" /\ At(t, i + 3 + HexLen) = "u"
  /\ IsLow(ReadHex4(t, i + 4 + HexLen))

\* Mutant: a low surrogate on its own is not noticed.
HasLoneHigh(inner) ==
  \E i \in DOMAIN inner :
    /\ inner[i] = "\\" /\ At(inner, i + 1) = "u" /\ IsHigh(ReadHex4(inner, i + 2))
    /\ ~CombinesPair(ReadHex4(inner, i + 2), inner, i)

HasLoneSurrogate(inner) ==
  LET lone[i \in Nat] ==
        LET unit == ReadHex4(inner, i + 2)
        IN IF At(inner, i) = "end" THEN FALSE
           ELSE IF At(inner, i) # "\\" THEN lone[i + 1]
           ELSE IF At(inner, i + 1) # "u" \/ unit = None THEN lone[i + 2]
           ELSE IF CombinesPair(unit, inner, i) THEN lone[i + (2 * (2 + HexLen))]
           ELSE unit \in Surrogates \/ lone[i + 2 + HexLen]
  IN lone[1]

\* push_hex4, emit_scalar: the shortest legal spelling of a character.
PushHex4(unit) == <<HexDigit(unit \div 5), HexDigit(unit % 5)>>

EmitScalar(unit) ==
  LET c == CharOf(unit)
  IN CASE c = "lf"         -> <<"\\", "n">>
       [] c \in {"quote", "\\"} -> <<"\\", c>>
       [] c = "ctl"        -> <<"\\", "u">> \o PushHex4(unit)
       [] OTHER            -> <<c>>

\* Mutant: every escape of one character is spelled by number.
CanonicalEscapeByNumber(c) ==
  CASE c = "/" -> <<"/">>
    [] c = "n" -> <<"\\", "u">> \o PushHex4(1)
    [] OTHER   -> <<"\\", c>>

\* canonical_escape, of the escapes of one character: a solidus needs none.
CanonicalEscape(c) == IF c = "/" THEN <<"/">> ELSE <<"\\", c>>

Inner(lexeme) == SubSeq(lexeme, 2, Len(lexeme) - 1)

Canonicalize(lexeme) ==
  LET t == Inner(lexeme)
      walk[i \in Nat] ==
        LET unit == ReadHex4(t, i + 2)
        IN IF At(t, i) = "end" THEN <<>>
           ELSE IF At(t, i) # "\\" THEN <<t[i]>> \o walk[i + 1]
           ELSE IF At(t, i + 1) \in DOMAIN Short THEN CanonicalEscape(t[i + 1]) \o walk[i + 2]
           ELSE IF At(t, i + 1) # "u" THEN <<"\\">> \o walk[i + 1]
           ELSE IF unit = None THEN <<"\\", "u">> \o walk[i + 2]
           ELSE IF CombinesPair(unit, t, i)
           THEN <<Joined(unit, ReadHex4(t, i + 4 + HexLen))>> \o walk[i + (2 * (2 + HexLen))]
           ELSE IF unit \in Surrogates
           THEN SubSeq(t, i, i + 1 + HexLen) \o walk[i + 2 + HexLen]
           ELSE EmitScalar(unit) \o walk[i + 2 + HexLen]
  IN IF HasLoneSurrogate(t) THEN lexeme ELSE <<"quote">> \o walk[1] \o <<"quote">>

EmitString(lexeme) == IF IsProtected(lexeme) THEN lexeme ELSE Canonicalize(lexeme)

-----------------------------------------------------------------------------
(* json.rs: strings *)

Unread(at) == [ok |-> FALSE, at |-> at, value |-> <<>>]
Read(next, value) == [ok |-> TRUE, at |-> next, value |-> value]

\* read_hex4, from i: a unit, or the first place that is no digit.
HexAt(t, i) ==
  LET bad == {k \in 0..(HexLen - 1) : At(t, i + k) \notin DOMAIN HexVal}
  IN IF bad = {} THEN Read(i + HexLen, ReadHex4(t, i)) ELSE Unread(i + Min(bad))

\* parse_unicode_escape, from the digits at i: a pair is joined, half of one refused.
ParseUnicodeEscape(t, i) ==
  LET Pair(high, low) ==
        IF At(t, high.at) # "\\" THEN Unread(high.at)
        ELSE IF At(t, high.at + 1) # "u" THEN Unread(high.at + 1)
        ELSE IF ~low.ok THEN low
        ELSE IF ~IsLow(low.value) THEN Unread(low.at)
        ELSE Read(low.at, Joined(high.value, low.value))
      Unit(high) ==
        CASE ~high.ok -> high
          [] high.ok /\ IsHigh(high.value) -> Pair(high, HexAt(t, high.at + 2))
          [] high.ok /\ IsLow(high.value)  -> Unread(high.at)
          [] OTHER -> Read(high.at, CharOf(high.value))
  IN Unit(HexAt(t, i))

\* parse_escape, from the character after the backslash: it is consumed before it is
\* judged.
ParseEscape(t, i) ==
  CASE At(t, i) = "end"          -> Unread(i)
    [] At(t, i) \in DOMAIN Short -> Read(i + 1, Short[t[i]])
    [] At(t, i) = "u"            -> ParseUnicodeEscape(t, i + 1)
    [] OTHER                     -> Unread(i + 1)

\* parse_string: the characters a string stands for.
ParseString(t, start) ==
  LET Then(c, rest) == IF rest.ok THEN Read(rest.at, <<c>> \o rest.value) ELSE rest
      read[i \in Nat] ==
        LET After(escape) == IF escape.ok THEN Then(escape.value, read[escape.at]) ELSE escape
        IN CASE At(t, i) = "end" -> Unread(i)
             [] At(t, i) = "quote" -> Read(i + 1, <<>>)
             [] At(t, i) = "\\" -> After(ParseEscape(t, i + 1))
             [] At(t, i) \in Control -> Unread(i)
             [] OTHER -> Then(t[i], read[i + 1])
  IN read[start + 1]

Escaped(c) ==
  CASE c \in {"quote", "\\"} -> <<"\\", c>>
    [] c = "lf"           -> <<"\\", "n">>
    [] c = "ctl"          -> <<"\\", "u", "0", "0">>
    [] OTHER              -> <<c>>

\* write_escaped
WriteEscaped(chars) ==
  <<"quote">> \o FlattenSeq([k \in DOMAIN chars |-> Escaped(chars[k])]) \o <<"quote">>

-----------------------------------------------------------------------------
(* json.rs: numbers. What a numeral denotes is a sign, the digits without   *)
(* the zeros at either end, and the power of ten of the last of them. A     *)
(* float is a sign and a member of Floats.                                  *)

Zero(neg) == [neg |-> neg, digits |-> <<>>, exp |-> 0]

Trimmed(neg, digits, exp) ==
  LET used == {k \in DOMAIN digits : digits[k] # "0"}
  IN IF used = {} THEN Zero(neg)
     ELSE [neg |-> neg, digits |-> SubSeq(digits, Min(used), Max(used)),
           exp |-> exp + (Len(digits) - Max(used))]

\* Digits before the point; of a number below one, minus the zeros after the point.
Magnitude(n) == Len(n.digits) + n.exp

ValueOf(digits) == FoldLeft(LAMBDA value, c : (Ten * value) + HexVal[c], 0, digits)

\* What a numeral with these marks denotes.
Denoted(t, start, m) ==
  LET digits   == SelectSeq(SubSeq(t, start, m.frac - 1), LAMBDA c : c \in Digits)
      places   == IF m.frac = m.int THEN 0 ELSE (m.frac - m.int) - 1
      exponent == ValueOf(SubSeq(t, m.mark, m.exp - 1))
      signed   == IF m.mark > m.frac /\ At(t, m.mark - 1) = "-" THEN -exponent ELSE exponent
  IN Trimmed(t[start] = "-", digits, signed - places)

IsFloat(m) == m.exp > m.int

Number(next, type, n) == [ok |-> TRUE, at |-> next, type |-> type, value |-> n]

\* The floats without their signs, and those one exponent too large, which stand for
\* infinity. The smallest have fewer digits.
Floats ==
  {f \in [m : 0..(FloatBase ^ Precision - 1), e : MinExponent..(MaxExponent + 1)] :
     f.m >= FloatBase ^ (Precision - 1) \/ f.e = MinExponent}

\* How far a float is from a number of at most so many places, in a unit that both are
\* whole in.
Apart(n, f, places) ==
  LET number == ValueOf(n.digits) * Ten ^ (n.exp + places) * FloatBase ^ (-MinExponent)
      float  == f.m * FloatBase ^ (f.e - MinExponent) * Ten ^ places
  IN Max({number - float, float - number})

\* Rounding to the nearest, and of two as near to the even one.
Nearest(n) ==
  LET Distance(f) == Apart(n, f, Max({0, -n.exp}))
      least == Min({Distance(f) : f \in Floats})
      near  == {f \in Floats : Distance(f) = least}
  IN CHOOSE f \in near : near = {f} \/ f.m % 2 = 0

Rounded(n) == Nearest(IF Magnitude(n) < -FloatZeros THEN Zero(n.neg) ELSE n)

\* It is rounded to infinity.
Overflows(n) == Magnitude(n) > FloatDigits \/ Rounded(n).e > MaxExponent

Signed(neg, f) == [neg |-> neg, m |-> f.m, e |-> f.e]

\* finite_float: one that overflows is refused, any other rounded.
FiniteFloat(next, n) ==
  IF Overflows(n) THEN Unread(next) ELSE Number(next, "float", Signed(n.neg, Rounded(n)))

\* parse_number: a leading zero is refused at the digit after it. An integer past i64
\* becomes a float; minus zero is an integer without a sign.
ParseNumber(t, start) ==
  LET Judged(m, n) ==
        IF m.int = m.first THEN Unread(m.first)
        ELSE IF LeadingZero(t, m) THEN Unread(m.int)
        ELSE IF FractionMissing(t, m) THEN Unread(m.frac)
        ELSE IF ExponentMissing(t, m) THEN Unread(m.exp)
        ELSE IF IsFloat(m) \/ Magnitude(n) > IntDigits THEN FiniteFloat(m.exp, n)
        ELSE Number(m.exp, "int", IF n.digits = <<>> THEN Zero(FALSE) ELSE n)
      Marked(m) == Judged(m, Denoted(t, start, m))
  IN Marked(NumberMarks(t, start))

Zeros(count) == [k \in 1..count |-> "0"]

\* The decimal expansion of a number, in full.
Expansion(n) ==
  LET sign   == IF n.neg THEN <<"-">> ELSE <<>>
      places == -n.exp
      whole  == Len(n.digits) - places
  IN sign \o
     CASE n.digits = <<>> -> <<"0">>
       [] n.digits # <<>> /\ n.exp >= 0 -> n.digits \o Zeros(n.exp)
       [] n.exp < 0 /\ whole > 0 ->
            SubSeq(n.digits, 1, whole) \o <<".">> \o SubSeq(n.digits, whole + 1, Len(n.digits))
       [] OTHER -> <<"0", ".">> \o Zeros(-whole) \o n.digits

\* The numbers without signs that have few digits and may be floats.
Decimals ==
  {Trimmed(FALSE, digits, magnitude - Len(digits)) :
     digits \in BoundedSeq(Digits, TellingDigits), magnitude \in (-FloatZeros)..FloatDigits}

\* What they are read as.
Readings == {[number |-> n, float |-> Rounded(n)] : n \in Decimals}

\* Of each float, the fewest digits that are read as it, and of those the nearest to it.
Spellings ==
  LET Reads(f)    == {r \in Readings : r.float = f}
      Fewest(all) == {r \in all : \A o \in all : Len(r.number.digits) <= Len(o.number.digits)}
      Distance(r) == Apart(r.number, r.float, FloatZeros + TellingDigits)
      Closest(all) == CHOOSE r \in all : \A o \in all : Distance(r) <= Distance(o)
  IN {Closest(Fewest(Reads(f))) : f \in {f \in Floats : f.e <= MaxExponent}}

Shortest(v) ==
  LET spelling == CHOOSE s \in Spellings : Signed(v.neg, s.float) = v
  IN [spelling.number EXCEPT !.neg = v.neg]

IsWhole(f) == f.e >= 0 \/ f.m % FloatBase ^ (-f.e) = 0
WholeOf(f) == IF f.e >= 0 THEN f.m * FloatBase ^ f.e ELSE f.m \div FloatBase ^ (-f.e)

IsShortWhole(f) == IsWhole(f) /\ WholeOf(f) < Ten ^ SuffixDigits

\* A whole number in digits.
Numeral ==
  LET digits[n \in Nat] ==
        IF n < Ten THEN <<HexDigit(n)>> ELSE Append(digits[n \div Ten], HexDigit(n % Ten))
  IN digits

\* Mutant: a whole float loses its point.
WritePlainly(type, v) ==
  Expansion(IF type = "int" THEN v ELSE Shortest(v))

\* Display for a number, write_float: a short whole one is written exactly and keeps its
\* point; any other by the shortest digits there are, with zeros up to its point.
WriteNumber(type, v) ==
  CASE type = "int" -> Expansion(v)
    [] type = "float" /\ IsShortWhole(v) ->
         (IF v.neg THEN <<"-">> ELSE <<>>) \o Numeral[WholeOf(v)] \o <<".", "0">>
    [] OTHER -> Expansion(Shortest(v))

-----------------------------------------------------------------------------
(* Values by their first character, in both parsers *)

Null == <<"n", "u", "l", "l">>

\* lit_matches: a literal is refused at its first character.
ScanLiteral(t) == IF IsPrefix(Null, t) THEN Accepted(5) ELSE Refused(1)

\* expect_literal: refused where it goes wrong.
ExpectLiteral(t) ==
  IF IsPrefix(Null, t) THEN Read(5, <<>>)
  ELSE Unread(Min({k \in DOMAIN Null : At(t, k) # Null[k]}))

ScanValue(t) ==
  CASE t[1] = "quote" -> ScanString(t, 1)
    [] t[1] = "n"  -> ScanLiteral(t)
    [] OTHER       -> ScanNumber(t, 1)

ParseValue(t) ==
  CASE t[1] = "quote" -> ParseString(t, 1)
    [] t[1] = "n"  -> ExpectLiteral(t)
    [] OTHER       -> ParseNumber(t, 1)

-----------------------------------------------------------------------------
(* estimator.rs *)

CeilDiv(a, b) == (a + b - 1) \div b

AlphanumericRunTokens(len) == CeilDiv(len * 10, Density)
WhitespaceRunTokens(len) == IF len >= 2 THEN 1 ELSE 0
NonAsciiRunTokens(bytes) == CeilDiv(bytes, 2)

Whitespace == {"blank", "lf"}
Punctuation == {"ctl", "quote", "\\", "/", "-", "+", "."}

Class(c) ==
  CASE c \in Whitespace  -> "space"
    [] c \in Punctuation -> "punctuation"
    [] c \in NonAscii    -> "wide"
    [] OTHER             -> "alphanumeric"

BytesOf(c) == CASE c = "wide" -> 3 [] c \in ToSet(Beyond) -> 4 [] OTHER -> 1

RunTokens(class, len) ==
  CASE class = "alphanumeric" -> AlphanumericRunTokens(len)
    [] class = "space"        -> WhitespaceRunTokens(len)
    [] class = "wide"         -> NonAsciiRunTokens(len)
    [] OTHER                  -> len

\* A character goes on with the run, or ends it and begins another.
Counted(acc, c) ==
  IF Class(c) = acc.class THEN [acc EXCEPT !.run = @ + BytesOf(c)]
  ELSE [total |-> acc.total + RunTokens(acc.class, acc.run), class |-> Class(c), run |-> BytesOf(c)]

Uncounted == [total |-> 0, class |-> "none", run |-> 0]

\* estimate: a run is charged where one of another class begins, and at the end; the
\* accumulators of the code are the one run that is not empty.
Estimate(text) ==
  LET upto[k \in 0..Len(text)] == IF k = 0 THEN Uncounted ELSE Counted(upto[k - 1], text[k])
      last == upto[Len(text)]
  IN last.total + RunTokens(last.class, last.run)

-----------------------------------------------------------------------------
VARIABLES
  text,   \* a value as far as it is typed
  pieces  \* how many pieces of it were typed

vars == <<text, pieces>>

\* A string, a negative number, a number with and without a leading zero, a literal.
Init ==
  /\ text \in {<<"quote">>, <<"-">>, <<"0">>, <<"1">>, <<"n">>}
  /\ pieces = 0

Typed == text[1]

\* The end of the text is all that stops the scanner: more of it may follow.
Undecided ==
  LET StopsAtTheEnd(scan) == scan.at > Len(text) /\ ~(scan.ok /\ Typed = "quote")
  IN IF Typed = "n" THEN IsStrictPrefix(text, Null) ELSE StopsAtTheEnd(ScanValue(text))

\* A string can always be closed.
TypeString ==
  /\ Typed = "quote"
  /\ \E piece \in IF pieces < MaxPieces THEN Pieces ELSE {<<"quote">>} : text' = text \o piece

TypeNumber ==
  /\ Typed \notin {"quote", "n"} /\ pieces < MaxChars
  /\ \E c \in NumberChars : text' = Append(text, c)

TypeLiteral ==
  /\ Typed = "n"
  /\ \E c \in ToSet(Null) : text' = Append(text, c)

Next ==
  /\ Undecided
  /\ pieces' = pieces + 1
  /\ TypeString \/ TypeNumber \/ TypeLiteral

Spec == Init /\ [][Next]_vars

-----------------------------------------------------------------------------
(* References: the grammar of RFC 8259 as a table, and what its strings     *)
(* mean in UTF-16.                                                          *)

Prefix(k) == SubSeq(text, 1, k)
IsText == Typed = "quote"

\* The code units of a character.
CodeUnits(c) ==
  IF c \in ToSet(Beyond)
  THEN CHOOSE pair \in (Surrogates \X Surrogates) :
         IsHigh(pair[1]) /\ IsLow(pair[2]) /\ Joined(pair[1], pair[2]) = c
  ELSE <<CHOOSE unit \in 0..24 : CharOf(unit) = c>>

Plain == Characters \ (Control \cup {"quote", "\\"})

\* Every spelling of a code unit or a character, with what it means.
Meanings ==
  {<< <<c>>, CodeUnits(c) >> : c \in Plain}
  \cup {<< <<"\\", c>>, CodeUnits(Short[c]) >> : c \in DOMAIN Short}
  \cup {<< <<"\\", "u", h, l>>, <<(5 * HexVal[h]) + HexVal[l]>> >> :
          h \in DOMAIN HexVal, l \in DOMAIN HexVal}

\* No spelling begins another, so a body is cut into them in one way.
CutAt(body, i) ==
  {m \in Meanings : \A k \in DOMAIN m[1] : At(body, i + k - 1) = m[1][k]}

IsBody(body) ==
  LET cut[i \in Nat] ==
        i > Len(body) \/ \E m \in CutAt(body, i) : cut[i + Len(m[1])]
  IN cut[1]

Meaning(lexeme) ==
  LET body == Inner(lexeme)
      mean[i \in Nat] ==
        IF i > Len(body) \/ CutAt(body, i) = {} THEN <<>>
        ELSE LET m == CHOOSE m \in CutAt(body, i) : TRUE IN m[2] \o mean[i + Len(m[1])]
  IN mean[1]

\* A surrogate without its other half.
IsLone(units, k) ==
  \/ IsHigh(units[k]) /\ (k = Len(units) \/ ~IsLow(units[k + 1]))
  \/ IsLow(units[k]) /\ (k = 1 \/ ~IsHigh(units[k - 1]))

HasLone(units) == \E k \in DOMAIN units : IsLone(units, k)

IsString(t) ==
  /\ Len(t) >= 2 /\ t[1] = "quote" /\ t[Len(t)] = "quote"
  /\ IsBody(Inner(t))

AllDigits(t) == t # <<>> /\ ToSet(t) \subseteq Digits

\* number = [ minus ] int [ frac ] [ exp ]
IsNumber(t) ==
  \E a \in 0..1, b \in 1..Len(t) :
    \E c \in b..Len(t) :
      LET int  == SubSeq(t, a + 1, b)
          frac == SubSeq(t, b + 1, c)
          exp  == SubSeq(t, c + 1, Len(t))
      IN /\ a = 1 => t[1] = "-"
         /\ AllDigits(int) /\ (int[1] = "0" => Len(int) = 1)
         /\ frac = <<>> \/ (frac[1] = "." /\ AllDigits(Tail(frac)))
         /\ \/ exp = <<>>
            \/ exp[1] \in {"e", "E"} /\ AllDigits(Tail(exp))
            \/ /\ Len(exp) > 1 /\ exp[1] \in {"e", "E"} /\ exp[2] \in {"+", "-"}
               /\ AllDigits(SubSeq(exp, 3, Len(exp)))

IsValue(t) == IsString(t) \/ IsNumber(t) \/ t = Null

\* Some value begins with these characters: one that ends as soon as it can is enough.
Fills == {<<>>, <<"1">>, <<"quote">>, <<"n", "quote">>, <<"u", "0", "0", "quote">>}
         \cup {<<"0", "quote">>, <<"0", "0", "quote">>}

BeginsSomeValue(t) == \E fill \in Fills : IsValue(t \o fill)

-----------------------------------------------------------------------------
(* Properties *)

\* The tape scans the lexemes of RFC 8259, the longest there is, and rejects at the byte
\* where no lexeme goes on, but for a leading zero, named itself, and a literal, named by
\* its first byte (tape.rs:171-188). The MCP reader takes the very same text for the same
\* lexemes (json.rs:353-361), less the strings with half a pair, which tape.rs:462-465 lets
\* through, and the numbers that overflow; and what it reads is what the text means.
ScannersAgree ==
  LET Longest(at) == IsValue(Prefix(at - 1)) /\ \A k \in at..Len(text) : ~IsValue(Prefix(k))
      Offending(at) ==
        /\ BeginsSomeValue(Prefix(at - 1)) \/ at = 1
        /\ \/ at = Len(text) + 1 /\ ~IsValue(text)
           \/ at <= Len(text) /\ ~BeginsSomeValue(Prefix(at))
           \/ ~IsText /\ at < Len(text) /\ text[at] = "0" /\ ~BeginsSomeValue(Prefix(at + 1))
           \/ Typed = "n" /\ at = 1
      Agree(scan, value, lexeme) ==
        /\ IF scan.ok THEN Longest(scan.at) ELSE Offending(scan.at)
        /\ value.ok => scan.ok /\ value.at = scan.at
        /\ scan.ok /\ ~value.ok =>
             IF IsText THEN HasLone(Meaning(lexeme))
             ELSE /\ Typed # "n" /\ value.at = scan.at
                  /\ Overflows(Denoted(text, 1, NumberMarks(text, 1)))
        /\ value.ok /\ IsText =>
             FlattenSeq([k \in DOMAIN value.value |-> CodeUnits(value.value[k])])
               = Meaning(lexeme)
  IN Agree(ScanValue(text), ParseValue(text), Prefix(ScanValue(text).at - 1))

\* E1 respells strings without changing what they mean (e1_minify.rs:36-53): its spelling
\* is a lexeme again and means the same code units; one that is protected or has half a
\* pair is copied, escape for escape; any other gets the one spelling the MCP writer, too,
\* gives those characters, whatever mixture of escapes it came in.
SpellingKeepsMeaning ==
  LET MeansTheSame(lexeme, spelt) ==
        /\ IsString(spelt)
        /\ Meaning(spelt) = Meaning(lexeme)
        /\ IF HasLone(Meaning(lexeme)) \/ IsProtected(lexeme)
           THEN spelt = lexeme
           ELSE spelt = WriteEscaped(ParseString(lexeme, 1).value)
      Respelled(scan) ==
        scan.ok => MeansTheSame(Prefix(scan.at - 1), EmitString(Prefix(scan.at - 1)))
  IN IsText => Respelled(ScanValue(text))

\* What the server writes is read back as it was, without a raw newline that would split
\* its frame (json.rs:236-238), whatever digits its number is padded to; but a whole float
\* too long for the suffix may come back as an integer (json.rs:262-269): not always the
\* same number, but one whose nearest float is the one that was written.
WrittenIsRead ==
  LET IsNumberBack(value, back) ==
        IF back.type = value.type THEN back.value = value.value
        ELSE /\ back.type = "int" /\ IsWhole(value.value) /\ ~IsShortWhole(value.value)
             /\ FiniteFloat(value.at, back.value) = value
      IsBack(value, written, back) ==
        /\ ToSet(written) \cap Control = {}
        /\ back.ok /\ back.at = Len(written) + 1
        /\ IF IsText THEN back.value = value.value ELSE IsNumberBack(value, back)
      Survives(value, written) == IsBack(value, written, ParseValue(written))
      Written(value) == IF IsText THEN WriteEscaped(value.value)
                        ELSE WriteNumber(value.type, value.value)
      ComesBack(value) == value.ok => Survives(value, Written(value))
  IN Typed # "n" => ComesBack(ParseValue(text))

\* The cost model never charges more for E1's spelling of a lexeme than for the lexeme with
\* the whitespace E1 drops around it: the runs it merges, and those it breaks up, cost no
\* more than the escapes that go (estimator.rs:317-363 on e1_minify.rs:208-256).
MinifyNeverCostsMore ==
  LET NeverMore(lexeme) ==
        \A space \in {<<>>, <<"blank">>, <<"lf", "blank">>} :
          Estimate(IF IsText THEN EmitString(lexeme) ELSE lexeme)
            <= Estimate(space \o lexeme \o space)
      Cheaper(scan) == scan.ok => NeverMore(Prefix(scan.at - 1))
  IN Cheaper(ScanValue(text))
=============================================================================
