------------------------------- MODULE Base64 -------------------------------
(***************************************************************************)
(* The base64 of an archive inside a JSON string (tokfold-mcp, base64.rs).   *)
(* The program has 64 symbols and octets of 256 values, so that four symbols *)
(* carry three octets; the two numbers are parameters here.  A symbol is its *)
(* number in ALPHABET.                                                       *)
(***************************************************************************)
EXTENDS Naturals, Sequences

CONSTANTS
  Radix,   \* symbols of the alphabet
  Octets   \* values of an octet

ASSUME Base64Assumption ==
  /\ Radix \in Nat /\ Octets \in Nat
  /\ Octets < Radix * Radix /\ Radix < Octets
  /\ Radix * Radix * Radix * Radix = Octets * Octets * Octets

Octet   == 0..(Octets - 1)
PAD     == Radix          \* '='
Foreign == Radix + 1      \* any byte outside the alphabet
Symbol  == 0..Foreign     \* what a string may hold

Square(n) == n * n
Cube(n)   == n * n * n

\* symbol: the one at this place of a group, 3 for the first.
SymbolAt(group, place) ==
  CASE place = 3 -> (group \div Cube(Radix)) % Radix
    [] place = 2 -> (group \div Square(Radix)) % Radix
    [] place = 1 -> (group \div Radix) % Radix
    [] place = 0 -> group % Radix

\* octet: the one at this place of a group, 2 for the first.
OctetAt(group, place) ==
  CASE place = 2 -> (group \div Square(Octets)) % Octets
    [] place = 1 -> (group \div Octets) % Octets
    [] place = 0 -> group % Octets

\* The chunk of up to three octets after the first 3q, the missing ones zero.
GroupOf(bytes, q) ==
  LET octet(k) == IF (3 * q) + k <= Len(bytes) THEN bytes[(3 * q) + k] ELSE 0
  IN (octet(1) * Square(Octets)) + (octet(2) * Octets) + octet(3)

\* encode: a chunk of one octet leaves two places to the padding, one of two leaves one.
Encode(bytes) ==
  [k \in 1..(4 * ((Len(bytes) + 2) \div 3)) |->
     LET q == (k - 1) \div 4
         c == (k - 1) % 4
     IN IF (3 * q) + c > Len(bytes) THEN PAD ELSE SymbolAt(GroupOf(bytes, q), 3 - c)]

----------------------------------------------------------------------------
(* decode_quartet                                                           *)

Accepted(octets) == [ok |-> TRUE, error |-> "none", octets |-> octets]
Rejected(error)  == [ok |-> FALSE, error |-> error, octets |-> <<>>]

Pads(c, d) == (IF c = PAD THEN 1 ELSE 0) + (IF d = PAD THEN 1 ELSE 0)

Misplaced(a, b, c, d, isLast) ==
  \/ Pads(c, d) > 0 /\ ~isLast
  \/ c = PAD /\ d # PAD
  \/ a = PAD \/ b = PAD

\* Mutant: bits nobody reads may be anything.
IgnoresDiscardedBits(b, c, pads) == FALSE

\* Bits of the last symbol that no octet takes, and that a canonical encoding leaves zero.
SetsDiscardedBits(b, c, pads) ==
  \/ pads = 2 /\ b % (Square(Radix) \div Octets) # 0
  \/ pads = 1 /\ c % (Cube(Radix) \div Square(Octets)) # 0

\* A pad counts as nothing.
GroupIn(a, b, c, d) ==
  (a * Cube(Radix)) + (b * Square(Radix)) + ((c % Radix) * Radix) + (d % Radix)

DecodeQuartet(a, b, c, d, isLast) ==
  LET pads == Pads(c, d)
  IN IF Misplaced(a, b, c, d, isLast) THEN Rejected("misplaced_padding")
     ELSE IF Foreign \in {a, b, c, d} THEN Rejected("bad_symbol")
     ELSE IF SetsDiscardedBits(b, c, pads) THEN Rejected("non_canonical")
     ELSE Accepted([k \in 1..(3 - pads) |-> OctetAt(GroupIn(a, b, c, d), 3 - k)])

----------------------------------------------------------------------------
(* decode: quartet after quartet, up to the first that is refused.          *)

QuartetOf(text, q, quartets) ==
  DecodeQuartet(text[(4 * q) - 3], text[(4 * q) - 2], text[(4 * q) - 1], text[4 * q],
                q = quartets)

Decode(text) ==
  LET quartets == Len(text) \div 4
      read     == [q \in 1..quartets |-> QuartetOf(text, q, quartets)]
      refused  == {q \in 1..quartets : ~read[q].ok}
      first    == CHOOSE q \in refused : \A r \in refused : q <= r
      length   == IF quartets = 0 THEN 0
                  ELSE (3 * (quartets - 1)) + Len(read[quartets].octets)
  IN IF Len(text) % 4 # 0 THEN Rejected("bad_length")
     ELSE IF refused # {} THEN read[first]
     ELSE Accepted([k \in 1..length |-> read[((k - 1) \div 3) + 1].octets[((k - 1) % 3) + 1]])
=============================================================================
