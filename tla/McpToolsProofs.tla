--------------------------- MODULE McpToolsProofs ---------------------------
(***************************************************************************)
(* What the MCP tools promise, for any documents, encoders, estimates and    *)
(* digests: the archive and its base64 are read back and nothing in them is  *)
(* ignored, the replies drop nothing, and the catalogue keeps its word.      *)
(***************************************************************************)
EXTENDS McpTools, SequenceTheorems, WellFoundedInduction, TLAPS

\* The program's own alphabet and octets.
Program == Radix = 64 /\ Octets = 256

EightBits   == {k \in Nat : k < 256}
SixBits   == {k \in Nat : k < 64}
Padded    == {k \in Nat : k <= 64}   \* a symbol or the pad

\* The numbers of a group: three octets, or four symbols.
Groups == {k \in Nat : k < 16777216}

\* The number of three octets, and of four symbols.
OfOctets(x, y, z)    == (65536 * x) + (256 * y) + z
OfSymbols(s, t, u, v) == (262144 * s) + (4096 * t) + (64 * u) + v

\* What a place of a quartet counts for.
Low(k) == IF k = 64 THEN 0 ELSE k

USE DEF EightBits, SixBits, Padded

\* The powers the program shifts by.
LEMMA Powers ==
  ASSUME Program
  PROVE  /\ Radix = 64 /\ Octets = 256 /\ PAD = 64 /\ Foreign = 65
         /\ Square(Radix) = 4096 /\ Cube(Radix) = 262144
         /\ Square(Octets) = 65536
         /\ Square(Radix) \div Octets = 16 /\ Cube(Radix) \div Square(Octets) = 4
<1>1. /\ Radix = 64 /\ Octets = 256
  BY SMT DEF Program
<1>2. 64 * 64 = 4096 /\ 64 * 64 * 64 = 262144 /\ 256 * 256 = 65536
  BY SMT
<1>3. Square(Radix) = 4096 /\ Cube(Radix) = 262144 /\ Square(Octets) = 65536
  BY <1>1, <1>2, SMT DEF Square, Cube
<1> QED
  BY <1>1, <1>3, SMT DEF PAD, Foreign

\* A number of three octets is its octets.
LEMMA GroupOfOctets ==
  ASSUME Program, NEW n \in Nat, n < 16777216
  PROVE  /\ OctetAt(n, 2) \in EightBits /\ OctetAt(n, 1) \in EightBits
         /\ OctetAt(n, 0) \in EightBits
         /\ n = (65536 * OctetAt(n, 2)) + (256 * OctetAt(n, 1)) + OctetAt(n, 0)
<1> DEFINE high == n \div 65536
           low  == n \div 256
<1>1. /\ high \in Nat /\ n % 65536 \in Nat /\ n = (65536 * high) + (n % 65536)
      /\ low \in Nat /\ n % 256 \in EightBits /\ n = (256 * low) + (n % 256)
      /\ low \div 256 \in Nat /\ low % 256 \in EightBits
      /\ low = (256 * (low \div 256)) + (low % 256)
      /\ low \div 256 = high
  BY SMT
<1> HIDE DEF high, low
<1>3. high \in EightBits
  BY <1>1, SMT
<1>4. high % 256 = high
  BY <1>3, SMT
<1>5. OctetAt(n, 2) = high /\ OctetAt(n, 1) = low % 256 /\ OctetAt(n, 0) = n % 256
  <2>1. OctetAt(n, 2) = (n \div Square(Octets)) % Octets
    BY SMT DEF OctetAt
  <2>2. OctetAt(n, 1) = (n \div Octets) % Octets
    BY SMT DEF OctetAt
  <2>3. OctetAt(n, 0) = n % Octets
    BY SMT DEF OctetAt
  <2> QED
    BY <1>4, <2>1, <2>2, <2>3, Powers, SMT DEF high, low
<1>6. n = (65536 * high) + (256 * (low % 256)) + (n % 256)
  <2>1. low = (256 * high) + (low % 256)
    BY <1>1, SMT
  <2>2. n = (256 * ((256 * high) + (low % 256))) + (n % 256)
    BY <1>1, <2>1, SMT
  <2>3. low % 256 \in Nat /\ n % 256 \in Nat
    BY <1>1, SMT
  <2> QED
    BY <1>1, <2>2, <2>3, SMT
<1> QED
  BY <1>1, <1>3, <1>5, <1>6, SMT

\* The symbols of a quartet that is accepted, and the number they make.
LEMMA AcceptedQuartets ==
  ASSUME Program, NEW a \in Symbol, NEW b \in Symbol, NEW c \in Symbol, NEW d \in Symbol,
         NEW isLast \in BOOLEAN, DecodeQuartet(a, b, c, d, isLast).ok
  PROVE  /\ a \in SixBits /\ b \in SixBits /\ c \in Padded /\ d \in Padded /\ (c = 64 => d = 64)
         /\ Pads(c, d) = 2 => c = 64 /\ d = 64 /\ b % 16 = 0
         /\ Pads(c, d) = 1 => c # 64 /\ d = 64 /\ c % 4 = 0
         /\ Pads(c, d) = 0 => c # 64 /\ d # 64
         /\ Pads(c, d) \in 0..2
         /\ DecodeQuartet(a, b, c, d, isLast).octets =
              [k \in 1..(3 - Pads(c, d)) |-> OctetAt(GroupIn(a, b, c, d), 3 - k)]
<1>1. /\ ~Misplaced(a, b, c, d, isLast) /\ Foreign \notin {a, b, c, d}
      /\ ~SetsDiscardedBits(b, c, Pads(c, d))
  BY SMT DEF DecodeQuartet, Rejected
<1>2. a \in Nat /\ a <= 65 /\ b \in Nat /\ b <= 65 /\ c \in Nat /\ c <= 65 /\ d \in Nat /\ d <= 65
  BY Powers, SMT DEF Symbol
<1>3. a \in SixBits /\ b \in SixBits /\ c \in Padded /\ d \in Padded /\ (c = 64 => d = 64)
  BY <1>1, <1>2, Powers, SMT DEF Misplaced
<1>4. /\ Pads(c, d) \in 0..2
      /\ Pads(c, d) = 2 => c = 64 /\ d = 64
      /\ Pads(c, d) = 1 => c # 64 /\ d = 64
      /\ Pads(c, d) = 0 => c # 64 /\ d # 64
  BY <1>3, Powers, SMT DEF Pads
<1>5. (Pads(c, d) = 2 => b % 16 = 0) /\ (Pads(c, d) = 1 => c % 4 = 0)
  BY <1>1, Powers, SMT DEF SetsDiscardedBits
<1>6. DecodeQuartet(a, b, c, d, isLast).octets =
        [k \in 1..(3 - Pads(c, d)) |-> OctetAt(GroupIn(a, b, c, d), 3 - k)]
  BY <1>1, SMT DEF DecodeQuartet, Accepted
<1> QED
  BY <1>3, <1>4, <1>5, <1>6, SMT

\* The number a quartet makes: its symbols in base 64, a pad counting as nothing.
LEMMA NumberOfQuartet ==
  ASSUME Program, NEW a \in SixBits, NEW b \in SixBits, NEW c \in Padded, NEW d \in Padded
  PROVE  /\ GroupIn(a, b, c, d) \in Nat /\ GroupIn(a, b, c, d) < 16777216
         /\ GroupIn(a, b, c, d) =
              (262144 * a) + (4096 * b) + (64 * Low(c)) + Low(d)
<1>1. c % 64 = Low(c) /\ d % 64 = Low(d) /\ Low(c) \in SixBits /\ Low(d) \in SixBits
  BY SMT DEF Low
<1>2. GroupIn(a, b, c, d) = (a * 262144) + (b * 4096) + ((c % 64) * 64) + (d % 64)
  BY Powers, SMT DEF GroupIn
<1>3. GroupIn(a, b, c, d) = (262144 * a) + (4096 * b) + (64 * Low(c)) + Low(d)
  BY <1>1, <1>2, SMT
<1>4. GroupIn(a, b, c, d) \in Nat /\ GroupIn(a, b, c, d) < 16777216
  BY <1>1, <1>3, SMT
<1> QED
  BY <1>3, <1>4, SMT

\* The octets of a number below 2^24 that are kept tell it apart from every other whose
\* dropped octets are zero too.
LEMMA NumbersApart ==
  ASSUME Program, NEW m \in Nat, m < 16777216, NEW n \in Nat, n < 16777216,
         OctetAt(m, 2) = OctetAt(n, 2), OctetAt(m, 1) = OctetAt(n, 1),
         OctetAt(m, 0) = OctetAt(n, 0)
  PROVE  m = n
BY GroupOfOctets, SMT

\* What is left of a multiple of 256.
LEMMA Multiples ==
  ASSUME NEW x \in Nat, NEW y \in Nat, NEW z \in EightBits, NEW k \in Nat,
         (65536 * x) + (256 * y) + z = 256 * k
  PROVE  z = 0
BY SMT

\* The discarded bits of a canonical quartet are zero: so are the octets nobody reads.
LEMMA DroppedOctets ==
  ASSUME Program, NEW a \in SixBits, NEW b \in SixBits, NEW c \in Padded, NEW d \in Padded
  PROVE  /\ c = 64 /\ d = 64 /\ b % 16 = 0 =>
              OctetAt(GroupIn(a, b, c, d), 1) = 0 /\ OctetAt(GroupIn(a, b, c, d), 0) = 0
         /\ c # 64 /\ d = 64 /\ c % 4 = 0 => OctetAt(GroupIn(a, b, c, d), 0) = 0
<1> DEFINE n == GroupIn(a, b, c, d)
<1>1. n \in Nat /\ n < 16777216
  BY NumberOfQuartet, SMT
<1>2. n = (262144 * a) + (4096 * b) + (64 * Low(c)) + Low(d)
  BY NumberOfQuartet, SMT
<1> HIDE DEF n
<1>3. /\ OctetAt(n, 2) \in EightBits /\ OctetAt(n, 1) \in EightBits /\ OctetAt(n, 0) \in EightBits
      /\ n = (65536 * OctetAt(n, 2)) + (256 * OctetAt(n, 1)) + OctetAt(n, 0)
  BY <1>1, GroupOfOctets, SMT
<1>4. ASSUME c = 64, d = 64, b % 16 = 0 PROVE OctetAt(n, 1) = 0 /\ OctetAt(n, 0) = 0
  <2>1. PICK k \in Nat : b = 16 * k
    BY <1>4, SMT
  <2>2. n = 65536 * ((4 * a) + k)
    BY <1>2, <1>4, <2>1, SMT DEF Low
  <2> QED
    BY <1>3, <2>1, <2>2, SMT
<1>5. ASSUME c # 64, d = 64, c % 4 = 0 PROVE OctetAt(n, 0) = 0
  <2>1. PICK k \in Nat : c = 4 * k
    BY <1>5, SMT
  <2> DEFINE upper == (1024 * a) + (16 * b) + k
  <2>2. n = 256 * upper
    BY <1>2, <1>5, <2>1, SMT DEF Low
  <2>3. upper \in Nat
    BY <2>1, SMT
  <2> HIDE DEF upper
  <2> QED
    BY <1>3, <2>2, <2>3, Multiples, SMT
<1> QED
  BY <1>4, <1>5, SMT DEF n

\* No two quartets that are accepted mean the same octets, padded ones included: an
\* archive has one text, and damage to a bit that no octet takes is seen.
\* (decode_quartet, its check of the discarded bits)
THEOREM NoTwoQuartetsAlike ==
  ASSUME Program,
         NEW a \in Symbol, NEW b \in Symbol, NEW c \in Symbol, NEW d \in Symbol,
         NEW e \in Symbol, NEW f \in Symbol, NEW g \in Symbol, NEW h \in Symbol,
         NEW isLast \in BOOLEAN,
         DecodeQuartet(a, b, c, d, isLast).ok, DecodeQuartet(e, f, g, h, isLast).ok,
         DecodeQuartet(a, b, c, d, isLast).octets = DecodeQuartet(e, f, g, h, isLast).octets
  PROVE  <<a, b, c, d>> = <<e, f, g, h>>
<1> DEFINE p == Pads(c, d)
           q == Pads(g, h)
           m == GroupIn(a, b, c, d)
           n == GroupIn(e, f, g, h)
<1>1. /\ a \in SixBits /\ b \in SixBits /\ c \in Padded /\ d \in Padded /\ (c = 64 => d = 64)
      /\ p \in 0..2 /\ (p = 2 => c = 64 /\ d = 64 /\ b % 16 = 0)
      /\ (p = 1 => c # 64 /\ d = 64 /\ c % 4 = 0) /\ (p = 0 => c # 64 /\ d # 64)
      /\ DecodeQuartet(a, b, c, d, isLast).octets = [k \in 1..(3 - p) |-> OctetAt(m, 3 - k)]
  BY AcceptedQuartets, SMT
<1>2. /\ e \in SixBits /\ f \in SixBits /\ g \in Padded /\ h \in Padded /\ (g = 64 => h = 64)
      /\ q \in 0..2 /\ (q = 2 => g = 64 /\ h = 64 /\ f % 16 = 0)
      /\ (q = 1 => g # 64 /\ h = 64 /\ g % 4 = 0) /\ (q = 0 => g # 64 /\ h # 64)
      /\ DecodeQuartet(e, f, g, h, isLast).octets = [k \in 1..(3 - q) |-> OctetAt(n, 3 - k)]
  BY AcceptedQuartets, SMT
<1>digits. /\ a \in SixBits /\ b \in SixBits /\ c \in Padded /\ d \in Padded
           /\ e \in SixBits /\ f \in SixBits /\ g \in Padded /\ h \in Padded
  BY <1>1, <1>2
<1>3. /\ m \in Nat /\ m < 16777216
      /\ m = (262144 * a) + (4096 * b) + (64 * Low(c)) + Low(d)
  BY <1>digits, NumberOfQuartet, SMT
<1>4. /\ n \in Nat /\ n < 16777216
      /\ n = (262144 * e) + (4096 * f) + (64 * Low(g)) + Low(h)
  BY <1>digits, NumberOfQuartet, SMT
<1>5. /\ p = 2 => OctetAt(m, 1) = 0 /\ OctetAt(m, 0) = 0
      /\ p = 1 => OctetAt(m, 0) = 0
      /\ q = 2 => OctetAt(n, 1) = 0 /\ OctetAt(n, 0) = 0
      /\ q = 1 => OctetAt(n, 0) = 0
  BY <1>1, <1>2, DroppedOctets, SMT
<1> HIDE DEF p, q, m, n
<1>6. [k \in 1..(3 - p) |-> OctetAt(m, 3 - k)] = [k \in 1..(3 - q) |-> OctetAt(n, 3 - k)]
  BY <1>1, <1>2
<1>7. p = q
  <2>1. 1..(3 - p) = 1..(3 - q)
    BY <1>6
  <2> QED
    BY <1>1, <1>2, <2>1, SMT
<1>8. \A k \in 1..(3 - p) : OctetAt(m, 3 - k) = OctetAt(n, 3 - k)
  BY <1>6, <1>7
<1>9. /\ OctetAt(m, 2) = OctetAt(n, 2)
      /\ OctetAt(m, 1) = OctetAt(n, 1)
      /\ OctetAt(m, 0) = OctetAt(n, 0)
  <2>1. OctetAt(m, 3 - 1) = OctetAt(n, 3 - 1)
    BY <1>1, <1>8, SMT
  <2>2. p # 2 => OctetAt(m, 3 - 2) = OctetAt(n, 3 - 2)
    BY <1>1, <1>8, SMT
  <2>3. p = 0 => OctetAt(m, 3 - 3) = OctetAt(n, 3 - 3)
    BY <1>8, SMT
  <2>4. 3 - 1 = 2 /\ 3 - 2 = 1 /\ 3 - 3 = 0 /\ p \in 0..2
    BY <1>1, SMT
  <2> QED
    BY <1>5, <1>7, <2>1, <2>2, <2>3, <2>4, SMT
<1>10. m = n
  BY <1>3, <1>4, <1>9, NumbersApart
<1>11. (c = 64 <=> g = 64) /\ (d = 64 <=> h = 64)
  BY <1>1, <1>2, <1>7, SMT
<1>12. Low(c) \in SixBits /\ Low(d) \in SixBits /\ Low(g) \in SixBits /\ Low(h) \in SixBits
  BY <1>1, <1>2, SMT DEF Low
<1>13. (262144 * a) + (4096 * b) + (64 * Low(c)) + Low(d)
         = (262144 * e) + (4096 * f) + (64 * Low(g)) + Low(h)
  BY <1>3, <1>4, <1>10, SMT
<1>14. a = e /\ b = f /\ Low(c) = Low(g) /\ Low(d) = Low(h)
  BY <1>digits, <1>12, <1>13, SMT
<1> QED
  BY <1>11, <1>14, SMT DEF Low
----------------------------------------------------------------------------
(* What encode spells, decode reads.                                         *)

\* The number three octets make has them back, and is that of its symbols.
LEMMA GroupMade ==
  ASSUME Program, NEW x \in EightBits, NEW y \in EightBits, NEW z \in EightBits, NEW g,
         g = OfOctets(x, y, z)
  PROVE  /\ g \in Groups
         /\ OctetAt(g, 2) = x /\ OctetAt(g, 1) = y /\ OctetAt(g, 0) = z
         /\ \A p \in 0..3 : SymbolAt(g, p) \in SixBits
         /\ g = OfSymbols(SymbolAt(g, 3), SymbolAt(g, 2), SymbolAt(g, 1), SymbolAt(g, 0))
<1>1. g \in Nat /\ g < 16777216
  BY SMT DEF OfOctets
<1>2. OctetAt(g, 2) = x /\ OctetAt(g, 1) = y /\ OctetAt(g, 0) = z
  <2>1. /\ OctetAt(g, 2) \in EightBits /\ OctetAt(g, 1) \in EightBits
        /\ OctetAt(g, 0) \in EightBits
        /\ g = (65536 * OctetAt(g, 2)) + (256 * OctetAt(g, 1)) + OctetAt(g, 0)
    BY <1>1, GroupOfOctets, SMT
  <2> DEFINE a == OctetAt(g, 2)
             b == OctetAt(g, 1)
             c == OctetAt(g, 0)
  <2>2. a \in EightBits /\ b \in EightBits /\ c \in EightBits
    BY <2>1
  <2>3. (65536 * x) + (256 * y) + z = (65536 * a) + (256 * b) + c
    BY <2>1, SMT DEF OfOctets
  <2> HIDE DEF a, b, c
  <2>4. a = x /\ b = y /\ c = z
    BY <2>2, <2>3, SMT
  <2> QED
    BY <2>4 DEF a, b, c
<1>3. /\ SymbolAt(g, 3) = (g \div 262144) % 64 /\ SymbolAt(g, 2) = (g \div 4096) % 64
      /\ SymbolAt(g, 1) = (g \div 64) % 64 /\ SymbolAt(g, 0) = g % 64
  <2>1. SymbolAt(g, 3) = (g \div Cube(Radix)) % Radix
    BY SMT DEF SymbolAt
  <2>2. SymbolAt(g, 2) = (g \div Square(Radix)) % Radix
    BY SMT DEF SymbolAt
  <2>3. SymbolAt(g, 1) = (g \div Radix) % Radix
    BY SMT DEF SymbolAt
  <2>4. SymbolAt(g, 0) = g % Radix
    BY SMT DEF SymbolAt
  <2> QED
    BY <2>1, <2>2, <2>3, <2>4, Powers, SMT
<1>4. SymbolAt(g, 3) = g \div 262144
  BY <1>1, <1>3, SMT
<1>5. \A p \in 0..3 : SymbolAt(g, p) \in SixBits
  <2>1. /\ (g \div 262144) % 64 \in SixBits /\ (g \div 4096) % 64 \in SixBits
        /\ (g \div 64) % 64 \in SixBits /\ g % 64 \in SixBits
    BY <1>1, SMT
  <2>2. /\ SymbolAt(g, 3) \in SixBits /\ SymbolAt(g, 2) \in SixBits
        /\ SymbolAt(g, 1) \in SixBits /\ SymbolAt(g, 0) \in SixBits
    BY <1>3, <2>1, SMT
  <2> TAKE p \in 0..3
  <2>3. p = 0 \/ p = 1 \/ p = 2 \/ p = 3
    BY SMT
  <2> QED
    BY <2>2, <2>3
<1>6. g = (262144 * (g \div 262144)) + (4096 * ((g \div 4096) % 64)) + (64 * ((g \div 64) % 64))
            + (g % 64)
  <2> DEFINE h == g \div 64
             i == g \div 4096
  <2>1. h \in Nat /\ g = (64 * h) + (g % 64)
    BY <1>1, SMT
  <2>2. i \in Nat /\ i = h \div 64 /\ g \div 262144 = i \div 64
    BY <1>1, SMT
  <2> HIDE DEF h, i
  <2>3. h = (64 * i) + (h % 64) /\ h % 64 \in Nat
    BY <2>1, <2>2, SMT
  <2>4. i = (64 * (i \div 64)) + (i % 64) /\ i % 64 \in Nat /\ i \div 64 \in Nat
    BY <2>2, SMT
  <2>5. g % 64 \in Nat
    BY <1>1, SMT
  <2>6. g = (262144 * (i \div 64)) + (4096 * (i % 64)) + (64 * (h % 64)) + (g % 64)
    <3> DEFINE s == i \div 64
               t == i % 64
               u == h % 64
               v == g % 64
    <3>1. /\ g = (64 * h) + v /\ h = (64 * i) + u /\ i = (64 * s) + t
          /\ s \in Nat /\ t \in Nat /\ u \in Nat /\ v \in Nat
      BY <2>1, <2>3, <2>4, <2>5
    <3> HIDE DEF s, t, u, v
    <3>2. g = (262144 * s) + (4096 * t) + (64 * u) + v
      BY <2>1, <2>2, <3>1, SMT
    <3> QED
      BY <3>2 DEF s, t, u, v
  <2> QED
    <3>1. g \div 262144 = i \div 64 /\ h % 64 = (g \div 64) % 64 /\ i % 64 = (g \div 4096) % 64
      BY <2>2 DEF h, i
    <3> QED
      BY <2>6, <3>1, SMT
<1>7. g = OfSymbols(SymbolAt(g, 3), SymbolAt(g, 2), SymbolAt(g, 1), SymbolAt(g, 0))
  BY <1>3, <1>4, <1>6, SMT DEF OfSymbols
<1>8. g \in Groups
  BY <1>1, SMT DEF Groups
<1> QED
  BY <1>2, <1>5, <1>7, <1>8

\* The symbols of octets that are not there.
LEMMA AbsentOctets ==
  ASSUME Program, NEW x \in EightBits, NEW y \in EightBits, NEW z \in EightBits, NEW g,
         g = OfOctets(x, y, z)
  PROVE  /\ z = 0 => SymbolAt(g, 1) % 4 = 0 /\ SymbolAt(g, 0) = 0
         /\ z = 0 /\ y = 0 => SymbolAt(g, 2) % 16 = 0 /\ SymbolAt(g, 1) = 0
<1> DEFINE s == SymbolAt(g, 3)
           t == SymbolAt(g, 2)
           u == SymbolAt(g, 1)
           v == SymbolAt(g, 0)
<1>1. /\ \A p \in 0..3 : SymbolAt(g, p) \in SixBits
      /\ g = OfSymbols(s, t, u, v)
  BY GroupMade
<1>2. s \in SixBits /\ t \in SixBits /\ u \in SixBits /\ v \in SixBits
  BY <1>1
<1> HIDE DEF s, t, u, v
<1>3. (65536 * x) + (256 * y) + z = (262144 * s) + (4096 * t) + (64 * u) + v
  BY <1>1, SMT DEF OfOctets, OfSymbols
<1>4. z = 0 => u % 4 = 0 /\ v = 0
  BY <1>2, <1>3, SMT
<1>5. z = 0 /\ y = 0 => t % 16 = 0 /\ u = 0
  BY <1>2, <1>3, SMT
<1> QED
  BY <1>4, <1>5 DEF s, t, u, v

HIDE DEF EightBits, SixBits, Padded


\* The number of up to three octets, the missing ones zero.
Number(o, n) ==
  LET octet(k) == IF k <= n THEN o[k] ELSE 0
  IN OfOctets(octet(1), octet(2), octet(3))

\* The q-th quartet of a text is the one spelled for a number that stands for n octets.
Spells(text, q, g, n) ==
  /\ text[(4 * q) - 3] = SymbolAt(g, 3)
  /\ text[(4 * q) - 2] = SymbolAt(g, 2)
  /\ text[(4 * q) - 1] = IF n < 2 THEN PAD ELSE SymbolAt(g, 1)
  /\ text[4 * q] = IF n < 3 THEN PAD ELSE SymbolAt(g, 0)

\* The number of up to three octets has them back.
LEMMA NumberMade ==
  ASSUME Program, NEW n \in 1..3, NEW o \in [1..n -> EightBits], NEW g, g = Number(o, n)
  PROVE  /\ g \in Groups
         /\ \A p \in 0..3 : SymbolAt(g, p) \in SixBits
         /\ g = OfSymbols(SymbolAt(g, 3), SymbolAt(g, 2), SymbolAt(g, 1), SymbolAt(g, 0))
         /\ \A k \in 1..n : OctetAt(g, 3 - k) = o[k]
         /\ n < 3 => SymbolAt(g, 1) % 4 = 0 /\ SymbolAt(g, 0) = 0
         /\ n < 2 => SymbolAt(g, 2) % 16 = 0 /\ SymbolAt(g, 1) = 0
<1> DEFINE x == o[1]
           y == IF 2 <= n THEN o[2] ELSE 0
           z == IF 3 <= n THEN o[3] ELSE 0
<1>1. x \in EightBits /\ y \in EightBits /\ z \in EightBits
  BY SMT DEF EightBits
<1>2. g = OfOctets(x, y, z)
  BY SMT DEF Number
<1>3. /\ n < 3 => z = 0
      /\ n < 2 => y = 0
      /\ \A k \in 1..n : o[k] = IF k = 1 THEN x ELSE IF k = 2 THEN y ELSE z
  BY SMT
<1> HIDE DEF x, y, z
<1>4. /\ g \in Groups
      /\ OctetAt(g, 2) = x /\ OctetAt(g, 1) = y /\ OctetAt(g, 0) = z
      /\ \A p \in 0..3 : SymbolAt(g, p) \in SixBits
      /\ g = OfSymbols(SymbolAt(g, 3), SymbolAt(g, 2), SymbolAt(g, 1), SymbolAt(g, 0))
  BY <1>1, <1>2, GroupMade
<1>5. \A k \in 1..n : OctetAt(g, 3 - k) = o[k]
  <2> TAKE k \in 1..n
  <2>1. (k = 1 /\ 3 - k = 2) \/ (k = 2 /\ 3 - k = 1) \/ (k = 3 /\ 3 - k = 0)
    BY SMT
  <2>2. o[k] = IF k = 1 THEN x ELSE IF k = 2 THEN y ELSE z
    BY <1>3
  <2> QED
    BY <1>4, <2>1, <2>2
<1>6. /\ z = 0 => SymbolAt(g, 1) % 4 = 0 /\ SymbolAt(g, 0) = 0
      /\ z = 0 /\ y = 0 => SymbolAt(g, 2) % 16 = 0 /\ SymbolAt(g, 1) = 0
  BY <1>1, <1>2, AbsentOctets
<1>7. n < 2 => n < 3
  BY SMT
<1> QED
  BY <1>3, <1>4, <1>5, <1>6, <1>7, Zenon

\* decode_quartet takes back what was spelled, padding only at the end.
LEMMA SpelledIsRead ==
  ASSUME Program, NEW n \in 1..3, NEW o \in [1..n -> EightBits],
         NEW text, NEW q \in Nat, Spells(text, q, Number(o, n), n),
         NEW quartets \in Nat, n < 3 => q = quartets
  PROVE  QuartetOf(text, q, quartets) = Accepted(o)
<1> DEFINE g == Number(o, n)
           a == text[(4 * q) - 3]
           b == text[(4 * q) - 2]
           c == text[(4 * q) - 1]
           d == text[4 * q]
<1>0. /\ g = Number(o, n) /\ a = SymbolAt(g, 3) /\ b = SymbolAt(g, 2)
      /\ c = (IF n < 2 THEN PAD ELSE SymbolAt(g, 1))
      /\ d = (IF n < 3 THEN PAD ELSE SymbolAt(g, 0))
  BY DEF Spells
<1>00. QuartetOf(text, q, quartets) = DecodeQuartet(a, b, c, d, q = quartets)
  BY DEF QuartetOf
<1> SUFFICES ASSUME NEW isLast \in BOOLEAN, n < 3 => isLast
             PROVE  DecodeQuartet(a, b, c, d, isLast) = Accepted(o)
  BY <1>00
<1> HIDE DEF g, a, b, c, d
<1>1. /\ g \in Groups
      /\ \A p \in 0..3 : SymbolAt(g, p) \in SixBits
      /\ g = OfSymbols(SymbolAt(g, 3), SymbolAt(g, 2), SymbolAt(g, 1), SymbolAt(g, 0))
      /\ \A k \in 1..n : OctetAt(g, 3 - k) = o[k]
      /\ n < 3 => SymbolAt(g, 1) % 4 = 0 /\ SymbolAt(g, 0) = 0
      /\ n < 2 => SymbolAt(g, 2) % 16 = 0 /\ SymbolAt(g, 1) = 0
  BY <1>0, NumberMade
<1> DEFINE s == SymbolAt(g, 3)
           t == SymbolAt(g, 2)
           u == SymbolAt(g, 1)
           v == SymbolAt(g, 0)
<1>3. s \in SixBits /\ t \in SixBits /\ u \in SixBits /\ v \in SixBits
  BY <1>1
<1>4. /\ a = s /\ b = t /\ c = (IF n < 2 THEN 64 ELSE u) /\ d = (IF n < 3 THEN 64 ELSE v)
  BY <1>0, Powers, SMT
<1>5. /\ g = OfSymbols(s, t, u, v)
      /\ n < 3 => u % 4 = 0 /\ v = 0
      /\ n < 2 => t % 16 = 0 /\ u = 0
  BY <1>1
<1> HIDE DEF s, t, u, v
<1>6. Pads(c, d) = 3 - n
  BY <1>3, <1>4, Powers, SMT DEF Pads, SixBits
<1>7. ~Misplaced(a, b, c, d, isLast)
  BY <1>3, <1>4, <1>6, Powers, SMT DEF Misplaced, SixBits
<1>8. Foreign \notin {a, b, c, d}
  BY <1>3, <1>4, Powers, SMT DEF SixBits
<1>9. ~SetsDiscardedBits(b, c, Pads(c, d))
  BY <1>3, <1>4, <1>5, <1>6, Powers, SMT DEF SetsDiscardedBits, SixBits
<1>10. GroupIn(a, b, c, d) = g
  <2>1. a \in SixBits /\ b \in SixBits /\ c \in Padded /\ d \in Padded
    BY <1>3, <1>4, SMT DEF SixBits, Padded
  <2>2. GroupIn(a, b, c, d) = OfSymbols(a, b, Low(c), Low(d))
    BY <2>1, NumberOfQuartet, SMT DEF OfSymbols
  <2>3. Low(c) = u /\ Low(d) = v
    BY <1>3, <1>4, <1>5, SMT DEF Low, SixBits
  <2> QED
    BY <1>4, <1>5, <2>2, <2>3
<1>11. DecodeQuartet(a, b, c, d, isLast) =
         Accepted([k \in 1..(3 - Pads(c, d)) |-> OctetAt(GroupIn(a, b, c, d), 3 - k)])
  BY <1>7, <1>8, <1>9, Zenon DEF DecodeQuartet
<1>12. 3 - Pads(c, d) = n
  BY <1>6, SMT
<1>13. DecodeQuartet(a, b, c, d, isLast) = Accepted([k \in 1..n |-> OctetAt(g, 3 - k)])
  BY <1>10, <1>11, <1>12
<1>14. [k \in 1..n |-> OctetAt(g, 3 - k)] = o
  BY <1>1
<1> QED
  BY <1>13, <1>14

\* A quartet that decode_quartet accepts is the one spelled for its octets.
LEMMA ReadIsSpelled ==
  ASSUME Program, NEW text \in Seq(Symbol), NEW quartets \in Nat, 4 * quartets <= Len(text),
         NEW q \in 1..quartets, QuartetOf(text, q, quartets).ok,
         NEW o, o = QuartetOf(text, q, quartets).octets
  PROVE  \E n \in 1..3 :
           /\ n < 3 => q = quartets
           /\ o \in [1..n -> EightBits]
           /\ Spells(text, q, Number(o, n), n)
<1> DEFINE a == text[(4 * q) - 3]
           b == text[(4 * q) - 2]
           c == text[(4 * q) - 1]
           d == text[4 * q]
           n == 3 - Pads(c, d)
           g == GroupIn(a, b, c, d)
           isLast == (q = quartets)
<1>a. a \in Symbol /\ b \in Symbol /\ c \in Symbol /\ d \in Symbol
  <2>1. /\ (4 * q) - 3 \in 1..Len(text) /\ (4 * q) - 2 \in 1..Len(text)
        /\ (4 * q) - 1 \in 1..Len(text) /\ 4 * q \in 1..Len(text)
    BY LenProperties, SMT
  <2> QED
    BY <2>1
<1>b. /\ DecodeQuartet(a, b, c, d, isLast).ok /\ o = DecodeQuartet(a, b, c, d, isLast).octets
  BY DEF QuartetOf
<1>c. isLast \in BOOLEAN
  OBVIOUS
<1> HIDE DEF a, b, c, d, isLast
<1>1. /\ a \in SixBits /\ b \in SixBits /\ c \in Padded /\ d \in Padded /\ (c = 64 => d = 64)
      /\ Pads(c, d) = 2 => c = 64 /\ d = 64 /\ b % 16 = 0
      /\ Pads(c, d) = 1 => c # 64 /\ d = 64 /\ c % 4 = 0
      /\ Pads(c, d) = 0 => c # 64 /\ d # 64
      /\ Pads(c, d) \in 0..2
      /\ o = [k \in 1..(3 - Pads(c, d)) |-> OctetAt(g, 3 - k)]
  BY <1>a, <1>b, <1>c, AcceptedQuartets
<1>2. n \in 1..3 /\ o = [k \in 1..n |-> OctetAt(g, 3 - k)]
  BY <1>1, SMT
<1>3. n < 3 => isLast
  BY <1>1, <1>b, SMT DEF DecodeQuartet, Misplaced, Rejected
<1>4. g \in Groups /\ g = OfSymbols(a, b, Low(c), Low(d))
  BY <1>1, NumberOfQuartet, SMT DEF Groups, OfSymbols
<1>5. /\ OctetAt(g, 2) \in EightBits /\ OctetAt(g, 1) \in EightBits /\ OctetAt(g, 0) \in EightBits
      /\ g = OfOctets(OctetAt(g, 2), OctetAt(g, 1), OctetAt(g, 0))
  BY <1>4, GroupOfOctets, SMT DEF Groups, OfOctets
<1>6. /\ n < 2 => OctetAt(g, 1) = 0 /\ OctetAt(g, 0) = 0
      /\ n < 3 => OctetAt(g, 0) = 0
  BY <1>1, DroppedOctets, SMT
<1> HIDE DEF g
<1>7. \A k \in 1..n : OctetAt(g, 3 - k) \in EightBits
  <2> TAKE k \in 1..n
  <2>1. 3 - k = 2 \/ 3 - k = 1 \/ 3 - k = 0
    BY <1>2, SMT
  <2> QED
    BY <1>5, <2>1
<1>8. o \in [1..n -> EightBits]
  BY <1>2, <1>7
<1>9. Number(o, n) = g
  <2>1. o[1] = OctetAt(g, 2) /\ (2 <= n => o[2] = OctetAt(g, 1)) /\ (3 <= n => o[3] = OctetAt(g, 0))
    BY <1>2, SMT
  <2>2. (IF 2 <= n THEN o[2] ELSE 0) = OctetAt(g, 1) /\ (IF 3 <= n THEN o[3] ELSE 0) = OctetAt(g, 0)
    BY <1>2, <1>6, <2>1, SMT
  <2>3. 1 <= n
    BY <1>2, SMT
  <2> QED
    BY <1>5, <2>1, <2>2, <2>3 DEF Number
<1>10. /\ \A p \in 0..3 : SymbolAt(g, p) \in SixBits
       /\ g = OfSymbols(SymbolAt(g, 3), SymbolAt(g, 2), SymbolAt(g, 1), SymbolAt(g, 0))
  BY <1>5, GroupMade
<1>11. Low(c) \in SixBits /\ Low(d) \in SixBits
  BY <1>1, SMT DEF Low, Padded, SixBits
<1>12. /\ SymbolAt(g, 3) \in SixBits /\ SymbolAt(g, 2) \in SixBits
       /\ SymbolAt(g, 1) \in SixBits /\ SymbolAt(g, 0) \in SixBits
  BY <1>10
<1>13. /\ a = SymbolAt(g, 3) /\ b = SymbolAt(g, 2)
       /\ Low(c) = SymbolAt(g, 1) /\ Low(d) = SymbolAt(g, 0)
  <2> DEFINE w == SymbolAt(g, 3)
             x == SymbolAt(g, 2)
             y == SymbolAt(g, 1)
             z == SymbolAt(g, 0)
             u == Low(c)
             v == Low(d)
  <2>1. OfSymbols(a, b, u, v) = OfSymbols(w, x, y, z)
    BY <1>4, <1>10
  <2>2. /\ a \in SixBits /\ b \in SixBits /\ u \in SixBits /\ v \in SixBits
        /\ w \in SixBits /\ x \in SixBits /\ y \in SixBits /\ z \in SixBits
    BY <1>1, <1>11, <1>12
  <2> HIDE DEF u, v, w, x, y, z
  <2>3. a = w /\ b = x /\ u = y /\ v = z
    BY <2>1, <2>2, SMT DEF OfSymbols, SixBits
  <2> QED
    BY <2>3 DEF u, v, w, x, y, z
<1>14. /\ c = IF n < 2 THEN PAD ELSE Low(c)
       /\ d = IF n < 3 THEN PAD ELSE Low(d)
  BY <1>1, Powers, SMT DEF Low
<1>15. Spells(text, q, g, n)
  BY <1>13, <1>14 DEF Spells, a, b, c, d
<1> QED
  BY <1>2, <1>3, <1>8, <1>9, <1>15 DEF isLast

\* The octets of the q-th chunk of n, and the chunk.
ChunkLen(n, q)  == IF 3 * q <= n THEN 3 ELSE n - (3 * (q - 1))
Chunk(bytes, q) == [k \in 1..ChunkLen(Len(bytes), q) |-> bytes[(3 * (q - 1)) + k]]

Chunks(n) == (n + 2) \div 3

\* Chunks are full, but for the last.
LEMMA ChunksAreFull ==
  ASSUME NEW n \in Nat
  PROVE  /\ Chunks(n) \in Nat /\ (Chunks(n) = 0 <=> n = 0)
         /\ Chunks(n) # 0 => n = (3 * (Chunks(n) - 1)) + ChunkLen(n, Chunks(n))
         /\ \A q \in 1..Chunks(n) :
              /\ ChunkLen(n, q) \in 1..3 /\ (ChunkLen(n, q) < 3 => q = Chunks(n))
              /\ \A k \in 1..3 : (3 * (q - 1)) + k <= n <=> k <= ChunkLen(n, q)
              /\ (3 * (q - 1)) + ChunkLen(n, q) <= n
<1> DEFINE Q == Chunks(n)
<1>1. Q \in Nat /\ 3 * Q <= n + 2 /\ n <= 3 * Q
  BY SMT DEF Chunks
<1> HIDE DEF Q
<1>2. (Q = 0 <=> n = 0) /\ (Q # 0 => n = (3 * (Q - 1)) + ChunkLen(n, Q))
  BY <1>1, SMT DEF ChunkLen
<1>3. ASSUME NEW q \in 1..Q
      PROVE  /\ ChunkLen(n, q) \in 1..3 /\ (ChunkLen(n, q) < 3 => q = Q)
             /\ \A k \in 1..3 : (3 * (q - 1)) + k <= n <=> k <= ChunkLen(n, q)
             /\ (3 * (q - 1)) + ChunkLen(n, q) <= n
  BY <1>1, SMT DEF ChunkLen
<1> QED
  BY <1>1, <1>2, <1>3 DEF Q

\* What encode makes of bytes, quartet by quartet.
LEMMA EncodedInQuartets ==
  ASSUME Program, NEW bytes \in Seq(EightBits), NEW e, e = Encode(bytes)
  PROVE  /\ e \in Seq(Symbol) /\ Len(e) = 4 * Chunks(Len(bytes))
         /\ \A q \in 1..Chunks(Len(bytes)) :
              /\ Chunk(bytes, q) \in [1..ChunkLen(Len(bytes), q) -> EightBits]
              /\ Spells(e, q, Number(Chunk(bytes, q), ChunkLen(Len(bytes), q)),
                        ChunkLen(Len(bytes), q))
<1> DEFINE n == Len(bytes)
           Q == Chunks(n)
<1>1. n \in Nat /\ \A i \in 1..n : bytes[i] \in EightBits
  BY LenProperties
<1>2. /\ Q \in Nat
      /\ \A q \in 1..Q :
              /\ ChunkLen(n, q) \in 1..3
              /\ \A k \in 1..3 : (3 * (q - 1)) + k <= n <=> k <= ChunkLen(n, q)
  BY <1>1, ChunksAreFull
<1> DEFINE at(k) == IF (3 * ((k - 1) \div 4)) + ((k - 1) % 4) > n THEN PAD
                    ELSE SymbolAt(GroupOf(bytes, (k - 1) \div 4), 3 - ((k - 1) % 4))
<1>3. e = [k \in 1..(4 * Q) |-> at(k)]
  BY DEF Encode, Chunks
<1> HIDE DEF n, Q
<1>4. ASSUME NEW q \in 1..Q
      PROVE  /\ Chunk(bytes, q) \in [1..ChunkLen(n, q) -> EightBits]
             /\ GroupOf(bytes, q - 1) = Number(Chunk(bytes, q), ChunkLen(n, q))
  <2> DEFINE m == ChunkLen(n, q)
             o == Chunk(bytes, q)
             j == 3 * (q - 1)
  <2>1. m \in 1..3 /\ \A k \in 1..3 : j + k <= n <=> k <= m
    BY <1>2
  <2>2. j \in Nat
    BY <1>2, SMT
  <2>3. o = [k \in 1..m |-> bytes[j + k]]
    BY DEF Chunk, n
  <2> HIDE DEF m, j, o
  <2>4. \A k \in 1..m : j + k \in 1..n
    BY <1>1, <2>1, <2>2, SMT
  <2>5. o \in [1..m -> EightBits]
    BY <1>1, <2>3, <2>4
  <2>6. GroupOf(bytes, q - 1) =
          OfOctets(IF j + 1 <= n THEN bytes[j + 1] ELSE 0, IF j + 2 <= n THEN bytes[j + 2] ELSE 0,
                   IF j + 3 <= n THEN bytes[j + 3] ELSE 0)
    <3> DEFINE x == IF j + 1 <= n THEN bytes[j + 1] ELSE 0
               y == IF j + 2 <= n THEN bytes[j + 2] ELSE 0
               z == IF j + 3 <= n THEN bytes[j + 3] ELSE 0
    <3>1. GroupOf(bytes, q - 1) = (x * Square(Octets)) + (y * Octets) + z
      BY DEF GroupOf, j, n
    <3>2. x \in EightBits /\ y \in EightBits /\ z \in EightBits
      BY <1>1, <2>1, <2>2, SMT DEF EightBits
    <3> HIDE DEF x, y, z
    <3>3. GroupOf(bytes, q - 1) = OfOctets(x, y, z)
      BY <3>1, <3>2, Powers, SMT DEF OfOctets, EightBits
    <3> QED
      BY <3>3 DEF x, y, z
  <2>7. /\ 1 <= m => o[1] = bytes[j + 1]
        /\ 2 <= m => o[2] = bytes[j + 2]
        /\ 3 <= m => o[3] = bytes[j + 3]
    BY <2>1, <2>3, SMT
  <2>8. (j + 1 <= n <=> 1 <= m) /\ (j + 2 <= n <=> 2 <= m) /\ (j + 3 <= n <=> 3 <= m)
    BY <2>1, SMT
  <2>9. GroupOf(bytes, q - 1) = Number(o, m)
    BY <2>6, <2>7, <2>8, Zenon DEF Number
  <2> QED
    BY <2>5, <2>9 DEF m, o
<1>5. ASSUME NEW q \in 1..Q
      PROVE  Spells(e, q, GroupOf(bytes, q - 1), ChunkLen(n, q))
  <2> DEFINE m == ChunkLen(n, q)
             g == GroupOf(bytes, q - 1)
  <2>1. m \in 1..3 /\ \A k \in 1..3 : (3 * (q - 1)) + k <= n <=> k <= m
    BY <1>2
  <2>2. /\ (((4 * q) - 3) - 1) \div 4 = q - 1 /\ (((4 * q) - 3) - 1) % 4 = 0
        /\ (((4 * q) - 2) - 1) \div 4 = q - 1 /\ (((4 * q) - 2) - 1) % 4 = 1
        /\ (((4 * q) - 1) - 1) \div 4 = q - 1 /\ (((4 * q) - 1) - 1) % 4 = 2
        /\ ((4 * q) - 1) \div 4 = q - 1 /\ ((4 * q) - 1) % 4 = 3
    BY <1>2, SMT
  <2>3. /\ (4 * q) - 3 \in 1..(4 * Q) /\ (4 * q) - 2 \in 1..(4 * Q)
        /\ (4 * q) - 1 \in 1..(4 * Q) /\ 4 * q \in 1..(4 * Q)
    BY <1>2, SMT
  <2>4. /\ e[(4 * q) - 3] = at((4 * q) - 3) /\ e[(4 * q) - 2] = at((4 * q) - 2)
        /\ e[(4 * q) - 1] = at((4 * q) - 1) /\ e[4 * q] = at(4 * q)
    <3> HIDE DEF at
    <3> QED
      BY <1>3, <2>3
  <2> HIDE DEF g
  <2>5. /\ at((4 * q) - 3) = IF (3 * (q - 1)) + 0 > n THEN PAD ELSE SymbolAt(g, 3 - 0)
        /\ at((4 * q) - 2) = IF (3 * (q - 1)) + 1 > n THEN PAD ELSE SymbolAt(g, 3 - 1)
        /\ at((4 * q) - 1) = IF (3 * (q - 1)) + 2 > n THEN PAD ELSE SymbolAt(g, 3 - 2)
        /\ at(4 * q) = IF (3 * (q - 1)) + 3 > n THEN PAD ELSE SymbolAt(g, 3 - 3)
    BY <2>2 DEF g
  <2>6. /\ ~((3 * (q - 1)) + 0 > n) /\ ~((3 * (q - 1)) + 1 > n)
        /\ ((3 * (q - 1)) + 2 > n <=> m < 2) /\ ((3 * (q - 1)) + 3 > n <=> m < 3)
        /\ 3 - 0 = 3 /\ 3 - 1 = 2 /\ 3 - 2 = 1 /\ 3 - 3 = 0
    BY <1>1, <1>2, <2>1, SMT
  <2> HIDE DEF at, m
  <2>7. /\ e[(4 * q) - 3] = SymbolAt(g, 3) /\ e[(4 * q) - 2] = SymbolAt(g, 2)
        /\ e[(4 * q) - 1] = IF m < 2 THEN PAD ELSE SymbolAt(g, 1)
        /\ e[4 * q] = IF m < 3 THEN PAD ELSE SymbolAt(g, 0)
    BY <2>4, <2>5, <2>6
  <2>8. Spells(e, q, g, m)
    BY <2>7 DEF Spells
  <2> QED
    BY <2>8 DEF g, m
<1>6. \A k \in 1..(4 * Q) : at(k) \in Symbol
  <2> TAKE k \in 1..(4 * Q)
  <2> DEFINE q == ((k - 1) \div 4) + 1
  <2>1. q \in 1..Q /\ q - 1 = (k - 1) \div 4 /\ 3 - ((k - 1) % 4) \in 0..3
    BY <1>2, SMT
  <2>2. ChunkLen(n, q) \in 1..3
    BY <1>2, <2>1
  <2> HIDE DEF q
  <2>3. Chunk(bytes, q) \in [1..ChunkLen(n, q) -> EightBits]
        /\ GroupOf(bytes, q - 1) = Number(Chunk(bytes, q), ChunkLen(n, q))
    BY <1>4, <2>1
  <2>4. \A p \in 0..3 : SymbolAt(GroupOf(bytes, q - 1), p) \in SixBits
    BY <2>2, <2>3, NumberMade
  <2>5. PAD \in Symbol /\ SixBits \subseteq Symbol
    BY Powers, SMT DEF Symbol, SixBits
  <2> QED
    BY <2>1, <2>4, <2>5
<1>7. e \in Seq(Symbol) /\ Len(e) = 4 * Q
  <2>1. 4 * Q \in Nat
    BY <1>2, SMT
  <2> HIDE DEF at
  <2> QED
    BY <1>3, <1>6, <2>1
<1> QED
  BY <1>4, <1>5, <1>7 DEF n, Q

\* A set of numbers has a least.
LEMMA LeastOfNumbers ==
  ASSUME NEW T, T \subseteq Nat, T # {}
  PROVE  \E k \in T : \A j \in T : k <= j
<1> DEFINE below == OpToRel(<, Nat)
<1>1. IsWellFoundedOn(below, Nat)
  BY NatLessThanWellFounded
<1>2. \A j \in Nat, k \in Nat : j < k => <<j, k>> \in below
  BY DEF OpToRel
<1> HIDE DEF below
<1>3. PICK k \in T : \A j \in T : ~ (<<j, k>> \in below)
  BY <1>1, WFMin
<1>4. ASSUME NEW j \in T PROVE k <= j
  <2>1. j \in Nat /\ k \in Nat
    BY <1>3
  <2>2. ~(j < k)
    BY <1>2, <1>3, <2>1
  <2> QED
    BY <2>1, <2>2
<1> QED
  BY <1>3, <1>4

\* An accepted quartet has up to three octets.
LEMMA FewOctets ==
  ASSUME NEW text, NEW q, NEW quartets, QuartetOf(text, q, quartets).ok
  PROVE  Len(QuartetOf(text, q, quartets).octets) \in 1..3
<1> DEFINE c == text[(4 * q) - 1]
           d == text[4 * q]
           g == GroupIn(text[(4 * q) - 3], text[(4 * q) - 2], c, d)
<1>1. QuartetOf(text, q, quartets).octets = [k \in 1..(3 - Pads(c, d)) |-> OctetAt(g, 3 - k)]
  BY Zenon DEF QuartetOf, DecodeQuartet, Rejected, Accepted
<1> HIDE DEF c, d, g
<1>2. 3 - Pads(c, d) \in 1..3
  BY SMT DEF Pads
<1> DEFINE n == 3 - Pads(c, d)
<1>3. n \in Nat
  BY <1>2
<1> HIDE DEF n
<1>4. Len([k \in 1..n |-> OctetAt(g, 3 - k)]) = n
  BY <1>3
<1> QED
  BY <1>1, <1>2, <1>4 DEF n

\* The octets of a text whose quartets are all accepted.
OctetsOf(text) ==
  LET quartets == Len(text) \div 4
      length   == IF quartets = 0 THEN 0
                  ELSE (3 * (quartets - 1)) + Len(QuartetOf(text, quartets, quartets).octets)
  IN [k \in 1..length |->
        QuartetOf(text, ((k - 1) \div 3) + 1, quartets).octets[((k - 1) % 3) + 1]]

\* A text is decoded when all its quartets are.
LEMMA DecodedInQuartets ==
  ASSUME NEW text \in Seq(Symbol), NEW Q, Q = Len(text) \div 4
  PROVE  /\ Decode(text).ok <=>
              /\ Len(text) % 4 = 0
              /\ \A q \in 1..Q : QuartetOf(text, q, Q).ok
         /\ Decode(text).ok => Decode(text) = Accepted(OctetsOf(text))
<1> DEFINE read == [q \in 1..Q |-> QuartetOf(text, q, Q)]
           refused == {q \in 1..Q : ~read[q].ok}
           first == CHOOSE q \in refused : \A r \in refused : q <= r
           length == IF Q = 0 THEN 0 ELSE (3 * (Q - 1)) + Len(read[Q].octets)
           octets == [k \in 1..length |-> read[((k - 1) \div 3) + 1].octets[((k - 1) % 3) + 1]]
<1>1. Decode(text) = IF Len(text) % 4 # 0 THEN Rejected("bad_length")
                     ELSE IF refused # {} THEN read[first] ELSE Accepted(octets)
  BY DEF Decode
<1>2. Len(text) \in Nat /\ Q \in Nat /\ 1..Q \subseteq Nat
  BY LenProperties, SMT
<1>3. ASSUME refused # {} PROVE ~read[first].ok
  <2>1. refused \subseteq Nat
    BY <1>2
  <2>2. \E q \in refused : \A r \in refused : q <= r
    <3> HIDE DEF refused
    <3> QED
      BY <1>3, <2>1, LeastOfNumbers
  <2>3. first \in refused
    <3> HIDE DEF refused
    <3> QED
      BY <2>2
  <2> HIDE DEF first
  <2> QED
    BY <2>3
<1>4. refused = {} <=> \A q \in 1..Q : QuartetOf(text, q, Q).ok
  OBVIOUS
<1>5. ~Rejected("bad_length").ok /\ Accepted(octets).ok
  BY DEF Rejected, Accepted
<1>6. refused = {} => octets = OctetsOf(text)
  <2> SUFFICES ASSUME refused = {} PROVE octets = OctetsOf(text)
    OBVIOUS
  <2> DEFINE size == IF Q = 0 THEN 0 ELSE (3 * (Q - 1)) + Len(QuartetOf(text, Q, Q).octets)
  <2>1. ASSUME Q # 0 PROVE Q \in 1..Q /\ Len(QuartetOf(text, Q, Q).octets) \in 1..3
    <3>1. Q \in 1..Q
      BY <1>2, <2>1, SMT
    <3>2. QuartetOf(text, Q, Q).ok
      BY <1>4, <3>1
    <3> QED
      BY <3>1, <3>2, FewOctets
  <2>2. length = size
    BY <2>1
  <2>3. OctetsOf(text) =
          [k \in 1..size |-> QuartetOf(text, ((k - 1) \div 3) + 1, Q).octets[((k - 1) % 3) + 1]]
    BY DEF OctetsOf
  <2>4. \A k \in 1..size : ((k - 1) \div 3) + 1 \in 1..Q
    <3>1. size \in Nat /\ size <= 3 * Q
      <4> DEFINE m == Len(QuartetOf(text, Q, Q).octets)
      <4>1. size = IF Q = 0 THEN 0 ELSE (3 * (Q - 1)) + m
        OBVIOUS
      <4>2. Q # 0 => m \in 1..3
        BY <2>1
      <4> HIDE DEF m, size
      <4> QED
        BY <1>2, <4>1, <4>2, SMT
    <3> HIDE DEF size
    <3>2. ASSUME NEW k \in 1..size PROVE ((k - 1) \div 3) + 1 \in 1..Q
      BY <1>2, <3>1, SMT
    <3> QED
      BY <3>2
  <2> HIDE DEF length, size
  <2>5. \A k \in 1..size : read[((k - 1) \div 3) + 1] = QuartetOf(text, ((k - 1) \div 3) + 1, Q)
    BY <2>4
  <2>6. octets = [k \in 1..size |-> read[((k - 1) \div 3) + 1].octets[((k - 1) % 3) + 1]]
    BY <2>2
  <2> HIDE DEF read, octets
  <2> QED
    BY <2>3, <2>5, <2>6
<1>7. Decode(text).ok <=> Len(text) % 4 = 0 /\ refused = {}
  <2> HIDE DEF refused, first, octets, read
  <2> QED
    BY <1>1, <1>3, <1>5
<1>8. Decode(text).ok => Decode(text) = Accepted(octets)
  <2> HIDE DEF refused, first, octets, read
  <2> QED
    BY <1>1, <1>7
<1> QED
  <2> HIDE DEF refused, octets
  <2> QED
    BY <1>4, <1>6, <1>7, <1>8

\* In the program's alphabets, any bytes that are encoded decode to the same bytes.
\* (encode, decode)
THEOREM DecodedBack ==
  ASSUME Program, NEW bytes \in Seq(EightBits)
  PROVE  Decode(Encode(bytes)) = Accepted(bytes)
<1> DEFINE n == Len(bytes)
           Q == Chunks(n)
           e == Encode(bytes)
<1>1. n \in Nat /\ \A i \in 1..n : bytes[i] \in EightBits
  BY LenProperties
<1>2. /\ Q \in Nat /\ (Q = 0 <=> n = 0)
      /\ Q # 0 => n = (3 * (Q - 1)) + ChunkLen(n, Q)
      /\ \A q \in 1..Q :
           /\ ChunkLen(n, q) \in 1..3 /\ (ChunkLen(n, q) < 3 => q = Q)
           /\ \A k \in 1..3 : (3 * (q - 1)) + k <= n <=> k <= ChunkLen(n, q)
  BY <1>1, ChunksAreFull
<1>3. /\ e \in Seq(Symbol) /\ Len(e) = 4 * Q
      /\ \A q \in 1..Q :
           /\ Chunk(bytes, q) \in [1..ChunkLen(n, q) -> EightBits]
           /\ Spells(e, q, Number(Chunk(bytes, q), ChunkLen(n, q)), ChunkLen(n, q))
  BY EncodedInQuartets
<1> HIDE DEF Q, e, n
<1>4. Len(e) % 4 = 0 /\ Len(e) \div 4 = Q
  BY <1>2, <1>3, SMT
<1>5. ASSUME NEW q \in 1..Q PROVE QuartetOf(e, q, Q) = Accepted(Chunk(bytes, q))
  <2> DEFINE m == ChunkLen(n, q)
             o == Chunk(bytes, q)
  <2>0. q \in Nat /\ Q \in Nat
    BY <1>2
  <2>1. m \in 1..3 /\ (m < 3 => q = Q) /\ o \in [1..m -> EightBits]
    BY <1>2, <1>3
  <2>2. Spells(e, q, Number(o, m), m)
    BY <1>3
  <2> HIDE DEF m, o
  <2>3. QuartetOf(e, q, Q) = Accepted(o)
    BY <2>0, <2>1, <2>2, SpelledIsRead
  <2> QED
    BY <2>3 DEF o
<1>6. \A q \in 1..Q : QuartetOf(e, q, Q).ok /\ QuartetOf(e, q, Q).octets = Chunk(bytes, q)
  BY <1>5 DEF Accepted
<1>7. Decode(e) = Accepted(OctetsOf(e))
  BY <1>3, <1>4, <1>6, DecodedInQuartets
<1>8. ASSUME Q # 0 PROVE Len(QuartetOf(e, Q, Q).octets) = ChunkLen(n, Q)
  <2>1. Q \in 1..Q
    BY <1>2, <1>8, SMT
  <2>2. ChunkLen(n, Q) \in Nat
    BY <1>2, <2>1, SMT
  <2>3. Len(Chunk(bytes, Q)) = ChunkLen(n, Q)
    BY <2>2 DEF Chunk, n
  <2> QED
    BY <1>6, <2>1, <2>3
<1>9. OctetsOf(e) = [k \in 1..n |-> QuartetOf(e, ((k - 1) \div 3) + 1, Q).octets[((k - 1) % 3) + 1]]
  <2> DEFINE size == IF Q = 0 THEN 0 ELSE (3 * (Q - 1)) + Len(QuartetOf(e, Q, Q).octets)
  <2>1. size = n
    BY <1>2, <1>8
  <2>2. OctetsOf(e) =
          [k \in 1..size |-> QuartetOf(e, ((k - 1) \div 3) + 1, Q).octets[((k - 1) % 3) + 1]]
    BY <1>4 DEF OctetsOf
  <2> HIDE DEF size
  <2> QED
    BY <2>1, <2>2
<1>10. ASSUME NEW k \in 1..n
       PROVE  QuartetOf(e, ((k - 1) \div 3) + 1, Q).octets[((k - 1) % 3) + 1] = bytes[k]
  <2> DEFINE q == ((k - 1) \div 3) + 1
             i == ((k - 1) % 3) + 1
  <2>1. q \in 1..Q /\ i \in 1..3 /\ (3 * (q - 1)) + i = k
    BY <1>1, <1>2, <1>4, SMT DEF Chunks, Q
  <2> HIDE DEF q, i
  <2>2. i \in 1..ChunkLen(n, q)
    <3>1. (3 * (q - 1)) + i <= n /\ ChunkLen(n, q) \in 1..3
      BY <1>2, <2>1
    <3>2. i <= ChunkLen(n, q)
      BY <1>2, <2>1, <3>1
    <3> QED
      BY <2>1, <3>1, <3>2, SMT
  <2>3. Chunk(bytes, q)[i] = bytes[(3 * (q - 1)) + i]
    BY <2>2 DEF Chunk, n
  <2>4. QuartetOf(e, q, Q).octets[i] = bytes[k]
    BY <1>6, <2>1, <2>3
  <2> QED
    BY <2>4 DEF q, i
<1>11. OctetsOf(e) = [k \in 1..n |-> bytes[k]]
  BY <1>9, <1>10
<1>12. bytes = [k \in 1..n |-> bytes[k]]
  BY DEF n
<1> QED
  BY <1>7, <1>11, <1>12 DEF e

\* In the program's alphabets, a text that decodes is the one its octets are encoded in: no
\* two texts, padded or not, mean the same bytes.  (encode, decode)
THEOREM EncodedBack ==
  ASSUME Program, NEW text \in Seq(Symbol), Decode(text).ok
  PROVE  /\ Decode(text).octets \in Seq(EightBits)
         /\ Encode(Decode(text).octets) = text
<1> DEFINE Q == Len(text) \div 4
           o == OctetsOf(text)
<1>0. Len(text) \in Nat
  BY LenProperties
<1>1. /\ Q \in Nat /\ Len(text) = 4 * Q
      /\ \A q \in 1..Q : QuartetOf(text, q, Q).ok
      /\ Decode(text).octets = o
  <2>1. /\ Len(text) % 4 = 0
        /\ \A q \in 1..Q : QuartetOf(text, q, Q).ok
        /\ Decode(text) = Accepted(o)
    BY DecodedInQuartets
  <2>2. Q \in Nat /\ Len(text) = 4 * Q
    BY <1>0, <2>1, SMT
  <2> QED
    BY <2>1, <2>2 DEF Accepted
<1>2. o = [k \in 1..(IF Q = 0 THEN 0 ELSE (3 * (Q - 1)) + Len(QuartetOf(text, Q, Q).octets)) |->
             QuartetOf(text, ((k - 1) \div 3) + 1, Q).octets[((k - 1) % 3) + 1]]
  BY DEF OctetsOf
<1> HIDE DEF Q, o
<1> DEFINE part(q) == QuartetOf(text, q, Q).octets
<1>3. ASSUME NEW q \in 1..Q
      PROVE  \E n \in 1..3 :
               /\ n < 3 => q = Q
               /\ part(q) \in [1..n -> EightBits] /\ Len(part(q)) = n
               /\ Spells(text, q, Number(part(q), n), n)
  <2>1. 4 * Q <= Len(text) /\ QuartetOf(text, q, Q).ok
    BY <1>1, SMT
  <2>2. PICK n \in 1..3 :
           /\ n < 3 => q = Q
           /\ part(q) \in [1..n -> EightBits]
           /\ Spells(text, q, Number(part(q), n), n)
    BY <1>1, <2>1, ReadIsSpelled
  <2>3. Len(part(q)) = n
    <3> HIDE DEF part
    <3> QED
      BY <2>2
  <2> QED
    BY <2>2, <2>3
<1> HIDE DEF part
<1> DEFINE size(q) == Len(part(q))
           length == IF Q = 0 THEN 0 ELSE (3 * (Q - 1)) + size(Q)
<1>4. \A q \in 1..Q :
        /\ size(q) \in 1..3 /\ (size(q) < 3 => q = Q)
        /\ part(q) \in [1..size(q) -> EightBits]
        /\ Spells(text, q, Number(part(q), size(q)), size(q))
  BY <1>3
<1> HIDE DEF size
<1>5. Q # 0 => Q \in 1..Q
  BY <1>1, SMT
<1>6. o = [k \in 1..length |-> part(((k - 1) \div 3) + 1)[((k - 1) % 3) + 1]]
  BY <1>2 DEF part, size
<1>7. length \in Nat /\ Chunks(length) = Q
  <2>1. CASE Q = 0
    BY <2>1, SMT DEF Chunks
  <2>2. CASE Q # 0
    <3>1. size(Q) \in 1..3 /\ length = (3 * (Q - 1)) + size(Q)
      BY <1>4, <1>5, <2>2
    <3> HIDE DEF length
    <3> QED
      BY <1>1, <2>2, <3>1, SMT DEF Chunks
  <2> QED
    BY <2>1, <2>2
<1>8. ASSUME NEW q \in 1..Q
      PROVE  /\ ChunkLen(length, q) = size(q)
             /\ \A i \in 1..size(q) :
                  /\ (3 * (q - 1)) + i \in 1..length
                  /\ (((3 * (q - 1)) + i - 1) \div 3) + 1 = q
                  /\ (((3 * (q - 1)) + i - 1) % 3) + 1 = i
  <2>1. size(q) \in 1..3 /\ (size(q) < 3 => q = Q) /\ Q # 0 /\ q \in Nat /\ q <= Q /\ q # 0
    BY <1>1, <1>4
  <2>2. size(Q) \in 1..3
    BY <1>4, <1>5, <2>1
  <2>3. length = (3 * (Q - 1)) + size(Q)
    BY <2>1
  <2>4. size(q) = IF q = Q THEN size(Q) ELSE 3
    BY <2>1, <2>2
  <2> HIDE DEF length
  <2>5. ChunkLen(length, q) = size(q)
    BY <1>1, <2>1, <2>2, <2>3, <2>4, SMT DEF ChunkLen
  <2>6. ASSUME NEW i \in 1..size(q)
        PROVE  /\ (3 * (q - 1)) + i \in 1..length
               /\ (((3 * (q - 1)) + i - 1) \div 3) + 1 = q
               /\ (((3 * (q - 1)) + i - 1) % 3) + 1 = i
    BY <1>1, <2>1, <2>2, <2>3, <2>4, SMT
  <2> QED
    BY <2>5, <2>6
<1>9. ASSUME NEW k \in 1..length
      PROVE  /\ ((k - 1) \div 3) + 1 \in 1..Q
             /\ ((k - 1) % 3) + 1 \in 1..size(((k - 1) \div 3) + 1)
  <2> DEFINE q == ((k - 1) \div 3) + 1
             i == ((k - 1) % 3) + 1
  <2>1. Q # 0 /\ size(Q) \in 1..3
    BY <1>4, <1>5, SMT
  <2>2. length = (3 * (Q - 1)) + size(Q)
    BY <2>1
  <2> HIDE DEF length
  <2>3. /\ k \in Nat /\ q \in Nat /\ i \in 1..3 /\ k = (3 * (q - 1)) + i
        /\ q \in 1..Q /\ (q = Q => i <= size(Q))
    <3> DEFINE j == (k - 1) \div 3
               r == (k - 1) % 3
    <3>1. k \in Nat /\ j \in Nat /\ r \in 0..2 /\ k - 1 = (3 * j) + r
      BY <1>7, SMT
    <3>2. q = j + 1 /\ i = r + 1
      OBVIOUS
    <3> HIDE DEF q, i, j, r
    <3> QED
      BY <1>1, <2>1, <2>2, <3>1, <3>2, SMT
  <2> HIDE DEF q, i
  <2>4. size(q) \in 1..3 /\ (size(q) < 3 => q = Q)
    BY <1>4, <2>3
  <2>5. i \in 1..size(q)
    BY <2>1, <2>3, <2>4, SMT
  <2> QED
    BY <2>3, <2>5 DEF q, i
<1> HIDE DEF length
<1>10. o \in Seq(EightBits) /\ Len(o) = length
  <2>1. \A k \in 1..length : part(((k - 1) \div 3) + 1)[((k - 1) % 3) + 1] \in EightBits
    BY <1>4, <1>9
  <2> QED
    BY <1>6, <1>7, <2>1
<1>11. ASSUME NEW q \in 1..Q PROVE Chunk(o, q) = part(q)
  <2> DEFINE j == 3 * (q - 1)
  <2>1. Chunk(o, q) = [i \in 1..size(q) |-> o[j + i]]
    BY <1>8, <1>10 DEF Chunk
  <2>2. ASSUME NEW i \in 1..size(q) PROVE o[j + i] = part(q)[i]
    <3> DEFINE k == j + i
    <3>1. k \in 1..length /\ ((k - 1) \div 3) + 1 = q /\ ((k - 1) % 3) + 1 = i
      BY <1>8
    <3> HIDE DEF k
    <3>2. o[k] = part(((k - 1) \div 3) + 1)[((k - 1) % 3) + 1]
      BY <1>6, <3>1
    <3> QED
      BY <3>1, <3>2 DEF k
  <2>3. part(q) = [i \in 1..size(q) |-> part(q)[i]]
    BY <1>4
  <2> HIDE DEF j
  <2> QED
    BY <2>1, <2>2, <2>3
<1> DEFINE e == Encode(o)
<1>12. /\ e \in Seq(Symbol) /\ Len(e) = 4 * Q
       /\ \A q \in 1..Q : Spells(e, q, Number(part(q), size(q)), size(q))
  <2>1. /\ e \in Seq(Symbol) /\ Len(e) = 4 * Chunks(Len(o))
        /\ \A q \in 1..Chunks(Len(o)) :
             Spells(e, q, Number(Chunk(o, q), ChunkLen(Len(o), q)), ChunkLen(Len(o), q))
    BY <1>10, EncodedInQuartets
  <2> HIDE DEF e
  <2> QED
    BY <1>7, <1>8, <1>10, <1>11, <2>1
<1> HIDE DEF e
<1>13. ASSUME NEW q \in 1..Q
       PROVE  /\ e[(4 * q) - 3] = text[(4 * q) - 3] /\ e[(4 * q) - 2] = text[(4 * q) - 2]
              /\ e[(4 * q) - 1] = text[(4 * q) - 1] /\ e[4 * q] = text[4 * q]
  <2>1. /\ Spells(e, q, Number(part(q), size(q)), size(q))
        /\ Spells(text, q, Number(part(q), size(q)), size(q))
    BY <1>4, <1>12
  <2> QED
    BY <2>1, Zenon DEF Spells
<1>14. ASSUME NEW k \in 1..(4 * Q) PROVE e[k] = text[k]
  <2> DEFINE q == ((k - 1) \div 4) + 1
  <2>1. /\ q \in 1..Q
        /\ k \in {(4 * q) - 3, (4 * q) - 2, (4 * q) - 1, 4 * q}
    BY <1>1, SMT
  <2> HIDE DEF q
  <2> QED
    BY <1>13, <2>1
<1>15. e = text
  <2>1. /\ e = [k \in 1..(4 * Q) |-> e[k]]
        /\ text = [k \in 1..(4 * Q) |-> text[k]]
    BY <1>1, <1>12
  <2> QED
    BY <1>14, <2>1
<1> QED
  BY <1>1, <1>10, <1>15 DEF e
----------------------------------------------------------------------------
(* Recursion over numbers.                                                   *)

LEMMA EveryNumber ==
  ASSUME NEW S, 0 \in S, \A n \in Nat : n \in S => n + 1 \in S
  PROVE  Nat \subseteq S
<1> DEFINE T == Nat \ S
<1>1. ASSUME T # {} PROVE FALSE
  <2>1. PICK k \in T : \A j \in T : k <= j
    BY <1>1, LeastOfNumbers
  <2>2. k \in Nat /\ k # 0
    OBVIOUS
  <2>3. k - 1 \in Nat /\ (k - 1) + 1 = k /\ ~(k <= k - 1)
    BY <2>2
  <2>4. k - 1 \in T
    BY <2>3
  <2> QED
    BY <2>1, <2>3, <2>4
<1> QED
  BY <1>1

\* f starts with base, and its k-th value is what next makes of the one before.
Unrolls(f, n, base, next) ==
  f[0] = base /\ \A k \in 1..n : f[k] = next[k][f[k - 1]]

LEMMA ByRecursion ==
  ASSUME NEW base \in Nat, NEW n \in Nat, NEW next \in [1..n -> [Nat -> Nat]]
  PROVE  \E f \in [0..n -> Nat] : Unrolls(f, n, base, next)
<1> DEFINE Good(m) == \E f \in [0..m -> Nat] : Unrolls(f, m, base, next)
           S == {m \in Nat : m <= n => Good(m)}
<1>1. 0 \in S
  <2> DEFINE g == [k \in 0..0 |-> base]
  <2>1. g \in [0..0 -> Nat] /\ Unrolls(g, 0, base, next)
    BY DEF Unrolls
  <2> HIDE DEF g
  <2> QED
    BY <2>1
<1> HIDE DEF Good
<1>2. ASSUME NEW m \in Nat, m \in S PROVE m + 1 \in S
  <2> SUFFICES ASSUME m + 1 <= n PROVE Good(m + 1)
    OBVIOUS
  <2>0. Good(m)
    BY <1>2
  <2>1. PICK f \in [0..m -> Nat] : Unrolls(f, m, base, next)
    BY <2>0 DEF Good
  <2> DEFINE x == next[m + 1][f[m]]
             g == [k \in 0..(m + 1) |-> IF k = m + 1 THEN x ELSE f[k]]
  <2>2. x \in Nat
    <3>1. m + 1 \in 1..n /\ m \in 0..m
      OBVIOUS
    <3>2. next[m + 1] \in [Nat -> Nat] /\ f[m] \in Nat
      BY <2>1, <3>1
    <3> QED
      BY <3>2
  <2> HIDE DEF x
  <2>3. g \in [0..(m + 1) -> Nat] /\ g[m + 1] = x /\ \A k \in 0..m : g[k] = f[k]
    <3>1. \A k \in 0..(m + 1) : k = m + 1 \/ k \in 0..m
      OBVIOUS
    <3>2. m + 1 \in 0..(m + 1) /\ \A k \in 0..m : k \in 0..(m + 1) /\ k # m + 1
      OBVIOUS
    <3>3. \A k \in 0..m : f[k] \in Nat
      OBVIOUS
    <3> QED
      BY <2>2, <3>1, <3>2, <3>3
  <2> HIDE DEF g
  <2> USE DEF x
  <2>4. ASSUME NEW k \in 1..(m + 1) PROVE g[k] = next[k][g[k - 1]]
    <3>1. CASE k = m + 1
      <4>1. k - 1 = m /\ m \in 0..m
        BY <3>1
      <4> QED
        BY <2>3, <3>1, <4>1
    <3>2. CASE k \in 1..m
      <4>1. k - 1 \in 0..m /\ k \in 0..m
        BY <3>2
      <4>2. f[k] = next[k][f[k - 1]]
        BY <2>1, <3>2 DEF Unrolls
      <4> QED
        BY <2>3, <4>1, <4>2
    <3> QED
      BY <3>1, <3>2
  <2>5. g[0] = base
    <3>1. 0 \in 0..m
      OBVIOUS
    <3> QED
      BY <2>1, <2>3, <3>1 DEF Unrolls
  <2> QED
    BY <2>3, <2>4, <2>5 DEF Unrolls, Good
<1> HIDE DEF S
<1>3. Nat \subseteq S
  BY <1>1, <1>2, EveryNumber
<1>4. Good(n)
  BY <1>3 DEF S
<1> QED
  BY <1>4 DEF Good

----------------------------------------------------------------------------
(* The length field.                                                         *)

\* The shifts are the powers of Group.
LEMMA Shifts ==
  /\ Shift \in [0..MaxGroups -> Nat]
  /\ Shift[0] = 1
  /\ \A i \in 1..MaxGroups : Shift[i] = Group * Shift[i - 1]
<1> DEFINE next == [k \in 1..MaxGroups |-> [p \in Nat |-> Group * p]]
<1>1. Group \in Nat /\ MaxGroups \in Nat
  BY VarintAssumption
<1>2. next \in [1..MaxGroups -> [Nat -> Nat]]
  BY <1>1
<1>3. \A k \in 1..MaxGroups, p \in Nat : next[k][p] = Group * p
  OBVIOUS
<1> HIDE DEF next
<1>4. PICK f \in [0..MaxGroups -> Nat] : Unrolls(f, MaxGroups, 1, next)
  BY <1>1, <1>2, ByRecursion
<1>5. ASSUME NEW i \in 0..MaxGroups PROVE f[i] = IF i = 0 THEN 1 ELSE Group * f[i - 1]
  <2>1. CASE i = 0
    BY <1>4, <2>1 DEF Unrolls
  <2>2. CASE i # 0
    <3>1. i \in 1..MaxGroups /\ i - 1 \in 0..MaxGroups
      BY <1>1, <2>2
    <3>2. f[i - 1] \in Nat
      BY <1>4, <3>1
    <3> QED
      BY <1>3, <1>4, <2>2, <3>1, <3>2 DEF Unrolls
  <2> QED
    BY <2>1, <2>2
<1>6. f = [i \in 0..MaxGroups |-> IF i = 0 THEN 1 ELSE Group * f[i - 1]]
  BY <1>4, <1>5
<1>7. Shift = [i \in 0..MaxGroups |-> IF i = 0 THEN 1 ELSE Group * Shift[i - 1]]
  <2>1. \E s : s = [i \in 0..MaxGroups |-> IF i = 0 THEN 1 ELSE Group * s[i - 1]]
    BY <1>6, Zenon
  <2> QED
    BY <2>1, Zenon DEF Shift
<1>8. \A i \in 0..MaxGroups : Shift[i] = IF i = 0 THEN 1 ELSE Group * Shift[i - 1]
  BY <1>7
<1> DEFINE S == {i \in Nat : i <= MaxGroups => Shift[i] \in Nat}
<1>9. 0 \in S
  BY <1>1, <1>8
<1>10. ASSUME NEW i \in Nat, i \in S PROVE i + 1 \in S
  <2> SUFFICES ASSUME i + 1 <= MaxGroups PROVE Shift[i + 1] \in Nat
    OBVIOUS
  <2>1. i + 1 \in 0..MaxGroups /\ i + 1 # 0 /\ (i + 1) - 1 = i /\ i <= MaxGroups
    BY <1>1
  <2>2. Shift[i] \in Nat /\ Shift[i + 1] = Group * Shift[i]
    BY <1>8, <1>10, <2>1
  <2> QED
    BY <1>1, <2>2
<1> HIDE DEF S
<1>11. Nat \subseteq S
  BY <1>9, <1>10, EveryNumber
<1>12. \A i \in 0..MaxGroups : Shift[i] \in Nat
  BY <1>11 DEF S
<1>13. \A i \in 1..MaxGroups : Shift[i] = Group * Shift[i - 1]
  <2> TAKE i \in 1..MaxGroups
  <2>1. i \in 0..MaxGroups /\ i # 0
    BY <1>1
  <2> QED
    BY <1>8, <2>1
<1>14. 0 \in 0..MaxGroups
  BY <1>1
<1> QED
  BY <1>7, <1>8, <1>12, <1>13, <1>14

\* Division, where the remainder is known.
LEMMA Divided ==
  ASSUME NEW p \in Nat, NEW q \in Nat, NEW r \in Nat, r < p, NEW v, v = (p * q) + r
  PROVE  v \div p = q /\ v % p = r
<1> DEFINE y == v \div p
           z == v % p
<1>1. y \in Nat /\ z \in Nat /\ z < p /\ v = (p * y) + z
  BY SMT
<1> HIDE DEF y, z
<1>2. ASSUME NEW a \in Nat, NEW b \in Nat, a < b, NEW s \in Nat, NEW t \in Nat, s < p,
             (p * a) + s = (p * b) + t
      PROVE  FALSE
  <2>1. PICK d \in Nat : b = a + 1 + d
    <3>1. b - (a + 1) \in Nat /\ b = a + 1 + (b - (a + 1))
      BY <1>2, SMT
    <3> QED
      BY <3>1
  <2>2. p * b = (p * a) + p + (p * d) /\ p * d \in Nat
    BY <2>1, SMT
  <2> QED
    BY <1>2, <2>2, SMT
<1>3. (p * y) + z = (p * q) + r
  BY <1>1
<1>4. ~(y < q)
  BY <1>1, <1>2, <1>3
<1>5. ~(q < y)
  BY <1>1, <1>2, <1>3
<1>6. y = q
  BY <1>1, <1>4, <1>5, SMT
<1>7. z = r
  BY <1>1, <1>3, <1>6, SMT
<1> QED
  BY <1>6, <1>7 DEF y, z

\* A number below some others is a number times as small.
LEMMA Products ==
  ASSUME NEW a \in Nat, NEW b \in Nat, a <= b, NEW s \in Nat
  PROVE  a * s \in Nat /\ b * s \in Nat /\ a * s <= b * s
BY SMT

\* Each shift divides the ones after it.
LEMMA ShiftsDivide ==
  ASSUME NEW i \in 0..MaxGroups, NEW k \in i..MaxGroups
  PROVE  /\ Shift[i] \in Nat /\ Shift[k] \in Nat
         /\ 1 <= Shift[i] /\ Shift[i] <= Shift[k]
         /\ \E c \in Nat : Shift[k] = Shift[i] * c
<1>1. Group \in Nat /\ Group > 1 /\ MaxGroups \in Nat /\ i \in Nat /\ k \in Nat
  BY VarintAssumption, SMT
<1>2. \A j \in 0..MaxGroups : Shift[j] \in Nat
  BY Shifts
<1> DEFINE Divides(j, m) == \E c \in Nat \ {0} : Shift[m] = Shift[j] * c
           S == {m \in Nat : i + m <= MaxGroups => Divides(i, i + m)}
<1>3. \A j \in 0..MaxGroups : Divides(j, j)
  <2> TAKE j \in 0..MaxGroups
  <2>1. 1 \in Nat \ {0} /\ Shift[j] = Shift[j] * 1
    BY <1>2, SMT
  <2> QED
    BY <2>1
<1> HIDE DEF Divides
<1>4. 0 \in S
  BY <1>1, <1>3
<1>5. ASSUME NEW m \in Nat, m \in S PROVE m + 1 \in S
  <2> SUFFICES ASSUME i + (m + 1) <= MaxGroups PROVE Divides(i, i + (m + 1))
    OBVIOUS
  <2>1. i + m \in 0..MaxGroups /\ i + (m + 1) \in 1..MaxGroups /\ (i + (m + 1)) - 1 = i + m
    BY <1>1, SMT
  <2>2. i + m <= MaxGroups
    BY <2>1
  <2>3. Divides(i, i + m)
    BY <1>5, <2>2
  <2>4. PICK c \in Nat \ {0} : Shift[i + m] = Shift[i] * c
    BY <2>3 DEF Divides
  <2>5. Shift[i + (m + 1)] = Group * Shift[i + m]
    BY <2>1, Shifts
  <2>6. Group * c \in Nat \ {0} /\ Shift[i + (m + 1)] = Shift[i] * (Group * c)
    <3> DEFINE s == Shift[i]
    <3>1. s \in Nat
      BY <1>2
    <3>2. Shift[i + (m + 1)] = Group * (s * c)
      BY <2>4, <2>5
    <3> HIDE DEF s
    <3>3. Group * (s * c) = s * (Group * c) /\ Group * c \in Nat /\ Group * c # 0
      BY <1>1, <3>1, SMT
    <3> QED
      BY <3>2, <3>3 DEF s
  <2> QED
    BY <2>6 DEF Divides
<1> HIDE DEF S
<1>6. Nat \subseteq S
  BY <1>4, <1>5, EveryNumber
<1>7. Divides(i, k)
  <2>1. k - i \in Nat /\ i + (k - i) = k /\ k <= MaxGroups
    BY <1>1, SMT
  <2> QED
    BY <1>6, <2>1 DEF S
<1>8. Shift[i] \in Nat /\ Shift[k] \in Nat
  <2>1. k \in 0..MaxGroups
    BY <1>1, SMT
  <2> QED
    BY <1>2, <2>1
<1>9. PICK c \in Nat \ {0} : Shift[k] = Shift[i] * c
  BY <1>7 DEF Divides
<1>10. Shift[i] <= Shift[k]
  BY <1>8, <1>9, SMT
<1> DEFINE P == {m \in Nat : m <= MaxGroups => 1 <= Shift[m]}
<1>11. 0 \in P
  BY Shifts
<1>12. ASSUME NEW m \in Nat, m \in P PROVE m + 1 \in P
  <2> SUFFICES ASSUME m + 1 <= MaxGroups PROVE 1 <= Shift[m + 1]
    OBVIOUS
  <2>1. m \in 0..MaxGroups /\ m + 1 \in 1..MaxGroups /\ (m + 1) - 1 = m /\ m <= MaxGroups
    BY <1>1, SMT
  <2>2. Shift[m] \in Nat /\ 1 <= Shift[m] /\ Shift[m + 1] = Group * Shift[m]
    BY <1>2, <1>12, <2>1, Shifts
  <2> QED
    BY <1>1, <2>2, SMT
<1> HIDE DEF P
<1>13. Nat \subseteq P
  BY <1>11, <1>12, EveryNumber
<1>14. 1 <= Shift[i]
  BY <1>1, <1>13 DEF P
<1> QED
  BY <1>8, <1>9, <1>10, <1>14

\* f sums the groups g, each shifted to its place.
Sums(f, g, n) == f[0] = 0 /\ \A k \in 1..n : f[k] = f[k - 1] + (g[k - 1] * Shift[k - 1])

Groupings(n) == [0..(n - 1) -> 0..(Group - 1)]

\* What some groups make needs no more of them.
LEMMA SumsStayBelow ==
  ASSUME NEW n \in 0..MaxGroups, NEW g \in Groupings(n), NEW f \in [0..n -> Nat], Sums(f, g, n)
  PROVE  \A k \in 0..n : f[k] < Shift[k]
<1>1. Group \in Nat /\ Group > 1 /\ MaxGroups \in Nat /\ n \in Nat /\ n <= MaxGroups
  BY VarintAssumption, SMT
<1> DEFINE S == {k \in Nat : k <= n => f[k] < Shift[k]}
<1>2. 0 \in S
  BY <1>1, Shifts DEF Sums
<1>3. ASSUME NEW k \in Nat, k \in S PROVE k + 1 \in S
  <2> SUFFICES ASSUME k + 1 <= n PROVE f[k + 1] < Shift[k + 1]
    OBVIOUS
  <2>1. /\ k <= n /\ k \in 0..n /\ k \in 0..(n - 1) /\ k + 1 \in 1..n /\ (k + 1) - 1 = k
        /\ k \in 0..MaxGroups /\ k + 1 \in 1..MaxGroups
    BY <1>1, SMT
  <2>2. f[k] < Shift[k] /\ f[k] \in Nat /\ Shift[k] \in Nat
    BY <1>3, <2>1, Shifts
  <2>3. f[k + 1] = f[k] + (g[k] * Shift[k]) /\ g[k] \in 0..(Group - 1)
    BY <2>1 DEF Sums, Groupings
  <2>4. Shift[k + 1] = Group * Shift[k]
    BY <2>1, Shifts
  <2> DEFINE a == f[k]
             b == g[k]
             s == Shift[k]
  <2>5. a + (b * s) < Group * s
    <3>1. a \in Nat /\ s \in Nat /\ a < s /\ b \in Nat /\ b <= Group - 1 /\ Group - 1 \in Nat
      BY <1>1, <2>2, <2>3, SMT
    <3> HIDE DEF a, b, s
    <3>2. b * s <= (Group - 1) * s /\ b * s \in Nat
      BY <3>1, Products
    <3>3. (Group - 1) * s = (Group * s) - s /\ Group * s \in Nat
      BY <1>1, <3>1, SMT
    <3> QED
      BY <3>1, <3>2, <3>3, SMT
  <2> QED
    BY <2>3, <2>4, <2>5
<1> HIDE DEF S
<1>4. Nat \subseteq S
  BY <1>2, <1>3, EveryNumber
<1> QED
  BY <1>1, <1>4 DEF S

\* The groups of a number are read off it again.
LEMMA SumsHaveDigits ==
  ASSUME NEW n \in 0..MaxGroups, NEW g \in Groupings(n), NEW f \in [0..n -> Nat], Sums(f, g, n),
         NEW j \in 0..(n - 1)
  PROVE  (f[n] \div Shift[j]) % Group = g[j]
<1>1. /\ Group \in Nat /\ Group > 1 /\ MaxGroups \in Nat /\ n \in Nat /\ n <= MaxGroups
      /\ j \in Nat /\ j + 1 <= n /\ j + 1 \in 0..n /\ j \in 0..n /\ j \in 0..MaxGroups
      /\ j + 1 \in 1..MaxGroups /\ j + 1 \in 0..MaxGroups /\ (j + 1) - 1 = j /\ j + 1 \in 1..n
  BY VarintAssumption, SMT
<1> DEFINE big == Shift[j + 1]
           Over(m) == \E r \in Nat : f[m] = f[j + 1] + (big * r)
           S == {m \in Nat : (j + 1) + m <= n => Over((j + 1) + m)}
<1>2. big \in Nat
  BY <1>1, Shifts
<1>3. 0 \in S
  <2>1. 0 \in Nat /\ f[j + 1] = f[j + 1] + (big * 0)
    BY <1>1, <1>2, SMT
  <2>2. (j + 1) + 0 = j + 1
    BY <1>1
  <2>3. Over((j + 1) + 0)
    BY <2>1, <2>2
  <2> HIDE DEF Over
  <2> QED
    BY <2>3
<1> HIDE DEF Over
<1>4. ASSUME NEW m \in Nat, m \in S PROVE m + 1 \in S
  <2> SUFFICES ASSUME (j + 1) + (m + 1) <= n PROVE Over((j + 1) + (m + 1))
    OBVIOUS
  <2> DEFINE k == (j + 1) + m
  <2>1. /\ k <= n /\ k + 1 \in 1..n /\ (k + 1) - 1 = k /\ k \in 0..(n - 1)
        /\ (j + 1) + (m + 1) = k + 1 /\ k \in (j + 1)..MaxGroups
    BY <1>1, SMT
  <2>2. Over(k)
    BY <1>4, <2>1
  <2> HIDE DEF k
  <2>3. PICK r \in Nat : f[k] = f[j + 1] + (big * r)
    BY <2>2 DEF Over
  <2>4. f[k + 1] = f[k] + (g[k] * Shift[k]) /\ g[k] \in Nat
    BY <2>1 DEF Sums, Groupings
  <2>5. PICK c \in Nat : Shift[k] = big * c
    BY <1>1, <2>1, ShiftsDivide
  <2>6. f[j + 1] \in Nat
    BY <1>1
  <2>7. f[k + 1] = f[j + 1] + (big * (r + (g[k] * c))) /\ r + (g[k] * c) \in Nat
    <3> DEFINE d == g[k]
               a == f[j + 1]
    <3>1. f[k + 1] = (a + (big * r)) + (d * (big * c)) /\ d \in Nat /\ a \in Nat
      BY <2>3, <2>4, <2>5, <2>6
    <3> HIDE DEF d, a, big
    <3>2. d * (big * c) = big * (d * c) /\ big * (r + (d * c)) = (big * r) + (big * (d * c))
      BY <1>2, <3>1, SMT
    <3>3. d * c \in Nat /\ big * r \in Nat /\ big * (d * c) \in Nat
      BY <1>2, <3>1, SMT
    <3>4. f[k + 1] = a + (big * (r + (d * c)))
      BY <3>1, <3>2, <3>3, SMT
    <3>5. r + (d * c) \in Nat
      BY <3>3
    <3> QED
      BY <3>4, <3>5 DEF d, a
  <2> QED
    BY <2>1, <2>7 DEF Over
<1> HIDE DEF S
<1>5. Nat \subseteq S
  BY <1>3, <1>4, EveryNumber
<1>6. Over(n)
  <2>1. n - (j + 1) \in Nat /\ (j + 1) + (n - (j + 1)) = n /\ n <= n
    BY <1>1, SMT
  <2> QED
    BY <1>5, <2>1 DEF S
<1>7. PICK r \in Nat : f[n] = f[j + 1] + (big * r)
  BY <1>6 DEF Over
<1>8. /\ f[j + 1] = f[j] + (g[j] * Shift[j]) /\ f[j] \in Nat /\ f[j] < Shift[j]
      /\ g[j] \in 0..(Group - 1) /\ Shift[j] \in Nat /\ big = Group * Shift[j]
  BY <1>1, SumsStayBelow, Shifts DEF Sums, Groupings
<1> DEFINE a == f[j]
           d == g[j]
           s == Shift[j]
           v == f[n]
<1>9. a \in Nat /\ s \in Nat /\ a < s /\ d \in Nat /\ d < Group
  BY <1>1, <1>8
<1>10. v = (a + (d * s)) + ((Group * s) * r)
  BY <1>7, <1>8
<1> HIDE DEF a, d, s, v
<1>11. v = (s * (d + (Group * r))) + a /\ d + (Group * r) \in Nat
  <2> DEFINE x == s * d
             y == Group * r
             z == s * y
  <2>1. (Group * s) * r = z /\ d * s = x /\ s * (d + y) = x + z
    BY <1>1, <1>9, SMT
  <2>2. x \in Nat /\ y \in Nat /\ z \in Nat
    BY <1>1, <1>9, SMT
  <2> HIDE DEF x, z
  <2>3. v = (a + x) + z
    BY <1>10, <2>1
  <2>4. v = (x + z) + a
    BY <1>9, <2>2, <2>3, SMT
  <2>5. d + y \in Nat
    BY <1>9, <2>2
  <2> QED
    BY <2>1, <2>4, <2>5
<1>12. v \div s = d + (Group * r)
  BY <1>9, <1>11, Divided
<1>13. (d + (Group * r)) % Group = d
  <2> DEFINE w == d + (Group * r)
  <2>1. w = (Group * r) + d
    BY <1>1, <1>9, SMT
  <2> HIDE DEF w
  <2>2. w % Group = d
    BY <1>1, <1>9, <2>1, Divided
  <2> QED
    BY <2>2 DEF w
<1>14. (v \div s) % Group = d
  BY <1>12, <1>13
<1> QED
  BY <1>14 DEF v, s, d

\* What is left of a number above a place, and the group at that place, are what is left of it
\* above the next place.
LEMMA OneGroupMore ==
  ASSUME NEW v \in Nat, NEW k \in 0..(MaxGroups - 1)
  PROVE  v % Shift[k + 1] = (v % Shift[k]) + (((v \div Shift[k]) % Group) * Shift[k])
<1>1. /\ Group \in Nat /\ Group > 1 /\ MaxGroups \in Nat /\ k \in 0..MaxGroups /\ k \in Nat
      /\ k + 1 \in 1..MaxGroups /\ (k + 1) - 1 = k
  BY VarintAssumption, SMT
<1>2. Shift[k + 1] = Group * Shift[k] /\ Shift[k] \in Nat /\ 1 <= Shift[k]
  <2>1. Shift[k + 1] = Group * Shift[k] /\ Shift[k] \in Nat
    BY <1>1, Shifts
  <2>2. k \in k..MaxGroups
    BY <1>1, SMT
  <2>3. 1 <= Shift[k]
    BY <1>1, <2>2, ShiftsDivide
  <2> QED
    BY <2>1, <2>3
<1> DEFINE s == Shift[k]
           q == v \div s
           a == v % s
           r == q \div Group
           d == q % Group
<1>3. s \in Nat /\ 1 <= s
  BY <1>2
<1> HIDE DEF s
<1>4. q \in Nat /\ a \in Nat /\ a < s /\ v = (s * q) + a
  BY <1>3, SMT
<1> HIDE DEF q, a
<1>5. r \in Nat /\ d \in Nat /\ d < Group /\ q = (Group * r) + d
  BY <1>1, <1>4, SMT
<1> HIDE DEF r, d
<1> DEFINE big == Group * s
           rest == a + (d * s)
<1>6. big \in Nat /\ rest \in Nat /\ rest < big
  <2>1. d <= Group - 1 /\ Group - 1 \in Nat
    BY <1>1, <1>5, SMT
  <2>2. d * s <= (Group - 1) * s /\ d * s \in Nat
    BY <1>3, <1>5, <2>1, Products
  <2>3. (Group - 1) * s = big - s /\ big \in Nat
    BY <1>1, <1>3, SMT
  <2> QED
    BY <1>3, <1>4, <2>2, <2>3, SMT
<1>7. v = (big * r) + rest
  <2> DEFINE x == s * d
             y == Group * r
             z == s * y
  <2>1. big * r = z /\ d * s = x /\ s * (y + d) = z + x
    BY <1>1, <1>3, <1>5, SMT
  <2>2. x \in Nat /\ y \in Nat /\ z \in Nat
    BY <1>1, <1>3, <1>5, SMT
  <2>3. s * q = z + x
    BY <1>5, <2>1
  <2> HIDE DEF x, z
  <2>4. v = (z + x) + a
    BY <1>4, <2>3
  <2>5. v = z + (a + x)
    BY <1>4, <2>2, <2>4, SMT
  <2> QED
    BY <2>1, <2>5
<1> HIDE DEF big, rest
<1>8. v % big = rest
  BY <1>5, <1>6, <1>7, Divided
<1> QED
  BY <1>2, <1>8 DEF big, rest, a, d, q, s

\* A number is the sum of its groups.
LEMMA DigitsSum ==
  ASSUME NEW n \in 0..MaxGroups, NEW g \in Groupings(n), NEW f \in [0..n -> Nat], Sums(f, g, n),
         NEW v \in Nat, v < Shift[n], \A j \in 0..(n - 1) : g[j] = (v \div Shift[j]) % Group
  PROVE  f[n] = v
<1>1. Group \in Nat /\ Group > 1 /\ MaxGroups \in Nat /\ n \in Nat /\ n <= MaxGroups
  BY VarintAssumption, SMT
<1> DEFINE S == {k \in Nat : k <= n => f[k] = v % Shift[k]}
<1>2. 0 \in S
  <2>1. f[0] = 0 /\ Shift[0] = 1
    BY Shifts DEF Sums
  <2>2. v % 1 = 0
    BY SMT
  <2> QED
    BY <2>1, <2>2
<1>3. ASSUME NEW k \in Nat, k \in S PROVE k + 1 \in S
  <2> SUFFICES ASSUME k + 1 <= n PROVE f[k + 1] = v % Shift[k + 1]
    OBVIOUS
  <2>1. /\ k <= n /\ k \in 0..(n - 1) /\ k + 1 \in 1..n /\ (k + 1) - 1 = k
        /\ k \in 0..(MaxGroups - 1)
    BY <1>1, SMT
  <2>2. f[k] = v % Shift[k]
    BY <1>3, <2>1
  <2>3. f[k + 1] = f[k] + (g[k] * Shift[k])
    BY <2>1 DEF Sums
  <2>4. v % Shift[k + 1] = (v % Shift[k]) + (((v \div Shift[k]) % Group) * Shift[k])
    BY <2>1, OneGroupMore
  <2>5. g[k] = (v \div Shift[k]) % Group
    BY <2>1
  <2> QED
    BY <2>2, <2>3, <2>4, <2>5, Zenon
<1> HIDE DEF S
<1>4. Nat \subseteq S
  BY <1>2, <1>3, EveryNumber
<1>5. f[n] = v % Shift[n]
  BY <1>1, <1>4 DEF S
<1>6. v % Shift[n] = v
  <2> DEFINE s == Shift[n]
  <2>1. s \in Nat /\ v < s
    BY Shifts
  <2> HIDE DEF s
  <2>2. v % s = v
    BY ONLY <2>1, v \in Nat, SMT
  <2> QED
    BY <2>2 DEF s
<1> QED
  BY <1>5, <1>6

\* The number a field makes is the sum of its bytes' groups.
LEMMA PayloadSums ==
  ASSUME NEW bytes \in Seq(Byte), NEW start \in Nat, NEW n \in 0..MaxGroups,
         start + n <= Len(bytes)
  PROVE  \E g \in Groupings(n), f \in [0..n -> Nat] :
           /\ Sums(f, g, n) /\ Payload(bytes, start, n) = f[n]
           /\ \A i \in 0..(n - 1) : g[i] = ByteAt(bytes, start + i) % Group
<1>1. Group \in Nat /\ Group > 1 /\ MaxGroups \in Nat /\ n \in Nat /\ n <= MaxGroups
  BY VarintAssumption, SMT
<1> DEFINE g == [i \in 0..(n - 1) |-> ByteAt(bytes, start + i) % Group]
<1>2. ASSUME NEW i \in 0..(n - 1)
      PROVE  /\ ByteAt(bytes, start + i) \in Byte
             /\ ByteAt(bytes, start + i) % Group \in 0..(Group - 1)
  <2>1. (start + i) + 1 \in 1..Len(bytes)
    BY <1>1, SMT
  <2>2. bytes[(start + i) + 1] \in Byte
    BY <2>1
  <2> DEFINE b == bytes[(start + i) + 1]
  <2>3. b \in Nat
    BY <1>1, <2>2 DEF Byte
  <2> HIDE DEF b
  <2>4. b % Group \in 0..(Group - 1)
    BY <1>1, <2>3, SMT
  <2> QED
    BY <2>2, <2>4 DEF b, ByteAt
<1>3. g \in Groupings(n)
  BY <1>2 DEF Groupings
<1> DEFINE next == [i \in 1..n |-> [x \in Nat |->
                     x + ((ByteAt(bytes, start + i - 1) % Group) * Shift[i - 1])]]
<1>4. next \in [1..n -> [Nat -> Nat]]
  <2> SUFFICES ASSUME NEW i \in 1..n, NEW x \in Nat
               PROVE  x + ((ByteAt(bytes, start + i - 1) % Group) * Shift[i - 1]) \in Nat
    OBVIOUS
  <2>1. i - 1 \in 0..(n - 1) /\ i - 1 \in 0..MaxGroups /\ start + i - 1 = start + (i - 1)
    BY <1>1, SMT
  <2> DEFINE a == ByteAt(bytes, start + i - 1) % Group
             s == Shift[i - 1]
  <2>2. a \in Nat /\ s \in Nat
    <3>1. ByteAt(bytes, start + (i - 1)) % Group \in 0..(Group - 1)
      BY <1>2, <2>1
    <3>2. a \in 0..(Group - 1)
      BY <2>1, <3>1, Zenon
    <3>3. a \in Nat
      BY <1>1, <3>2, SMT
    <3> QED
      BY <2>1, <3>3, Shifts
  <2> HIDE DEF a, s
  <2>3. x + (a * s) \in Nat
    BY <2>2
  <2> QED
    BY <2>3 DEF a, s
<1> HIDE DEF next
<1>5. PICK h \in [0..n -> Nat] : Unrolls(h, n, 0, next)
  BY <1>1, <1>4, ByRecursion
<1>6. h[0] = 0 /\ \A i \in 1..n :
        h[i] = h[i - 1] + ((ByteAt(bytes, start + i - 1) % Group) * Shift[i - 1])
  <2>1. ASSUME NEW i \in 1..n
        PROVE  h[i] = h[i - 1] + ((ByteAt(bytes, start + i - 1) % Group) * Shift[i - 1])
    <3>1. h[i] = next[i][h[i - 1]] /\ h[i - 1] \in Nat
      BY <1>1, <1>5 DEF Unrolls
    <3> QED
      BY <3>1 DEF next
  <2> QED
    BY <1>5, <2>1 DEF Unrolls
<1>7. \E f : f = [i \in 0..n |-> IF i = 0 THEN 0
                 ELSE f[i - 1] + ((ByteAt(bytes, start + i - 1) % Group) * Shift[i - 1])]
  <2>1. h = [i \in 0..n |-> IF i = 0 THEN 0
              ELSE h[i - 1] + ((ByteAt(bytes, start + i - 1) % Group) * Shift[i - 1])]
    BY <1>1, <1>6, SMT
  <2> QED
    BY <2>1
<1>8. PICK f : /\ Payload(bytes, start, n) = f[n]
               /\ f = [i \in 0..n |-> IF i = 0 THEN 0
                 ELSE f[i - 1] + ((ByteAt(bytes, start + i - 1) % Group) * Shift[i - 1])]
  BY <1>7, Zenon DEF Payload
<1>9. f[0] = 0 /\ \A i \in 1..n :
        f[i] = f[i - 1] + ((ByteAt(bytes, start + i - 1) % Group) * Shift[i - 1])
  <2>1. 0 \in 0..n /\ \A i \in 1..n : i \in 0..n /\ i # 0
    BY <1>1, SMT
  <2> QED
    BY <1>8, <2>1, Zenon
<1>10. \A i \in 1..n : f[i] = f[i - 1] + (g[i - 1] * Shift[i - 1])
  <2> TAKE i \in 1..n
  <2>1. i - 1 \in 0..(n - 1) /\ start + i - 1 = start + (i - 1)
    BY <1>1, SMT
  <2>2. g[i - 1] = ByteAt(bytes, start + i - 1) % Group
    BY <2>1, Zenon
  <2> QED
    BY <1>9, <2>2, Zenon
<1> HIDE DEF g
<1>11. Sums(f, g, n)
  BY <1>9, <1>10 DEF Sums
<1> DEFINE S == {k \in Nat : k <= n => f[k] \in Nat}
<1>12. 0 \in S
  BY <1>9
<1>13. ASSUME NEW k \in Nat, k \in S PROVE k + 1 \in S
  <2> SUFFICES ASSUME k + 1 <= n PROVE f[k + 1] \in Nat
    OBVIOUS
  <2>1. k <= n /\ k \in 0..(n - 1) /\ k + 1 \in 1..n /\ (k + 1) - 1 = k /\ k \in 0..MaxGroups
    BY <1>1, SMT
  <2>2. f[k] \in Nat /\ g[k] \in Nat /\ Shift[k] \in Nat
    <3>1. g[k] \in 0..(Group - 1)
      BY <1>3, <2>1 DEF Groupings
    <3>2. g[k] \in Nat
      BY <1>1, <3>1, SMT
    <3> QED
      BY <1>13, <2>1, <3>2, Shifts
  <2>3. f[k + 1] = f[k] + (g[k] * Shift[k])
    BY <1>10, <2>1
  <2> DEFINE a == f[k]
             b == g[k]
             s == Shift[k]
  <2> HIDE DEF a, b, s
  <2>4. a \in Nat /\ b \in Nat /\ s \in Nat
    BY <2>2 DEF a, b, s
  <2>5. a + (b * s) \in Nat
    BY <2>4, SMT
  <2> QED
    BY <2>3, <2>5 DEF a, b, s
<1> HIDE DEF S
<1>14. Nat \subseteq S
  BY <1>12, <1>13, EveryNumber
<1>15. f \in [0..n -> Nat]
  <2>1. \A k \in 0..n : f[k] \in Nat
    BY <1>1, <1>14 DEF S
  <2> QED
    BY <1>8, <2>1
<1>16. \A i \in 0..(n - 1) : g[i] = ByteAt(bytes, start + i) % Group
  BY DEF g
<1> QED
  BY <1>3, <1>8, <1>11, <1>15, <1>16

\* The quotient of a smaller number is no larger.
LEMMA Quotients ==
  ASSUME NEW s \in Nat, 1 <= s, NEW v \in Nat, NEW t \in Nat, v <= t
  PROVE  v \div s \in Nat /\ t \div s \in Nat /\ v \div s <= t \div s
<1> DEFINE p == v \div s
           q == t \div s
           a == v % s
           b == t % s
<1>1. p \in Nat /\ a \in Nat /\ a < s /\ v = (s * p) + a
  BY SMT
<1>2. q \in Nat /\ b \in Nat /\ b < s /\ t = (s * q) + b
  BY SMT
<1> HIDE DEF p, q, a, b
<1>3. ASSUME q < p PROVE FALSE
  <2>1. p - (q + 1) \in Nat /\ q + 1 \in Nat
    BY <1>1, <1>2, <1>3, SMT
  <2>2. q + 1 <= p
    BY <1>1, <1>2, <1>3, SMT
  <2>3. (q + 1) * s <= p * s
    BY <1>1, <2>1, <2>2, Products
  <2>4. (q + 1) * s = (s * q) + s /\ p * s = s * p
    BY <1>1, <1>2, SMT
  <2> DEFINE x == s * q
             y == s * p
  <2>5. x \in Nat /\ y \in Nat
    BY <1>1, <1>2, SMT
  <2>6. x + s <= y /\ v = y + a /\ t = x + b
    BY <1>1, <1>2, <2>3, <2>4
  <2> HIDE DEF x, y
  <2> QED
    BY <1>1, <1>2, <2>5, <2>6, SMT
<1>4. p <= q
  BY <1>1, <1>2, <1>3, SMT
<1> QED
  BY <1>1, <1>2, <1>4 DEF p, q

\* A last byte that is not too large leaves room for any groups below it.
LEMMA RoomBelow ==
  ASSUME NEW i \in 0..(MaxGroups - 1), NEW d \in Nat, d <= Top \div Shift[i],
         NEW a \in Nat, a < Shift[i]
  PROVE  a + (d * Shift[i]) <= Top
<1>1. Group \in Nat /\ MaxGroups \in Nat /\ i \in 0..MaxGroups /\ Top \in Nat
  BY VarintAssumption, SMT
<1> DEFINE s == Shift[i]
           q == Top \div s
           b == Top % s
<1>2. s \in Nat /\ a < s /\ (Top + 1) % s = 0 /\ d <= q
  BY <1>1, Shifts, VarintAssumption
<1> HIDE DEF s
<1>3. q \in Nat /\ b \in Nat /\ b < s /\ Top = (s * q) + b
  BY <1>1, <1>2, SMT
<1> HIDE DEF q, b
<1>4. b = s - 1
  <2> SUFFICES ASSUME b # s - 1 PROVE FALSE
    OBVIOUS
  <2>1. b + 1 < s /\ b + 1 \in Nat
    BY <1>2, <1>3, SMT
  <2> DEFINE w == Top + 1
             x == s * q
  <2>2. w = x + (b + 1)
    <3>1. x \in Nat
      BY <1>2, <1>3, SMT
    <3>2. Top = x + b
      BY <1>3
    <3> HIDE DEF x
    <3> QED
      BY <1>3, <3>1, <3>2, SMT
  <2> DEFINE c == b + 1
  <2>5. c \in Nat /\ c < s /\ w = (s * q) + c /\ s \in Nat /\ q \in Nat
    BY <1>2, <1>3, <2>1, <2>2
  <2> HIDE DEF w, c
  <2>6. w % s = c
    BY ONLY <2>5, Divided
  <2>3. w % s = b + 1
    BY <2>6 DEF c
  <2>4. w % s = 0
    BY <1>2 DEF w
  <2> QED
    BY <1>3, <2>3, <2>4
<1>5. d * s <= q * s /\ d * s \in Nat
  BY <1>2, <1>3, Products
<1> DEFINE x == s * q
           y == d * s
<1>6. y <= x /\ y \in Nat /\ x \in Nat /\ Top = x + b
  <2>1. q * s = s * q /\ s * q \in Nat
    BY <1>2, <1>3, SMT
  <2> QED
    BY <1>3, <1>5, <2>1, Zenon
<1> HIDE DEF x, y
<1>7. a + y <= Top
  BY <1>2, <1>3, <1>4, <1>6, SMT
<1> QED
  BY <1>7 DEF y, s

\* As many groups as the number needs.
LEMMA GroupsNeeded ==
  ASSUME NEW v \in Nat, v < Shift[MaxGroups]
  PROVE  /\ GroupsOf(v) \in 1..MaxGroups /\ v < Shift[GroupsOf(v)]
         /\ \A j \in 1..(GroupsOf(v) - 1) : v >= Shift[j]
<1>1. MaxGroups \in Nat \ {0}
  BY VarintAssumption
<1> DEFINE T == {k \in 1..MaxGroups : v < Shift[k]}
<1>2. T \subseteq Nat /\ T # {}
  <2>1. MaxGroups \in 1..MaxGroups
    BY <1>1
  <2>2. MaxGroups \in T
    BY <2>1
  <2> QED
    BY <1>1, <2>2
<1>3. PICK k \in T : \A j \in T : k <= j
  BY <1>2, LeastOfNumbers
<1>4. k \in 1..MaxGroups /\ v < Shift[k] /\ \A j \in 1..(k - 1) : v >= Shift[j]
  <2>1. k \in 1..MaxGroups /\ v < Shift[k]
    OBVIOUS
  <2>2. ASSUME NEW j \in 1..(k - 1) PROVE v >= Shift[j]
    <3>1. j \in 1..MaxGroups /\ ~(k <= j) /\ j \in 0..MaxGroups
      BY <1>1, <2>1, SMT
    <3>2. ~(v < Shift[j]) /\ Shift[j] \in Nat
      BY <1>3, <3>1, Shifts
    <3> QED
      BY <3>2
  <2> QED
    BY <2>1, <2>2
<1> HIDE DEF T
<1> QED
  BY <1>4, Zenon DEF GroupsOf

\* No other number of groups will do.
LEMMA GroupsFound ==
  ASSUME NEW v \in Nat, NEW n \in 1..MaxGroups, v < Shift[n],
         \A j \in 1..(n - 1) : v >= Shift[j]
  PROVE  GroupsOf(v) = n
<1>1. MaxGroups \in Nat /\ n \in Nat /\ \A j \in 0..MaxGroups : Shift[j] \in Nat
  <2>1. MaxGroups \in Nat
    BY VarintAssumption
  <2>2. n \in Nat
    BY <2>1
  <2> QED
    BY <2>1, <2>2, Shifts
<1>2. ASSUME NEW k \in 1..MaxGroups, v < Shift[k], \A j \in 1..(k - 1) : v >= Shift[j]
      PROVE  k = n
  <2>1. CASE k < n
    <3>1. k \in 1..(n - 1) /\ k \in 0..MaxGroups
      BY <1>1, <2>1, SMT
    <3> QED
      BY <1>1, <1>2, <3>1
  <2>2. CASE n < k
    <3>1. n \in 1..(k - 1) /\ n \in 0..MaxGroups
      BY <1>1, <2>2, SMT
    <3> QED
      BY <1>1, <1>2, <3>1
  <2> QED
    BY <1>1, <2>1, <2>2, SMT
<1>3. \E k \in 1..MaxGroups : v < Shift[k] /\ \A j \in 1..(k - 1) : v >= Shift[j]
  OBVIOUS
<1>4. GroupsOf(v) \in 1..MaxGroups /\ v < Shift[GroupsOf(v)]
      /\ \A j \in 1..(GroupsOf(v) - 1) : v >= Shift[j]
  BY <1>3, Zenon DEF GroupsOf
<1> QED
  BY <1>2, <1>4, Zenon

\* The byte read_uleb128's loop does not go on from.
StopsAt(bytes, start, i) ==
  /\ i < MaxGroups => ~GoesOn(bytes, start, i)
  /\ \A j \in 0..(i - 1) : GoesOn(bytes, start, j)

\* What it says there.
ReadingAt(bytes, start, i) ==
  IF \/ i = MaxGroups \/ ~Has(bytes, start + i)
     \/ IsTooLarge(ByteAt(bytes, start + i) % Group, i)
     \/ IsOverlong(ByteAt(bytes, start + i), i)
  THEN Corrupt(start + i)
  ELSE Read(Payload(bytes, start, i + 1), start + i + 1)

LEMMA StopsOnce ==
  ASSUME NEW bytes, NEW start
  PROVE  \E i \in 0..MaxGroups : StopsAt(bytes, start, i)
<1>1. MaxGroups \in Nat
  BY VarintAssumption
<1> DEFINE T == {i \in 0..MaxGroups : i < MaxGroups => ~GoesOn(bytes, start, i)}
<1>2. T \subseteq Nat /\ T # {}
  <2>1. MaxGroups \in T
    BY <1>1
  <2> QED
    BY <1>1, <2>1
<1>3. PICK i \in T : \A j \in T : i <= j
  BY <1>2, LeastOfNumbers
<1>4. ASSUME NEW j \in 0..(i - 1) PROVE GoesOn(bytes, start, j)
  <2>1. j \in 0..MaxGroups /\ ~(i <= j)
    BY <1>1, <1>3, SMT
  <2> QED
    BY <1>3, <2>1
<1> QED
  BY <1>3, <1>4 DEF StopsAt

LEMMA ReadWhereItStops ==
  ASSUME NEW bytes, NEW start, NEW i \in 0..MaxGroups, StopsAt(bytes, start, i)
  PROVE  ReadUleb(bytes, start) = ReadingAt(bytes, start, i)
<1>1. MaxGroups \in Nat
  BY VarintAssumption
<1>2. ASSUME NEW k \in 0..MaxGroups, StopsAt(bytes, start, k) PROVE k = i
  <2>1. CASE k < i
    <3>1. k \in 0..(i - 1) /\ k < MaxGroups
      BY <1>1, <2>1, SMT
    <3> QED
      BY <1>2, <3>1 DEF StopsAt
  <2>2. CASE i < k
    <3>1. i \in 0..(k - 1) /\ i < MaxGroups
      BY <1>1, <2>2, SMT
    <3> QED
      BY <1>2, <3>1 DEF StopsAt
  <2> QED
    BY <1>1, <2>1, <2>2, SMT
<1> DEFINE last == CHOOSE k \in 0..MaxGroups :
                /\ k < MaxGroups => ~GoesOn(bytes, start, k)
                /\ \A j \in 0..(k - 1) : GoesOn(bytes, start, j)
<1>3. last = i
  BY <1>2, Zenon DEF StopsAt
<1>4. ReadUleb(bytes, start) = ReadingAt(bytes, start, last)
  BY Zenon DEF ReadUleb, ReadingAt
<1> QED
  BY <1>3, <1>4

\* A byte is a group and whether others follow.
LEMMA GroupAndBit ==
  ASSUME NEW b \in Byte
  PROVE  /\ b % Group \in 0..(Group - 1) /\ b \in Nat
         /\ b < Group => b % Group = b
         /\ b >= Group => b = (b % Group) + Group
<1>1. Group \in Nat /\ Group > 1 /\ b \in Nat /\ b < 2 * Group
  BY VarintAssumption, SMT DEF Byte
<1>2. b % Group \in 0..(Group - 1)
  BY ONLY <1>1, SMT
<1>3. ASSUME b < Group PROVE b % Group = b
  BY ONLY <1>1, <1>3, SMT
<1>4. ASSUME b >= Group PROVE b = (b % Group) + Group
  <2> DEFINE d == b - Group
  <2>1. d \in Nat /\ d < Group /\ b = (Group * 1) + d /\ 1 \in Nat
    BY <1>1, <1>4, SMT
  <2> HIDE DEF d
  <2>2. b % Group = d
    BY ONLY <1>1, <2>1, Divided
  <2> QED
    BY <1>1, <2>1, <2>2
<1> QED
  BY <1>1, <1>2, <1>3, <1>4

LEMMA GroupWithBit ==
  ASSUME NEW d \in 0..(Group - 1)
  PROVE  /\ d \in Byte /\ d % Group = d /\ d < Group
         /\ d + Group \in Byte /\ (d + Group) % Group = d /\ d + Group >= Group
<1>1. Group \in Nat /\ Group > 1 /\ d \in Nat /\ d < Group
  BY VarintAssumption, SMT
<1>2. d \in Byte /\ d + Group \in Byte /\ d + Group >= Group
  BY <1>1, SMT DEF Byte
<1>3. d % Group = d
  BY ONLY <1>1, SMT
<1> DEFINE b == d + Group
<1>4. b = (Group * 1) + d /\ 1 \in Nat
  BY <1>1, SMT
<1> HIDE DEF b
<1>5. b % Group = d
  BY ONLY <1>1, <1>4, Divided
<1> QED
  BY <1>1, <1>2, <1>3, <1>5 DEF b

\* The field written for v is at this offset.
Carries(bytes, start, v) ==
  /\ start + GroupsOf(v) <= Len(bytes)
  /\ \A i \in 1..GroupsOf(v) : bytes[start + i] = WriteUleb(v)[i]

\* The group of a number at this place.
Digit(v, j) == (v \div Shift[j]) % Group

LEMMA WrittenBytes ==
  ASSUME NEW v \in Nat, v < Shift[MaxGroups], NEW j \in 0..(GroupsOf(v) - 1)
  PROVE  /\ Digit(v, j) \in 0..(Group - 1)
         /\ WriteUleb(v)[j + 1] =
              IF j = GroupsOf(v) - 1 THEN Digit(v, j) ELSE Digit(v, j) + Group
<1>1. Group \in Nat /\ Group > 1 /\ MaxGroups \in Nat
  BY VarintAssumption
<1> DEFINE n == GroupsOf(v)
<1>2. n \in 1..MaxGroups
  BY GroupsNeeded
<1> HIDE DEF n
<1>3. j \in 0..(n - 1)
  BY DEF n
<1>4. n \in Nat /\ j \in 0..MaxGroups /\ j + 1 \in 1..n /\ (j + 1) - 1 = j /\ j \in Nat
  BY <1>1, <1>2, <1>3, SMT
<1>5. Digit(v, j) \in 0..(Group - 1)
  <2> DEFINE s == Shift[j]
             q == v \div s
  <2>1. j \in j..MaxGroups
    BY <1>1, <1>4, SMT
  <2>2. s \in Nat /\ 1 <= s
    BY <1>4, <2>1, ShiftsDivide
  <2> HIDE DEF s
  <2>3. q \in Nat
    BY ONLY v \in Nat, <2>2, SMT
  <2> HIDE DEF q
  <2>4. q % Group \in 0..(Group - 1)
    BY ONLY <1>1, <2>3, SMT
  <2> QED
    BY <2>4 DEF Digit, q, s
<1>6. WriteUleb(v) = [i \in 1..n |-> Digit(v, i - 1) + (IF i < n THEN Group ELSE 0)]
  BY Zenon DEF WriteUleb, Digit, n
<1>7. WriteUleb(v)[j + 1] = Digit(v, j) + (IF j + 1 < n THEN Group ELSE 0)
  BY <1>4, <1>6
<1>8. WriteUleb(v)[j + 1] = IF j = n - 1 THEN Digit(v, j) ELSE Digit(v, j) + Group
  <2> DEFINE d == Digit(v, j)
  <2>1. d \in Nat
    BY <1>1, <1>5, SMT
  <2>2. WriteUleb(v)[j + 1] = d + (IF j + 1 < n THEN Group ELSE 0)
    BY <1>7
  <2> HIDE DEF d
  <2>3. CASE j = n - 1
    <3>1. ~(j + 1 < n) /\ d + 0 = d
      BY <1>4, <2>1, <2>3, SMT
    <3> QED
      BY <2>2, <2>3, <3>1, Zenon DEF d
  <2>4. CASE j # n - 1
    <3>1. j + 1 < n
      BY <1>1, <1>3, <1>4, <2>4, SMT
    <3> QED
      BY <2>2, <2>4, <3>1, Zenon DEF d
  <2> QED
    BY <2>3, <2>4
<1> QED
  BY <1>5, <1>8 DEF n

\* The field written for a number is read as that number.
LEMMA FieldIsRead ==
  ASSUME NEW v \in 0..Top, NEW bytes \in Seq(Byte), NEW start \in Nat, Carries(bytes, start, v)
  PROVE  ReadUleb(bytes, start) = Read(v, start + GroupsOf(v))
<1>1. Group \in Nat /\ Group > 1 /\ MaxGroups \in Nat /\ Top \in Nat /\ v \in Nat /\ v <= Top
  BY VarintAssumption, SMT
<1>2. v < Shift[MaxGroups]
  <2>1. MaxGroups \in 0..MaxGroups
    BY <1>1
  <2>2. Shift[MaxGroups] \in Nat /\ Top < Shift[MaxGroups]
    BY <2>1, Shifts, VarintAssumption
  <2> QED
    BY <1>1, <2>2, SMT
<1> DEFINE n == GroupsOf(v)
<1>3. n \in 1..MaxGroups /\ v < Shift[n] /\ \A j \in 1..(n - 1) : v >= Shift[j]
  BY <1>1, <1>2, GroupsNeeded
<1>4. start + n <= Len(bytes) /\ \A i \in 1..n : bytes[start + i] = WriteUleb(v)[i]
  BY DEF Carries
<1>5. \A j \in 0..(n - 1) :
        /\ Digit(v, j) \in 0..(Group - 1)
        /\ WriteUleb(v)[j + 1] = IF j = n - 1 THEN Digit(v, j) ELSE Digit(v, j) + Group
  BY <1>1, <1>2, WrittenBytes
<1> HIDE DEF n
<1>6. n \in Nat /\ n - 1 \in 0..MaxGroups /\ n - 1 \in 0..(n - 1) /\ n \in 0..MaxGroups
      /\ n - 1 < MaxGroups /\ (n - 1) + 1 = n
  BY <1>1, <1>3, SMT
<1>7. ASSUME NEW j \in 0..(n - 1)
      PROVE  /\ Has(bytes, start + j)
             /\ ByteAt(bytes, start + j) = IF j = n - 1 THEN Digit(v, j) ELSE Digit(v, j) + Group
             /\ ByteAt(bytes, start + j) % Group = Digit(v, j)
             /\ ~IsTooLarge(Digit(v, j), j)
  <2>1. /\ j + 1 \in 1..n /\ (start + j) + 1 = start + (j + 1) /\ j \in 0..MaxGroups
        /\ start + j < Len(bytes) /\ j \in j..MaxGroups /\ j \in Nat
    BY <1>1, <1>3, <1>4, <1>6, SMT
  <2>2. ByteAt(bytes, start + j) = IF j = n - 1 THEN Digit(v, j) ELSE Digit(v, j) + Group
    BY <1>4, <1>5, <2>1 DEF ByteAt
  <2>3. ByteAt(bytes, start + j) % Group = Digit(v, j)
    <3> DEFINE d == Digit(v, j)
    <3>1. d \in 0..(Group - 1)
      BY <1>5
    <3>2. ByteAt(bytes, start + j) = d \/ ByteAt(bytes, start + j) = d + Group
      BY <2>2
    <3> HIDE DEF d
    <3>3. d % Group = d /\ (d + Group) % Group = d
      BY <3>1, GroupWithBit
    <3>4. ByteAt(bytes, start + j) % Group = d
      BY <3>2, <3>3, Zenon
    <3> QED
      BY <3>4 DEF d
  <2>4. ~IsTooLarge(Digit(v, j), j)
    <3> DEFINE s == Shift[j]
               q == v \div s
               t == Top \div s
    <3>1. s \in Nat /\ 1 <= s
      BY ONLY <2>1, ShiftsDivide
    <3> HIDE DEF s
    <3>2. q \in Nat /\ t \in Nat /\ q <= t
      BY <1>1, <3>1, Quotients
    <3> HIDE DEF q, t
    <3>3. q % Group <= q /\ q % Group \in Nat
      BY ONLY <1>1, <3>2, SMT
    <3>4. q % Group = Digit(v, j)
      BY DEF q, s, Digit
    <3>5. t = Top \div Shift[j]
      BY DEF t, s
    <3>6. Digit(v, j) <= t /\ Digit(v, j) \in Nat
      BY <3>2, <3>3, <3>4
    <3>7. ~(Digit(v, j) > t)
      BY <3>2, <3>6, SMT
    <3> QED
      BY <3>5, <3>7, Zenon DEF IsTooLarge
  <2> QED
    BY <2>1, <2>2, <2>3, <2>4 DEF Has
<1>8. ASSUME NEW j \in 0..((n - 1) - 1) PROVE GoesOn(bytes, start, j)
  <2>1. j \in 0..(n - 1) /\ j # n - 1
    BY <1>1, <1>6, SMT
  <2>2. ByteAt(bytes, start + j) = Digit(v, j) + Group
    BY <1>7, <2>1
  <2>3. ByteAt(bytes, start + j) >= Group
    BY <1>5, <2>1, <2>2, GroupWithBit
  <2>4. /\ Has(bytes, start + j)
        /\ ByteAt(bytes, start + j) % Group = Digit(v, j)
        /\ ~IsTooLarge(Digit(v, j), j)
    BY <1>7, <2>1
  <2> QED
    BY <2>3, <2>4, Zenon DEF GoesOn
<1> DEFINE b == ByteAt(bytes, start + (n - 1))
<1>9. /\ b = Digit(v, n - 1) /\ b % Group = b /\ b < Group /\ b \in Nat
      /\ Has(bytes, start + (n - 1)) /\ ~IsTooLarge(b % Group, n - 1)
  <2>1. /\ Has(bytes, start + (n - 1)) /\ b = Digit(v, n - 1)
        /\ b % Group = Digit(v, n - 1) /\ ~IsTooLarge(Digit(v, n - 1), n - 1)
    BY <1>6, <1>7
  <2>2. Digit(v, n - 1) \in 0..(Group - 1)
    BY <1>5, <1>6
  <2> HIDE DEF b
  <2>3. b < Group /\ b \in Nat
    BY <1>1, <2>1, <2>2, SMT
  <2> QED
    BY <2>1, <2>3
<1>10. ~GoesOn(bytes, start, n - 1)
  <2> HIDE DEF b
  <2>1. ~(b >= Group)
    BY <1>1, <1>9, SMT
  <2> QED
    BY <2>1, Zenon DEF GoesOn, b
<1>11. ReadUleb(bytes, start) = ReadingAt(bytes, start, n - 1)
  <2>1. StopsAt(bytes, start, n - 1)
    BY <1>8, <1>10 DEF StopsAt
  <2> QED
    BY <1>6, <2>1, ReadWhereItStops
<1>12. ~IsOverlong(b, n - 1)
  <2> SUFFICES ASSUME n - 1 > 0 PROVE b # 0
    BY DEF IsOverlong
  <2>1. n - 1 \in 1..(n - 1) /\ n - 1 \in 0..MaxGroups /\ n \in 1..MaxGroups
        /\ n - 1 \in (n - 1)..MaxGroups
    BY <1>1, <1>3, <1>6, SMT
  <2> DEFINE s == Shift[n - 1]
             q == v \div s
  <2>2. s \in Nat /\ 1 <= s /\ v >= s /\ v < Group * s
    BY <1>3, <1>6, <2>1, Shifts, ShiftsDivide
  <2>3. b = q % Group
    BY <1>9 DEF Digit
  <2> HIDE DEF s, b
  <2>4. q \in Nat /\ v % s \in Nat /\ v % s < s /\ v = (s * q) + (v % s)
    BY ONLY v \in Nat, <2>2, SMT
  <2> DEFINE r == v % s
  <2> HIDE DEF q, r
  <2>5. 1 <= q
    <3>1. CASE q = 0
      <4>1. s * q = 0
        BY <2>2, <3>1, SMT
      <4> QED
        BY <2>2, <2>4, <4>1
    <3> QED
      BY <2>4, <3>1, SMT
  <2>6. q < Group
    <3> SUFFICES ASSUME Group <= q PROVE FALSE
      BY <1>1, <2>4, SMT
    <3>1. Group * s <= q * s /\ Group * s \in Nat /\ q * s \in Nat
      BY <1>1, <2>2, <2>4, Products
    <3>2. q * s = s * q
      BY <2>2, <2>4, SMT
    <3> DEFINE x == Group * s
               y == s * q
    <3>3. x <= y /\ x \in Nat /\ y \in Nat /\ v < x /\ v = y + (v % s)
      BY <2>2, <2>4, <3>1, <3>2
    <3> HIDE DEF x, y
    <3> QED
      BY <1>1, <2>4, <3>3, SMT
  <2>7. q % Group = q
    BY ONLY <1>1, <2>4, <2>6, SMT
  <2> QED
    BY <2>3, <2>4, <2>5, <2>7
<1>13. Payload(bytes, start, n) = v
  <2>1. PICK g \in Groupings(n), f \in [0..n -> Nat] :
          /\ Sums(f, g, n) /\ Payload(bytes, start, n) = f[n]
          /\ \A i \in 0..(n - 1) : g[i] = ByteAt(bytes, start + i) % Group
    BY <1>4, <1>6, PayloadSums
  <2>2. \A j \in 0..(n - 1) : g[j] = (v \div Shift[j]) % Group
    BY <1>7, <2>1 DEF Digit
  <2> QED
    BY <1>1, <1>3, <1>6, <2>1, <2>2, DigitsSum
<1>14. start + (n - 1) + 1 = start + n
  BY <1>6, SMT
<1>15. n - 1 # MaxGroups
  BY <1>1, <1>6, SMT
<1>16. ReadingAt(bytes, start, n - 1)
         = Read(Payload(bytes, start, (n - 1) + 1), start + (n - 1) + 1)
  BY <1>9, <1>12, <1>15, Zenon DEF ReadingAt, b
<1> QED
  BY <1>6, <1>11, <1>13, <1>14, <1>16 DEF n

\* A field that is accepted is the one written for its number.
LEMMA ReadIsWritten ==
  ASSUME NEW bytes \in Seq(Byte), NEW start \in Nat, ReadUleb(bytes, start).ok,
         NEW v, v = ReadUleb(bytes, start).value
  PROVE  /\ v \in 0..Top /\ Carries(bytes, start, v)
         /\ ReadUleb(bytes, start) = Read(v, start + GroupsOf(v))
<1>1. Group \in Nat /\ Group > 1 /\ MaxGroups \in Nat /\ Top \in Nat
  BY VarintAssumption, SMT
<1>2. PICK i \in 0..MaxGroups : StopsAt(bytes, start, i)
  BY StopsOnce
<1>3. ReadUleb(bytes, start) = ReadingAt(bytes, start, i)
  BY <1>2, ReadWhereItStops
<1> DEFINE n == i + 1
           b == ByteAt(bytes, start + i)
<1>4. /\ i # MaxGroups /\ Has(bytes, start + i) /\ ~IsTooLarge(b % Group, i) /\ ~IsOverlong(b, i)
      /\ ReadUleb(bytes, start) = Read(Payload(bytes, start, i + 1), start + i + 1)
  <2>1. ~Corrupt(start + i).ok
    BY DEF Corrupt
  <2>2. ReadingAt(bytes, start, i) # Corrupt(start + i)
    BY <1>3, <2>1
  <2> QED
    BY <1>3, <2>2, Zenon DEF ReadingAt
<1>5. v = Payload(bytes, start, i + 1)
  BY <1>4 DEF Read
<1>6. /\ i \in Nat /\ i < MaxGroups /\ i \in 0..(MaxGroups - 1) /\ n \in 1..MaxGroups
      /\ n \in 0..MaxGroups /\ i \in 0..(n - 1) /\ n - 1 = i /\ n \in Nat
      /\ start + i + 1 = start + n /\ start + n <= Len(bytes)
  <2>1. start + i < Len(bytes) /\ Len(bytes) \in Nat
    BY <1>4 DEF Has
  <2> QED
    BY <1>1, <1>4, <2>1, SMT
<1> HIDE DEF n
<1>7. PICK g \in Groupings(n), f \in [0..n -> Nat] :
        /\ Sums(f, g, n) /\ Payload(bytes, start, n) = f[n]
        /\ \A j \in 0..(n - 1) : g[j] = ByteAt(bytes, start + j) % Group
  <2>1. n \in 0..MaxGroups /\ start + n <= Len(bytes) /\ start \in Nat /\ bytes \in Seq(Byte)
    BY <1>6
  <2> QED
    BY ONLY <2>1, PayloadSums
<1>8. v = f[n] /\ v \in Nat
  <2>1. n \in 0..n /\ f[n] \in Nat
    BY <1>6, <1>7
  <2>2. v = f[n]
    BY <1>5, <1>7, Zenon DEF n
  <2> QED
    BY <2>1, <2>2
<1>9. ASSUME NEW j \in 0..i
      PROVE  /\ g[j] \in 0..(Group - 1) /\ g[j] = Digit(v, j)
             /\ bytes[start + (j + 1)] = IF j = i THEN g[j] ELSE g[j] + Group
  <2>1. j \in 0..(n - 1) /\ (start + j) + 1 = start + (j + 1) /\ start + (j + 1) \in 1..Len(bytes)
    BY <1>1, <1>6, SMT
  <2>2. g[j] \in 0..(Group - 1) /\ g[j] = Digit(v, j)
    <3>1. g[j] \in 0..(Group - 1)
      BY <2>1 DEF Groupings
    <3>2. (f[n] \div Shift[j]) % Group = g[j]
      BY <1>6, <1>7, <2>1, SumsHaveDigits
    <3> QED
      BY <1>8, <3>1, <3>2, Zenon DEF Digit
  <2> DEFINE c == ByteAt(bytes, start + j)
  <2>3. c \in Byte /\ c = bytes[start + (j + 1)]
    BY <2>1 DEF ByteAt
  <2>4. g[j] = c % Group
    BY <1>7, <2>1
  <2> HIDE DEF c
  <2>5. /\ c % Group \in 0..(Group - 1) /\ c \in Nat
        /\ c < Group => c % Group = c
        /\ c >= Group => c = (c % Group) + Group
    BY <2>3, GroupAndBit
  <2>6. CASE j = i
    <3>1. ~GoesOn(bytes, start, i)
      BY <1>2, <1>6 DEF StopsAt
    <3>2. ~(c >= Group)
      BY <1>4, <2>6, <3>1, Zenon DEF GoesOn, c
    <3>3. c = c % Group
      BY <1>1, <2>5, <3>2, SMT
    <3>4. bytes[start + (j + 1)] = g[j]
      BY <2>3, <2>4, <3>3, Zenon
    <3> QED
      BY <2>2, <2>6, <3>4, Zenon
  <2>7. CASE j # i
    <3>1. j \in 0..(i - 1)
      BY <1>6, <2>7, SMT
    <3>2. GoesOn(bytes, start, j)
      BY <1>2, <3>1 DEF StopsAt
    <3>3. c >= Group
      BY <3>2, Zenon DEF GoesOn, c
    <3>4. bytes[start + (j + 1)] = g[j] + Group
      BY <2>3, <2>4, <2>5, <3>3, Zenon
    <3> QED
      BY <2>2, <2>7, <3>4, Zenon
  <2> QED
    BY <2>6, <2>7
<1>10. /\ b = g[i] /\ b % Group = b /\ b \in Nat /\ b < Group
       /\ b <= Top \div Shift[i] /\ (i > 0 => 1 <= b)
  <2>1. i \in 0..i /\ (start + i) + 1 = start + (i + 1)
    BY <1>6, SMT
  <2>2. b = g[i] /\ g[i] \in 0..(Group - 1)
    BY <1>9, <2>1 DEF ByteAt
  <2> HIDE DEF b
  <2>3. b \in Nat /\ b < Group /\ b % Group = b
    BY <1>1, <2>2, GroupWithBit
  <2>4. ~(b > Top \div Shift[i])
    BY <1>4, <2>3, Zenon DEF IsTooLarge
  <2> DEFINE s == Shift[i]
             q == Top \div s
  <2>5. i \in i..MaxGroups
    BY <1>1, <1>6, SMT
  <2>6. s \in Nat /\ 1 <= s
    BY <1>2, <2>5, ShiftsDivide
  <2> HIDE DEF s
  <2>7. q \in Nat
    BY ONLY <1>1, <2>6, SMT
  <2>8. ~(b > q)
    BY <2>4 DEF q, s
  <2> HIDE DEF q
  <2>9. b <= q
    BY <2>3, <2>7, <2>8, SMT
  <2>10. i > 0 => b # 0
    BY <1>4, Zenon DEF IsOverlong
  <2>11. i > 0 => 1 <= b
    BY <2>3, <2>10, SMT
  <2> QED
    BY <2>2, <2>3, <2>9, <2>11 DEF q, s
<1> HIDE DEF b
<1>11. /\ f[n] = f[i] + (b * Shift[i]) /\ f[i] \in Nat /\ f[i] < Shift[i] /\ f[n] < Shift[n]
       /\ Shift[i] \in Nat
  <2>1. n \in 1..n /\ i \in 0..n /\ n \in 0..n
    BY <1>6, SMT
  <2>2. \A k \in 0..n : f[k] < Shift[k]
    BY <1>6, <1>7, SumsStayBelow
  <2>3. f[n] = f[n - 1] + (g[n - 1] * Shift[n - 1])
    BY <1>7, <2>1 DEF Sums
  <2>4. f[n] = f[i] + (b * Shift[i])
    BY <1>6, <1>10, <2>3
  <2>5. Shift[i] \in Nat
    BY Shifts
  <2> QED
    BY <2>1, <2>2, <2>4, <2>5
<1>12. v <= Top
  BY <1>6, <1>8, <1>10, <1>11, RoomBelow
<1>13. ASSUME NEW j \in 1..(n - 1) PROVE v >= Shift[j]
  <2>1. j \in 0..MaxGroups /\ i \in j..MaxGroups /\ i > 0
    BY <1>1, <1>6, <1>13, SMT
  <2> DEFINE s == Shift[i]
             t == Shift[j]
             a == f[i]
  <2>2. t \in Nat /\ t <= s /\ s \in Nat
    BY <2>1, ShiftsDivide
  <2>3. 1 * s <= b * s /\ b * s \in Nat
    BY <1>10, <2>1, <2>2, Products
  <2>4. v = a + (b * s) /\ a \in Nat
    BY <1>8, <1>11
  <2> HIDE DEF s, t, a
  <2> DEFINE x == b * s
  <2>5. x \in Nat /\ s <= x /\ v = a + x
    BY <2>2, <2>3, <2>4
  <2> HIDE DEF x
  <2>6. v >= t
    BY <2>2, <2>4, <2>5, SMT
  <2> QED
    BY <2>6 DEF t
<1>14. GroupsOf(v) = n
  BY <1>6, <1>8, <1>11, <1>13, GroupsFound
<1>15. v < Shift[MaxGroups]
  <2>1. MaxGroups \in 0..MaxGroups
    BY <1>1
  <2>2. Shift[MaxGroups] \in Nat /\ Top < Shift[MaxGroups]
    BY <2>1, Shifts, VarintAssumption
  <2> QED
    BY <1>1, <1>8, <1>12, <2>2, SMT
<1>16. ASSUME NEW k \in 1..n PROVE bytes[start + k] = WriteUleb(v)[k]
  <2> DEFINE j == k - 1
  <2>1. j \in 0..i /\ j \in 0..(n - 1) /\ j + 1 = k /\ (j = i <=> j = n - 1)
    BY <1>6, SMT
  <2>2. WriteUleb(v)[j + 1] = IF j = n - 1 THEN Digit(v, j) ELSE Digit(v, j) + Group
    BY <1>8, <1>14, <1>15, <2>1, WrittenBytes
  <2>3. bytes[start + (j + 1)] = IF j = i THEN g[j] ELSE g[j] + Group
    BY <1>9, <2>1
  <2>4. g[j] = Digit(v, j)
    BY <1>9, <2>1
  <2> HIDE DEF j
  <2> QED
    BY <2>1, <2>2, <2>3, <2>4, Zenon
<1>17. Carries(bytes, start, v)
  BY <1>6, <1>14, <1>16 DEF Carries
<1>18. v \in 0..Top
  BY <1>1, <1>8, <1>12
<1>19. ReadUleb(bytes, start) = Read(v, start + n)
  BY <1>4, <1>5, <1>6
<1> QED
  BY <1>14, <1>17, <1>18, <1>19

\* What is read, or refused, is at a byte of the field or just after it.
LEMMA ReadNearby ==
  ASSUME NEW bytes \in Seq(Byte), NEW start \in Nat, start <= Len(bytes)
  PROVE  /\ ReadUleb(bytes, start).at \in start..(start + MaxGroups)
         /\ ReadUleb(bytes, start).at <= Len(bytes)
<1>1. MaxGroups \in Nat /\ Len(bytes) \in Nat
  BY VarintAssumption
<1>2. PICK i \in 0..MaxGroups : StopsAt(bytes, start, i)
  BY StopsOnce
<1>3. ReadUleb(bytes, start) = ReadingAt(bytes, start, i)
  BY <1>2, ReadWhereItStops
<1>4. start + i <= Len(bytes)
  <2>1. CASE i = 0
    BY <2>1
  <2>2. CASE i # 0
    <3>1. i - 1 \in 0..(i - 1)
      BY <1>1, <2>2
    <3>2. Has(bytes, start + (i - 1))
      BY <1>2, <3>1 DEF StopsAt, GoesOn
    <3> QED
      BY <1>1, <2>2, <3>2, SMT DEF Has
  <2> QED
    BY <2>1, <2>2
<1>5. CASE ReadUleb(bytes, start) = Corrupt(start + i)
  <2>1. ReadUleb(bytes, start).at = start + i
    BY <1>5 DEF Corrupt
  <2> QED
    BY <1>1, <1>4, <2>1, SMT
<1>6. CASE /\ i # MaxGroups /\ Has(bytes, start + i)
           /\ ReadUleb(bytes, start) = Read(Payload(bytes, start, i + 1), start + i + 1)
  <2>1. ReadUleb(bytes, start).at = start + i + 1
    BY <1>6 DEF Read
  <2> QED
    BY <1>1, <1>6, <2>1, SMT DEF Has
<1> QED
  BY <1>3, <1>5, <1>6, Zenon DEF ReadingAt

\* An object has the members it is made of.
LEMMA JoinedMembers ==
  ASSUME NEW these, NEW those
  PROVE  /\ DOMAIN Joined(these, those) = DOMAIN these \cup DOMAIN those
         /\ \A k \in DOMAIN these : Joined(these, those)[k] = these[k]
         /\ \A k \in DOMAIN those \ DOMAIN these : Joined(these, those)[k] = those[k]
BY DEF Joined

\* A reply says what the outcome is.
LEMMA RepliesSay ==
  ASSUME NEW text, NEW structured, NEW isError,
         NEW reply, reply = ReplyTo(Outcome(text, structured, isError))
  PROVE  /\ reply.ok /\ reply.result.content = text
         /\ reply.result.structuredContent = structured /\ reply.result.isError = isError
<1> DEFINE these == [content |-> text, structuredContent |-> structured, isError |-> isError]
           those == [resultType |-> "complete", _meta |-> "serverInfo"]
<1>1. /\ "content" \in DOMAIN these /\ "structuredContent" \in DOMAIN these
      /\ "isError" \in DOMAIN these
  OBVIOUS
<1>2. /\ these["content"] = text /\ these["structuredContent"] = structured
      /\ these["isError"] = isError
  OBVIOUS
<1>3. reply = [ok |-> TRUE, result |-> Joined(these, those)]
  BY DEF ReplyTo, Outcome, WithEnvelope
<1> HIDE DEF these, those
<1>4. \A k \in DOMAIN these : Joined(these, those)[k] = these[k]
  BY JoinedMembers
<1>5. reply.ok /\ reply.result = Joined(these, those)
  BY <1>3
<1> QED
  BY <1>1, <1>2, <1>4, <1>5

LEMMA RefusalsSay ==
  ASSUME NEW about, NEW reply, reply = ReplyTo(Refused(about))
  PROVE  reply = Refused(about) /\ ~reply.ok /\ reply.about = about
BY DEF ReplyTo, Refused

LEMMA OthersAreNeither ==
  ASSUME NEW o \in Others
  PROVE  o.type # "string" /\ o.type # "object"
<1>1. o \in {Of("absent"), Of("null"), Of("a boolean"), Of("a number"), Of("an array")}
  BY Zenon DEF Others, Absent, Null
<1>2. \A t : Of(t).type = t
  BY DEF Of
<1>3. o.type \in {"absent", "null", "a boolean", "a number", "an array"}
  BY <1>1, <1>2, Zenon
<1> QED
  BY <1>3, Zenon

\* What the arguments may be.
LEMMA ArgumentShapes ==
  ASSUME NEW a \in Arguments
  PROVE  /\ a.type = "object" /\ HasString(a, "text") => Get(a, "text").text \in Documents
         /\ a.type # "object" => \A key : Get(a, key) = Absent
<1>1. CASE a \in Others \cup {String(<<>>)}
  <2>1. a.type # "object"
    <3>1. CASE a \in Others
      BY <3>1, OthersAreNeither
    <3>2. CASE a = String(<<>>)
      BY <3>2 DEF String
    <3> QED
      BY <1>1, <3>1, <3>2
  <2> QED
    BY <2>1 DEF Get
<1>2. CASE a \notin Others \cup {String(<<>>)}
  <2>1. PICK t \in Others \cup Texts, p \in Others \cup Words, x \in Others \cup Blobs :
          a = Object([text |-> t, profile |-> p, archive |-> x])
    BY <1>2 DEF Arguments
  <2>2. a.type = "object" /\ Get(a, "text") = t
    BY <2>1 DEF Object, Get
  <2>3. ASSUME t.type = "string" PROVE t.text \in Documents
    <3>1. t \notin Others
      BY <2>3, OthersAreNeither
    <3>2. PICK d \in Documents : t = String(d)
      BY <3>1 DEF Texts
    <3> QED
      BY <3>2 DEF String
  <2> QED
    BY <2>2, <2>3 DEF HasString
<1> QED
  BY <1>1, <1>2

\* The arguments of a call to compress that is not refused are a document.
LEMMA CompressAnswers ==
  ASSUME NEW a \in Arguments, NEW withPayload \in BOOLEAN,
         NEW text, text = Get(a, "text").text
  PROVE  \/ \E about \in {"arguments", "text", "profile"} :
              RunCompress(a, withPayload) = Refused(about)
         \/ /\ text \in Documents /\ HasString(a, "text") /\ ArgumentsAreAnObject(a)
            /\ ProfileIsKnown(a)
            /\ RunCompress(a, withPayload) =
                 OutcomeOf(text, Compress(text, WithProfile(DefaultConfig, ProfileOf(a))),
                           withPayload)
<1>1. CASE ~ArgumentsAreAnObject(a) \/ ~HasString(a, "text") \/ ~ProfileIsKnown(a)
  BY <1>1, Zenon DEF RunCompress
<1>2. CASE ~(~ArgumentsAreAnObject(a) \/ ~HasString(a, "text") \/ ~ProfileIsKnown(a))
  <2>1. a.type = "object"
    <3>1. a.type # "object" => Get(a, "text") = Absent
      BY ArgumentShapes
    <3>2. Absent.type # "string"
      BY DEF Absent, Of
    <3> QED
      BY <1>2, <3>1, <3>2 DEF HasString
  <2>2. text \in Documents
    BY <1>2, <2>1, ArgumentShapes
  <2> QED
    BY <1>2, <2>2, Zenon DEF RunCompress
<1> QED
  BY <1>1, <1>2

\* What follows the sentinel line.
LEMMA AfterTheSentinel ==
  ASSUME NEW e \in Nat, NEW body \in Seq(Byte)
  PROVE  Tail(Framed(e, body)) = body
<1>1. Group \in Nat
  BY VarintAssumption
<1> DEFINE x == 2 * Group + e
           s == <<x>> \o body
<1>2. x \in Nat /\ body \in Seq(Nat)
  <2>1. Byte \subseteq Nat
    BY <1>1 DEF Byte
  <2>2. body \in Seq(Nat)
    BY <2>1, SeqMonotonic, Zenon
  <2>3. x \in Nat
    BY <1>1
  <2> QED
    BY <2>2, <2>3
<1> HIDE DEF x
<1>3. s \in Seq(Nat) /\ Len(s) = 1 + Len(body) /\ \A i \in 1..Len(body) : s[i + 1] = body[i]
  BY <1>2
<1> HIDE DEF s
<1>4. /\ Tail(s) \in Seq(Nat) /\ Len(Tail(s)) = Len(body)
      /\ \A i \in 1..Len(body) : Tail(s)[i] = s[i + 1]
  BY <1>2, <1>3
<1>5. Tail(s) = body
  <2> DEFINE t == Tail(s)
  <2>1. t \in Seq(Nat) /\ Len(t) = Len(body)
    BY <1>4
  <2>2. \A i \in 1..Len(t) : t[i] = body[i]
    BY <1>3, <1>4, <2>1
  <2> HIDE DEF t
  <2>3. t = body
    BY <1>2, <2>1, <2>2, SeqEqual
  <2> QED
    BY <2>3 DEF t
<1> QED
  BY <1>5 DEF Framed, s, x

\* The encoders that win, and what one of them costs.
After(text, e) == Tokens(Framed(e, BodyOf(e, text)))
Clears(text, e, margin) == (Tokens(text) - After(text, e)) * 10000 >= Tokens(text) * margin
Wins(text, enabled, margin) ==
  {e \in {o \in enabled : BodyOf(o, text) # Declined} :
     After(text, e) < Tokens(text) /\ Clears(text, e, margin)}
IsBest(text, wins, e) ==
  \A other \in wins : \/ After(text, e) < After(text, other)
                      \/ After(text, e) = After(text, other) /\ e <= other

LEMMA SomeIsBest ==
  ASSUME NEW text \in Documents, NEW enabled \in SUBSET {1, 2}, NEW margin,
         NEW wins, wins = Wins(text, enabled, margin), wins # {}
  PROVE  \E e \in wins : IsBest(text, wins, e)
<1>1. wins \subseteq {1, 2} /\ \A e \in wins : After(text, e) \in Nat
  <2>1. ASSUME NEW e \in wins PROVE e \in {1, 2} /\ BodyOf(e, text) # Declined
    <3>1. e \in Wins(text, enabled, margin)
      OBVIOUS
    <3>2. e \in enabled /\ BodyOf(e, text) # Declined
      BY <3>1, Zenon DEF Wins
    <3>3. enabled \subseteq {1, 2}
      OBVIOUS
    <3> QED
      BY <3>2, <3>3, Zenon
  <2>2. ASSUME NEW e \in wins PROVE After(text, e) \in Nat
    <3>1. e \in {1, 2} /\ BodyOf(e, text) # Declined
      BY <2>1
    <3>2. Tokens(Framed(e, BodyOf(e, text))) \in Nat
      BY <3>1, EncodersAssumption
    <3> QED
      BY <3>2 DEF After
  <2> QED
    BY <2>1, <2>2
<1>2. CASE wins = {1}
  <2>1. 1 \in wins /\ IsBest(text, wins, 1)
    BY <1>1, <1>2 DEF IsBest
  <2> QED
    BY <2>1
<1>3. CASE wins = {2}
  <2>1. 2 \in wins /\ IsBest(text, wins, 2)
    BY <1>1, <1>3 DEF IsBest
  <2> QED
    BY <2>1
<1>4. CASE wins = {1, 2}
  <2>1. CASE After(text, 1) <= After(text, 2)
    <3>1. 1 \in wins /\ IsBest(text, wins, 1)
      BY <1>1, <1>4, <2>1 DEF IsBest
    <3> QED
      BY <3>1
  <2>2. CASE After(text, 2) < After(text, 1)
    <3>1. 2 \in wins /\ IsBest(text, wins, 2)
      BY <1>1, <1>4, <2>2 DEF IsBest
    <3> QED
      BY <3>1
  <2> QED
    BY <1>1, <1>4, <2>1, <2>2
<1> QED
  BY <1>1, <1>2, <1>3, <1>4

\* The selection costs no more than the text, and its first line names its encoder.
LEMMA SelectedWell ==
  ASSUME NEW text \in Documents, NEW enabled \in SUBSET {1, 2}, NEW margin,
         NEW s, s = Select(text, enabled, margin)
  PROVE  /\ s.encoder \in 0..2 /\ s.after <= Tokens(text)
         /\ \E body \in Seq(Byte) :
              s.rendering = Framed(s.encoder, body) /\ (s.encoder = 0 => body = text)
<1> DEFINE wins == Wins(text, enabled, margin)
           best == CHOOSE e \in wins : IsBest(text, wins, e)
<1>1. s = IF wins = {}
          THEN [encoder |-> 0, rendering |-> Framed(0, text), after |-> Tokens(text)]
          ELSE [encoder |-> best, rendering |-> Framed(best, BodyOf(best, text)),
                after |-> After(text, best)]
  BY DEF Select, Wins, Clears, After, IsBest
<1>2. text \in Seq(Byte) /\ Tokens(text) \in Nat
  BY McpToolsAssumption, EncodersAssumption
<1>3. CASE wins = {}
  <2>1. s.encoder = 0 /\ s.rendering = Framed(0, text) /\ s.after = Tokens(text)
    BY <1>1, <1>3
  <2> QED
    BY <1>2, <2>1
<1>4. CASE wins # {}
  <2>1. best \in wins
    BY <1>4, SomeIsBest
  <2> HIDE DEF best
  <2>2. best \in enabled /\ BodyOf(best, text) # Declined /\ After(text, best) < Tokens(text)
    BY <2>1 DEF Wins
  <2>3. best \in {1, 2} /\ BodyOf(best, text) \in Seq(Byte) /\ After(text, best) \in Nat
    BY <2>2, EncodersAssumption DEF After
  <2>4. /\ s.encoder = best /\ s.rendering = Framed(best, BodyOf(best, text))
        /\ s.after = After(text, best)
    BY <1>1, <1>4
  <2>5. s.encoder \in 0..2 /\ s.encoder # 0 /\ s.after <= Tokens(text)
    BY <1>2, <2>2, <2>3, <2>4
  <2> QED
    BY <2>3, <2>4, <2>5
<1> QED
  BY <1>3, <1>4

\* What the statistics of a compression say.
LEMMA StatsSay ==
  ASSUME NEW stats, NEW v, v = StatsValue(stats)
  PROVE  /\ v.bytesBefore = stats.bytesBefore
         /\ v.estTokensBefore = stats.estTokensBefore
         /\ v.estTokensAfter = stats.estTokensAfter
         /\ v.encoderId = stats.encoder
<1> DEFINE these == [k \in {"bytesBefore", "bytesAfter", "estTokensBefore", "estTokensAfter"} |->
                       stats[k]]
           those == [encoder |-> EncoderName(stats.encoder), encoderId |-> stats.encoder,
                     tokenizerId |-> 0, minSavingBps |-> stats.minSaving,
                     fidelity |-> "lossless"]
<1>1. /\ "bytesBefore" \in DOMAIN these /\ "estTokensBefore" \in DOMAIN these
      /\ "estTokensAfter" \in DOMAIN these /\ "encoderId" \in DOMAIN those \ DOMAIN these
  OBVIOUS
<1>2. /\ these["bytesBefore"] = stats.bytesBefore
      /\ these["estTokensBefore"] = stats.estTokensBefore
      /\ these["estTokensAfter"] = stats.estTokensAfter
      /\ those["encoderId"] = stats.encoder
  OBVIOUS
<1>3. v = Joined(these, those)
  BY Zenon DEF StatsValue
<1> HIDE DEF these, those
<1>4. \A k \in DOMAIN these : Joined(these, those)[k] = these[k]
  BY JoinedMembers
<1>5. \A k \in DOMAIN those \ DOMAIN these : Joined(these, those)[k] = those[k]
  BY JoinedMembers
<1> QED
  BY <1>1, <1>2, <1>3, <1>4, <1>5

\* What a compression says, with the payload or without it.
LEMMA CompressionsSay ==
  ASSUME NEW artifact, NEW withPayload \in BOOLEAN,
         NEW s, s = CompressedOutcome(artifact, withPayload).structured
  PROVE  /\ DOMAIN s = {"compressed", "stats"} \cup
                         (IF withPayload THEN {"rendering", "archive"} ELSE {})
         /\ s.compressed = TRUE /\ s.stats = StatsValue(artifact.stats)
         /\ withPayload => /\ s.rendering = artifact.rendering
                           /\ s.archive = Encode(artifact.archive)
<1> DEFINE these == [compressed |-> TRUE, stats |-> StatsValue(artifact.stats)]
           payload == [rendering |-> artifact.rendering, archive |-> Encode(artifact.archive)]
           those == WithPayload(withPayload, payload)
<1>1. /\ DOMAIN these = {"compressed", "stats"}
      /\ these["compressed"] = TRUE /\ these["stats"] = StatsValue(artifact.stats)
  OBVIOUS
<1>2. DOMAIN those = IF withPayload THEN {"rendering", "archive"} ELSE {}
  BY DEF WithPayload
<1>3. withPayload => those["rendering"] = artifact.rendering
                     /\ those["archive"] = Encode(artifact.archive)
  BY DEF WithPayload
<1>4. s = Joined(these, those)
  BY Zenon DEF CompressedOutcome, Outcome
<1> HIDE DEF these, those
<1>5. /\ DOMAIN s = DOMAIN these \cup DOMAIN those
      /\ s["compressed"] = TRUE /\ s["stats"] = StatsValue(artifact.stats)
  <2>1. \A k \in DOMAIN these : Joined(these, those)[k] = these[k]
    BY JoinedMembers
  <2>2. DOMAIN Joined(these, those) = DOMAIN these \cup DOMAIN those
    BY JoinedMembers
  <2> QED
    BY <1>1, <1>4, <2>1, <2>2
<1>6. withPayload => /\ s["rendering"] = artifact.rendering
                     /\ s["archive"] = Encode(artifact.archive)
  <2> SUFFICES ASSUME withPayload
               PROVE  s["rendering"] = artifact.rendering /\ s["archive"] = Encode(artifact.archive)
    OBVIOUS
  <2>1. "rendering" \in DOMAIN those \ DOMAIN these /\ "archive" \in DOMAIN those \ DOMAIN these
    BY <1>1, <1>2
  <2>2. \A k \in DOMAIN those \ DOMAIN these : Joined(these, those)[k] = those[k]
    BY JoinedMembers
  <2> QED
    BY <1>3, <1>4, <2>1, <2>2
<1> QED
  BY <1>1, <1>2, <1>5, <1>6

\* What a text that is not compressed is answered.
LEMMA PassthroughsSay ==
  ASSUME NEW text, NEW code, NEW withPayload \in BOOLEAN
  PROVE  LET s == PassthroughOutcome(text, code, withPayload).structured
         IN /\ DOMAIN s = {"compressed", "reasonCode"} \cup
                            (IF withPayload THEN {"rendering"} ELSE {})
            /\ s.compressed = FALSE /\ s.reasonCode = code
            /\ withPayload => s.rendering = text
<1> DEFINE s == PassthroughOutcome(text, code, withPayload).structured
<1> DEFINE these == [compressed |-> FALSE, reasonCode |-> code]
           payload == [rendering |-> text]
           those == WithPayload(withPayload, payload)
<1>1. /\ DOMAIN these = {"compressed", "reasonCode"}
      /\ these["compressed"] = FALSE /\ these["reasonCode"] = code
  OBVIOUS
<1>2. DOMAIN those = IF withPayload THEN {"rendering"} ELSE {}
  BY DEF WithPayload
<1>3. withPayload => those["rendering"] = text
  BY DEF WithPayload
<1>4. s = Joined(these, those)
  BY Zenon DEF PassthroughOutcome, Outcome
<1> HIDE DEF these, those, s
<1>5. /\ DOMAIN s = DOMAIN these \cup DOMAIN those
      /\ s["compressed"] = FALSE /\ s["reasonCode"] = code
  <2>1. \A k \in DOMAIN these : Joined(these, those)[k] = these[k]
    BY JoinedMembers
  <2>2. DOMAIN Joined(these, those) = DOMAIN these \cup DOMAIN those
    BY JoinedMembers
  <2> QED
    BY <1>1, <1>4, <2>1, <2>2
<1>6. withPayload => s["rendering"] = text
  <2> SUFFICES ASSUME withPayload PROVE s["rendering"] = text
    OBVIOUS
  <2>1. "rendering" \in DOMAIN those \ DOMAIN these
    BY <1>1, <1>2
  <2>2. \A k \in DOMAIN those \ DOMAIN these : Joined(these, those)[k] = those[k]
    BY JoinedMembers
  <2> QED
    BY <1>3, <1>4, <2>1, <2>2
<1> QED
  BY <1>1, <1>2, <1>5, <1>6 DEF s

\* The field of a number is bytes, one to a group.
LEMMA FieldWritten ==
  ASSUME NEW v \in 0..Top
  PROVE  /\ WriteUleb(v) \in Seq(Byte) /\ Len(WriteUleb(v)) = GroupsOf(v)
         /\ GroupsOf(v) \in 1..MaxGroups /\ v \in Nat /\ v < Shift[MaxGroups]
<1>1. Group \in Nat /\ Group > 1 /\ MaxGroups \in Nat /\ Top \in Nat /\ v \in Nat /\ v <= Top
  BY VarintAssumption, SMT
<1>2. v < Shift[MaxGroups]
  <2>1. MaxGroups \in 0..MaxGroups
    BY <1>1
  <2>2. Shift[MaxGroups] \in Nat /\ Top < Shift[MaxGroups]
    BY <2>1, Shifts, VarintAssumption
  <2> QED
    BY <1>1, <2>2, SMT
<1> DEFINE n == GroupsOf(v)
<1>3. n \in 1..MaxGroups
  BY <1>1, <1>2, GroupsNeeded
<1>4. \A j \in 0..(n - 1) :
        /\ Digit(v, j) \in 0..(Group - 1)
        /\ WriteUleb(v)[j + 1] = IF j = n - 1 THEN Digit(v, j) ELSE Digit(v, j) + Group
  BY <1>1, <1>2, WrittenBytes
<1>5. WriteUleb(v) = [i \in 1..n |-> ((v \div Shift[i - 1]) % Group) + (IF i < n THEN Group ELSE 0)]
  BY Zenon DEF WriteUleb
<1> DEFINE w == WriteUleb(v)
<1>6. DOMAIN w = 1..n /\ w = [i \in 1..n |-> w[i]]
  BY <1>5, Zenon
<1> HIDE DEF n, w
<1>7. ASSUME NEW i \in 1..n PROVE w[i] \in Byte
  <2> DEFINE j == i - 1
  <2>1. j \in 0..(n - 1) /\ j + 1 = i
    BY <1>1, <1>3, SMT
  <2> HIDE DEF j
  <2>2. Digit(v, j) \in 0..(Group - 1) /\
        w[i] = IF j = n - 1 THEN Digit(v, j) ELSE Digit(v, j) + Group
    BY <1>4, <2>1, Zenon DEF w
  <2>3. Digit(v, j) \in Byte /\ Digit(v, j) + Group \in Byte
    BY <2>2, GroupWithBit
  <2> QED
    BY <2>2, <2>3, Zenon
<1>8. w \in [1..n -> Byte]
  BY <1>6, <1>7
<1>9. n \in Nat
  BY <1>1, <1>3
<1>10. w \in Seq(Byte)
  BY <1>8, <1>9
<1>11. Len(w) = n
  BY <1>6, <1>9, <1>10, LenProperties
<1> QED
  BY <1>1, <1>2, <1>3, <1>10, <1>11 DEF w, n

\* Under the program's numbers a byte and an octet are the same.
LEMMA BytesAreOctets ==
  ASSUME Program
  PROVE  Group = 128 /\ Byte = EightBits
<1>1. Group = 128
  BY VarintAssumption, McpToolsAssumption, SMT DEF Program
<1> QED
  BY <1>1, SMT DEF Byte, EightBits

\* The places of an archive.
Rest == <<VERSION, 0, 0, 0, 0, 0>>

LEMMA ArchiveIsBytes ==
  ASSUME NEW d \in Seq(Byte), Len(d) <= Top, Digest(d) \in Seq(Byte)
  PROVE  /\ ArchiveOf(d) \in Seq(Byte)
         /\ Rest \in Seq(Byte) /\ Len(Rest) = 6 /\ Len(Magic) = 4 /\ Magic \in Seq(Byte)
         /\ WriteUleb(Len(d)) \in Seq(Byte) /\ Len(WriteUleb(Len(d))) = GroupsOf(Len(d))
         /\ GroupsOf(Len(d)) \in 1..MaxGroups
         /\ ArchiveOf(d) = (((Magic \o Rest) \o WriteUleb(Len(d))) \o Digest(d)) \o d
<1>1. Group \in Nat /\ Group > 1 /\ Top \in Nat /\ Magic \in Seq(Byte) /\ Len(Magic) = 4
  BY VarintAssumption, ContainerAssumption
<1>2. 0 \in Byte /\ 1 \in Byte
  BY <1>1, SMT DEF Byte
<1>3. Rest \in Seq(Byte) /\ Len(Rest) = 6
  BY <1>2 DEF Rest, VERSION
<1>4. Len(d) \in 0..Top
  BY <1>1
<1>5. WriteUleb(Len(d)) \in Seq(Byte) /\ Len(WriteUleb(Len(d))) = GroupsOf(Len(d))
      /\ GroupsOf(Len(d)) \in 1..MaxGroups
  BY <1>4, FieldWritten
<1>6. ArchiveOf(d) = (((Magic \o Rest) \o WriteUleb(Len(d))) \o Digest(d)) \o d
  BY DEF ArchiveOf, Rest
<1> DEFINE x == WriteUleb(Len(d))
           y == Digest(d)
           r == Rest
<1>7. x \in Seq(Byte) /\ y \in Seq(Byte) /\ r \in Seq(Byte)
  BY <1>3, <1>5
<1> HIDE DEF x, y, r
<1>8. (((Magic \o r) \o x) \o y) \o d \in Seq(Byte)
  BY <1>1, <1>7
<1> QED
  BY <1>1, <1>3, <1>5, <1>6, <1>8 DEF x, y, r

\* What is archived is a document, and its archive is bytes.
LEMMA DocumentsArchived ==
  ASSUME NEW d \in Documents
  PROVE  d \in Seq(Byte) /\ Len(d) <= Top /\ ArchiveOf(d) \in Seq(Byte)
         /\ Digest(d) \in Seq(Byte) /\ Len(Digest(d)) = DigestLen
<1>1. d \in Seq(Byte) /\ Len(d) <= Top /\ Digest(d) \in Seq(Byte) /\ Len(Digest(d)) = DigestLen
  BY McpToolsAssumption
<1> QED
  BY <1>1, ArchiveIsBytes

\* What a compression, and what a text that is not compressed, is answered with its payload.
SaysCompressed(text, result) ==
  LET made == result.structuredContent
  IN /\ made.compressed /\ result.content = made.rendering
     /\ made.archive = Encode(ArchiveOf(text))
     /\ made.stats.bytesBefore = Len(text)
     /\ made.stats.estTokensAfter <= made.stats.estTokensBefore
     /\ \E body \in Seq(Byte) :
          /\ made.stats.encoderId \in 0..2
          /\ made.rendering = Framed(made.stats.encoderId, body)
          /\ made.stats.encoderId = 0 => body = text

SaysPassthrough(text, result) ==
  LET made == result.structuredContent
  IN /\ ~made.compressed /\ made.rendering = text /\ result.content = text
     /\ DOMAIN made = {"compressed", "reasonCode", "rendering"}
     /\ made.reasonCode = "input_too_large" => Len(text) > MaxInput

\* A compression is answered in one of these two ways.
LEMMA CompressSays ==
  ASSUME NEW a \in Arguments, NEW reply, reply = ToolsCall("tokfold_compress", a), reply.ok,
         NEW text, text = Get(a, "text").text
  PROVE  /\ text \in Documents /\ ~reply.result.isError
         /\ SaysCompressed(text, reply.result) \/ SaysPassthrough(text, reply.result)
<1>1. reply = ReplyTo(RunCompress(a, TRUE))
  BY Zenon DEF ToolsCall, Call
<1> DEFINE config == WithProfile(DefaultConfig, ProfileOf(a))
           made == Compress(text, config)
<1>2. text \in Documents /\ RunCompress(a, TRUE) = OutcomeOf(text, made, TRUE)
  <2>1. ASSUME NEW about, RunCompress(a, TRUE) = Refused(about) PROVE FALSE
    BY <1>1, <2>1, RefusalsSay
  <2> QED
    BY <2>1, CompressAnswers
<1>3. config.minSaving = 0
  BY DEF WithProfile, DefaultConfig
<1>4. CASE made.ok
  <2> DEFINE s == Select(text, EnabledEncoders(config.profile), config.minSaving)
             stats == Stats(text, s, config.minSaving)
  <2>1. made = Artifact(text, s, config.minSaving)
    <3>1. \A error : ~Declines(error).ok
      BY DEF Declines
    <3> HIDE DEF config
    <3> QED
      BY <1>4, <3>1, Zenon DEF Compress
  <2>2. /\ made.rendering = s.rendering /\ made.archive = ArchiveOf(text)
        /\ made.stats = stats
    BY <2>1 DEF Artifact
  <2>3. EnabledEncoders(config.profile) \in SUBSET {1, 2}
    <3> HIDE DEF config
    <3> QED
      BY DEF EnabledEncoders
  <2> HIDE DEF config
  <2>4. /\ s.encoder \in 0..2 /\ s.after <= Tokens(text)
        /\ \E body \in Seq(Byte) :
             s.rendering = Framed(s.encoder, body) /\ (s.encoder = 0 => body = text)
    BY <1>2, <2>3, SelectedWell
  <2>5. /\ stats.bytesBefore = Len(text) /\ stats.estTokensBefore = Tokens(text)
        /\ stats.estTokensAfter = s.after /\ stats.encoder = s.encoder
    <3> HIDE DEF s
    <3> QED
      BY DEF Stats
  <2> HIDE DEF s, stats, made
  <2>6. OutcomeOf(text, made, TRUE) = CompressedOutcome(made, TRUE)
    BY <1>4, Zenon DEF OutcomeOf
  <2> DEFINE structured == CompressedOutcome(made, TRUE).structured
  <2>7. CompressedOutcome(made, TRUE) = Outcome(made.rendering, structured, FALSE)
    BY DEF CompressedOutcome, Outcome
  <2>8. /\ structured.compressed = TRUE /\ structured.stats = StatsValue(made.stats)
        /\ structured.rendering = made.rendering /\ structured.archive = Encode(made.archive)
    BY CompressionsSay
  <2> HIDE DEF structured
  <2>9. /\ reply.result.content = made.rendering /\ reply.result.structuredContent = structured
        /\ reply.result.isError = FALSE
    <3>1. reply = ReplyTo(Outcome(made.rendering, structured, FALSE))
      BY <1>1, <1>2, <2>6, <2>7, Zenon
    <3> DEFINE content == made.rendering
               flag == FALSE
    <3> HIDE DEF content, flag
    <3>2. reply = ReplyTo(Outcome(content, structured, flag))
      BY <3>1 DEF content, flag
    <3>3. /\ reply.result.content = content /\ reply.result.structuredContent = structured
          /\ reply.result.isError = flag
      BY ONLY <3>2, RepliesSay
    <3> QED
      BY <3>3 DEF content, flag
  <2>10. /\ structured.stats.bytesBefore = Len(text)
         /\ structured.stats.estTokensBefore = Tokens(text)
         /\ structured.stats.estTokensAfter = s.after /\ structured.stats.encoderId = s.encoder
    BY <2>2, <2>5, <2>8, StatsSay
  <2> QED
    BY <1>2, <2>2, <2>4, <2>8, <2>9, <2>10 DEF SaysCompressed
<1>5. CASE ~made.ok
  <2> HIDE DEF made
  <2> DEFINE code == CompressErrorCode(made.error)
             structured == PassthroughOutcome(text, code, TRUE).structured
  <2>1. OutcomeOf(text, made, TRUE) = PassthroughOutcome(text, code, TRUE)
    BY <1>5, Zenon DEF OutcomeOf
  <2> HIDE DEF code
  <2>2. PassthroughOutcome(text, code, TRUE) = Outcome(text, structured, FALSE)
    BY DEF PassthroughOutcome, Outcome
  <2>5. structured = PassthroughOutcome(text, code, TRUE).structured
    OBVIOUS
  <2> HIDE DEF structured
  <2>3. ~structured.compressed /\ structured.rendering = text
    <3>1. ~structured.compressed
      BY ONLY <2>5, PassthroughsSay
    <3>2. structured.rendering = text
      BY ONLY <2>5, PassthroughsSay
    <3> QED
      BY <3>1, <3>2
  <2>6. DOMAIN structured = {"compressed", "reasonCode", "rendering"}
    <3>1. DOMAIN structured = {"compressed", "reasonCode"} \cup {"rendering"}
      BY ONLY <2>5, PassthroughsSay
    <3> QED
      BY <3>1
  <2>7. structured.reasonCode = code
    BY ONLY <2>5, PassthroughsSay
  <2>8. code = "input_too_large" => Len(text) > MaxInput
    <3>1. /\ made = Declines("input_too_large") => Len(text) > MaxInput
          /\ \/ made = Declines("input_too_large")
             \/ \E error \in {"invalid_json", "depth_exceeded"} : made = Declines(error)
      <4>1. Parsed(text) \in {"valid", "invalid_json", "depth_exceeded"}
        BY <1>2, McpToolsAssumption
      <4>2. config.maxInput = MaxInput
        BY DEF config, WithProfile, DefaultConfig
      <4>3. \A t, x, m : Artifact(t, x, m).ok
        BY DEF Artifact
      <4>4. made = IF Len(text) > config.maxInput THEN Declines("input_too_large")
                   ELSE IF Parsed(text) # "valid" THEN Declines(Parsed(text))
                   ELSE Artifact(text, Select(text, EnabledEncoders(config.profile),
                                              config.minSaving), config.minSaving)
        BY Zenon DEF Compress, made
      <4> HIDE DEF config
      <4>5. CASE Len(text) > config.maxInput
        <5>1. made = Declines("input_too_large")
          BY <4>4, <4>5
        <5> QED
          BY <4>2, <4>5, <5>1
      <4>6. CASE ~(Len(text) > config.maxInput)
        <5>1. Parsed(text) # "valid"
          BY <1>5, <4>3, <4>4, <4>6, Zenon
        <5>2. made = Declines(Parsed(text))
          BY <4>4, <4>6, <5>1, Zenon
        <5>3. \A x, y : Declines(x) = Declines(y) => x = y
          <6>1. \A x : Declines(x).error = x
            BY DEF Declines
          <6> QED
            BY <6>1, Zenon
        <5>4. Parsed(text) \in {"invalid_json", "depth_exceeded"}
          BY <4>1, <5>1
        <5>5. made # Declines("input_too_large")
          BY <5>2, <5>3, <5>4
        <5> QED
          BY <5>2, <5>4, <5>5
      <4> QED
        BY <4>5, <4>6
    <3>2. code = IF made.error \in CompressErrors THEN made.error ELSE "unrecognized"
      BY DEF code, CompressErrorCode
    <3>3. \A error : Declines(error).error = error
      BY DEF Declines
    <3>4. code = "input_too_large" => made.error = "input_too_large"
      BY <3>2
    <3> QED
      BY <3>1, <3>3, <3>4
  <2>4. /\ reply.result.content = text /\ reply.result.structuredContent = structured
        /\ reply.result.isError = FALSE
    <3>1. reply = ReplyTo(Outcome(text, structured, FALSE))
      BY <1>1, <1>2, <2>1, <2>2, Zenon
    <3> DEFINE flag == FALSE
    <3> HIDE DEF flag
    <3>2. reply = ReplyTo(Outcome(text, structured, flag))
      BY <3>1 DEF flag
    <3>3. /\ reply.result.content = text /\ reply.result.structuredContent = structured
          /\ reply.result.isError = flag
      BY ONLY <3>2, RepliesSay
    <3> QED
      BY <3>3 DEF flag
  <2> QED
    BY <1>2, <2>3, <2>4, <2>6, <2>7, <2>8 DEF SaysPassthrough
<1> QED
  BY <1>4, <1>5

\* What the frame of a text that is not compressed takes.
LEMMA PassthroughFrame ==
  ASSUME NEW text \in Documents, NEW result, SaysPassthrough(text, result)
  PROVE  /\ FrameOf(result) = Envelope + 2 * Spelled(text)
         /\ result.structuredContent.reasonCode = "input_too_large" => FrameOf(result) > MaxMessage
<1> DEFINE made == result.structuredContent
<1>1. /\ DOMAIN made = {"compressed", "reasonCode", "rendering"}
      /\ made["rendering"] = text /\ result.content = text
      /\ made.reasonCode = "input_too_large" => Len(text) > MaxInput
  BY DEF SaysPassthrough
<1> HIDE DEF made
<1>2. /\ "rendering" \in DOMAIN made /\ "archive" \notin DOMAIN made
      /\ "text" \notin DOMAIN made
  BY <1>1
<1>3. FrameOf(result) = Envelope + Spelled(text) + Spelled(text) + 0 + 0
  <2>1. FrameOf(result) =
          Envelope + Spelled(result.content)
          + (IF "rendering" \in DOMAIN made THEN Spelled(made["rendering"]) ELSE 0)
          + (IF "archive" \in DOMAIN made THEN Spelled(made["archive"]) ELSE 0)
          + (IF "text" \in DOMAIN made THEN Spelled(made["text"]) ELSE 0)
    BY Zenon DEF FrameOf, made
  <2>2. (IF "rendering" \in DOMAIN made THEN Spelled(made["rendering"]) ELSE 0) = Spelled(text)
    BY <1>1, <1>2, Zenon
  <2>3. (IF "archive" \in DOMAIN made THEN Spelled(made["archive"]) ELSE 0) = 0
    BY <1>2, Zenon
  <2>4. (IF "text" \in DOMAIN made THEN Spelled(made["text"]) ELSE 0) = 0
    BY <1>2, Zenon
  <2> QED
    BY <1>1, <2>1, <2>2, <2>3, <2>4, Zenon
<1>4. /\ Envelope \in Nat /\ Spelled(text) \in Nat /\ Spelled(text) >= Len(text)
      /\ MaxInput \in Nat /\ MaxMessage \in Nat /\ Len(text) \in Nat
      /\ MaxMessage < 2 * (MaxInput + 1)
  BY McpToolsAssumption, CeilingsAssumption
<1>5. FrameOf(result) = Envelope + 2 * Spelled(text)
  BY <1>3, <1>4, SMT
<1> QED
  BY <1>1, <1>4, <1>5, SMT DEF made

\* A reply that reaches the client is the one the tool made.
LEMMA DeliveredAsMade ==
  ASSUME NEW reply, NEW got, got = RenderBounded(reply)
  PROVE  /\ got.ok => got = reply /\ reply.ok /\ ~(FrameOf(reply.result) > MaxMessage)
         /\ reply.ok /\ ~(FrameOf(reply.result) > MaxMessage) => got.ok
<1>1. ~Refused("message").ok
  BY DEF Refused
<1>2. got = IF reply.ok /\ FrameOf(reply.result) > MaxMessage THEN Refused("message") ELSE reply
  BY DEF RenderBounded
<1> QED
  BY <1>1, <1>2, Zenon

----------------------------------------------------------------------------
(* The client and its medium.                                                *)

\* What is told of a call depends on the call alone.
LEMMA CallsStayAsked == Spec => [](call.arguments \in Arguments)
<1>1. Absent \in Arguments
  BY DEF Arguments, Others
<1>2. Init => call.arguments \in Arguments
  BY <1>1 DEF Init, NoCall
<1>3. call.arguments \in Arguments /\ [Next]_vars => (call.arguments \in Arguments)'
  <2> SUFFICES ASSUME call.arguments \in Arguments, [Next]_vars
               PROVE  call'.arguments \in Arguments
    OBVIOUS
  <2>1. CASE Ask
    <3>1. PICK name \in Names \cup {"another"}, arguments \in Arguments :
           call' = [name |-> name, arguments |-> arguments]
      BY <2>1 DEF Ask
    <3> QED
      BY <3>1
  <2>2. CASE Keep
    BY <1>1, <2>2 DEF Keep, NoCall
  <2>3. CASE ReceiveFile \/ SpellFile \/ Damage \/ UNCHANGED vars
    BY <2>3 DEF ReceiveFile, SpellFile, Damage, vars
  <2> QED
    BY <2>1, <2>2, <2>3 DEF Next
<1> QED
  BY <1>2, <1>3, PTL DEF Spec

\* A compression is never a gate: under the program's numbers, either half of a reply that
\* reaches the client leaves it with the input, or with what restores it, and never with
\* "input_too_large"; a text that was declined is refused only where twice that text does not
\* fit a frame, whatever the documents, the encoders, the estimates and the digest.
\* (run_compress, compressed_outcome, passthrough_outcome, render_bounded)
THEOREM RepliesDropNothing ==
  ASSUME Program
  PROVE  Spec => []NothingIsDropped
<1>1. ASSUME call.arguments \in Arguments PROVE NothingIsDropped
  <2> DEFINE text == Get(call.arguments, "text").text
             result == Reply.result
             made == result.structuredContent
             Kept(r) ==
               /\ ~r.isError /\ r.content = r.structuredContent.rendering
               /\ r.structuredContent.compressed =>
                    /\ Decode(r.structuredContent.archive).octets = ArchiveOf(text)
                    /\ r.structuredContent.stats.estTokensAfter
                         <= r.structuredContent.stats.estTokensBefore
                    /\ r.structuredContent.stats.bytesBefore = Len(text)
                    /\ r.structuredContent.rendering =
                         Framed(r.structuredContent.stats.encoderId,
                                Tail(r.structuredContent.rendering))
                    /\ r.structuredContent.stats.encoderId = 0 =>
                         Tail(r.structuredContent.rendering) = text
               /\ ~r.structuredContent.compressed => r.structuredContent.rendering = text
  <2>1. SUFFICES ASSUME call.name = "tokfold_compress", Reply.ok
                 PROVE  /\ Delivered.ok => Kept(Delivered.result)
                        /\ Delivered.ok /\ ~made.compressed =>
                             made.reasonCode # "input_too_large"
                        /\ ~made.compressed /\ Envelope + 2 * Spelled(text) <= MaxMessage =>
                             Delivered.ok
    BY Zenon DEF NothingIsDropped
  <2>2. Reply = ToolsCall("tokfold_compress", call.arguments)
    BY <2>1 DEF Reply
  <2>3. /\ text \in Documents /\ ~result.isError
        /\ SaysCompressed(text, result) \/ SaysPassthrough(text, result)
    BY <1>1, <2>1, <2>2, CompressSays
  <2>4. /\ Delivered.ok => Delivered.result = result /\ ~(FrameOf(result) > MaxMessage)
        /\ ~(FrameOf(result) > MaxMessage) => Delivered.ok
    <3> DEFINE reply == Reply
               got == Delivered
    <3>1. got = RenderBounded(reply)
      BY DEF Delivered
    <3> HIDE DEF reply, got
    <3>2. /\ got.ok => got = reply /\ reply.ok /\ ~(FrameOf(reply.result) > MaxMessage)
          /\ reply.ok /\ ~(FrameOf(reply.result) > MaxMessage) => got.ok
      BY ONLY <3>1, DeliveredAsMade
    <3>3. reply.ok
      BY <2>1 DEF reply
    <3>4. /\ got.ok => got.result = reply.result /\ ~(FrameOf(reply.result) > MaxMessage)
          /\ ~(FrameOf(reply.result) > MaxMessage) => got.ok
      BY ONLY <3>2, <3>3, Zenon
    <3> QED
      BY <3>4 DEF got, reply
  <2> HIDE DEF text, result
  <2>5. CASE SaysCompressed(text, result)
    <3>1. ArchiveOf(text) \in Seq(EightBits)
      BY <2>3, DocumentsArchived, BytesAreOctets
    <3>2. Decode(Encode(ArchiveOf(text))) = Accepted(ArchiveOf(text))
      BY <3>1, DecodedBack
    <3>3. Decode(made.archive).octets = ArchiveOf(text)
      BY <2>5, <3>2 DEF SaysCompressed, Accepted
    <3>4. PICK body \in Seq(Byte) :
            /\ made.stats.encoderId \in 0..2
            /\ made.rendering = Framed(made.stats.encoderId, body)
            /\ made.stats.encoderId = 0 => body = text
      BY <2>5 DEF SaysCompressed
    <3>5. Tail(made.rendering) = body
      BY <3>4, AfterTheSentinel
    <3>6. /\ made.compressed /\ result.content = made.rendering
          /\ made.stats.estTokensAfter <= made.stats.estTokensBefore
          /\ made.stats.bytesBefore = Len(text)
      BY <2>5 DEF SaysCompressed
    <3>7. Kept(result)
      BY <2>3, <3>3, <3>4, <3>5, <3>6
    <3> QED
      BY <2>4, <3>6, <3>7, Zenon
  <2>6. CASE SaysPassthrough(text, result)
    <3>1. Kept(result) /\ ~made.compressed
      BY <2>3, <2>6 DEF SaysPassthrough
    <3>2. /\ FrameOf(result) = Envelope + 2 * Spelled(text)
          /\ made.reasonCode = "input_too_large" => FrameOf(result) > MaxMessage
      BY <2>3, <2>6, PassthroughFrame
    <3>3. Delivered.ok => Kept(Delivered.result)
      BY <2>4, <3>1, Zenon
    <3>4. Delivered.ok => made.reasonCode # "input_too_large"
      BY <2>4, <3>2, Zenon
    <3>5. Envelope + 2 * Spelled(text) <= MaxMessage => ~(FrameOf(result) > MaxMessage)
      <4>1. Envelope + 2 * Spelled(text) \in Nat /\ MaxMessage \in Nat
        BY <2>3, McpToolsAssumption
      <4> QED
        BY <3>2, <4>1, SMT
    <3> HIDE DEF Kept
    <3> QED
      BY <2>4, <3>3, <3>4, <3>5
  <2> QED
    BY <2>3, <2>5, <2>6
<1> QED
  BY <1>1, CallsStayAsked, PTL

\* An object without some of its members.
Without(object, hidden) == [k \in DOMAIN object \ hidden |-> object[k]]

\* What is left of an object that carries a payload when it does not.
LEMMA WithoutPayload ==
  ASSUME NEW these, NEW payload, NEW hidden,
         DOMAIN payload \subseteq hidden, DOMAIN these \cap hidden = {}
  PROVE  Joined(these, WithPayload(FALSE, payload)) =
           Without(Joined(these, WithPayload(TRUE, payload)), hidden)
<1> DEFINE empty == WithPayload(FALSE, payload)
           whole == Joined(these, WithPayload(TRUE, payload))
<1>1. empty = << >> /\ DOMAIN empty = {}
  BY DEF WithPayload
<1>2. whole = Joined(these, payload)
  <2>1. WithPayload(TRUE, payload) = payload
    BY DEF WithPayload
  <2> QED
    BY <2>1, Zenon
<1> HIDE DEF whole
<1>3. Joined(these, empty) = [k \in DOMAIN these |-> these[k]]
  <2>1. DOMAIN these \cup DOMAIN empty = DOMAIN these
    BY <1>1
  <2> HIDE DEF empty
  <2> QED
    BY <2>1 DEF Joined
<1>4. DOMAIN whole \ hidden = DOMAIN these
  BY <1>2, JoinedMembers
<1>5. \A k \in DOMAIN these : whole[k] = these[k]
  BY <1>2, JoinedMembers
<1> HIDE DEF empty
<1>6. [k \in DOMAIN whole \ hidden |-> whole[k]] = [k \in DOMAIN these |-> these[k]]
  BY <1>4, <1>5
<1> QED
  BY <1>3, <1>6 DEF empty, whole, Without

\* A call whose arguments are refused is refused alike, with the payload or without.
LEMMA EstimateAsCompress ==
  ASSUME NEW a \in Arguments,
         NEW estimate, estimate = ToolsCall("tokfold_estimate", a),
         NEW full, full = ToolsCall("tokfold_compress", a)
  PROVE  /\ ~full.ok => estimate = full
         /\ full.ok =>
              /\ estimate.ok /\ estimate.result.isError = full.result.isError
              /\ estimate.result.structuredContent =
                   [k \in DOMAIN full.result.structuredContent \ {"rendering", "archive"} |->
                      full.result.structuredContent[k]]
<1>1. /\ estimate = ReplyTo(RunCompress(a, FALSE))
      /\ full = ReplyTo(RunCompress(a, TRUE))
  BY Zenon DEF ToolsCall, Call
<1> DEFINE text == Get(a, "text").text
           config == WithProfile(DefaultConfig, ProfileOf(a))
           made == Compress(text, config)
<1>2. CASE ~ArgumentsAreAnObject(a) \/ ~HasString(a, "text") \/ ~ProfileIsKnown(a)
  <2>1. PICK about : RunCompress(a, FALSE) = Refused(about) /\ RunCompress(a, TRUE) = Refused(about)
    BY <1>2, Zenon DEF RunCompress
  <2>2. estimate = full /\ ~full.ok
    BY <1>1, <2>1, RefusalsSay
  <2> QED
    BY <2>2
<1>3. CASE ~(~ArgumentsAreAnObject(a) \/ ~HasString(a, "text") \/ ~ProfileIsKnown(a))
  <2>1. /\ RunCompress(a, FALSE) = OutcomeOf(text, made, FALSE)
        /\ RunCompress(a, TRUE) = OutcomeOf(text, made, TRUE)
    BY <1>3, Zenon DEF RunCompress
  <2> HIDE DEF made
  <2> DEFINE hidden == {"rendering", "archive"}
             Agree(some, all) == some = Without(all, hidden)
             flag == FALSE
  <2>2. \E s, t, u, v : /\ OutcomeOf(text, made, FALSE) = Outcome(u, s, flag)
                        /\ OutcomeOf(text, made, TRUE) = Outcome(v, t, flag)
                        /\ Agree(s, t)
    <3>1. CASE made.ok
      <4> DEFINE these == [compressed |-> TRUE, stats |-> StatsValue(made.stats)]
                 payload == [rendering |-> made.rendering, archive |-> Encode(made.archive)]
                 S(withPayload) == Joined(these, WithPayload(withPayload, payload))
      <4>1. /\ OutcomeOf(text, made, FALSE) = Outcome(Summary, S(FALSE), FALSE)
            /\ OutcomeOf(text, made, TRUE) = Outcome(made.rendering, S(TRUE), FALSE)
        BY <3>1, Zenon DEF OutcomeOf, CompressedOutcome
      <4>2. DOMAIN payload \subseteq hidden /\ DOMAIN these \cap hidden = {}
        OBVIOUS
      <4> HIDE DEF these, payload, hidden
      <4>3. Agree(S(FALSE), S(TRUE))
        BY <4>2, WithoutPayload
      <4> HIDE DEF S, Agree
      <4> QED
        BY <4>1, <4>3
    <3>2. CASE ~made.ok
      <4> DEFINE code == CompressErrorCode(made.error)
      <4> DEFINE these == [compressed |-> FALSE, reasonCode |-> code]
                 payload == [rendering |-> text]
                 S(withPayload) == Joined(these, WithPayload(withPayload, payload))
      <4>1. /\ OutcomeOf(text, made, FALSE) = Outcome(Wording, S(FALSE), FALSE)
            /\ OutcomeOf(text, made, TRUE) = Outcome(text, S(TRUE), FALSE)
        BY <3>2, Zenon DEF OutcomeOf, PassthroughOutcome
      <4>2. DOMAIN payload \subseteq hidden /\ DOMAIN these \cap hidden = {}
        OBVIOUS
      <4> HIDE DEF these, payload, hidden
      <4>3. Agree(S(FALSE), S(TRUE))
        BY <4>2, WithoutPayload
      <4> HIDE DEF S, Agree
      <4> QED
        BY <4>1, <4>3
    <3> QED
      BY <3>1, <3>2
  <2> HIDE DEF Agree, flag, hidden
  <2>3. PICK s, t, u, v : /\ OutcomeOf(text, made, FALSE) = Outcome(u, s, flag)
                          /\ OutcomeOf(text, made, TRUE) = Outcome(v, t, flag)
                          /\ Agree(s, t)
    BY <2>2
  <2>4. estimate = ReplyTo(Outcome(u, s, flag)) /\ full = ReplyTo(Outcome(v, t, flag))
    BY <1>1, <2>1, <2>3
  <2>5. estimate.ok /\ estimate.result.structuredContent = s /\ estimate.result.isError = flag
    BY ONLY <2>4, RepliesSay
  <2>6. full.ok /\ full.result.structuredContent = t /\ full.result.isError = flag
    BY ONLY <2>4, RepliesSay
  <2> QED
    BY <2>3, <2>5, <2>6 DEF Agree, hidden, Without
<1> QED
  BY <1>2, <1>3

\* "The two share one implementation": an estimate says what the compression of the same
\* arguments would, refusals included, and holds nothing of the payload, whatever the
\* documents, the encoders and the estimates.  (run_compress)
THEOREM EstimatesMatch == Spec => []EstimateMatchesCompress
<1>1. ASSUME call.arguments \in Arguments PROVE EstimateMatchesCompress
  <2> DEFINE full == ToolsCall("tokfold_compress", call.arguments)
             estimate == ToolsCall("tokfold_estimate", call.arguments)
  <2>1. /\ ~full.ok => estimate = full
        /\ full.ok =>
             /\ estimate.ok /\ estimate.result.isError = full.result.isError
             /\ estimate.result.structuredContent =
                  [k \in DOMAIN full.result.structuredContent \ {"rendering", "archive"} |->
                     full.result.structuredContent[k]]
    BY <1>1, EstimateAsCompress
  <2>2. call.name = "tokfold_estimate" => Reply = estimate
    BY Zenon DEF Reply
  <2> HIDE DEF full, estimate
  <2> QED
    BY <2>1, <2>2, Zenon DEF EstimateMatchesCompress, full
<1> QED
  BY <1>1, CallsStayAsked, PTL

\* A call that is not refused has an outcome.
LEMMA OutcomesAreReplies ==
  /\ \A text, result, withPayload : ReplyTo(OutcomeOf(text, result, withPayload)).ok
  /\ \A decoded : ReplyTo(OutcomeOfText(decoded)).ok
  /\ \A about : ~ReplyTo(Refused(about)).ok /\ ReplyTo(Refused(about)).about = about
<1>1. \A text, structured, isError : ReplyTo(Outcome(text, structured, isError)).ok
  BY DEF ReplyTo, Outcome
<1>2. ASSUME NEW text, NEW result, NEW withPayload
      PROVE  ReplyTo(OutcomeOf(text, result, withPayload)).ok
  <2>1. OutcomeOf(text, result, withPayload) = CompressedOutcome(result, withPayload)
        \/ OutcomeOf(text, result, withPayload) =
             PassthroughOutcome(text, CompressErrorCode(result.error), withPayload)
    BY Zenon DEF OutcomeOf
  <2>2. ReplyTo(CompressedOutcome(result, withPayload)).ok
    BY <1>1, Zenon DEF CompressedOutcome
  <2>3. ReplyTo(PassthroughOutcome(text, CompressErrorCode(result.error), withPayload)).ok
    BY <1>1, Zenon DEF PassthroughOutcome
  <2> QED
    BY <2>1, <2>2, <2>3, Zenon
<1>3. ASSUME NEW decoded PROVE ReplyTo(OutcomeOfText(decoded)).ok
  <2>1. \A code : ReplyTo(Failed(code)).ok
    BY <1>1, Zenon DEF Failed
  <2>2. \A restored : ReplyTo(OutcomeOfBytes(restored)).ok
    BY <1>1, <2>1, Zenon DEF OutcomeOfBytes
  <2> QED
    BY <2>1, <2>2, Zenon DEF OutcomeOfText
<1>4. \A about : ~ReplyTo(Refused(about)).ok /\ ReplyTo(Refused(about)).about = about
  BY DEF ReplyTo, Refused
<1> QED
  BY <1>2, <1>3, <1>4

\* What compress and estimate take, and blame.
LEMMA CompressKeepsItsSchema ==
  ASSUME NEW a, NEW withPayload, NEW reply, reply = ReplyTo(RunCompress(a, withPayload))
  PROVE  /\ reply.ok <=> ArgumentsAreAnObject(a) /\ HasString(a, "text") /\ ProfileIsKnown(a)
         /\ ~reply.ok => \/ reply.about = "arguments" /\ ~ArgumentsAreAnObject(a)
                         \/ reply.about = "text" /\ ~HasString(a, "text")
                         \/ reply.about = "profile" /\ ~ProfileIsKnown(a)
<1>1. CASE ~ArgumentsAreAnObject(a)
  <2>1. RunCompress(a, withPayload) = Refused("arguments")
    BY <1>1, Zenon DEF RunCompress
  <2> QED
    BY <1>1, <2>1, OutcomesAreReplies
<1>2. CASE ArgumentsAreAnObject(a) /\ ~HasString(a, "text")
  <2>1. RunCompress(a, withPayload) = Refused("text")
    BY <1>2, Zenon DEF RunCompress
  <2> QED
    BY <1>2, <2>1, OutcomesAreReplies
<1>3. CASE ArgumentsAreAnObject(a) /\ HasString(a, "text") /\ ~ProfileIsKnown(a)
  <2>1. RunCompress(a, withPayload) = Refused("profile")
    BY <1>3, Zenon DEF RunCompress
  <2> QED
    BY <1>3, <2>1, OutcomesAreReplies
<1>4. CASE ArgumentsAreAnObject(a) /\ HasString(a, "text") /\ ProfileIsKnown(a)
  <2>1. \E text, result : RunCompress(a, withPayload) = OutcomeOf(text, result, withPayload)
    BY <1>4, Zenon DEF RunCompress
  <2>2. reply.ok
    BY <2>1, OutcomesAreReplies, Zenon
  <2> QED
    BY <1>4, <2>2
<1> QED
  BY <1>1, <1>2, <1>3, <1>4

\* What decompress takes, and blames.
LEMMA DecompressKeepsItsSchema ==
  ASSUME NEW a, NEW reply, reply = ReplyTo(RunDecompress(a))
  PROVE  /\ reply.ok <=> ArgumentsAreAnObject(a) /\ HasString(a, "archive")
         /\ ~reply.ok => \/ reply.about = "arguments" /\ ~ArgumentsAreAnObject(a)
                         \/ reply.about = "archive" /\ ~HasString(a, "archive")
<1>1. CASE ~ArgumentsAreAnObject(a)
  <2>1. RunDecompress(a) = Refused("arguments")
    BY <1>1, Zenon DEF RunDecompress
  <2> QED
    BY <1>1, <2>1, OutcomesAreReplies
<1>2. CASE ArgumentsAreAnObject(a) /\ ~HasString(a, "archive")
  <2>1. RunDecompress(a) = Refused("archive")
    BY <1>2, Zenon DEF RunDecompress
  <2> QED
    BY <1>2, <2>1, OutcomesAreReplies
<1>3. CASE ArgumentsAreAnObject(a) /\ HasString(a, "archive")
  <2>1. \E decoded : RunDecompress(a) = OutcomeOfText(decoded)
    BY <1>3, Zenon DEF RunDecompress
  <2>2. reply.ok
    BY <2>1, OutcomesAreReplies, Zenon
  <2> QED
    BY <1>3, <2>2
<1> QED
  BY <1>1, <1>2, <1>3

\* The catalogue keeps its word, for arguments of every shape: what its schema admits is never
\* refused, what lacks what it requires always is, and a refusal blames something the
\* arguments do get wrong.  (catalogue, object_arguments, required_str, optional_profile)
THEOREM TheSchemaIsKept == Spec => []SchemaIsKept
<1>1. SchemaIsKept
  <2> DEFINE a == call.arguments
             schema == Catalogue[call.name]
  <2> SUFFICES ASSUME call.name \in Names
               PROVE  /\ Admitted(a, schema) => Reply.ok
                      /\ Reply.ok => \A key \in schema.required : FitsItsSchema(a, key)
                      /\ ~Reply.ok =>
                           \/ Reply.about = "arguments" /\ a.type # "object"
                           \/ /\ Reply.about \in schema.properties
                              /\ ~FitsItsSchema(a, Reply.about)
    BY Zenon DEF SchemaIsKept
  <2>1. ASSUME ~ArgumentsAreAnObject(a) PROVE a.type # "object"
    BY <2>1 DEF ArgumentsAreAnObject
  <2>2. ASSUME a.type = "object" PROVE ArgumentsAreAnObject(a)
    BY <2>2 DEF ArgumentsAreAnObject
  <2>3. \A key : key # "profile" => (FitsItsSchema(a, key) <=> HasString(a, key))
    BY Zenon DEF FitsItsSchema
  <2>4. FitsItsSchema(a, "profile") => ProfileIsKnown(a)
    BY Zenon DEF FitsItsSchema, ProfileIsKnown, HasString, IsProfile
  <2>5. Get(a, "profile") = Absent => ProfileIsKnown(a)
    BY DEF ProfileIsKnown, Absent, Of
  <2>6. CASE call.name \in {"tokfold_compress", "tokfold_estimate"}
    <3>1. schema.properties = {"text", "profile"} /\ schema.required = {"text"}
      BY <2>6 DEF Catalogue, Names
    <3>2. \E withPayload : Reply = ReplyTo(RunCompress(a, withPayload))
      BY <2>6, Zenon DEF Reply, ToolsCall, Call
    <3> HIDE DEF schema
    <3>3. /\ Reply.ok <=> ArgumentsAreAnObject(a) /\ HasString(a, "text") /\ ProfileIsKnown(a)
          /\ ~Reply.ok => \/ Reply.about = "arguments" /\ ~ArgumentsAreAnObject(a)
                          \/ Reply.about = "text" /\ ~HasString(a, "text")
                          \/ Reply.about = "profile" /\ ~ProfileIsKnown(a)
      BY <3>2, CompressKeepsItsSchema, Zenon
    <3>4. ASSUME Admitted(a, schema) PROVE Reply.ok
      <4>1. a.type = "object" /\ FitsItsSchema(a, "text")
            /\ (FitsItsSchema(a, "profile") \/ Get(a, "profile") = Absent)
        BY <3>1, <3>4 DEF Admitted
      <4> QED
        BY <2>2, <2>3, <2>4, <2>5, <3>3, <4>1
    <3> QED
      BY <2>1, <2>3, <2>4, <3>1, <3>3, <3>4
  <2>7. CASE call.name = "tokfold_decompress"
    <3>1. schema.properties = {"archive"} /\ schema.required = {"archive"}
      BY <2>7 DEF Catalogue, Names
    <3>2. Reply = ReplyTo(RunDecompress(a))
      BY <2>7, Zenon DEF Reply, ToolsCall, Call
    <3> HIDE DEF schema
    <3>3. /\ Reply.ok <=> ArgumentsAreAnObject(a) /\ HasString(a, "archive")
          /\ ~Reply.ok => \/ Reply.about = "arguments" /\ ~ArgumentsAreAnObject(a)
                          \/ Reply.about = "archive" /\ ~HasString(a, "archive")
      BY <3>2, DecompressKeepsItsSchema, Zenon
    <3>4. ASSUME Admitted(a, schema) PROVE Reply.ok
      <4>1. a.type = "object" /\ FitsItsSchema(a, "archive")
        BY <3>1, <3>4 DEF Admitted
      <4> QED
        BY <2>2, <2>3, <3>3, <4>1
    <3> QED
      BY <2>1, <2>3, <3>1, <3>3, <3>4
  <2> QED
    BY <2>6, <2>7 DEF Names
<1> QED
  BY <1>1, PTL

\* A file is of bytes and a text of symbols, whatever became of them, and both are, undamaged,
\* what was archived.
FileOK ==
  /\ damage \in Nat
  /\ carrier = "file" =>
       /\ original \in Documents /\ archive \in Seq(Byte)
       /\ damage = 0 => archive = ArchiveOf(original)
TextOK ==
  carrier = "text" =>
    /\ original \in Documents /\ archive \in Seq(Symbol)
    /\ damage = 0 => archive = Encode(ArchiveOf(original))

\* What the medium does to an archive leaves it made of the same alphabet.
LEMMA DamageKeepsTheAlphabet ==
  ASSUME archive \in Seq(Alphabet), Change \/ Cut \/ Lose \/ Grow
  PROVE  archive' \in Seq(Alphabet)
<1> DEFINE S == Alphabet
<1> HIDE DEF S
<1>1. archive \in Seq(S)
  BY DEF S
<1>2. CASE Change
  <2>1. PICK k \in DOMAIN archive, b \in S : archive' = [archive EXCEPT ![k] = b]
    BY <1>2 DEF Change, S
  <2>2. k \in 1..Len(archive)
    BY <1>1, <2>1, LenProperties
  <2>3. archive' \in Seq(S)
    BY <1>1, <2>1, <2>2, ExceptSeq
  <2> QED
    BY <2>3 DEF S
<1>3. CASE Cut
  <2>1. PICK n \in 0..(Len(archive) - 1) : archive' = SubSeq(archive, 1, n)
    BY <1>3 DEF Cut
  <2>2. archive' \in Seq(S)
    BY <1>1, <2>1
  <2> QED
    BY <2>2 DEF S
<1>4. CASE Lose
  <2>1. PICK k \in DOMAIN archive : archive' = RemoveAt(archive, k)
    BY <1>4 DEF Lose
  <2>2. k \in 1..Len(archive) /\ Len(archive) \in Nat
    BY <1>1, <2>1, LenProperties
  <2>3. SubSeq(archive, 1, k - 1) \in Seq(S) /\ SubSeq(archive, k + 1, Len(archive)) \in Seq(S)
    BY <1>1, <2>2
  <2>4. archive' \in Seq(S)
    BY <2>1, <2>3 DEF RemoveAt
  <2> QED
    BY <2>4 DEF S
<1>5. CASE Grow
  <2>1. PICK b \in S : archive' = Append(archive, b)
    BY <1>5 DEF Grow, S
  <2>2. archive' \in Seq(S)
    BY <1>1, <2>1
  <2> QED
    BY <2>2 DEF S
<1> QED
  BY <1>2, <1>3, <1>4, <1>5

\* What became of a file is of bytes, and it is the archive until it is damaged.
LEMMA FilesStayBytes == Spec => []FileOK
<1>1. Init => FileOK
  BY DEF Init, FileOK
<1>2. FileOK /\ [Next]_vars => FileOK'
  <2> SUFFICES ASSUME FileOK, [Next]_vars
               PROVE  /\ damage' \in Nat
                      /\ carrier' = "file" =>
                           /\ original' \in Documents /\ archive' \in Seq(Byte)
                           /\ damage' = 0 => archive' = ArchiveOf(original')
    BY DEF FileOK
  <2>1. CASE Ask
    BY <2>1 DEF Ask, FileOK
  <2>2. CASE Keep
    BY <2>2 DEF Keep, FileOK
  <2>3. CASE ReceiveFile
    <3>1. PICK d \in Documents : original' = d /\ archive' = ArchiveOf(d)
      BY <2>3 DEF ReceiveFile
    <3>2. damage' = damage /\ damage \in Nat
      BY <2>3 DEF ReceiveFile, FileOK
    <3> QED
      BY <3>1, <3>2, DocumentsArchived
  <2>4. CASE SpellFile
    BY <2>4 DEF SpellFile, FileOK
  <2>5. CASE Damage
    <3>1. /\ carrier' = carrier /\ original' = original /\ damage' = damage + 1
          /\ damage < MaxDamage(original)
          /\ Change \/ Cut \/ Lose \/ Grow
      BY <2>5 DEF Damage
    <3>2. damage \in Nat /\ damage + 1 \in Nat /\ damage + 1 # 0
      BY DEF FileOK
    <3>3. ASSUME carrier = "file" PROVE original \in Documents /\ archive' \in Seq(Byte)
      <4>1. original \in Documents /\ archive \in Seq(Byte) /\ Alphabet = Byte
        BY <3>3 DEF FileOK, Alphabet
      <4>2. archive' \in Seq(Byte)
        BY <3>1, <4>1, DamageKeepsTheAlphabet, Zenon
      <4> QED
        BY <4>1, <4>2
    <3> QED
      BY <3>1, <3>2, <3>3
  <2>6. CASE UNCHANGED vars
    BY <2>6 DEF vars, FileOK
  <2> QED
    BY <2>1, <2>2, <2>3, <2>4, <2>5, <2>6 DEF Next
<1> QED
  BY <1>1, <1>2, PTL DEF Spec

\* What became of a text is of symbols, and it spells the archive until it is damaged.
LEMMA TextsStaySymbols ==
  ASSUME Program
  PROVE  Spec => []TextOK
<1>1. Init => TextOK
  BY DEF Init, TextOK
<1>2. FileOK /\ call.arguments \in Arguments /\ TextOK /\ [Next]_vars => TextOK'
  <2> SUFFICES ASSUME FileOK, call.arguments \in Arguments, TextOK, [Next]_vars
               PROVE  carrier' = "text" =>
                        /\ original' \in Documents /\ archive' \in Seq(Symbol)
                        /\ damage' = 0 => archive' = Encode(ArchiveOf(original'))
    BY DEF TextOK
  <2>1. ASSUME NEW d \in Documents PROVE Encode(ArchiveOf(d)) \in Seq(Symbol)
    <3>1. ArchiveOf(d) \in Seq(EightBits)
      BY DocumentsArchived, BytesAreOctets
    <3> QED
      BY <3>1, EncodedInQuartets
  <2>2. CASE Ask
    BY <2>2 DEF Ask, TextOK
  <2>3. CASE Keep
    <3> DEFINE text == Get(call.arguments, "text").text
    <3>1. /\ Reply = ToolsCall("tokfold_compress", call.arguments) /\ Reply.ok
          /\ Reply.result.structuredContent.compressed
          /\ original' = text /\ archive' = Reply.result.structuredContent.archive
      <4>1. Delivered.ok => Delivered = Reply /\ Reply.ok
        <5> DEFINE reply == Reply
                   got == Delivered
        <5>1. got = RenderBounded(reply)
          BY DEF Delivered
        <5> HIDE DEF reply, got
        <5>2. got.ok => got = reply /\ reply.ok
          BY ONLY <5>1, DeliveredAsMade
        <5> QED
          BY <5>2 DEF got, reply
      <4>2. /\ call.name = "tokfold_compress" /\ Delivered.ok
            /\ Delivered.result.structuredContent.compressed
            /\ original' = text /\ archive' = Delivered.result.structuredContent.archive
        BY <2>3 DEF Keep
      <4>3. Reply = ToolsCall("tokfold_compress", call.arguments)
        BY <4>2 DEF Reply
      <4> QED
        BY <4>1, <4>2, <4>3, Zenon
    <3>2. /\ text \in Documents
          /\ SaysCompressed(text, Reply.result) \/ SaysPassthrough(text, Reply.result)
      BY <3>1, CompressSays
    <3> HIDE DEF text
    <3>3. archive' = Encode(ArchiveOf(text))
      BY <3>1, <3>2 DEF SaysCompressed, SaysPassthrough
    <3> QED
      BY <2>1, <3>1, <3>2, <3>3
  <2>4. CASE ReceiveFile
    BY <2>4 DEF ReceiveFile
  <2>5. CASE SpellFile
    <3>1. /\ archive' = Encode(archive) /\ original' = original /\ damage = 0
          /\ carrier = "file"
      BY <2>5 DEF SpellFile
    <3>2. original \in Documents /\ archive = ArchiveOf(original)
      BY <3>1 DEF FileOK
    <3> QED
      BY <2>1, <3>1, <3>2
  <2>6. CASE Damage
    <3>1. /\ carrier' = carrier /\ original' = original /\ damage' = damage + 1
          /\ Change \/ Cut \/ Lose \/ Grow
      BY <2>6 DEF Damage
    <3>2. damage + 1 # 0
      BY DEF FileOK
    <3>3. ASSUME carrier = "text" PROVE original \in Documents /\ archive' \in Seq(Symbol)
      <4>1. original \in Documents /\ archive \in Seq(Symbol) /\ Alphabet = Symbol
        BY <3>3 DEF TextOK, Alphabet
      <4>2. archive' \in Seq(Symbol)
        BY <3>1, <4>1, DamageKeepsTheAlphabet, Zenon
      <4> QED
        BY <4>1, <4>2
    <3> QED
      BY <3>1, <3>2, <3>3
  <2>7. CASE UNCHANGED vars
    BY <2>7 DEF vars, TextOK
  <2> QED
    BY <2>2, <2>3, <2>4, <2>5, <2>6, <2>7 DEF Next
<1> QED
  BY <1>1, <1>2, FilesStayBytes, CallsStayAsked, PTL DEF Spec

\* A stretch of a sequence is the one that has its values there.
LEMMA Stretch ==
  ASSUME NEW S, NEW s \in Seq(S), NEW t \in Seq(S), NEW k \in Nat, k + Len(t) <= Len(s),
         \A i \in 1..Len(t) : s[k + i] = t[i]
  PROVE  SubSeq(s, k + 1, k + Len(t)) = t
<1> DEFINE x == SubSeq(s, k + 1, k + Len(t))
<1>1. x \in Seq(S) /\ Len(x) = Len(t) /\ \A i \in 1..Len(t) : x[i] = s[k + i]
  <2>1. Len(t) \in Nat /\ Len(s) \in Nat
    OBVIOUS
  <2>2. CASE Len(t) = 0
    <3>1. x = << >>
      BY <2>1, <2>2
    <3> QED
      BY <2>2, <3>1
  <2>3. CASE Len(t) # 0
    <3>1. k + 1 \in 1..Len(s) /\ k + Len(t) \in (k + 1 - 1)..Len(s)
      BY <2>1, <2>3, SMT
    <3>2. x \in Seq(S) /\ Len(x) = Len(t)
      BY <2>1, <2>3, <3>1
    <3>3. \A i \in 1..Len(t) : x[i] = s[k + i]
      BY <2>1, <3>1, <3>2
    <3> QED
      BY <3>2, <3>3
  <2> QED
    BY <2>2, <2>3
<1> HIDE DEF x
<1>2. \A i \in 1..Len(x) : x[i] = t[i]
  BY <1>1
<1>3. x = t
  BY <1>1, <1>2, SeqEqual
<1> QED
  BY <1>3 DEF x

\* A field starts what follows a place when its bytes are there.
LEMMA CarriesIsPrefix ==
  ASSUME NEW bytes \in Seq(Byte), NEW start \in Nat, start <= Len(bytes), NEW v \in 0..Top
  PROVE  Carries(bytes, start, v) <=>
           IsPrefix(WriteUleb(v), SubSeq(bytes, start + 1, Len(bytes)))
<1> DEFINE w == WriteUleb(v)
           n == GroupsOf(v)
           f == SubSeq(bytes, start + 1, Len(bytes))
<1>1. w \in Seq(Byte) /\ Len(w) = n /\ n \in Nat /\ n >= 1
  <2>1. MaxGroups \in Nat
    BY VarintAssumption
  <2> QED
    BY <2>1, FieldWritten
<1>2. f \in Seq(Byte) /\ Len(f) = Len(bytes) - start /\ \A i \in 1..Len(f) : f[i] = bytes[start + i]
  <2>1. Len(bytes) \in Nat /\ start + 1 \in 1..(Len(bytes) + 1)
    OBVIOUS
  <2>2. f \in Seq(Byte) /\ Len(f) = Len(bytes) - start
    BY <2>1
  <2>3. \A i \in 1..Len(f) : f[i] = bytes[start + i]
    BY <2>1, <2>2
  <2> QED
    BY <2>2, <2>3
<1>3. Carries(bytes, start, v)
        <=> start + n <= Len(bytes) /\ \A i \in 1..n : bytes[start + i] = w[i]
  BY DEF Carries
<1> HIDE DEF w, n, f
<1>4. ASSUME start + n <= Len(bytes), \A i \in 1..n : bytes[start + i] = w[i] PROVE IsPrefix(w, f)
  <2>1. n <= Len(f) /\ Len(f) \in Nat /\ Len(bytes) \in Nat
    BY <1>1, <1>2, <1>4
  <2>2. \A i \in 1..n : f[0 + i] = w[i]
    BY <1>1, <1>2, <1>4, <2>1
  <2>3. SubSeq(f, 0 + 1, 0 + Len(w)) = w
    BY <1>1, <1>2, <2>1, <2>2, Stretch
  <2>4. \A i \in 1..n : w[0 + i] = w[i]
    BY <1>1
  <2>5. SubSeq(w, 0 + 1, 0 + Len(w)) = w
    BY <1>1, <2>4, Stretch
  <2>6. 0 + 1 = 1 /\ 0 + Len(w) = Len(w)
    BY <1>1
  <2>7. SubSeq(w, 1, Len(w)) = SubSeq(f, 1, Len(w))
    BY <2>3, <2>5, <2>6
  <2> QED
    BY <1>1, <2>1, <2>7 DEF IsPrefix
<1>5. ASSUME IsPrefix(w, f)
      PROVE  start + n <= Len(bytes) /\ \A i \in 1..n : bytes[start + i] = w[i]
  <2>1. n <= Len(f) /\ SubSeq(w, 1, n) = SubSeq(f, 1, n)
    BY <1>1, <1>5 DEF IsPrefix
  <2>2. Len(bytes) \in Nat /\ start + n <= Len(bytes)
    BY <1>1, <1>2, <2>1
  <2>3. ASSUME NEW i \in 1..n PROVE bytes[start + i] = w[i]
    <3>1. i \in 1..Len(f) /\ i \in 1..Len(w)
      BY <1>1, <1>2, <2>1, <2>2
    <3>2. SubSeq(w, 1, n)[i] = w[i] /\ SubSeq(f, 1, n)[i] = f[i]
      BY <1>1, <1>2, <2>1, <2>2, <3>1
    <3> QED
      BY <1>2, <2>1, <3>1, <3>2
  <2> QED
    BY <2>2, <2>3
<1> QED
  BY <1>3, <1>4, <1>5 DEF w, f

\* One number, one field, whatever becomes of an archive: a length field that is accepted is
\* the very field written for that number, every field that is written is accepted, and a
\* refusal names a byte of the field or the one after it.  (write_uleb128, read_uleb128)
THEOREM OneNumberOneField == Spec => []OneFieldPerNumber
<1>1. FileOK => OneFieldPerNumber
  <2> DEFINE r == ReadUleb(archive, LengthOffset)
             field == SubSeq(archive, LengthOffset + 1, Len(archive))
  <2> SUFFICES ASSUME FileOK, carrier = "file", Len(archive) >= LengthOffset
               PROVE  /\ r.ok => r.value <= Top /\ IsPrefix(WriteUleb(r.value), field)
                      /\ (\E v \in 0..Top : IsPrefix(WriteUleb(v), field)) => r.ok
                      /\ /\ r.at \in LengthOffset..(LengthOffset + MaxGroups)
                         /\ r.at <= Len(archive)
    BY Zenon DEF OneFieldPerNumber
  <2>1. archive \in Seq(Byte) /\ LengthOffset \in Nat /\ LengthOffset <= Len(archive)
    BY DEF FileOK, LengthOffset
  <2>2. \A v \in 0..Top : Carries(archive, LengthOffset, v) <=> IsPrefix(WriteUleb(v), field)
    BY <2>1, CarriesIsPrefix
  <2>3. Top \in Nat
    BY VarintAssumption
  <2> HIDE DEF field
  <2>4. ASSUME r.ok PROVE r.value <= Top /\ IsPrefix(WriteUleb(r.value), field)
    <3> DEFINE v == r.value
    <3>1. v \in 0..Top /\ Carries(archive, LengthOffset, v)
      BY <2>1, <2>4, ReadIsWritten
    <3> HIDE DEF v
    <3>2. v <= Top /\ IsPrefix(WriteUleb(v), field)
      BY <2>2, <2>3, <3>1
    <3> QED
      BY <3>2 DEF v
  <2>5. ASSUME NEW v \in 0..Top, IsPrefix(WriteUleb(v), field) PROVE r.ok
    <3>1. r = Read(v, LengthOffset + GroupsOf(v))
      BY <2>1, <2>2, <2>5, FieldIsRead
    <3> QED
      BY <3>1 DEF Read
  <2>6. r.at \in LengthOffset..(LengthOffset + MaxGroups) /\ r.at <= Len(archive)
    BY <2>1, ReadNearby
  <2> QED
    BY <2>4, <2>5, <2>6
<1> QED
  BY <1>1, FilesStayBytes, PTL

\* A document that can be archived.
Archivable(d) ==
  d \in Seq(Byte) /\ Len(d) <= Top /\ Digest(d) \in Seq(Byte) /\ Len(Digest(d)) = DigestLen

\* Two sequences, one after the other.
LEMMA Concatenated ==
  ASSUME NEW S, NEW s \in Seq(S), NEW t \in Seq(S)
  PROVE  /\ s \o t \in Seq(S) /\ Len(s \o t) = Len(s) + Len(t)
         /\ \A i \in 1..Len(s) : (s \o t)[i] = s[i]
         /\ \A i \in 1..Len(t) : (s \o t)[Len(s) + i] = t[i]
<1>1. Len(s) \in Nat /\ Len(t) \in Nat /\ s \o t \in Seq(S) /\ Len(s \o t) = Len(s) + Len(t)
  OBVIOUS
<1>2. \A i \in 1..(Len(s) + Len(t)) :
        (s \o t)[i] = IF i <= Len(s) THEN s[i] ELSE t[i - Len(s)]
  OBVIOUS
<1>3. \A i \in 1..Len(t) : (s \o t)[Len(s) + i] = t[i]
  <2> TAKE i \in 1..Len(t)
  <2>1. /\ Len(s) + i \in 1..(Len(s) + Len(t)) /\ ~(Len(s) + i <= Len(s))
        /\ (Len(s) + i) - Len(s) = i
    BY <1>1, SMT
  <2> QED
    BY <1>2, <2>1
<1>4. \A i \in 1..Len(s) : (s \o t)[i] = s[i]
  <2> TAKE i \in 1..Len(s)
  <2>1. i \in 1..(Len(s) + Len(t)) /\ i <= Len(s)
    BY <1>1, SMT
  <2> QED
    BY <1>2, <2>1
<1> QED
  BY <1>1, <1>3, <1>4

\* The same of bytes.
LEMMA BytesJoined ==
  ASSUME NEW s \in Seq(Byte), NEW t \in Seq(Byte)
  PROVE  /\ s \o t \in Seq(Byte) /\ Len(s \o t) = Len(s) + Len(t)
         /\ \A i \in 1..Len(s) : (s \o t)[i] = s[i]
         /\ \A i \in 1..Len(t) : (s \o t)[Len(s) + i] = t[i]
BY ONLY s \in Seq(Byte), t \in Seq(Byte), Concatenated

\* What is where in an archive.
Laid(a, d, n) ==
  /\ Len(a) = 10 + n + DigestLen + Len(d)
  /\ \A i \in 1..4 : a[i] = Magic[i]
  /\ a[5] = VERSION
  /\ \A i \in 6..10 : a[i] = 0
  /\ \A i \in 1..n : a[10 + i] = WriteUleb(Len(d))[i]
  /\ \A i \in 1..DigestLen : a[10 + n + i] = Digest(d)[i]
  /\ \A i \in 1..Len(d) : a[10 + n + DigestLen + i] = d[i]

LEMMA ArchiveIsLaid ==
  ASSUME NEW d, Archivable(d)
  PROVE  /\ ArchiveOf(d) \in Seq(Byte) /\ Laid(ArchiveOf(d), d, GroupsOf(Len(d)))
         /\ Len(d) \in 0..Top /\ GroupsOf(Len(d)) \in 1..MaxGroups /\ GroupsOf(Len(d)) \in Nat
         /\ WriteUleb(Len(d)) \in Seq(Byte) /\ Len(WriteUleb(Len(d))) = GroupsOf(Len(d))
<1>1. /\ d \in Seq(Byte) /\ Len(d) <= Top /\ Digest(d) \in Seq(Byte)
      /\ Len(Digest(d)) = DigestLen /\ DigestLen \in Nat /\ Len(d) \in Nat /\ Top \in Nat
      /\ MaxGroups \in Nat
  BY ContainerAssumption, VarintAssumption DEF Archivable
<1>2. /\ ArchiveOf(d) \in Seq(Byte)
      /\ Rest \in Seq(Byte) /\ Len(Rest) = 6 /\ Len(Magic) = 4 /\ Magic \in Seq(Byte)
      /\ WriteUleb(Len(d)) \in Seq(Byte) /\ Len(WriteUleb(Len(d))) = GroupsOf(Len(d))
      /\ GroupsOf(Len(d)) \in 1..MaxGroups
      /\ ArchiveOf(d) = (((Magic \o Rest) \o WriteUleb(Len(d))) \o Digest(d)) \o d
  BY <1>1, ArchiveIsBytes
<1> DEFINE m == Magic
           r == Rest
           w == WriteUleb(Len(d))
           g == Digest(d)
           n == GroupsOf(Len(d))
           a == ArchiveOf(d)
<1>3. n \in Nat /\ r[1] = VERSION /\ \A i \in 2..6 : r[i] = 0
  BY <1>1, <1>2 DEF Rest
<1> HIDE DEF m, r, w, g, n, a
<1>4. /\ m \in Seq(Byte) /\ Len(m) = 4 /\ r \in Seq(Byte) /\ Len(r) = 6
      /\ w \in Seq(Byte) /\ Len(w) = n /\ g \in Seq(Byte) /\ Len(g) = DigestLen
      /\ a = (((m \o r) \o w) \o g) \o d
  BY <1>1, <1>2 DEF m, r, w, g, n, a
<1> DEFINE x == m \o r
           y == x \o w
           z == y \o g
<1>5. /\ x \in Seq(Byte) /\ Len(x) = 10 /\ \A i \in 1..4 : x[i] = m[i]
      /\ \A i \in 1..6 : x[4 + i] = r[i]
  <2>1. /\ x \in Seq(Byte) /\ Len(x) = Len(m) + Len(r)
        /\ \A i \in 1..Len(m) : x[i] = m[i]
        /\ \A i \in 1..Len(r) : x[Len(m) + i] = r[i]
    BY ONLY <1>4, BytesJoined DEF x
  <2> HIDE DEF x
  <2> QED
    BY <1>4, <2>1
<1> HIDE DEF x
<1>6. /\ y \in Seq(Byte) /\ Len(y) = 10 + n /\ \A i \in 1..10 : y[i] = x[i]
      /\ \A i \in 1..n : y[10 + i] = w[i]
  <2>1. /\ y \in Seq(Byte) /\ Len(y) = Len(x) + Len(w)
        /\ \A i \in 1..Len(x) : y[i] = x[i]
        /\ \A i \in 1..Len(w) : y[Len(x) + i] = w[i]
    BY ONLY <1>4, <1>5, BytesJoined DEF y
  <2> HIDE DEF y
  <2> QED
    BY <1>4, <1>5, <2>1
<1> HIDE DEF y
<1> DEFINE p == 10 + n
<1>7. /\ z \in Seq(Byte) /\ Len(z) = p + DigestLen /\ \A i \in 1..p : z[i] = y[i]
      /\ \A i \in 1..DigestLen : z[p + i] = g[i]
  <2>1. /\ z \in Seq(Byte) /\ Len(z) = Len(y) + Len(g)
        /\ \A i \in 1..Len(y) : z[i] = y[i]
        /\ \A i \in 1..Len(g) : z[Len(y) + i] = g[i]
    BY ONLY <1>4, <1>6, BytesJoined DEF z
  <2> HIDE DEF z
  <2>2. p = Len(y)
    BY <1>6
  <2> HIDE DEF p
  <2> QED
    BY <1>4, <2>1, <2>2
<1> HIDE DEF z
<1> DEFINE q == p + DigestLen
<1>8. /\ Len(a) = q + Len(d)
      /\ \A i \in 1..q : a[i] = z[i]
      /\ \A i \in 1..Len(d) : a[q + i] = d[i]
  <2>0. a = z \o d
    BY <1>4 DEF z, y, x
  <2>1. /\ a \in Seq(Byte) /\ Len(a) = Len(z) + Len(d)
        /\ \A i \in 1..Len(z) : a[i] = z[i]
        /\ \A i \in 1..Len(d) : a[Len(z) + i] = d[i]
    BY ONLY <1>1, <1>7, <2>0, BytesJoined
  <2>2. q = Len(z)
    BY <1>7
  <2> HIDE DEF q
  <2> QED
    BY <2>1, <2>2
<1>9. \A i \in 1..10 : a[i] = x[i]
  <2> TAKE i \in 1..10
  <2>1. i \in 1..(10 + n) /\ i \in 1..(10 + n + DigestLen)
    BY <1>1, <1>3, SMT
  <2> QED
    BY <1>6, <1>7, <1>8, <2>1
<1>10. \A i \in 1..n : a[10 + i] = w[i]
  <2> TAKE i \in 1..n
  <2>1. 10 + i \in 1..(10 + n) /\ 10 + i \in 1..(10 + n + DigestLen)
    BY <1>1, <1>3, SMT
  <2> QED
    BY <1>6, <1>7, <1>8, <2>1
<1>11. \A i \in 1..DigestLen : a[10 + n + i] = g[i]
  <2> TAKE i \in 1..DigestLen
  <2>1. 10 + n + i \in 1..(10 + n + DigestLen)
    BY <1>1, <1>3, SMT
  <2> QED
    BY <1>7, <1>8, <2>1
<1>12. \A i \in 1..4 : a[i] = m[i]
  BY <1>5, <1>9
<1>13. a[5] = VERSION /\ \A i \in 6..10 : a[i] = 0
  <2>1. a[5] = x[4 + 1] /\ x[4 + 1] = r[1]
    BY <1>5, <1>9
  <2>2. ASSUME NEW i \in 6..10 PROVE a[i] = 0
    <3>1. i - 4 \in 2..6 /\ i - 4 \in 1..6 /\ 4 + (i - 4) = i /\ i \in 1..10
      OBVIOUS
    <3>2. a[i] = r[i - 4]
      BY <1>5, <1>9, <3>1
    <3> QED
      BY <1>3, <3>1, <3>2
  <2> QED
    BY <1>3, <2>1, <2>2
<1>14. Laid(a, d, n)
  BY <1>8, <1>10, <1>11, <1>12, <1>13 DEF Laid, m, w, g
<1> QED
  BY <1>1, <1>2, <1>3, <1>14 DEF a, n, w

\* There is one way to lay an archive out.
LEMMA LaidOnce ==
  ASSUME NEW d, Archivable(d), NEW a \in Seq(Byte), Laid(a, d, GroupsOf(Len(d)))
  PROVE  a = ArchiveOf(d)
<1> DEFINE b == ArchiveOf(d)
           n == GroupsOf(Len(d))
<1>1. /\ b \in Seq(Byte) /\ Laid(b, d, n) /\ n \in Nat /\ Laid(a, d, n) /\ DigestLen \in Nat
      /\ Len(d) \in Nat
  BY ArchiveIsLaid, ContainerAssumption DEF Archivable
<1> HIDE DEF b, n
<1>2. Len(a) = 10 + n + DigestLen + Len(d) /\ Len(b) = Len(a)
  BY <1>1 DEF Laid
<1>3. ASSUME NEW i \in 1..Len(a) PROVE a[i] = b[i]
  <2>1. CASE i \in 1..4
    BY <1>1, <2>1 DEF Laid
  <2>2. CASE i = 5
    BY <1>1, <2>2 DEF Laid
  <2>3. CASE i \in 6..10
    BY <1>1, <2>3 DEF Laid
  <2>4. CASE i \in 11..(10 + n)
    <3>1. PICK k \in 1..n : i = 10 + k
      <4>1. i - 10 \in 1..n /\ i = 10 + (i - 10)
        BY <1>1, <2>4, SMT
      <4> QED
        BY <4>1
    <3> QED
      BY <1>1, <3>1 DEF Laid
  <2>5. CASE i \in (11 + n)..(10 + n + DigestLen)
    <3>1. PICK k \in 1..DigestLen : i = 10 + n + k
      <4>1. i - (10 + n) \in 1..DigestLen /\ i = 10 + n + (i - (10 + n))
        BY <1>1, <2>5, SMT
      <4> QED
        BY <4>1
    <3> QED
      BY <1>1, <3>1 DEF Laid
  <2>6. CASE i \in (11 + n + DigestLen)..Len(a)
    <3>1. PICK k \in 1..Len(d) : i = 10 + n + DigestLen + k
      <4>1. /\ i - (10 + n + DigestLen) \in 1..Len(d)
            /\ i = 10 + n + DigestLen + (i - (10 + n + DigestLen))
        BY <1>1, <1>2, <2>6, SMT
      <4> QED
        BY <4>1
    <3> QED
      BY <1>1, <3>1 DEF Laid
  <2>7. i \in Nat /\ 1 <= i /\ i <= Len(a)
    OBVIOUS
  <2> QED
    BY <1>1, <1>2, <2>1, <2>2, <2>3, <2>4, <2>5, <2>6, <2>7, SMT
<1>4. a = b
  BY <1>1, <1>2, <1>3, SeqEqual
<1> QED
  BY <1>4 DEF b

\* The numbers an archive is laid out by.
LEMMA HeaderNumbers ==
  /\ DigestLen \in Nat /\ DigestLen > 0 /\ Top \in Nat /\ MaxGroups \in Nat
  /\ Magic \in Seq(Byte) /\ Len(Magic) = 4
  /\ VersionOffset = 4 /\ EncoderOffset = 5 /\ TokenizerOffset = 6 /\ FlagsOffset = 8
  /\ LengthOffset = 10 /\ VERSION = 1
BY ContainerAssumption, VarintAssumption
   DEF VersionOffset, EncoderOffset, TokenizerOffset, FlagsOffset, LengthOffset, VERSION

\* An archive's first bytes, and what decompress makes of the rest of it.
Opens(a) ==
  /\ IsPrefix(Magic, a) /\ Len(a) >= 10
  /\ ByteAt(a, VersionOffset) = VERSION
  /\ ~ReservedBitsSet(ByteAt(a, FlagsOffset), ByteAt(a, FlagsOffset + 1))

Contents(a, length, start) ==
  IF ~length.ok THEN Failure("corrupt", length.at)
  ELSE IF Len(a) < start THEN Failure("corrupt", length.at)
  ELSE IF HasForeignMetadata(a) THEN Failure("corrupt", BadMetadataAt(a))
  ELSE IF LengthDisagrees(a, length.value, start) THEN Failure("corrupt", LengthOffset)
  ELSE IF Digest(SubSeq(a, start + 1, Len(a))) # SubSeq(a, length.at + 1, start)
       THEN Failure("checksum_mismatch", 0) ELSE Bytes(SubSeq(a, start + 1, Len(a)))

\* An archive that opens is what its contents are, and no other is accepted.
LEMMA OpenedFirst ==
  ASSUME NEW a \in Seq(Byte)
  PROVE  LET length == ReadUleb(a, LengthOffset)
         IN /\ Opens(a) => Decompress(a) = Contents(a, length, length.at + DigestLen)
            /\ ~Opens(a) => ~Decompress(a).ok
<1> DEFINE length == ReadUleb(a, LengthOffset)
           start == length.at + DigestLen
           c == Contents(a, length, start)
<1>1. \A error, at : ~Failure(error, at).ok
  BY DEF Failure
<1>2. Len(a) \in Nat
  OBVIOUS
<1>3. Decompress(a) =
        IF ~IsPrefix(Magic, a) THEN Failure("bad_magic", 0)
        ELSE IF ~Has(a, VersionOffset) THEN Failure("corrupt", VersionOffset)
        ELSE IF ByteAt(a, VersionOffset) > VERSION THEN Failure("unsupported_version", 0)
        ELSE IF ByteAt(a, VersionOffset) # VERSION THEN Failure("corrupt", VersionOffset)
        ELSE IF ~Has(a, EncoderOffset) THEN Failure("corrupt", EncoderOffset)
        ELSE IF ~Has(a, TokenizerOffset + 1) THEN Failure("corrupt", TokenizerOffset)
        ELSE IF ~Has(a, FlagsOffset + 1) THEN Failure("corrupt", FlagsOffset)
        ELSE IF ReservedBitsSet(ByteAt(a, FlagsOffset), ByteAt(a, FlagsOffset + 1))
             THEN Failure("reserved_bits_set", 0)
        ELSE c
  BY Zenon DEF Decompress, Contents
<1> HIDE DEF c
<1>4. /\ Len(a) >= 10 => /\ Has(a, VersionOffset) /\ Has(a, EncoderOffset)
                         /\ Has(a, TokenizerOffset + 1) /\ Has(a, FlagsOffset + 1)
      /\ Has(a, FlagsOffset + 1) => Len(a) >= 10
      /\ ~(VERSION > VERSION)
  BY <1>2 DEF Has, VersionOffset, EncoderOffset, TokenizerOffset, FlagsOffset, VERSION
<1>5. ASSUME Opens(a) PROVE Decompress(a) = c
  BY <1>3, <1>4, <1>5, Zenon DEF Opens
<1>6. ASSUME ~Opens(a) PROVE ~Decompress(a).ok
  BY <1>1, <1>3, <1>4, <1>6, Zenon DEF Opens
<1> QED
  BY <1>5, <1>6 DEF c

\* What is laid out as an archive of a document is read as that document.
LEMMA LaidIsRead ==
  ASSUME NEW d, Archivable(d)
  PROVE  Decompress(ArchiveOf(d)) = Bytes(d)
<1> DEFINE a == ArchiveOf(d)
           n == GroupsOf(Len(d))
           g == Digest(d)
<1>1. /\ a \in Seq(Byte) /\ Laid(a, d, n) /\ n \in Nat /\ Len(d) \in 0..Top
      /\ d \in Seq(Byte) /\ g \in Seq(Byte) /\ Len(g) = DigestLen /\ Len(d) \in Nat
      /\ WriteUleb(Len(d)) \in Seq(Byte) /\ Len(WriteUleb(Len(d))) = n
  BY ArchiveIsLaid, HeaderNumbers DEF Archivable
<1>r. Carries(a, LengthOffset, Len(d)) => ReadUleb(a, LengthOffset) = Read(Len(d), LengthOffset + n)
  BY <1>1, HeaderNumbers, FieldIsRead
<1> HIDE DEF a, n, g
<1>2. /\ Len(a) = 10 + n + DigestLen + Len(d)
      /\ \A i \in 1..4 : a[i] = Magic[i]
      /\ a[5] = VERSION
      /\ \A i \in 6..10 : a[i] = 0
      /\ \A i \in 1..n : a[10 + i] = WriteUleb(Len(d))[i]
      /\ \A i \in 1..DigestLen : a[10 + n + i] = g[i]
      /\ \A i \in 1..Len(d) : a[10 + n + DigestLen + i] = d[i]
  BY <1>1 DEF Laid, g
<1>3. IsPrefix(Magic, a)
  <2>1. SubSeq(a, 0 + 1, 0 + Len(Magic)) = Magic
    <3>1. 0 + Len(Magic) <= Len(a) /\ \A i \in 1..Len(Magic) : a[0 + i] = Magic[i]
      BY <1>1, <1>2, HeaderNumbers
    <3> QED
      BY ONLY <1>1, <3>1, HeaderNumbers, Stretch
  <2>2. SubSeq(Magic, 1, Len(Magic)) = Magic
    <3>1. \A i \in 1..Len(Magic) : Magic[0 + i] = Magic[i]
      BY HeaderNumbers
    <3>2. SubSeq(Magic, 0 + 1, 0 + Len(Magic)) = Magic
      BY ONLY <3>1, HeaderNumbers, Stretch
    <3> QED
      BY <3>2, HeaderNumbers
  <2> QED
    BY <1>1, <1>2, <2>1, <2>2, HeaderNumbers DEF IsPrefix
<1>4. Opens(a)
  <2>1. ~ReservedBitsSet(a[9], a[10])
    BY <1>2 DEF ReservedBitsSet
  <2> QED
    BY <1>1, <1>2, <1>3, <2>1, HeaderNumbers DEF Opens, ByteAt
<1>5. ReadUleb(a, LengthOffset) = Read(Len(d), 10 + n)
  <2>1. SubSeq(a, LengthOffset + 1, LengthOffset + n) = WriteUleb(Len(d))
    <3>1. 10 + Len(WriteUleb(Len(d))) <= Len(a)
      BY <1>1, <1>2, HeaderNumbers
    <3>2. SubSeq(a, 10 + 1, 10 + Len(WriteUleb(Len(d)))) = WriteUleb(Len(d))
      BY <1>1, <1>2, <3>1, Stretch
    <3> QED
      BY <1>1, <3>2, HeaderNumbers
  <2>2. Carries(a, LengthOffset, Len(d))
    BY <1>1, <1>2, <2>1, HeaderNumbers DEF Carries, n
  <2> QED
    BY <1>r, <2>2, HeaderNumbers
<1>6. ~HasForeignMetadata(a)
  <2> SUFFICES ASSUME NEW k \in 5..9 PROVE ByteAt(a, k) = 0
    BY HeaderNumbers DEF HasForeignMetadata
  <2>1. k + 1 \in 6..10
    OBVIOUS
  <2> QED
    BY <1>2, <2>1 DEF ByteAt
<1> DEFINE start == 10 + n + DigestLen
<1>7. SubSeq(a, start + 1, Len(a)) = d
  <2>1. start \in Nat /\ start + Len(d) = Len(a)
    BY <1>1, <1>2, HeaderNumbers
  <2>2. SubSeq(a, start + 1, start + Len(d)) = d
    <3>1. \A i \in 1..Len(d) : a[start + i] = d[i]
      BY <1>2
    <3>2. start + Len(d) <= Len(a)
      BY <1>1, <2>1
    <3> HIDE DEF start
    <3> QED
      BY ONLY <1>1, <2>1, <3>1, <3>2, Stretch
  <2> QED
    BY <2>1, <2>2
<1>8. SubSeq(a, 10 + n + 1, start) = g
  <2> DEFINE k == 10 + n
  <2>1. k \in Nat /\ k + Len(g) <= Len(a) /\ \A i \in 1..Len(g) : a[k + i] = g[i]
    BY <1>1, <1>2, HeaderNumbers
  <2>2. SubSeq(a, k + 1, k + Len(g)) = g
    <3> HIDE DEF k
    <3> QED
      BY ONLY <1>1, <2>1, Stretch
  <2> QED
    BY <1>1, <2>2
<1>9. ~(Len(a) < start) /\ ~LengthDisagrees(a, Len(d), start)
  BY <1>1, <1>2, HeaderNumbers DEF LengthDisagrees
<1>10. Contents(a, Read(Len(d), 10 + n), start) = Bytes(d)
  <2>1. Read(Len(d), 10 + n).ok /\ Read(Len(d), 10 + n).value = Len(d)
        /\ Read(Len(d), 10 + n).at = 10 + n
    BY DEF Read
  <2> HIDE DEF start
  <2> QED
    BY <1>6, <1>7, <1>8, <1>9, <2>1, Zenon DEF Contents, g
<1>11. Decompress(a) = Contents(a, Read(Len(d), 10 + n), start)
  <2>1. Read(Len(d), 10 + n).at + DigestLen = start
    BY DEF Read
  <2> HIDE DEF start
  <2> QED
    BY <1>1, <1>4, <1>5, <2>1, OpenedFirst, Zenon
<1> QED
  BY <1>10, <1>11 DEF a

\* A prefix, place by place.
LEMMA PrefixPlaces ==
  ASSUME NEW S, NEW s \in Seq(S), NEW t \in Seq(S), IsPrefix(s, t)
  PROVE  Len(s) <= Len(t) /\ \A i \in 1..Len(s) : t[i] = s[i]
<1>1. Len(s) \in Nat /\ Len(t) \in Nat /\ Len(s) <= Len(t)
      /\ SubSeq(s, 1, Len(s)) = SubSeq(t, 1, Len(s))
  BY DEF IsPrefix
<1>2. ASSUME NEW i \in 1..Len(s) PROVE t[i] = s[i]
  <2>1. SubSeq(s, 1, Len(s))[i] = s[i]
    BY <1>1
  <2>2. SubSeq(t, 1, Len(s))[i] = t[i]
    BY <1>1
  <2> QED
    BY <1>1, <2>1, <2>2
<1> QED
  BY <1>1, <1>2

\* An archive that is accepted is the one of what is made of it.
LEMMA AcceptedIsLaid ==
  ASSUME NEW a \in Seq(Byte), Decompress(a).ok
  PROVE  /\ Archivable(Decompress(a).bytes) /\ a = ArchiveOf(Decompress(a).bytes)
         /\ Decompress(a) = Bytes(Decompress(a).bytes)
<1> DEFINE length == ReadUleb(a, LengthOffset)
           v == length.value
           n == GroupsOf(v)
           start == length.at + DigestLen
           p == SubSeq(a, start + 1, Len(a))
<1>1. Opens(a) /\ Decompress(a) = Contents(a, length, start)
  BY OpenedFirst, Zenon
<1>2. /\ length.ok /\ ~(Len(a) < start) /\ ~HasForeignMetadata(a)
      /\ ~LengthDisagrees(a, v, start)
      /\ Digest(p) = SubSeq(a, length.at + 1, start)
      /\ Decompress(a) = Bytes(p)
  <2>1. \A error, at : ~Failure(error, at).ok
    BY DEF Failure
  <2> HIDE DEF length, v, start, p
  <2>2. /\ length.ok /\ ~(Len(a) < start) /\ ~HasForeignMetadata(a)
        /\ ~LengthDisagrees(a, length.value, start)
        /\ Digest(SubSeq(a, start + 1, Len(a))) = SubSeq(a, length.at + 1, start)
        /\ Decompress(a) = Bytes(SubSeq(a, start + 1, Len(a)))
    BY <1>1, <2>1, Zenon DEF Contents
  <2> QED
    BY <2>2 DEF v, p
<1>3. /\ v \in 0..Top /\ Carries(a, LengthOffset, v) /\ length = Read(v, LengthOffset + n)
  BY <1>2, ReadIsWritten, HeaderNumbers
<1>4. n \in 1..MaxGroups /\ WriteUleb(v) \in Seq(Byte) /\ Len(WriteUleb(v)) = n
  BY <1>3, FieldWritten
<1>5. start = 10 + n + DigestLen /\ length.at = 10 + n
  <2>1. length.at = LengthOffset + n
    BY <1>3 DEF Read
  <2> QED
    BY <2>1, HeaderNumbers
<1> HIDE DEF length, v, n, start, p
<1>6. n \in Nat /\ v \in Nat /\ v <= Top /\ start \in Nat /\ Len(a) \in Nat /\ Len(a) - start = v
      /\ start <= Len(a) /\ 10 + n \in Nat
  BY <1>2, <1>3, <1>4, <1>5, HeaderNumbers, SMT DEF LengthDisagrees
<1>7. p \in Seq(Byte) /\ Len(p) = v /\ \A i \in 1..v : p[i] = a[start + i]
  <2>1. Len(a) = start + v
    BY <1>6
  <2>2. \A i \in start+1..Len(a) : a[i] \in Byte
    BY <1>6
  <2> QED
    BY <1>6, <2>1, <2>2 DEF p
<1> DEFINE g == SubSeq(a, 10 + n + 1, start)
<1>8. g \in Seq(Byte) /\ Len(g) = DigestLen /\ \A i \in 1..DigestLen : g[i] = a[10 + n + i]
  BY <1>5, <1>6, HeaderNumbers
<1>9. Digest(p) = g
  BY <1>2, <1>5
<1> HIDE DEF g
<1>10. Archivable(p)
  BY <1>6, <1>7, <1>8, <1>9 DEF Archivable
<1>11. Laid(a, p, n)
  <2>1. Len(a) = 10 + n + DigestLen + Len(p)
    BY <1>5, <1>6, <1>7, HeaderNumbers
  <2>2. \A i \in 1..4 : a[i] = Magic[i]
    <3>1. IsPrefix(Magic, a) /\ a \in Seq(Byte) /\ Magic \in Seq(Byte)
      BY <1>1, HeaderNumbers DEF Opens
    <3>2. \A i \in 1..Len(Magic) : a[i] = Magic[i]
      BY ONLY <3>1, PrefixPlaces
    <3> QED
      BY <3>2, HeaderNumbers
  <2>3. a[5] = VERSION
    BY <1>1, HeaderNumbers DEF Opens, ByteAt
  <2>4. ASSUME NEW i \in 6..10 PROVE a[i] = 0
    <3>1. i - 1 \in 5..9 /\ (i - 1) + 1 = i
      OBVIOUS
    <3> QED
      BY <1>2, <3>1, HeaderNumbers DEF HasForeignMetadata, ByteAt
  <2>5. \A i \in 1..n : a[10 + i] = WriteUleb(Len(p))[i]
    BY <1>3, <1>7, HeaderNumbers DEF Carries, n
  <2>6. \A i \in 1..DigestLen : a[10 + n + i] = Digest(p)[i]
    BY <1>8, <1>9
  <2>7. \A i \in 1..Len(p) : a[10 + n + DigestLen + i] = p[i]
    BY <1>5, <1>7
  <2> QED
    BY <2>1, <2>2, <2>3, <2>4, <2>5, <2>6, <2>7 DEF Laid
<1>12. Laid(a, p, GroupsOf(Len(p)))
  BY <1>7, <1>11 DEF n
<1>13. a = ArchiveOf(p)
  BY <1>10, <1>12, LaidOnce
<1>14. Decompress(a).bytes = p
  BY <1>2 DEF Bytes
<1> QED
  BY <1>2, <1>10, <1>13, <1>14

\* A reply that is a failure with this code, and one that hands a text back.
Fails(reply, code) ==
  reply.ok /\ reply.result.isError /\ reply.result.structuredContent.code = code
HandsBack(reply, bytes) ==
  /\ reply.ok /\ ~reply.result.isError /\ reply.result.content = bytes
  /\ reply.result.structuredContent = [text |-> bytes]

LEMMA FailuresSay ==
  ASSUME NEW code, NEW reply, reply = ReplyTo(Failed(code))
  PROVE  Fails(reply, code)
<1> DEFINE structured == [code |-> code]
<1>1. structured.code = code
  OBVIOUS
<1>2. reply = ReplyTo(Outcome(Wording, structured, TRUE))
  BY DEF Failed
<1> HIDE DEF structured
<1> DEFINE flag == TRUE
           wording == Wording
<1>3. reply = ReplyTo(Outcome(wording, structured, flag))
  BY <1>2
<1>5. flag = TRUE
  OBVIOUS
<1> HIDE DEF flag, wording
<1>4. /\ reply.ok /\ reply.result.content = wording
      /\ reply.result.structuredContent = structured /\ reply.result.isError = flag
  BY ONLY <1>3, RepliesSay
<1> QED
  BY <1>1, <1>4, <1>5 DEF Fails

LEMMA TextsSay ==
  ASSUME NEW bytes, NEW reply, reply = ReplyTo(Outcome(bytes, [text |-> bytes], FALSE))
  PROVE  HandsBack(reply, bytes)
<1> DEFINE structured == [text |-> bytes]
           flag == FALSE
<1>1. reply = ReplyTo(Outcome(bytes, structured, flag)) /\ ~flag
  OBVIOUS
<1> HIDE DEF flag, structured
<1>2. /\ reply.ok /\ reply.result.content = bytes
      /\ reply.result.structuredContent = structured /\ reply.result.isError = flag
  BY ONLY <1>1, RepliesSay
<1> QED
  BY <1>1, <1>2 DEF HandsBack, structured

\* What decompress says of the octets of a text, and of a text that has none.
LEMMA TextsAreAnswered ==
  ASSUME NEW decoded, NEW reply, reply = ReplyTo(OutcomeOfText(decoded))
  PROVE  LET r == Decompress(decoded.octets)
         IN /\ ~decoded.ok => Fails(reply, "invalid_base64")
            /\ decoded.ok /\ decoded.octets = << >> => Fails(reply, "bad_magic")
            /\ decoded.ok /\ decoded.octets # << >> =>
                 /\ ~r.ok => Fails(reply, DecompressErrorCode(r.error))
                 /\ r.ok /\ ~IsUtf8(r.bytes) => Fails(reply, "not_utf8")
                 /\ r.ok /\ IsUtf8(r.bytes) => HandsBack(reply, r.bytes)
<1> DEFINE r == Decompress(decoded.octets)
<1>1. ASSUME ~decoded.ok PROVE Fails(reply, "invalid_base64")
  <2>1. reply = ReplyTo(Failed("invalid_base64"))
    BY <1>1, Zenon DEF OutcomeOfText
  <2> QED
    BY <2>1, FailuresSay
<1>2. ASSUME decoded.ok, decoded.octets = << >> PROVE Fails(reply, "bad_magic")
  <2>1. reply = ReplyTo(Failed("bad_magic"))
    BY <1>2, Zenon DEF OutcomeOfText
  <2> QED
    BY <2>1, FailuresSay
<1>3. ASSUME decoded.ok, decoded.octets # << >> PROVE reply = ReplyTo(OutcomeOfBytes(r))
  BY <1>3, Zenon DEF OutcomeOfText
<1> HIDE DEF r
<1>4. ASSUME decoded.ok, decoded.octets # << >>, ~r.ok
      PROVE  Fails(reply, DecompressErrorCode(r.error))
  <2>1. reply = ReplyTo(Failed(DecompressErrorCode(r.error)))
    BY <1>3, <1>4, Zenon DEF OutcomeOfBytes
  <2> QED
    BY <2>1, FailuresSay
<1>5. ASSUME decoded.ok, decoded.octets # << >>, r.ok, ~IsUtf8(r.bytes)
      PROVE  Fails(reply, "not_utf8")
  <2>1. reply = ReplyTo(Failed("not_utf8"))
    BY <1>3, <1>5, Zenon DEF OutcomeOfBytes
  <2> QED
    BY <2>1, FailuresSay
<1>6. ASSUME decoded.ok, decoded.octets # << >>, r.ok, IsUtf8(r.bytes)
      PROVE  HandsBack(reply, r.bytes)
  <2>1. reply = ReplyTo(Outcome(r.bytes, [text |-> r.bytes], FALSE))
    BY <1>3, <1>6, Zenon DEF OutcomeOfBytes
  <2> QED
    BY <2>1, TextsSay
<1> QED
  BY <1>1, <1>2, <1>4, <1>5, <1>6 DEF r

LEMMA RestoredReads == Restored = ReplyTo(OutcomeOfText(Decode(archive)))
<1> DEFINE members == [text |-> Absent, profile |-> Absent, archive |-> String(archive)]
           args == Object(members)
<1>1. members["archive"] = String(archive)
  OBVIOUS
<1>2. args.type = "object" /\ args.members = members
  BY DEF Object
<1> HIDE DEF args, members
<1>3. Get(args, "archive") = String(archive)
  BY <1>1, <1>2 DEF Get
<1>4. Get(args, "archive").text = archive /\ Get(args, "archive").type = "string"
  BY <1>3 DEF String
<1>5. ArgumentsAreAnObject(args) /\ HasString(args, "archive")
  BY <1>2, <1>4 DEF ArgumentsAreAnObject, HasString
<1>6. RunDecompress(args) = OutcomeOfText(Decode(archive))
  BY <1>4, <1>5, Zenon DEF RunDecompress
<1>7. Call("tokfold_decompress", args) = RunDecompress(args)
  BY DEF Call
<1>8. Restored = ReplyTo(RunDecompress(args))
  BY <1>7 DEF Restored, ToolsCall, args, members
<1> QED
  BY <1>6, <1>8

\* An archive comes back.
LEMMA OriginalsComeBack ==
  ASSUME NEW d \in Documents
  PROVE  Archivable(d) /\ Decompress(ArchiveOf(d)) = Bytes(d) /\ ArchiveOf(d) \in Seq(Byte)
         /\ ArchiveOf(d) # << >>
<1>1. Archivable(d)
  BY DocumentsArchived DEF Archivable
<1>2. Decompress(ArchiveOf(d)) = Bytes(d) /\ ArchiveOf(d) \in Seq(Byte)
  BY <1>1, LaidIsRead, DocumentsArchived
<1>3. Len(ArchiveOf(d)) > 0
  <2> DEFINE n == GroupsOf(Len(d))
             a == ArchiveOf(d)
  <2>1. Laid(a, d, n) /\ Len(d) \in 0..Top /\ n \in Nat
    BY ONLY <1>1, ArchiveIsLaid
  <2>2. Len(a) = 10 + n + DigestLen + Len(d)
    BY ONLY <2>1 DEF Laid
  <2> HIDE DEF n, a
  <2>3. Len(a) > 0
    BY ONLY <2>1, <2>2, HeaderNumbers, SMT
  <2> QED
    BY ONLY <2>3 DEF a
<1>4. ArchiveOf(d) # << >>
  BY <1>3
<1> QED
  BY <1>1, <1>2, <1>4

\* What was archived comes back, byte for byte, as a file and through the tool, in both
\* halves of its reply; bytes that are not UTF-8 are refused as such and nothing else.
\* (compress, decompress, encode, decode, run_decompress)
THEOREM ArchivesComeBack ==
  ASSUME Program
  PROVE  Spec => []ComesBack
<1>1. FileOK /\ TextOK => ComesBack
  <2> SUFFICES ASSUME FileOK, TextOK, damage = 0
               PROVE  /\ carrier = "file" => Decompress(archive) = Bytes(original)
                      /\ carrier = "text" =>
                           IF IsUtf8(original) THEN Says(original, [text |-> original])
                           ELSE FailsWith("not_utf8")
    BY DEF ComesBack
  <2>1. ASSUME carrier = "file" PROVE Decompress(archive) = Bytes(original)
    BY <2>1, OriginalsComeBack DEF FileOK
  <2>2. ASSUME carrier = "text"
        PROVE  IF IsUtf8(original) THEN Says(original, [text |-> original])
               ELSE FailsWith("not_utf8")
    <3> DEFINE a == ArchiveOf(original)
    <3>1. /\ archive = Encode(a) /\ a \in Seq(EightBits) /\ a # << >>
          /\ Decompress(a) = Bytes(original)
      BY <2>2, OriginalsComeBack, BytesAreOctets DEF TextOK
    <3> HIDE DEF a
    <3>2. Decode(archive) = Accepted(a)
      BY <3>1, DecodedBack
    <3>3. Restored = ReplyTo(OutcomeOfText(Accepted(a)))
      BY <3>2, RestoredReads
    <3>4. Accepted(a).ok /\ Accepted(a).octets = a
      BY DEF Accepted
    <3>5. Bytes(original).ok /\ Bytes(original).bytes = original
      BY DEF Bytes
    <3>6. /\ ~IsUtf8(original) => Fails(Restored, "not_utf8")
          /\ IsUtf8(original) => HandsBack(Restored, original)
      BY <3>1, <3>3, <3>4, <3>5, TextsAreAnswered, Zenon
    <3> QED
      BY <3>6, Zenon DEF Fails, HandsBack, FailsWith, Says
  <2> QED
    BY <2>1, <2>2
<1> QED
  BY <1>1, FilesStayBytes, TextsStaySymbols, PTL

\* "Every header byte is load-bearing", and the base64 is a bijection: bytes are handed
\* back only of the archive, and of the text, this build would have written for those very
\* bytes, so nothing in a damaged one is ignored.  (decompress, decode)
THEOREM DamageIsNotIgnored ==
  ASSUME Program
  PROVE  Spec => []NothingIsIgnored
<1>1. FileOK /\ TextOK => NothingIsIgnored
  <2> SUFFICES ASSUME FileOK, TextOK
               PROVE  /\ carrier = "file" /\ Decompress(archive).ok =>
                           archive = ArchiveOf(Decompress(archive).bytes)
                      /\ carrier = "text" /\ ~Restored.result.isError =>
                           archive = Encode(ArchiveOf(Restored.result.structuredContent.text))
    BY DEF NothingIsIgnored
  <2>1. ASSUME carrier = "file", Decompress(archive).ok
        PROVE  archive = ArchiveOf(Decompress(archive).bytes)
    BY <2>1, AcceptedIsLaid DEF FileOK
  <2>2. ASSUME carrier = "text", ~Restored.result.isError
        PROVE  archive = Encode(ArchiveOf(Restored.result.structuredContent.text))
    <3> DEFINE decoded == Decode(archive)
               o == decoded.octets
               r == Decompress(o)
    <3>1. archive \in Seq(Symbol)
      BY <2>2 DEF TextOK
    <3>2. decoded.ok /\ r.ok /\ HandsBack(Restored, r.bytes)
      <4>1. Restored = ReplyTo(OutcomeOfText(decoded))
        BY RestoredReads
      <4> HIDE DEF decoded, r
      <4>2. \A code : ~Fails(Restored, code)
        BY <2>2, Zenon DEF Fails
      <4> QED
        BY <4>1, <4>2, TextsAreAnswered, Zenon DEF r
    <3>3. o \in Seq(Byte) /\ Encode(o) = archive
      BY <3>1, <3>2, EncodedBack, BytesAreOctets
    <3>4. o = ArchiveOf(r.bytes)
      <4> HIDE DEF o
      <4> QED
        BY <3>2, <3>3, AcceptedIsLaid
    <3>5. Restored.result.structuredContent = [text |-> r.bytes]
      BY <3>2 DEF HandsBack
    <3>6. Restored.result.structuredContent.text = r.bytes
      <4> HIDE DEF r
      <4> QED
        BY <3>5
    <3> QED
      BY <3>3, <3>4, <3>6
  <2> QED
    BY <2>1, <2>2
<1> QED
  BY <1>1, FilesStayBytes, TextsStaySymbols, PTL

LEMMA MagicFirst ==
  ASSUME NEW a \in Seq(Byte), Len(a) >= 4, \A i \in 1..4 : a[i] = Magic[i]
  PROVE  IsPrefix(Magic, a)
<1>1. SubSeq(a, 0 + 1, 0 + Len(Magic)) = Magic
  <2>1. 0 + Len(Magic) <= Len(a) /\ \A i \in 1..Len(Magic) : a[0 + i] = Magic[i]
    BY HeaderNumbers
  <2> QED
    BY ONLY <2>1, a \in Seq(Byte), HeaderNumbers, Stretch
<1>2. SubSeq(Magic, 0 + 1, 0 + Len(Magic)) = Magic
  <2>1. 0 + Len(Magic) <= Len(Magic) /\ \A i \in 1..Len(Magic) : Magic[0 + i] = Magic[i]
    BY HeaderNumbers
  <2> QED
    BY ONLY <2>1, HeaderNumbers, Stretch
<1>3. 0 + 1 = 1 /\ 0 + Len(Magic) = Len(Magic) /\ Len(Magic) <= Len(a)
  BY HeaderNumbers
<1> QED
  BY <1>1, <1>2, <1>3 DEF IsPrefix

\* What decompress makes of an archive that ends before its length field.
LEMMA ShortHeaders ==
  ASSUME NEW a \in Seq(Byte), Len(a) < 10,
         Len(a) >= 4 => \A i \in 1..4 : a[i] = Magic[i],
         Len(a) >= 5 => a[5] = VERSION
  PROVE  \E at \in 0..Len(a) : Decompress(a) = Failure(Framing(Len(a)), at)
<1> DEFINE c == Contents(a, ReadUleb(a, LengthOffset), ReadUleb(a, LengthOffset).at + DigestLen)
<1>1. Len(a) \in Nat
  OBVIOUS
<1>2. Decompress(a) =
        IF ~IsPrefix(Magic, a) THEN Failure("bad_magic", 0)
        ELSE IF ~Has(a, VersionOffset) THEN Failure("corrupt", VersionOffset)
        ELSE IF ByteAt(a, VersionOffset) > VERSION THEN Failure("unsupported_version", 0)
        ELSE IF ByteAt(a, VersionOffset) # VERSION THEN Failure("corrupt", VersionOffset)
        ELSE IF ~Has(a, EncoderOffset) THEN Failure("corrupt", EncoderOffset)
        ELSE IF ~Has(a, TokenizerOffset + 1) THEN Failure("corrupt", TokenizerOffset)
        ELSE IF ~Has(a, FlagsOffset + 1) THEN Failure("corrupt", FlagsOffset)
        ELSE IF ReservedBitsSet(ByteAt(a, FlagsOffset), ByteAt(a, FlagsOffset + 1))
             THEN Failure("reserved_bits_set", 0)
        ELSE c
  BY Zenon DEF Decompress, Contents
<1> HIDE DEF c
<1>3. /\ Has(a, VersionOffset) <=> 4 < Len(a)
      /\ Has(a, EncoderOffset) <=> 5 < Len(a)
      /\ Has(a, TokenizerOffset + 1) <=> 7 < Len(a)
      /\ ~Has(a, FlagsOffset + 1)
      /\ VersionOffset = 4 /\ EncoderOffset = 5 /\ TokenizerOffset = 6 /\ FlagsOffset = 8
  BY <1>1 DEF Has, VersionOffset, EncoderOffset, TokenizerOffset, FlagsOffset
<1>4. 4 < Len(a) => /\ ByteAt(a, VersionOffset) = VERSION
                    /\ ~(ByteAt(a, VersionOffset) > VERSION)
  BY <1>1, HeaderNumbers DEF ByteAt
<1>5. CASE Len(a) < 4
  <2>1. ~IsPrefix(Magic, a) /\ Framing(Len(a)) = "bad_magic"
    BY <1>1, <1>5, HeaderNumbers DEF IsPrefix, Framing
  <2>2. Decompress(a) = Failure(Framing(Len(a)), 0) /\ 0 \in 0..Len(a)
    BY <1>1, <1>2, <2>1
  <2> QED
    BY <2>2
<1>6. CASE ~(Len(a) < 4)
  <2>1. IsPrefix(Magic, a) /\ Framing(Len(a)) = "corrupt"
    BY <1>1, <1>6, MagicFirst, HeaderNumbers DEF Framing
  <2> DEFINE at == IF ~Has(a, VersionOffset) THEN VersionOffset
                   ELSE IF ~Has(a, EncoderOffset) THEN EncoderOffset
                   ELSE IF ~Has(a, TokenizerOffset + 1) THEN TokenizerOffset ELSE FlagsOffset
  <2>2. Decompress(a) = Failure("corrupt", at)
    <3>1. Has(a, VersionOffset) => /\ ByteAt(a, VersionOffset) = VERSION
                                   /\ ~(ByteAt(a, VersionOffset) > VERSION)
      BY <1>3, <1>4
    <3> QED
      BY <1>2, <1>3, <2>1, <3>1, Zenon
  <2>3. at \in 0..Len(a)
    BY <1>1, <1>3, <1>6
  <2> HIDE DEF at
  <2> QED
    BY <2>1, <2>2, <2>3
<1> QED
  BY <1>5, <1>6

\* An archive that opens and ends too early is bad framing.
LEMMA ShortContents ==
  ASSUME NEW d, Archivable(d), NEW a \in Seq(Byte), Len(a) >= 10,
         Len(a) < Len(ArchiveOf(d)), \A i \in 1..Len(a) : a[i] = ArchiveOf(d)[i]
  PROVE  \E at \in 0..Len(a) : Decompress(a) = Failure("corrupt", at)
<1> DEFINE b == ArchiveOf(d)
           n == GroupsOf(Len(d))
           length == ReadUleb(a, LengthOffset)
           start == length.at + DigestLen
<1>1. /\ b \in Seq(Byte) /\ Laid(b, d, n) /\ n \in Nat /\ Len(d) \in 0..Top
      /\ Len(a) \in Nat /\ Len(b) \in Nat
  BY ArchiveIsLaid
<1>2. \A i \in 1..10 : a[i] = b[i]
  BY <1>1
<1>3. /\ \A i \in 1..4 : a[i] = Magic[i]
      /\ a[5] = VERSION /\ \A i \in 6..10 : a[i] = 0
  <2> HIDE DEF b, n
  <2> QED
    BY <1>1, <1>2 DEF Laid
<1>4. Opens(a)
  <2>1. IsPrefix(Magic, a)
    BY <1>1, <1>3, MagicFirst
  <2>2. ~ReservedBitsSet(a[9], a[10])
    BY <1>3 DEF ReservedBitsSet
  <2> QED
    BY <1>1, <1>3, <2>1, <2>2, HeaderNumbers DEF Opens, ByteAt
<1>5. Decompress(a) = Contents(a, length, start)
  BY <1>4, OpenedFirst, Zenon
<1>6. length.at \in 0..Len(a) /\ LengthOffset \in 0..Len(a)
  <2>1. length.at \in LengthOffset..(LengthOffset + MaxGroups) /\ length.at <= Len(a)
    BY <1>1, HeaderNumbers, ReadNearby
  <2> HIDE DEF length
  <2> QED
    BY <1>1, <2>1, HeaderNumbers
<1>7. ~HasForeignMetadata(a)
  <2> SUFFICES ASSUME NEW k \in 5..9 PROVE ByteAt(a, k) = 0
    BY HeaderNumbers DEF HasForeignMetadata
  <2>1. k + 1 \in 6..10
    OBVIOUS
  <2> QED
    BY <1>3, <2>1 DEF ByteAt
<1>8. ASSUME length.ok, ~(Len(a) < start) PROVE LengthDisagrees(a, length.value, start)
  <2> SUFFICES ASSUME ~LengthDisagrees(a, length.value, start) PROVE FALSE
    OBVIOUS
  <2> DEFINE v == length.value
             m == GroupsOf(v)
  <2>1. v \in 0..Top /\ Carries(a, LengthOffset, v) /\ length = Read(v, LengthOffset + m)
    BY <1>8, HeaderNumbers, ReadIsWritten
  <2>2. length.at = 10 + m /\ Len(a) - start = v
    <3>1. length.at = LengthOffset + m
      BY <2>1 DEF Read
    <3> QED
      BY <3>1, HeaderNumbers DEF LengthDisagrees
  <2> HIDE DEF length
  <2>3. m \in Nat
    BY <2>1, FieldWritten, HeaderNumbers
  <2>4. Carries(b, LengthOffset, v)
    <3> HIDE DEF v, m, b
    <3>1. LengthOffset + m <= Len(a) /\ \A i \in 1..m : a[10 + i] = WriteUleb(v)[i]
      BY <2>1, HeaderNumbers DEF Carries, m
    <3>2. ASSUME NEW i \in 1..m PROVE b[10 + i] = WriteUleb(v)[i]
      <4>1. 10 + i \in 1..Len(a)
        BY <1>1, <2>3, <3>1, HeaderNumbers
      <4> QED
        BY <3>1, <4>1 DEF b
    <3> QED
      BY <1>1, <2>3, <3>1, <3>2, HeaderNumbers DEF Carries, m, b
  <2>5. ReadUleb(b, LengthOffset) = Read(v, LengthOffset + m)
    BY <1>1, <2>1, <2>4, HeaderNumbers, FieldIsRead
  <2>6. ReadUleb(b, LengthOffset) = Read(Len(d), LengthOffset + n)
    <3>1. Carries(b, LengthOffset, Len(d))
      <4> HIDE DEF b
      <4> QED
        BY <1>1, HeaderNumbers DEF Carries, Laid, Archivable
    <3> QED
      BY <1>1, <3>1, HeaderNumbers, FieldIsRead
  <2>7. v = Len(d)
    <3> HIDE DEF v, m, n, b
    <3> QED
      BY <2>5, <2>6 DEF Read
  <2>8. Len(a) = 10 + n + DigestLen + Len(d)
    BY <1>1, <2>2, <2>3, <2>7, HeaderNumbers
  <2>9. Len(b) = 10 + n + DigestLen + Len(d)
    BY <1>1 DEF Laid
  <2> QED
    BY <1>1, <2>8, <2>9
<1> HIDE DEF length, start
<1>9. \/ Decompress(a) = Failure("corrupt", length.at)
      \/ Decompress(a) = Failure("corrupt", LengthOffset)
  BY <1>5, <1>7, <1>8, Zenon DEF Contents
<1> QED
  BY <1>6, <1>9

\* A truncated archive is bad framing, at a place the file still reaches.
LEMMA ShortIsFraming ==
  ASSUME NEW d, Archivable(d), NEW a \in Seq(Byte), IsStrictPrefix(a, ArchiveOf(d))
  PROVE  \E at \in 0..Len(a) : Decompress(a) = Failure(Framing(Len(a)), at)
<1> DEFINE b == ArchiveOf(d)
           n == GroupsOf(Len(d))
<1>1. /\ b \in Seq(Byte) /\ Laid(b, d, n) /\ n \in Nat /\ Len(d) \in Nat
      /\ Len(a) \in Nat /\ Len(b) \in Nat
  BY ArchiveIsLaid DEF Archivable
<1>2. Len(a) <= Len(b) /\ \A i \in 1..Len(a) : a[i] = b[i]
  <2>1. IsPrefix(a, b) /\ a \in Seq(Byte) /\ b \in Seq(Byte)
    BY <1>1 DEF IsStrictPrefix
  <2> HIDE DEF b
  <2>2. Len(a) <= Len(b) /\ \A i \in 1..Len(a) : b[i] = a[i]
    BY ONLY <2>1, PrefixPlaces
  <2> QED
    BY <2>2
<1>3. Len(a) < Len(b)
  <2> SUFFICES ASSUME Len(a) = Len(b) PROVE FALSE
    BY <1>1, <1>2
  <2>1. a = b
    <3>1. a \in Seq(Byte) /\ b \in Seq(Byte) /\ Len(a) = Len(b) /\ \A i \in 1..Len(a) : a[i] = b[i]
      BY <1>1, <1>2
    <3> HIDE DEF b
    <3> QED
      BY <3>1, SeqEqual
  <2> QED
    BY <2>1 DEF IsStrictPrefix
<1>5. ~(Len(a) < 4) => Framing(Len(a)) = "corrupt"
  BY HeaderNumbers DEF Framing
<1>6. CASE Len(a) >= 10
  <2>1. \E at \in 0..Len(a) : Decompress(a) = Failure("corrupt", at)
    BY <1>2, <1>3, <1>6, ShortContents
  <2> QED
    BY <1>1, <1>5, <1>6, <2>1
<1>7. CASE Len(a) < 10
  <2>1. /\ Len(a) >= 4 => \A i \in 1..4 : a[i] = Magic[i]
        /\ Len(a) >= 5 => a[5] = VERSION
    <3> HIDE DEF b, n
    <3> QED
      BY <1>1, <1>2 DEF Laid
  <2> QED
    BY <1>7, <2>1, ShortHeaders
<1> QED
  BY <1>1, <1>6, <1>7

\* The start of a sequence.
LEMMA Starts ==
  ASSUME NEW S, NEW s \in Seq(S), NEW m \in Nat, m < Len(s)
  PROVE  LET t == SubSeq(s, 1, m)
         IN /\ t \in Seq(S) /\ Len(t) = m /\ \A i \in 1..m : t[i] = s[i]
            /\ IsStrictPrefix(t, s)
<1> DEFINE t == SubSeq(s, 1, m)
<1>1. t \in Seq(S) /\ Len(t) = m /\ \A i \in 1..m : t[i] = s[i]
  OBVIOUS
<1> HIDE DEF t
<1>2. SubSeq(t, 1, Len(t)) = t
  <2>1. 0 + Len(t) <= Len(t) /\ \A i \in 1..Len(t) : t[0 + i] = t[i]
    BY <1>1
  <2>2. SubSeq(t, 0 + 1, 0 + Len(t)) = t
    BY ONLY <1>1, <2>1, 0 \in Nat, Stretch
  <2> QED
    BY <1>1, <2>2
<1>3. SubSeq(s, 1, Len(t)) = t
  BY <1>1 DEF t
<1>4. Len(s) \in Nat /\ t # s
  BY <1>1
<1>5. IsStrictPrefix(t, s)
  BY <1>1, <1>2, <1>3, <1>4 DEF IsStrictPrefix, IsPrefix
<1> QED
  BY <1>1, <1>5 DEF t

\* A text cut between quartets spells the start of the bytes.
LEMMA CutBetweenQuartets ==
  ASSUME NEW b \in Seq(EightBits), NEW t \in Seq(Symbol), IsStrictPrefix(t, Encode(b)),
         Encode(b) \in Seq(Symbol), Len(t) % 4 = 0
  PROVE  LET m == (3 * Len(t)) \div 4
         IN m \in Nat /\ m < Len(b) /\ t = Encode(SubSeq(b, 1, m))
<1> DEFINE m == (3 * Len(t)) \div 4
           q == Len(t) \div 4
           n == Len(b)
           e == Encode(b)
           s == SubSeq(b, 1, m)
           Q == (n + 2) \div 3
           at(bytes, k) == IF (3 * ((k - 1) \div 4)) + ((k - 1) % 4) > Len(bytes) THEN PAD
                           ELSE SymbolAt(GroupOf(bytes, (k - 1) \div 4), 3 - ((k - 1) % 4))
<1>1. /\ Len(t) \in Nat /\ n \in Nat /\ e \in Seq(Symbol)
      /\ t \in Seq(Symbol)
  OBVIOUS
<1>2. /\ q \in Nat /\ Len(t) = 4 * q /\ m = 3 * q /\ m \in Nat
      /\ Q \in Nat /\ 3 * Q <= n + 2 /\ n + 2 < (3 * Q) + 3
  <2>1. q \in Nat /\ Len(t) = 4 * q /\ m = 3 * q /\ m \in Nat
    BY <1>1, SMT
  <2>2. Q \in Nat /\ 3 * Q <= n + 2 /\ n + 2 < (3 * Q) + 3
    <3> HIDE DEF n
    <3> QED
      BY <1>1, SMT
  <2> QED
    BY <2>1, <2>2
<1>3. e = [k \in 1..(4 * Q) |-> at(b, k)]
  BY DEF Encode
<1>4. Len(e) = 4 * Q
  <2> HIDE DEF e, Q, n, at
  <2> QED
    BY <1>1, <1>2, <1>3
<1> HIDE DEF e
<1>5. Len(t) <= Len(e) /\ (\A i \in 1..Len(t) : t[i] = e[i]) /\ Len(t) # Len(e)
  <2>1. IsPrefix(t, e) /\ t # e
    BY DEF IsStrictPrefix, e
  <2>2. Len(t) <= Len(e) /\ \A i \in 1..Len(t) : e[i] = t[i]
    BY ONLY <1>1, <2>1, PrefixPlaces
  <2>3. Len(t) = Len(e) => t = e
    BY <1>1, <2>2, SeqEqual
  <2> QED
    BY <2>1, <2>2, <2>3
<1>6. q < Q /\ 3 * q < n
  <2> DEFINE l == Len(t)
  <2>1. l = 4 * q /\ l <= 4 * Q /\ l # 4 * Q
    BY <1>2, <1>4, <1>5
  <2> HIDE DEF l, q, Q, n, m
  <2> QED
    BY <1>1, <1>2, <2>1, SMT
<1>7. s \in Seq(EightBits) /\ Len(s) = m /\ \A i \in 1..m : s[i] = b[i]
  BY <1>1, <1>2, <1>6, Starts
<1> HIDE DEF s
<1>8. (Len(s) + 2) \div 3 = q
  <2>1. Len(s) = 3 * q
    BY <1>2, <1>7
  <2> HIDE DEF q
  <2> QED
    BY <1>2, <2>1, SMT
<1>9. Encode(s) = [k \in 1..(4 * q) |-> at(s, k)]
  <2>1. Encode(s) = [k \in 1..(4 * ((Len(s) + 2) \div 3)) |-> at(s, k)]
    BY DEF Encode
  <2> HIDE DEF at
  <2> QED
    BY <1>8, <2>1
<1>10. ASSUME NEW k \in 1..(4 * q) PROVE at(s, k) = t[k]
  <2> DEFINE p == (k - 1) \div 4
             c == (k - 1) % 4
  <2>1. /\ p \in Nat /\ c \in 0..3 /\ (3 * p) + 3 <= m /\ m <= n /\ k \in 1..(4 * Q)
        /\ k \in 1..Len(t)
    <3> HIDE DEF m, n, q, Q
    <3>1. p \in Nat /\ c \in 0..3 /\ p <= q - 1
      BY <1>2, SMT
    <3> HIDE DEF p, c
    <3> QED
      BY <1>1, <1>2, <1>6, <3>1, SMT
  <2> HIDE DEF p, c, m, n, q, Q
  <2>2. \A i \in 1..3 : (3 * p) + i \in 1..m /\ (3 * p) + i <= m /\ (3 * p) + i <= n
    BY <1>1, <1>2, <2>1, SMT
  <2>3. \A i \in 1..3 : s[(3 * p) + i] = b[(3 * p) + i]
    BY <1>7, <2>2
  <2>4. GroupOf(s, p) = GroupOf(b, p)
    <3>1. 1 \in 1..3 /\ 2 \in 1..3 /\ 3 \in 1..3
      OBVIOUS
    <3>2. Len(s) = m /\ Len(b) = n
      BY <1>7 DEF n
    <3> QED
      BY <2>2, <2>3, <3>1, <3>2, Zenon DEF GroupOf
  <2>5. ~((3 * p) + c > Len(s)) /\ ~((3 * p) + c > Len(b))
    BY <1>1, <1>2, <1>7, <2>1, SMT DEF n
  <2>6. at(s, k) = SymbolAt(GroupOf(s, p), 3 - c) /\ at(b, k) = SymbolAt(GroupOf(b, p), 3 - c)
    BY <2>5 DEF p, c
  <2>7. e[k] = at(b, k)
    <3> HIDE DEF at
    <3> QED
      BY <1>3, <2>1
  <2>8. t[k] = e[k]
    BY <1>5, <2>1
  <2> HIDE DEF at
  <2> QED
    BY <2>4, <2>6, <2>7, <2>8
<1>11. t = [k \in 1..(4 * q) |-> t[k]]
  BY <1>1, <1>2
<1>12. t = Encode(s)
  <2> HIDE DEF at
  <2> QED
    BY <1>9, <1>10, <1>11
<1> QED
  BY <1>2, <1>6, <1>12 DEF s

\* A truncated archive is bad framing and never bad content: the digest of a shorter
\* payload is never consulted, and the offset named is one of a field the file still
\* reaches or just fails to reach.  In base64 it is bad text or, cut between quartets, bad
\* framing just so.  (decompress's length check; Header::decode; decode)
THEOREM TruncationsAreFraming ==
  ASSUME Program
  PROVE  Spec => []TruncationIsFraming
<1>1. FileOK /\ TextOK => TruncationIsFraming
  <2> DEFINE code == IF Len(archive) % 4 # 0 THEN "invalid_base64"
                     ELSE Framing((3 * Len(archive)) \div 4)
  <2> SUFFICES ASSUME FileOK, TextOK
               PROVE  /\ carrier = "file" /\ IsStrictPrefix(archive, ArchiveOf(original)) =>
                           LET r == Decompress(archive)
                           IN ~r.ok /\ r.error = Framing(Len(archive)) /\ r.at <= Len(archive)
                      /\ carrier = "text" /\ IsStrictPrefix(archive, Encode(ArchiveOf(original)))
                           => FailsWith(code)
    BY DEF TruncationIsFraming
  <2>1. ASSUME carrier = "file", IsStrictPrefix(archive, ArchiveOf(original))
        PROVE  LET r == Decompress(archive)
               IN ~r.ok /\ r.error = Framing(Len(archive)) /\ r.at <= Len(archive)
    <3>1. archive \in Seq(Byte) /\ Archivable(original)
      BY <2>1, OriginalsComeBack DEF FileOK
    <3>2. PICK at \in 0..Len(archive) : Decompress(archive) = Failure(Framing(Len(archive)), at)
      BY <2>1, <3>1, ShortIsFraming
    <3>3. at <= Len(archive)
      BY <3>1
    <3>4. ~Decompress(archive).ok /\ Decompress(archive).error = Framing(Len(archive))
          /\ Decompress(archive).at = at
      BY <3>2 DEF Failure
    <3> QED
      BY <3>3, <3>4
  <2>2. ASSUME carrier = "text", IsStrictPrefix(archive, Encode(ArchiveOf(original)))
        PROVE  FailsWith(code)
    <3> DEFINE a == ArchiveOf(original)
               decoded == Decode(archive)
    <3>1. archive \in Seq(Symbol) /\ Archivable(original) /\ a \in Seq(Byte)
          /\ a \in Seq(EightBits) /\ Encode(a) \in Seq(Symbol)
      BY <2>2, OriginalsComeBack, BytesAreOctets, EncodedInQuartets DEF TextOK
    <3>2. Restored = ReplyTo(OutcomeOfText(decoded))
      BY RestoredReads
    <3>3. CASE Len(archive) % 4 # 0
      <4>1. ~decoded.ok
        BY <3>3, Zenon DEF Decode, Rejected
      <4> HIDE DEF decoded
      <4>2. Fails(Restored, "invalid_base64")
        BY <3>2, <4>1, TextsAreAnswered, Zenon
      <4> QED
        BY <3>3, <4>2 DEF Fails, FailsWith
    <3>4. CASE Len(archive) % 4 = 0
      <4> DEFINE m == (3 * Len(archive)) \div 4
                 s == SubSeq(a, 1, m)
      <4> HIDE DEF a
      <4>1. m \in Nat /\ m < Len(a) /\ archive = Encode(s)
        BY <2>2, <3>1, <3>4, CutBetweenQuartets DEF a
      <4>2. s \in Seq(Byte) /\ s \in Seq(EightBits) /\ Len(s) = m /\ IsStrictPrefix(s, a)
        <5> HIDE DEF m
        <5> QED
          BY <3>1, <4>1, Starts
      <4> HIDE DEF s, m
      <4>3. decoded = Accepted(s)
        BY <4>1, <4>2, DecodedBack
      <4>4. decoded.ok /\ decoded.octets = s
        BY <4>3 DEF Accepted
      <4> HIDE DEF decoded
      <4>5. Fails(Restored, Framing(m))
        <5>1. CASE s = << >>
          <6>1. Framing(m) = "bad_magic"
            BY <4>2, <5>1, HeaderNumbers DEF Framing
          <6> QED
            BY <3>2, <4>4, <5>1, <6>1, TextsAreAnswered, Zenon
        <5>2. CASE s # << >>
          <6>1. PICK at \in 0..Len(s) : Decompress(s) = Failure(Framing(Len(s)), at)
            BY <3>1, <4>2, ShortIsFraming DEF a
          <6>2. ~Decompress(s).ok /\ Decompress(s).error = Framing(m)
            BY <4>2, <6>1 DEF Failure
          <6>3. DecompressErrorCode(Framing(m)) = Framing(m)
            BY DEF DecompressErrorCode, DecompressErrors, Framing
          <6> QED
            BY <3>2, <4>4, <5>2, <6>2, <6>3, TextsAreAnswered, Zenon
        <5> QED
          BY <5>1, <5>2
      <4>6. code = Framing(m)
        BY <3>4 DEF m
      <4> QED
        BY <4>5, <4>6 DEF Fails, FailsWith
    <3> QED
      BY <3>3, <3>4
  <2> HIDE DEF code
  <2> QED
    BY <2>1, <2>2
<1> QED
  BY <1>1, FilesStayBytes, TextsStaySymbols, PTL
=============================================================================
