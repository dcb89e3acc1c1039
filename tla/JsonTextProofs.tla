--------------------------- MODULE JsonTextProofs ---------------------------
(***************************************************************************)
(* E1's respelling of a string keeps its meaning, for strings of any length  *)
(* and any mixture of escapes.  Every place of a string is read by four      *)
(* walks (the scan for half a pair, the respelling, the MCP reader and the   *)
(* grammar's own meaning); they are shown to take the same steps, from the   *)
(* end of the string backwards.  And the respelling costs no more by the     *)
(* cost model: counted side by side, the spelling is at no place dearer than *)
(* what it stands for, however either goes on.                               *)
(***************************************************************************)
EXTENDS JsonText, SequenceTheorems, FiniteSetTheorems, WellFoundedInduction, TLAPS

-----------------------------------------------------------------------------
(* Characters and code units *)

LEMMA UnitsListed ==
  /\ DOMAIN Units = 1..25 /\ DOMAIN Beyond = 1..4
  /\ Units[1] = "ctl" /\ Units[2] = "lf" /\ Units[3] = "quote" /\ Units[4] = "\\"
  /\ Units[5] = "/" /\ Units[6] = "u" /\ Units[7] = "n" /\ Units[8] = "0" /\ Units[9] = "1"
  /\ Units[10] = "2" /\ Units[11] = "3" /\ Units[12] = "a" /\ Units[13] = "A"
  /\ Units[14] = "blank" /\ Units[15] = "-" /\ Units[16] = "+" /\ Units[17] = "."
  /\ Units[18] = "e" /\ Units[19] = "E" /\ Units[20] = "wide" /\ Units[21] = "high"
  /\ Units[22] = "high" /\ Units[23] = "low" /\ Units[24] = "low" /\ Units[25] = "N"
  /\ Beyond[1] = "s1" /\ Beyond[2] = "s2" /\ Beyond[3] = "s3" /\ Beyond[4] = "s4"
BY DEF Units, Beyond

BasicNames == {"ctl", "lf", "quote", "\\", "/", "u", "n", "0", "1", "2", "3", "a", "A", "blank", "-",
               "+", ".", "e", "E", "wide", "N"}
BeyondNames == {"s1", "s2", "s3", "s4"}

LEMMA CharactersListed ==
  /\ ToSet(Beyond) = BeyondNames
  /\ Characters = BasicNames \cup BeyondNames
<1>1. ToSet(Beyond) = {Beyond[i] : i \in 1..4}
  BY UnitsListed DEF ToSet
<1>2. ToSet(Beyond) = BeyondNames
  BY <1>1, UnitsListed DEF BeyondNames
<1>3. ToSet(Units) = {Units[i] : i \in 1..25}
  BY UnitsListed DEF ToSet
<1>4. ToSet(Units) = BasicNames \cup {"high", "low"}
  BY <1>3, UnitsListed, SMTT(60) DEF BasicNames
<1> QED
  BY <1>2, <1>4 DEF Characters, BasicNames, BeyondNames

\* A code unit that is no half of a pair is a character, and has no other name.
LEMMA UnitsOfBasic ==
  ASSUME NEW u \in 0..24, u \notin Surrogates
  PROVE  CharOf(u) \in BasicNames /\ \A w \in 0..24 : CharOf(w) = CharOf(u) => w = u
BY UnitsListed, SMTT(60) DEF CharOf, Surrogates, BasicNames
Scalars == (0..24) \ Surrogates

LEMMA BeyondJoined ==
  /\ \A h \in {20, 21}, l \in {22, 23} : Joined(h, l) \in BeyondNames
  /\ \A h \in {20, 21}, l \in {22, 23}, a \in {20, 21}, b \in {22, 23} :
       Joined(h, l) = Joined(a, b) => h = a /\ l = b
  /\ \A c \in BeyondNames : \E h \in {20, 21}, l \in {22, 23} : c = Joined(h, l)
<1>1. /\ Joined(20, 22) = "s1" /\ Joined(20, 23) = "s2"
      /\ Joined(21, 22) = "s3" /\ Joined(21, 23) = "s4"
  BY UnitsListed DEF Joined
<1> QED
  BY <1>1 DEF BeyondNames

\* What a character below the surrogates, and one beyond them, is in code units.
LEMMA CodeUnitsBasic ==
  ASSUME NEW u \in Scalars
  PROVE  CodeUnits(CharOf(u)) = <<u>> /\ CharOf(u) \in Characters
<1>1. u \in 0..24 /\ u \notin Surrogates
  BY DEF Scalars
<1>2. CharOf(u) \in BasicNames /\ \A w \in 0..24 : CharOf(w) = CharOf(u) => w = u
  BY <1>1, UnitsOfBasic
<1>3. CharOf(u) \notin ToSet(Beyond) /\ CharOf(u) \in Characters
  BY <1>2, CharactersListed DEF BasicNames, BeyondNames
<1>4. (CHOOSE w \in 0..24 : CharOf(w) = CharOf(u)) = u
  BY <1>1, <1>2, Zenon
<1> QED
  BY <1>3, <1>4, Zenon DEF CodeUnits

LEMMA CodeUnitsBeyond ==
  ASSUME NEW h \in {20, 21}, NEW l \in {22, 23}
  PROVE  CodeUnits(Joined(h, l)) = <<h, l>> /\ Joined(h, l) \in Characters
<1>1. Joined(h, l) \in ToSet(Beyond) /\ Joined(h, l) \in Characters
  BY BeyondJoined, CharactersListed
<1> DEFINE Is(p) == IsHigh(p[1]) /\ IsLow(p[2]) /\ Joined(p[1], p[2]) = Joined(h, l)
<1>2. <<h, l>> \in Surrogates \X Surrogates /\ Is(<<h, l>>)
  BY DEF Surrogates, IsHigh, IsLow
<1>3. ASSUME NEW p \in Surrogates \X Surrogates, Is(p) PROVE p = <<h, l>>
  <2>1. p[1] \in {20, 21} /\ p[2] \in {22, 23} /\ p = <<p[1], p[2]>>
    BY <1>3 DEF IsHigh, IsLow
  <2>2. p[1] = h /\ p[2] = l
    BY <1>3, <2>1, BeyondJoined
  <2> QED
    BY <2>1, <2>2
<1> HIDE DEF Is
<1>4. (CHOOSE p \in Surrogates \X Surrogates : Is(p)) = <<h, l>>
  BY <1>2, <1>3, Zenon
<1> QED
  BY <1>1, <1>4, Zenon DEF CodeUnits, Is

\* There is no other character.
LEMMA CharacterKinds ==
  ASSUME NEW c \in Characters
  PROVE  \/ \E u \in Scalars : c = CharOf(u)
         \/ \E h \in {20, 21}, l \in {22, 23} : c = Joined(h, l)
<1>1. c \in BasicNames \cup BeyondNames
  BY CharactersListed
<1>2. CASE c \in BeyondNames
  BY <1>2, BeyondJoined
<1>3. CASE c \in BasicNames
  <2>1. \E u \in 0..24 : u \notin Surrogates /\ c = Units[u + 1]
    <3>1. \A k \in 1..25 : k - 1 \in 0..24 /\ (k - 1) + 1 = k
      OBVIOUS
    <3>2. \E k \in 1..25 : k \notin {21, 22, 23, 24} /\ c = Units[k]
      BY <1>3, UnitsListed, SMTT(60) DEF BasicNames
    <3>3. PICK k \in 1..25 : k \notin {21, 22, 23, 24} /\ c = Units[k]
      BY <3>2
    <3>4. k - 1 \in 0..24 /\ (k - 1) + 1 = k /\ k - 1 \notin Surrogates
      BY <3>3 DEF Surrogates
    <3> QED
      BY <3>3, <3>4
  <2> QED
    BY <2>1 DEF Scalars, CharOf
<1> QED
  BY <1>1, <1>2, <1>3

LEMMA CodeUnitsTyped ==
  ASSUME NEW c \in Characters
  PROVE  CodeUnits(c) \in Seq(0..24)
<1>1. CASE \E u \in Scalars : c = CharOf(u)
  <2>1. PICK u \in Scalars : c = CharOf(u)
    BY <1>1
  <2>2. CodeUnits(c) = <<u>> /\ u \in 0..24
    BY <2>1, CodeUnitsBasic, Zenon DEF Scalars
  <2> QED
    BY <2>2
<1>2. CASE \E h \in {20, 21}, l \in {22, 23} : c = Joined(h, l)
  <2>1. PICK h \in {20, 21}, l \in {22, 23} : c = Joined(h, l)
    BY <1>2
  <2>2. CodeUnits(c) = <<h, l>>
    BY <2>1, CodeUnitsBeyond, Zenon
  <2> QED
    BY <2>2
<1> QED
  BY <1>1, <1>2, CharacterKinds

\* The escapes of one character stand for characters below the surrogates.
LEMMA ShortListed ==
  /\ DOMAIN Short = {"quote", "\\", "/", "n"}
  /\ Short["quote"] = "quote" /\ Short["\\"] = "\\" /\ Short["/"] = "/" /\ Short["n"] = "lf"
  /\ \A c \in DOMAIN Short : \E u \in Scalars : Short[c] = CharOf(u)
<1>1. /\ DOMAIN Short = {"quote", "\\", "/", "n"}
      /\ Short["quote"] = "quote" /\ Short["\\"] = "\\" /\ Short["/"] = "/" /\ Short["n"] = "lf"
  BY DEF Short
<1>2. CharOf(2) = "quote" /\ CharOf(3) = "\\" /\ CharOf(4) = "/" /\ CharOf(1) = "lf"
  BY UnitsListed DEF CharOf
<1>3. {1, 2, 3, 4} \subseteq Scalars
  BY DEF Scalars, Surrogates
<1>4. \A c \in DOMAIN Short : c = "quote" \/ c = "\\" \/ c = "/" \/ c = "n"
  BY <1>1
<1> QED
  BY <1>1, <1>2, <1>3, <1>4, Zenon

-----------------------------------------------------------------------------
(* Digits *)

LEMMA DigitsListed ==
  /\ DOMAIN HexVal = {"0", "1", "2", "3", "a", "A"}
  /\ HexVal["0"] = 0 /\ HexVal["1"] = 1 /\ HexVal["2"] = 2 /\ HexVal["3"] = 3
  /\ HexVal["a"] = 4 /\ HexVal["A"] = 4
  /\ \A c \in DOMAIN HexVal : HexVal[c] \in 0..4
<1>1. DOMAIN HexVal = {"0", "1", "2", "3", "a", "A"}
  BY DEF HexVal, Digits
<1>2. /\ HexVal["0"] = 0 /\ HexVal["1"] = 1 /\ HexVal["2"] = 2 /\ HexVal["3"] = 3
      /\ HexVal["a"] = 4 /\ HexVal["A"] = 4
  BY DEF HexVal, Digits
<1> QED
  BY <1>1, <1>2

LEMMA HexValuesInRange ==
  ASSUME NEW h \in DOMAIN HexVal, NEW l \in DOMAIN HexVal
  PROVE  (5 * HexVal[h]) + HexVal[l] \in 0..24
<1>1. \A a \in 0..4, b \in 0..4 : (5 * a) + b \in 0..24
  OBVIOUS
<1> QED
  BY <1>1, DigitsListed

HexAhead(t, i) == At(t, i) \in DOMAIN HexVal /\ At(t, i + 1) \in DOMAIN HexVal

\* read_hex4 reads two digits, on this scale, or nothing.
LEMMA HexRead ==
  ASSUME NEW t, NEW i \in Nat
  PROVE  ReadHex4(t, i) = IF HexAhead(t, i) THEN (5 * HexVal[t[i]]) + HexVal[t[i + 1]] ELSE None
<1> DEFINE Def(g) == g = [k \in 0..HexLen |->
                        IF k = 0 THEN 0 ELSE (5 * g[k - 1]) + HexVal[t[i + (k - 1)]]]
           one == (5 * 0) + HexVal[t[i + (1 - 1)]]
           f == [k \in 0..2 |-> IF k = 0 THEN 0 ELSE IF k = 1 THEN one
                               ELSE (5 * one) + HexVal[t[i + (2 - 1)]]]
           w == CHOOSE g : Def(g)
<1>1. HexLen = 2 /\ 0..HexLen = 0..2 /\ 0..(HexLen - 1) = {0, 1}
  BY DEF HexLen
<1>2. Def(f)
  <2>1. \A k \in 0..2 : f[k] = IF k = 0 THEN 0 ELSE (5 * f[k - 1]) + HexVal[t[i + (k - 1)]]
    <3> HIDE DEF one
    <3>1. \A k \in 0..2 : k = 0 \/ k = 1 \/ k = 2
      OBVIOUS
    <3>2. f[0] = 0 /\ f[1] = one /\ f[2] = (5 * one) + HexVal[t[i + (2 - 1)]]
      OBVIOUS
    <3>3. 1 - 1 = 0 /\ 2 - 1 = 1
      OBVIOUS
    <3> QED
      BY <3>1, <3>2, <3>3 DEF one
  <2> QED
    BY <1>1, <2>1
<1>3. Def(w)
  BY <1>2, Zenon
<1>9. ReadHex4(t, i) = IF \A k \in 0..(HexLen - 1) : At(t, i + k) \in DOMAIN HexVal
                       THEN w[HexLen] ELSE None
  BY Zenon DEF ReadHex4
<1> HIDE DEF w, f
<1>4. w[2] = (5 * w[1]) + HexVal[t[i + (2 - 1)]] /\ w[1] = (5 * w[0]) + HexVal[t[i + (1 - 1)]]
      /\ w[0] = 0
  <2>1. \A k \in 0..2 : w[k] = IF k = 0 THEN 0 ELSE (5 * w[k - 1]) + HexVal[t[i + (k - 1)]]
    BY <1>1, <1>3, Zenon
  <2>2. 0 \in 0..2 /\ 1 \in 0..2 /\ 2 \in 0..2 /\ 1 # 0 /\ 2 # 0 /\ 2 - 1 = 1 /\ 1 - 1 = 0
    OBVIOUS
  <2> HIDE DEF Def
  <2> QED
    BY <2>1, <2>2
<1>5. i + (2 - 1) = i + 1 /\ i + (1 - 1) = i /\ i + 0 = i
  OBVIOUS
<1>6. ReadHex4(t, i) = IF \A k \in {0, 1} : At(t, i + k) \in DOMAIN HexVal THEN w[2] ELSE None
  BY <1>1, <1>9, Zenon
<1>7. (\A k \in {0, 1} : At(t, i + k) \in DOMAIN HexVal) <=> HexAhead(t, i)
  BY <1>5, Zenon DEF HexAhead
<1>8. HexAhead(t, i) => w[2] = (5 * HexVal[t[i]]) + HexVal[t[i + 1]]
  <2> SUFFICES ASSUME HexAhead(t, i) PROVE w[2] = (5 * HexVal[t[i]]) + HexVal[t[i + 1]]
    OBVIOUS
  <2>1. At(t, i) = t[i]
    BY DigitsListed DEF HexAhead, At
  <2>2. HexVal[t[i]] \in 0..4
    BY <2>1, DigitsListed DEF HexAhead
  <2>3. w[1] = HexVal[t[i]]
    BY <1>4, <1>5, <2>2
  <2> QED
    BY <1>4, <1>5, <2>3
<1> QED
  BY <1>6, <1>7, <1>8, Zenon

LEMMA HexReadTyped ==
  ASSUME NEW t, NEW i \in Nat
  PROVE  /\ HexAhead(t, i) => ReadHex4(t, i) \in 0..24
         /\ ~HexAhead(t, i) => ReadHex4(t, i) = None
<1>1. HexAhead(t, i) => At(t, i) = t[i] /\ At(t, i + 1) = t[i + 1]
  BY DigitsListed DEF HexAhead, At
<1>2. HexAhead(t, i) => t[i] \in DOMAIN HexVal /\ t[i + 1] \in DOMAIN HexVal
  BY <1>1, Zenon DEF HexAhead
<1> QED
  BY <1>2, HexRead, HexValuesInRange

-----------------------------------------------------------------------------
(* Recursion towards the end of a text *)

\* Induction, as a fact about sets of numbers.
LEMMA EveryNumber ==
  ASSUME NEW S, 0 \in S, \A n \in Nat : n \in S => n + 1 \in S
  PROVE  Nat \subseteq S
<1> DEFINE below == OpToRel(<, Nat)
           T == Nat \ S
<1>1. IsWellFoundedOn(below, Nat)
  BY NatLessThanWellFounded
<1>2. \A j \in Nat, k \in Nat : j < k => <<j, k>> \in below
  BY DEF OpToRel
<1> HIDE DEF below
<1>3. ASSUME T # {} PROVE FALSE
  <2>1. PICK k \in T : \A j \in T : ~ (<<j, k>> \in below)
    BY <1>1, <1>3, WFMin
  <2>2. k \in Nat /\ k # 0
    OBVIOUS
  <2>3. k - 1 \in Nat /\ k - 1 < k /\ (k - 1) + 1 = k
    BY <2>2
  <2>4. k - 1 \in T
    BY <2>3
  <2> QED
    BY <1>2, <2>1, <2>2, <2>3, <2>4
<1> QED
  BY <1>3

\* What holds at every place whose later places it holds at holds at every place.
LEMMA Backwards ==
  ASSUME NEW n \in Nat, NEW S,
         \A i \in 1..n : (\A j \in (i + 1)..n : j \in S) => i \in S
  PROVE  \A i \in 1..n : i \in S
<1> DEFINE D == {d \in Nat : \A i \in 1..n : i + d >= n => i \in S}
<1>1. 0 \in D
  <2> SUFFICES ASSUME NEW i \in 1..n, i + 0 >= n PROVE i \in S
    OBVIOUS
  <2>1. \A j \in (i + 1)..n : j \in S
    OBVIOUS
  <2> QED
    BY <2>1
<1>2. ASSUME NEW d \in Nat, d \in D PROVE d + 1 \in D
  <2> SUFFICES ASSUME NEW i \in 1..n, i + (d + 1) >= n PROVE i \in S
    OBVIOUS
  <2>1. \A j \in (i + 1)..n : j \in 1..n /\ j + d >= n
    OBVIOUS
  <2>2. \A j \in (i + 1)..n : j \in S
    BY <1>2, <2>1
  <2> QED
    BY <2>2
<1>3. Nat \subseteq D
  <2> HIDE DEF D
  <2> QED
    BY <1>1, <1>2, EveryNumber
<1>4. n \in D
  BY <1>3
<1>5. \A i \in 1..n : i + n >= n
  OBVIOUS
<1> QED
  BY <1>4, <1>5

\* A recursive definition whose value at a place depends on those at later places alone, and
\* on none past the end, defines a function.
AgreePast(f, g, i) == \A j \in Nat : j > i => f[j] = g[j]

LooksAhead(n, A, C) ==
  /\ A # {} /\ C \in [Nat -> [[Nat -> A] -> A]]
  /\ \A i \in Nat : \A f, g \in [Nat -> A] :
       i > n \/ AgreePast(f, g, i) => C[i][f] = C[i][g]

Unfolds(f, C) == \A i \in Nat : f[i] = C[i][f]

LEMMA ForwardRecursion ==
  ASSUME NEW n \in Nat, NEW A, NEW C, LooksAhead(n, A, C)
  PROVE  \E f \in [Nat -> A] : Unfolds(f, C)
<1> USE DEF LooksAhead, Unfolds
<1>0. PICK a \in A : TRUE
  OBVIOUS
<1> DEFINE D == {d \in Nat : \E f \in [Nat -> A] : \A i \in Nat : i + d > n => f[i] = C[i][f]}
<1>1. ASSUME NEW f \in [Nat -> A], NEW i \in Nat PROVE C[i][f] \in A
  <2>1. C[i] \in [[Nat -> A] -> A]
    OBVIOUS
  <2> QED
    BY <2>1
<1>2. 0 \in D
  <2> DEFINE f == [i \in Nat |-> a]
             g == [i \in Nat |-> C[i][f]]
  <2>1. f \in [Nat -> A]
    OBVIOUS
  <2> HIDE DEF f
  <2>2. g \in [Nat -> A]
    BY <1>1, <2>1
  <2>3. ASSUME NEW i \in Nat, i + 0 > n PROVE g[i] = C[i][g]
    <3>1. i > n
      BY <2>3
    <3>2. g[i] = C[i][f]
      OBVIOUS
    <3> HIDE DEF g
    <3> QED
      BY <2>1, <2>2, <3>1, <3>2
  <2> HIDE DEF g
  <2> QED
    BY <2>2, <2>3
<1>3. ASSUME NEW d \in Nat, d \in D PROVE d + 1 \in D
  <2>1. PICK f \in [Nat -> A] : \A i \in Nat : i + d > n => f[i] = C[i][f]
    BY <1>3
  <2> DEFINE g == [i \in Nat |-> C[i][f]]
  <2>2. g \in [Nat -> A]
    BY <1>1
  <2>3. \A i \in Nat : i + d > n => g[i] = f[i]
    BY <2>1
  <2>4. \A i \in Nat : g[i] = C[i][f]
    OBVIOUS
  <2> HIDE DEF g
  <2>5. ASSUME NEW i \in Nat, i + (d + 1) > n PROVE g[i] = C[i][g]
    <3>1. \A j \in Nat : j > i => j + d > n
      BY <2>5
    <3>2. AgreePast(f, g, i)
      BY <2>3, <3>1 DEF AgreePast
    <3>3. C[i][f] = C[i][g]
      BY <2>2, <3>2
    <3> QED
      BY <2>4, <3>3
  <2> QED
    BY <2>2, <2>5
<1>4. Nat \subseteq D
  <2> HIDE DEF D
  <2> QED
    BY <1>2, <1>3, EveryNumber
<1>5. n + 1 \in D
  <2> HIDE DEF D
  <2>1. n + 1 \in Nat
    OBVIOUS
  <2> QED
    BY <1>4, <2>1
<1>6. PICK f \in [Nat -> A] : \A i \in Nat : i + (n + 1) > n => f[i] = C[i][f]
  BY <1>5
<1>7. \A i \in Nat : i + (n + 1) > n
  OBVIOUS
<1> QED
  BY <1>6, <1>7, Zenon

-----------------------------------------------------------------------------
(* The scan of a string *)

\* Past its end a text has nothing.
LEMMA AtEnd ==
  ASSUME NEW t \in Seq(Characters), NEW i \in Nat
  PROVE  /\ i \in 1..Len(t) => At(t, i) = t[i] /\ At(t, i) \in Characters
         /\ i \notin 1..Len(t) => At(t, i) = "end"
         /\ At(t, i) # "end" => i \in 1..Len(t)
         /\ At(t, i) \in Characters \cup {"end"}
<1>1. DOMAIN t = 1..Len(t)
  BY LenProperties
<1>2. "end" \notin Characters
  BY CharactersListed DEF BasicNames, BeyondNames
<1> QED
  BY <1>1, <1>2 DEF At

\* One escape, or one character that needs none, starts here and ends before the next.
SpellingAhead(t, i) ==
  \/ At(t, i) \in Plain
  \/ At(t, i) = "\\" /\ At(t, i + 1) \in DOMAIN Short
  \/ At(t, i) = "\\" /\ At(t, i + 1) = "u" /\ HexAhead(t, i + 2)

PastSpelling(t, i) ==
  IF At(t, i) # "\\" THEN i + 1 ELSE IF At(t, i + 1) # "u" THEN i + 2 ELSE i + 4

ScanCase(t, scan, i) ==
  CASE At(t, i) = "end" -> Refused(i)
    [] At(t, i) = "quote" -> Accepted(i + 1)
    [] At(t, i) = "\\" ->
         CASE At(t, i + 1) \in DOMAIN Short -> scan[i + 2]
           [] At(t, i + 1) = "u" ->
                LET bad == {k \in 1..HexLen : At(t, i + 1 + k) \notin DOMAIN HexVal}
                IN IF bad = {} THEN scan[i + 2 + HexLen]
                   ELSE Refused(i + 1 + Min(bad))
           [] OTHER -> Refused(i + 1)
    [] At(t, i) \in Control -> Refused(i)
    [] OTHER -> scan[i + 1]

Scan(t) == CHOOSE scan : scan = [i \in Nat |-> ScanCase(t, scan, i)]

LEMMA ScanIsScan ==
  ASSUME NEW t, NEW start
  PROVE  ScanString(t, start) = Scan(t)[start + 1]
BY Zenon DEF ScanString, Scan, ScanCase

\* The kinds of places.
LEMMA PlaceKinds ==
  ASSUME NEW t \in Seq(Characters), NEW i \in Nat
  PROVE  /\ Plain \cap (Control \cup {"quote", "\\", "end"}) = {}
         /\ DOMAIN Short \subseteq Characters /\ "u" \notin DOMAIN Short /\ "end" \notin DOMAIN Short
         /\ At(t, i) \in Plain \cup Control \cup {"quote", "\\", "end"}
         /\ "quote" \notin Control \cup {"\\", "end"} /\ "\\" \notin Control /\ "end" \notin Control
<1>1. At(t, i) \in Characters \cup {"end"}
  BY AtEnd
<1>2. "end" \notin Characters
  BY CharactersListed DEF BasicNames, BeyondNames
<1> QED
  BY <1>1, <1>2, ShortListed, CharactersListed DEF Plain, Control, BasicNames, BeyondNames

\* What the scan makes of a place.
LEMMA ScanCases ==
  ASSUME NEW t \in Seq(Characters), NEW i \in Nat, NEW scan
  PROVE  /\ SpellingAhead(t, i) => ScanCase(t, scan, i) = scan[PastSpelling(t, i)]
         /\ At(t, i) = "quote" => ScanCase(t, scan, i) = Accepted(i + 1)
         /\ ~SpellingAhead(t, i) /\ At(t, i) # "quote" =>
              \E at : ScanCase(t, scan, i) = Refused(at)
         /\ ~SpellingAhead(t, i) => \A g : ScanCase(t, scan, i) = ScanCase(t, g, i)
<1> DEFINE bad == {k \in 1..HexLen : At(t, i + 1 + k) \notin DOMAIN HexVal}
<1>1. /\ Plain \cap (Control \cup {"quote", "\\", "end"}) = {}
      /\ "u" \notin DOMAIN Short /\ "end" \notin DOMAIN Short
      /\ At(t, i) \in Plain \cup Control \cup {"quote", "\\", "end"}
      /\ "quote" \notin Control \cup {"\\", "end"} /\ "\\" \notin Control /\ "end" \notin Control
  BY PlaceKinds
<1>2. bad = {} <=> HexAhead(t, i + 2)
  <2>1. 1..HexLen = {1, 2} /\ i + 1 + 1 = i + 2 /\ i + 1 + 2 = (i + 2) + 1
    BY DEF HexLen
  <2> QED
    BY <2>1 DEF HexAhead
<1>3. i + 2 + HexLen = i + 4
  BY DEF HexLen
<1> HIDE DEF bad
<1>4. \A g : ScanCase(t, g, i) =
        CASE At(t, i) = "end" -> Refused(i)
          [] At(t, i) = "quote" -> Accepted(i + 1)
          [] At(t, i) = "\\" ->
               CASE At(t, i + 1) \in DOMAIN Short -> g[i + 2]
                 [] At(t, i + 1) = "u" -> IF bad = {} THEN g[i + 2 + HexLen]
                                          ELSE Refused(i + 1 + Min(bad))
                 [] OTHER -> Refused(i + 1)
          [] At(t, i) \in Control -> Refused(i)
          [] OTHER -> g[i + 1]
  BY Zenon DEF ScanCase, bad
<1>5. CASE At(t, i) \in Plain
  BY <1>1, <1>4, <1>5, Zenon DEF SpellingAhead, PastSpelling
<1>6. CASE At(t, i) = "quote"
  BY <1>1, <1>4, <1>6, Zenon DEF SpellingAhead
<1>7. CASE At(t, i) = "end" \/ At(t, i) \in Control
  BY <1>1, <1>4, <1>7, Zenon DEF SpellingAhead
<1>8. CASE At(t, i) = "\\"
  <2>1. \A g : ScanCase(t, g, i) =
                 CASE At(t, i + 1) \in DOMAIN Short -> g[i + 2]
                   [] At(t, i + 1) = "u" -> IF bad = {} THEN g[i + 4]
                                            ELSE Refused(i + 1 + Min(bad))
                   [] OTHER -> Refused(i + 1)
    BY <1>1, <1>3, <1>4, <1>8, Zenon
  <2>2. CASE At(t, i + 1) \in DOMAIN Short
    BY <1>1, <1>8, <2>1, <2>2, Zenon DEF SpellingAhead, PastSpelling
  <2>3. CASE At(t, i + 1) = "u"
    BY <1>1, <1>2, <1>8, <2>1, <2>3, Zenon DEF SpellingAhead, PastSpelling
  <2>4. CASE At(t, i + 1) \notin DOMAIN Short /\ At(t, i + 1) # "u"
    BY <1>1, <1>8, <2>1, <2>4, Zenon DEF SpellingAhead, PastSpelling
  <2> QED
    BY <2>2, <2>3, <2>4, Zenon
<1> QED
  BY <1>1, <1>5, <1>6, <1>7, <1>8, Zenon

\* A spelling ends within the text.
LEMMA PastSpellingAhead ==
  ASSUME NEW t \in Seq(Characters), NEW i \in Nat, SpellingAhead(t, i)
  PROVE  /\ PastSpelling(t, i) \in (i + 1)..(Len(t) + 1)
         /\ i \in 1..Len(t)
<1>1. /\ "end" \notin Plain /\ "end" \notin DOMAIN Short /\ "end" \notin DOMAIN HexVal
      /\ "\\" \notin Plain /\ "u" \notin DOMAIN Short
  BY PlaceKinds, DigitsListed
<1>2. Len(t) \in Nat
  BY LenProperties
<1>3. CASE At(t, i) \in Plain
  <2>1. i \in 1..Len(t)
    BY <1>1, <1>3, AtEnd
  <2> QED
    BY <1>1, <1>2, <1>3, <2>1 DEF PastSpelling
<1>4. CASE At(t, i) = "\\" /\ At(t, i + 1) \in DOMAIN Short
  <2>1. i + 1 \in 1..Len(t)
    BY <1>1, <1>4, AtEnd
  <2>2. PastSpelling(t, i) = i + 2
    BY <1>1, <1>4 DEF PastSpelling
  <2>3. i \in 1..Len(t)
    BY <1>4, AtEnd
  <2> QED
    BY <1>2, <2>1, <2>2, <2>3
<1>5. CASE At(t, i) = "\\" /\ At(t, i + 1) = "u" /\ HexAhead(t, i + 2)
  <2>1. i + 2 + 1 \in 1..Len(t)
    <3>1. At(t, i + 2 + 1) # "end" /\ i + 2 + 1 \in Nat
      BY <1>1, <1>5 DEF HexAhead
    <3> QED
      BY <3>1, AtEnd
  <2>2. PastSpelling(t, i) = i + 4
    BY <1>1, <1>5 DEF PastSpelling
  <2>3. i \in 1..Len(t)
    BY <1>5, AtEnd
  <2> QED
    BY <1>2, <2>1, <2>2, <2>3
<1> QED
  BY <1>3, <1>4, <1>5 DEF SpellingAhead

LEMMA ScanSteps ==
  ASSUME NEW t \in Seq(Characters)
  PROVE  \A i \in Nat : Scan(t)[i] = ScanCase(t, Scan(t), i)
<1> DEFINE n == Len(t)
           none == [k \in Nat |-> Refused(k)]
           A == {ScanCase(t, none, i) : i \in Nat}
           C == [i \in Nat |-> [g \in [Nat -> A] |-> ScanCase(t, g, i)]]
           Def(g) == g = [i \in Nat |-> ScanCase(t, g, i)]
<1>1. n \in Nat /\ ScanCase(t, none, 0) \in A
  BY LenProperties
<1>2. ASSUME NEW i \in Nat, NEW g \in [Nat -> A] PROVE ScanCase(t, g, i) \in A
  <2>1. CASE SpellingAhead(t, i)
    <3>1. PastSpelling(t, i) \in Nat
      BY <1>1, <2>1, PastSpellingAhead
    <3>2. g[PastSpelling(t, i)] \in A
      BY <3>1, Zenon
    <3> QED
      BY <2>1, <3>2, ScanCases, Zenon
  <2>2. CASE ~SpellingAhead(t, i)
    <3>1. ScanCase(t, g, i) = ScanCase(t, none, i)
      BY <2>2, ScanCases, Zenon
    <3> QED
      BY <3>1, Zenon
  <2> QED
    BY <2>1, <2>2
<1>3. C \in [Nat -> [[Nat -> A] -> A]]
  <2> HIDE DEF A
  <2> QED
    BY <1>2
<1>4. ASSUME NEW i \in Nat, NEW f \in [Nat -> A], NEW g \in [Nat -> A],
             i > n \/ AgreePast(f, g, i)
      PROVE  C[i][f] = C[i][g]
  <2>1. ScanCase(t, f, i) = ScanCase(t, g, i)
    <3>1. CASE SpellingAhead(t, i)
      <4>1. PastSpelling(t, i) \in Nat /\ PastSpelling(t, i) > i /\ i \in 1..n
        BY <1>1, <3>1, PastSpellingAhead
      <4>2. AgreePast(f, g, i)
        BY <1>1, <1>4, <4>1
      <4>3. f[PastSpelling(t, i)] = g[PastSpelling(t, i)]
        BY <4>1, <4>2 DEF AgreePast
      <4> HIDE DEF n, A, C, none
      <4>4. \A h : ScanCase(t, h, i) = h[PastSpelling(t, i)]
        BY <3>1, ScanCases, Zenon
      <4> QED
        BY <4>3, <4>4, Zenon
    <3>2. CASE ~SpellingAhead(t, i)
      BY <3>2, ScanCases, Zenon
    <3> QED
      BY <3>1, <3>2
  <2> HIDE DEF A
  <2> QED
    BY <2>1
<1>5. \A i \in Nat, f \in [Nat -> A] : C[i][f] = ScanCase(t, f, i)
  OBVIOUS
<1> HIDE DEF n, A, C, none
<1>9. LooksAhead(n, A, C)
  BY <1>1, <1>3, <1>4, Zenon DEF LooksAhead
<1>6. PICK f \in [Nat -> A] : Unfolds(f, C)
  BY <1>1, <1>9, ForwardRecursion, Zenon
<1>7. Def(f)
  <2>1. f = [i \in Nat |-> f[i]]
    OBVIOUS
  <2>2. \A i \in Nat : f[i] = ScanCase(t, f, i)
    BY <1>5, <1>6, Zenon DEF Unfolds
  <2>3. [i \in Nat |-> f[i]] = [i \in Nat |-> ScanCase(t, f, i)]
    BY <2>2, Zenon
  <2> QED
    BY <2>1, <2>3, Zenon
<1>8. Def(Scan(t))
  BY <1>7, Zenon DEF Scan
<1> QED
  BY <1>8, Zenon

-----------------------------------------------------------------------------
(* The grammar's reading of a place *)

SpellingUnits(t, i) ==
  IF At(t, i) # "\\" THEN CodeUnits(At(t, i))
  ELSE IF At(t, i + 1) # "u" THEN CodeUnits(Short[At(t, i + 1)])
  ELSE <<ReadHex4(t, i + 2)>>

LEMMA PlainOnes ==
  /\ Plain \subseteq Characters /\ "\\" \notin Plain
  /\ \A c \in DOMAIN Short : Short[c] \in Characters
<1>1. Plain \subseteq Characters /\ "\\" \notin Plain
  BY DEF Plain
<1>2. ASSUME NEW c \in DOMAIN Short PROVE Short[c] \in Characters
  <2>1. PICK u \in Scalars : Short[c] = CharOf(u)
    BY ShortListed
  <2> QED
    BY <2>1, CodeUnitsBasic
<1> QED
  BY <1>1, <1>2

\* The three kinds of spellings.
LEMMA MeaningKinds ==
  ASSUME NEW m \in Meanings
  PROVE  \/ \E c \in Plain : m = << <<c>>, CodeUnits(c) >>
         \/ \E c \in DOMAIN Short : m = << <<"\\", c>>, CodeUnits(Short[c]) >>
         \/ \E h \in DOMAIN HexVal, l \in DOMAIN HexVal :
              m = << <<"\\", "u", h, l>>, <<(5 * HexVal[h]) + HexVal[l]>> >>
BY DEF Meanings

LEMMA MeaningsTyped ==
  ASSUME NEW m \in Meanings
  PROVE  Len(m[1]) \in Nat \ {0} /\ m[2] \in Seq(0..24)
<1>1. CASE \E c \in Plain : m = << <<c>>, CodeUnits(c) >>
  <2>1. PICK c \in Plain : m = << <<c>>, CodeUnits(c) >>
    BY <1>1
  <2>2. CodeUnits(c) \in Seq(0..24)
    BY PlainOnes, CodeUnitsTyped
  <2> QED
    BY <2>1, <2>2
<1>2. CASE \E c \in DOMAIN Short : m = << <<"\\", c>>, CodeUnits(Short[c]) >>
  <2>1. PICK c \in DOMAIN Short : m = << <<"\\", c>>, CodeUnits(Short[c]) >>
    BY <1>2
  <2>2. CodeUnits(Short[c]) \in Seq(0..24)
    BY PlainOnes, CodeUnitsTyped
  <2> QED
    BY <2>1, <2>2
<1>3. CASE \E h \in DOMAIN HexVal, l \in DOMAIN HexVal :
             m = << <<"\\", "u", h, l>>, <<(5 * HexVal[h]) + HexVal[l]>> >>
  <2>1. PICK h \in DOMAIN HexVal, l \in DOMAIN HexVal :
          m = << <<"\\", "u", h, l>>, <<(5 * HexVal[h]) + HexVal[l]>> >>
    BY <1>3
  <2>2. (5 * HexVal[h]) + HexVal[l] \in 0..24
    BY HexValuesInRange
  <2> QED
    BY <2>1, <2>2
<1> QED
  BY <1>1, <1>2, <1>3, MeaningKinds

\* What starts with a spelling.
LEMMA CutKinds ==
  ASSUME NEW t \in Seq(Characters), NEW i \in Nat, NEW m \in CutAt(t, i)
  PROVE  /\ SpellingAhead(t, i)
         /\ i + Len(m[1]) = PastSpelling(t, i)
         /\ m[2] = SpellingUnits(t, i)
<1>1. m \in Meanings /\ \A k \in DOMAIN m[1] : At(t, i + k - 1) = m[1][k]
  BY DEF CutAt
<1>2. i + 1 - 1 = i /\ i + 2 - 1 = i + 1 /\ i + 3 - 1 = i + 2 /\ i + 4 - 1 = (i + 2) + 1
  OBVIOUS
<1>3. CASE \E c \in Plain : m = << <<c>>, CodeUnits(c) >>
  <2>1. PICK c \in Plain : m = << <<c>>, CodeUnits(c) >>
    BY <1>3
  <2>2. DOMAIN m[1] = {1} /\ m[1][1] = c /\ Len(m[1]) = 1 /\ m[2] = CodeUnits(c)
    BY <2>1
  <2>3. At(t, i) = c
    BY <1>1, <1>2, <2>2
  <2> QED
    BY <2>2, <2>3, PlainOnes DEF SpellingAhead, PastSpelling, SpellingUnits
<1>4. CASE \E c \in DOMAIN Short : m = << <<"\\", c>>, CodeUnits(Short[c]) >>
  <2>1. PICK c \in DOMAIN Short : m = << <<"\\", c>>, CodeUnits(Short[c]) >>
    BY <1>4
  <2>2. /\ DOMAIN m[1] = {1, 2} /\ m[1][1] = "\\" /\ m[1][2] = c /\ Len(m[1]) = 2
        /\ m[2] = CodeUnits(Short[c])
    BY <2>1
  <2>3. At(t, i) = "\\" /\ At(t, i + 1) = c
    BY <1>1, <1>2, <2>2
  <2>4. c # "u"
    BY ShortListed
  <2> QED
    BY <2>2, <2>3, <2>4 DEF SpellingAhead, PastSpelling, SpellingUnits
<1>5. CASE \E h \in DOMAIN HexVal, l \in DOMAIN HexVal :
             m = << <<"\\", "u", h, l>>, <<(5 * HexVal[h]) + HexVal[l]>> >>
  <2>1. PICK h \in DOMAIN HexVal, l \in DOMAIN HexVal :
          m = << <<"\\", "u", h, l>>, <<(5 * HexVal[h]) + HexVal[l]>> >>
    BY <1>5
  <2>2. /\ DOMAIN m[1] = {1, 2, 3, 4} /\ m[1][1] = "\\" /\ m[1][2] = "u"
        /\ m[1][3] = h /\ m[1][4] = l /\ Len(m[1]) = 4
        /\ m[2] = <<(5 * HexVal[h]) + HexVal[l]>>
    BY <2>1
  <2>3. /\ At(t, i) = "\\" /\ At(t, i + 1) = "u" /\ At(t, i + 2) = h /\ At(t, (i + 2) + 1) = l
    <3> HIDE DEF SpellingAhead
    <3>1. 1 \in DOMAIN m[1] /\ 2 \in DOMAIN m[1] /\ 3 \in DOMAIN m[1] /\ 4 \in DOMAIN m[1]
      BY <2>2
    <3> QED
      BY <1>1, <1>2, <2>2, <3>1
  <2>4. HexAhead(t, i + 2)
    BY <2>3 DEF HexAhead
  <2>5. t[i + 2] = h /\ t[(i + 2) + 1] = l
    BY <2>3, DigitsListed DEF At
  <2>6. ReadHex4(t, i + 2) = (5 * HexVal[h]) + HexVal[l]
    <3>1. i + 2 \in Nat
      OBVIOUS
    <3>2. ReadHex4(t, i + 2) = IF HexAhead(t, i + 2)
                               THEN (5 * HexVal[t[i + 2]]) + HexVal[t[(i + 2) + 1]] ELSE None
      BY <3>1, HexRead
    <3> QED
      BY <2>4, <2>5, <3>2
  <2> QED
    BY <2>2, <2>3, <2>4, <2>6 DEF SpellingAhead, PastSpelling, SpellingUnits
<1> QED
  BY <1>1, <1>3, <1>4, <1>5, MeaningKinds

LEMMA CutThere ==
  ASSUME NEW t \in Seq(Characters), NEW i \in Nat, SpellingAhead(t, i)
  PROVE  CutAt(t, i) # {}
<1>1. i + 1 - 1 = i /\ i + 2 - 1 = i + 1 /\ i + 3 - 1 = i + 2 /\ i + 4 - 1 = (i + 2) + 1
  OBVIOUS
<1>2. CASE At(t, i) \in Plain
  <2> DEFINE m == << <<At(t, i)>>, CodeUnits(At(t, i)) >>
  <2>1. m \in Meanings
    BY <1>2 DEF Meanings
  <2>2. DOMAIN m[1] = {1} /\ m[1][1] = At(t, i)
    OBVIOUS
  <2> HIDE DEF m
  <2>3. \A k \in DOMAIN m[1] : At(t, i + k - 1) = m[1][k]
    BY <1>1, <2>2
  <2> QED
    BY <2>1, <2>3 DEF CutAt
<1>3. CASE At(t, i) = "\\" /\ At(t, i + 1) \in DOMAIN Short
  <2> DEFINE m == << <<"\\", At(t, i + 1)>>, CodeUnits(Short[At(t, i + 1)]) >>
  <2>1. m \in Meanings
    BY <1>3 DEF Meanings
  <2>2. DOMAIN m[1] = {1, 2} /\ m[1][1] = "\\" /\ m[1][2] = At(t, i + 1)
    OBVIOUS
  <2> HIDE DEF m
  <2>3. \A k \in DOMAIN m[1] : At(t, i + k - 1) = m[1][k]
    BY <1>1, <1>3, <2>2
  <2> QED
    BY <2>1, <2>3 DEF CutAt
<1>4. CASE At(t, i) = "\\" /\ At(t, i + 1) = "u" /\ HexAhead(t, i + 2)
  <2> DEFINE h == At(t, i + 2)
             l == At(t, (i + 2) + 1)
             m == << <<"\\", "u", h, l>>, <<(5 * HexVal[h]) + HexVal[l]>> >>
  <2>1. h \in DOMAIN HexVal /\ l \in DOMAIN HexVal
    BY <1>4 DEF HexAhead
  <2> HIDE DEF h, l
  <2>2. m \in Meanings
    BY <2>1 DEF Meanings
  <2>3. /\ DOMAIN m[1] = {1, 2, 3, 4} /\ m[1][1] = "\\" /\ m[1][2] = "u"
        /\ m[1][3] = h /\ m[1][4] = l
    OBVIOUS
  <2> HIDE DEF m
  <2>4. \A k \in DOMAIN m[1] : At(t, i + k - 1) = m[1][k]
    BY <1>1, <1>4, <2>3 DEF h, l
  <2> QED
    BY <2>2, <2>4 DEF CutAt
<1> QED
  BY <1>2, <1>3, <1>4 DEF SpellingAhead

CutCase(t, cut, i) == i > Len(t) \/ \E m \in CutAt(t, i) : cut[i + Len(m[1])]

Cut(t) == CHOOSE cut : cut = [i \in Nat |-> CutCase(t, cut, i)]

LEMMA BodyIsCut ==
  ASSUME NEW t
  PROVE  IsBody(t) = Cut(t)[1]
BY Zenon DEF IsBody, Cut, CutCase

LEMMA CutUnfolds ==
  ASSUME NEW t \in Seq(Characters)
  PROVE  \A i \in Nat : Cut(t)[i] = CutCase(t, Cut(t), i)
<1> DEFINE n == Len(t)
           C == [i \in Nat |-> [g \in [Nat -> BOOLEAN] |-> CutCase(t, g, i)]]
           Def(g) == g = [i \in Nat |-> CutCase(t, g, i)]
<1>1. n \in Nat
  BY LenProperties
<1>2. ASSUME NEW i \in Nat, NEW g \in [Nat -> BOOLEAN] PROVE CutCase(t, g, i) \in BOOLEAN
  BY DEF CutCase
<1>3. C \in [Nat -> [[Nat -> BOOLEAN] -> BOOLEAN]]
  BY <1>2
<1>4. ASSUME NEW i \in Nat, NEW f \in [Nat -> BOOLEAN], NEW g \in [Nat -> BOOLEAN],
             i > n \/ AgreePast(f, g, i)
      PROVE  C[i][f] = C[i][g]
  <2>1. CASE i > n
    BY <2>1 DEF CutCase
  <2>2. CASE AgreePast(f, g, i)
    <3>1. ASSUME NEW m \in CutAt(t, i) PROVE f[i + Len(m[1])] = g[i + Len(m[1])]
      <4>1. m \in Meanings
        BY DEF CutAt
      <4>2. i + Len(m[1]) \in Nat /\ i + Len(m[1]) > i
        BY <4>1, MeaningsTyped
      <4> QED
        BY <2>2, <4>2 DEF AgreePast
    <3>2. CutCase(t, f, i) = CutCase(t, g, i)
      BY <3>1, Zenon DEF CutCase
    <3> QED
      BY <3>2
  <2> QED
    BY <1>4, <2>1, <2>2
<1>5. \A i \in Nat, f \in [Nat -> BOOLEAN] : C[i][f] = CutCase(t, f, i)
  OBVIOUS
<1> HIDE DEF n, C
<1>6. LooksAhead(n, BOOLEAN, C)
  BY <1>3, <1>4, Zenon DEF LooksAhead
<1>7. PICK f \in [Nat -> BOOLEAN] : Unfolds(f, C)
  BY <1>1, <1>6, ForwardRecursion, Zenon
<1>8. Def(f)
  <2>1. f = [i \in Nat |-> f[i]]
    OBVIOUS
  <2>2. \A i \in Nat : f[i] = CutCase(t, f, i)
    BY <1>5, <1>7, Zenon DEF Unfolds
  <2>3. [i \in Nat |-> f[i]] = [i \in Nat |-> CutCase(t, f, i)]
    BY <2>2, Zenon
  <2> QED
    BY <2>1, <2>3, Zenon
<1>9. Def(Cut(t))
  BY <1>8, Zenon DEF Cut
<1> QED
  BY <1>9, Zenon

\* A body is cut into spellings.
LEMMA CutSteps ==
  ASSUME NEW t \in Seq(Characters), NEW i \in Nat
  PROVE  /\ i > Len(t) => Cut(t)[i]
         /\ SpellingAhead(t, i) => (Cut(t)[i] <=> Cut(t)[PastSpelling(t, i)])
         /\ i <= Len(t) /\ ~SpellingAhead(t, i) => ~Cut(t)[i]
<1>1. Cut(t)[i] = CutCase(t, Cut(t), i)
  BY CutUnfolds
<1>2. Len(t) \in Nat
  BY LenProperties
<1>3. CASE SpellingAhead(t, i)
  <2>1. ~(i > Len(t))
    BY <1>2, <1>3, PastSpellingAhead
  <2>2. PICK m \in CutAt(t, i) : TRUE
    BY <1>3, CutThere
  <2>3. \A w \in CutAt(t, i) : i + Len(w[1]) = PastSpelling(t, i)
    BY CutKinds
  <2>4. Cut(t)[i] <=> Cut(t)[PastSpelling(t, i)]
    BY <1>1, <2>1, <2>2, <2>3, Zenon DEF CutCase
  <2> QED
    BY <1>3, <2>1, <2>4
<1>4. CASE ~SpellingAhead(t, i)
  <2>1. CutAt(t, i) = {}
    BY <1>4, CutKinds
  <2>2. Cut(t)[i] <=> i > Len(t)
    BY <1>1, <2>1, Zenon DEF CutCase
  <2>3. i <= Len(t) => ~(i > Len(t))
    BY <1>2
  <2> QED
    BY <1>4, <2>2, <2>3, Zenon
<1> QED
  BY <1>3, <1>4

MeanCase(t, mean, i) ==
  IF i > Len(t) \/ CutAt(t, i) = {} THEN <<>>
  ELSE LET m == CHOOSE m \in CutAt(t, i) : TRUE IN m[2] \o mean[i + Len(m[1])]

Mean(t) == CHOOSE mean : mean = [i \in Nat |-> MeanCase(t, mean, i)]

LEMMA MeaningIsMean ==
  ASSUME NEW lexeme
  PROVE  Meaning(lexeme) = Mean(Inner(lexeme))[1]
BY Zenon DEF Meaning, Mean, MeanCase

LEMMA MeanUnfolds ==
  ASSUME NEW t \in Seq(Characters)
  PROVE  \A i \in Nat : Mean(t)[i] = MeanCase(t, Mean(t), i)
<1> DEFINE n == Len(t)
           A == Seq(0..24)
           C == [i \in Nat |-> [g \in [Nat -> A] |-> MeanCase(t, g, i)]]
           Def(g) == g = [i \in Nat |-> MeanCase(t, g, i)]
<1>1. n \in Nat /\ <<>> \in A
  BY LenProperties, EmptySeq
<1>2. ASSUME NEW i \in Nat, CutAt(t, i) # {}
      PROVE  LET m == CHOOSE m \in CutAt(t, i) : TRUE
             IN m[2] \in A /\ i + Len(m[1]) \in Nat /\ i + Len(m[1]) > i
  <2> DEFINE m == CHOOSE m \in CutAt(t, i) : TRUE
  <2>1. m \in CutAt(t, i)
    BY <1>2, Zenon
  <2> HIDE DEF m
  <2>2. m \in Meanings
    BY <2>1 DEF CutAt
  <2>3. Len(m[1]) \in Nat \ {0} /\ m[2] \in Seq(0..24)
    BY <2>2, MeaningsTyped
  <2>4. m[2] \in A /\ i + Len(m[1]) \in Nat /\ i + Len(m[1]) > i
    BY <2>3
  <2> QED
    BY <2>4 DEF m
<1>3. ASSUME NEW i \in Nat, NEW g \in [Nat -> A] PROVE MeanCase(t, g, i) \in A
  <2>1. CASE i > n \/ CutAt(t, i) = {}
    <3> HIDE DEF A
    <3> QED
      BY <1>1, <2>1 DEF MeanCase
  <2>2. CASE ~(i > n \/ CutAt(t, i) = {})
    <3> DEFINE m == CHOOSE m \in CutAt(t, i) : TRUE
    <3>1. m[2] \in A /\ i + Len(m[1]) \in Nat
      BY <1>2, <2>2, Zenon
    <3>2. MeanCase(t, g, i) = m[2] \o g[i + Len(m[1])]
      BY <2>2, Zenon DEF MeanCase
    <3> HIDE DEF m
    <3>3. g[i + Len(m[1])] \in A
      BY <3>1, Zenon
    <3> QED
      BY <3>1, <3>2, <3>3, ConcatProperties
  <2> QED
    BY <2>1, <2>2
<1>4. C \in [Nat -> [[Nat -> A] -> A]]
  <2> HIDE DEF A
  <2> QED
    BY <1>3
<1>5. ASSUME NEW i \in Nat, NEW f \in [Nat -> A], NEW g \in [Nat -> A],
             i > n \/ AgreePast(f, g, i)
      PROVE  C[i][f] = C[i][g]
  <2>1. MeanCase(t, f, i) = MeanCase(t, g, i)
    <3>1. CASE i > n \/ CutAt(t, i) = {}
      BY <3>1, Zenon DEF MeanCase
    <3>2. CASE ~(i > n \/ CutAt(t, i) = {})
      <4> DEFINE m == CHOOSE m \in CutAt(t, i) : TRUE
      <4>1. i + Len(m[1]) \in Nat /\ i + Len(m[1]) > i
        BY <1>2, <3>2, Zenon
      <4>2. MeanCase(t, g, i) = m[2] \o g[i + Len(m[1])] /\ MeanCase(t, f, i) = m[2] \o f[i + Len(m[1])]
        BY <3>2, Zenon DEF MeanCase
      <4> HIDE DEF m, A
      <4>3. AgreePast(f, g, i)
        BY <1>5, <3>2
      <4>4. f[i + Len(m[1])] = g[i + Len(m[1])]
        BY <4>1, <4>3 DEF AgreePast
      <4> QED
        BY <4>2, <4>4, Zenon
    <3> QED
      BY <3>1, <3>2
  <2> HIDE DEF A
  <2> QED
    BY <2>1
<1>6. \A i \in Nat, f \in [Nat -> A] : C[i][f] = MeanCase(t, f, i)
  OBVIOUS
<1> HIDE DEF n, A, C
<1>7. LooksAhead(n, A, C)
  BY <1>1, <1>4, <1>5, Zenon DEF LooksAhead
<1>8. PICK f \in [Nat -> A] : Unfolds(f, C)
  BY <1>1, <1>7, ForwardRecursion, Zenon
<1>9. Def(f)
  <2>1. f = [i \in Nat |-> f[i]]
    OBVIOUS
  <2>2. \A i \in Nat : f[i] = MeanCase(t, f, i)
    BY <1>6, <1>8, Zenon DEF Unfolds
  <2>3. [i \in Nat |-> f[i]] = [i \in Nat |-> MeanCase(t, f, i)]
    BY <2>2, Zenon
  <2> QED
    BY <2>1, <2>3, Zenon
<1>10. Def(Mean(t))
  BY <1>9, Zenon DEF Mean
<1> QED
  BY <1>10, Zenon

LEMMA MeanTyped ==
  ASSUME NEW t \in Seq(Characters), NEW i \in Nat, i >= 1
  PROVE  Mean(t)[i] \in Seq(0..24)
<1> DEFINE n == Len(t)
           P == {k \in Nat : Mean(t)[k] \in Seq(0..24)}
<1>1. n \in Nat /\ <<>> \in Seq(0..24)
  BY LenProperties, EmptySeq
<1>2. ASSUME NEW k \in Nat, k > n \/ CutAt(t, k) = {} PROVE k \in P
  <2>1. Mean(t)[k] = MeanCase(t, Mean(t), k)
    BY MeanUnfolds
  <2>2. MeanCase(t, Mean(t), k) = <<>>
    BY <1>2, Zenon DEF MeanCase
  <2> QED
    BY <1>1, <2>1, <2>2
<1>3. ASSUME NEW k \in 1..n, \A j \in (k + 1)..n : j \in P PROVE k \in P
  <2>1. k \in Nat
    BY <1>1
  <2>2. CASE CutAt(t, k) # {}
    <3> DEFINE m == CHOOSE m \in CutAt(t, k) : TRUE
    <3>1. m \in CutAt(t, k)
      BY <2>2, Zenon
    <3>2. Mean(t)[k] = m[2] \o Mean(t)[k + Len(m[1])]
      <4>1. Mean(t)[k] = MeanCase(t, Mean(t), k)
        BY <2>1, MeanUnfolds
      <4>2. ~(k > n)
        BY <1>1
      <4> QED
        BY <2>2, <4>1, <4>2, Zenon DEF MeanCase
    <3> HIDE DEF m
    <3>3. Len(m[1]) \in Nat \ {0} /\ m[2] \in Seq(0..24)
      <4>1. m \in Meanings
        BY <3>1 DEF CutAt
      <4> QED
        BY <4>1, MeaningsTyped
    <3>4. k + Len(m[1]) \in P
      <4>1. k + Len(m[1]) \in Nat /\ (k + Len(m[1]) > n \/ k + Len(m[1]) \in (k + 1)..n)
        BY <1>1, <2>1, <3>3
      <4> QED
        BY <1>2, <1>3, <4>1
    <3>5. m[2] \o Mean(t)[k + Len(m[1])] \in Seq(0..24)
      <4>1. Mean(t)[k + Len(m[1])] \in Seq(0..24)
        BY <3>4
      <4> QED
        BY ONLY <3>3, <4>1, ConcatProperties, Zenon
    <3> QED
      BY <2>1, <3>2, <3>5
  <2> QED
    BY <1>2, <2>1, <2>2
<1>4. \A k \in 1..n : k \in P
  <2> HIDE DEF P, n
  <2> QED
    BY <1>1, <1>3, Backwards
<1>5. i > n \/ i \in 1..n
  BY <1>1
<1> QED
  BY <1>2, <1>4, <1>5

LEMMA MeanSteps ==
  ASSUME NEW t \in Seq(Characters), NEW i \in Nat
  PROVE  /\ i > Len(t) => Mean(t)[i] = <<>>
         /\ SpellingAhead(t, i) => Mean(t)[i] = SpellingUnits(t, i) \o Mean(t)[PastSpelling(t, i)]
<1>1. Mean(t)[i] = MeanCase(t, Mean(t), i)
  BY MeanUnfolds
<1>2. i > Len(t) => Mean(t)[i] = <<>>
  BY <1>1, Zenon DEF MeanCase
<1>3. ASSUME SpellingAhead(t, i)
      PROVE  Mean(t)[i] = SpellingUnits(t, i) \o Mean(t)[PastSpelling(t, i)]
  <2> DEFINE m == CHOOSE m \in CutAt(t, i) : TRUE
  <2>1. Len(t) \in Nat
    BY LenProperties
  <2>2. ~(i > Len(t))
    BY <1>3, <2>1, PastSpellingAhead
  <2>3. CutAt(t, i) # {}
    BY <1>3, CutThere
  <2>4. m \in CutAt(t, i)
    BY <2>3, Zenon
  <2>5. Mean(t)[i] = m[2] \o Mean(t)[i + Len(m[1])]
    BY <1>1, <2>2, <2>3, Zenon DEF MeanCase
  <2> HIDE DEF m
  <2>6. i + Len(m[1]) = PastSpelling(t, i) /\ m[2] = SpellingUnits(t, i)
    BY <2>4, CutKinds
  <2> QED
    BY <2>5, <2>6
<1> QED
  BY <1>2, <1>3

-----------------------------------------------------------------------------
(* The look for half a pair *)

UnitAhead(t, i) == ReadHex4(t, i + 2)

PairAhead(t, i) == CombinesPair(UnitAhead(t, i), t, i)

LoneCase(t, lone, i) ==
  LET unit == ReadHex4(t, i + 2)
  IN IF At(t, i) = "end" THEN FALSE
     ELSE IF At(t, i) # "\\" THEN lone[i + 1]
     ELSE IF At(t, i + 1) # "u" \/ unit = None THEN lone[i + 2]
     ELSE IF CombinesPair(unit, t, i) THEN lone[i + (2 * (2 + HexLen))]
     ELSE unit \in Surrogates \/ lone[i + 2 + HexLen]

Lone(t) == CHOOSE lone : lone = [i \in Nat |-> LoneCase(t, lone, i)]

LEMMA LoneIsLone ==
  ASSUME NEW t
  PROVE  HasLoneSurrogate(t) = Lone(t)[1]
BY Zenon DEF HasLoneSurrogate, Lone, LoneCase

\* The places on either scale.
LEMMA HexPlaces ==
  ASSUME NEW i \in Nat
  PROVE  /\ i + (2 * (2 + HexLen)) = i + 8 /\ i + 2 + HexLen = i + 4
         /\ i + 3 + HexLen = i + 5 /\ i + 4 + HexLen = i + 6
         /\ \A k \in {1, 2, 4, 8} : i + k \in Nat /\ i + k > i
BY DEF HexLen

LEMMA LoneUnfolds ==
  ASSUME NEW t \in Seq(Characters)
  PROVE  \A i \in Nat : Lone(t)[i] = LoneCase(t, Lone(t), i)
<1> DEFINE n == Len(t)
           C == [i \in Nat |-> [g \in [Nat -> BOOLEAN] |-> LoneCase(t, g, i)]]
           Def(g) == g = [i \in Nat |-> LoneCase(t, g, i)]
<1>1. n \in Nat
  BY LenProperties
<1>2. ASSUME NEW i \in Nat, NEW g \in [Nat -> BOOLEAN] PROVE LoneCase(t, g, i) \in BOOLEAN
  <2>1. \A k \in {1, 2, 4, 8} : g[i + k] \in BOOLEAN
    BY HexPlaces
  <2>2. /\ g[i + 1] \in BOOLEAN /\ g[i + 2] \in BOOLEAN /\ g[i + (2 * (2 + HexLen))] \in BOOLEAN
        /\ g[i + 2 + HexLen] \in BOOLEAN
    BY <2>1, HexPlaces
  <2> QED
    BY <2>2, Zenon DEF LoneCase
<1>3. C \in [Nat -> [[Nat -> BOOLEAN] -> BOOLEAN]]
  BY <1>2
<1>4. ASSUME NEW i \in Nat, NEW f \in [Nat -> BOOLEAN], NEW g \in [Nat -> BOOLEAN],
             i > n \/ AgreePast(f, g, i)
      PROVE  LoneCase(t, f, i) = LoneCase(t, g, i)
  <2>1. CASE i > n
    <3>1. At(t, i) = "end"
      BY <1>1, <2>1, AtEnd
    <3> QED
      BY <3>1, Zenon DEF LoneCase
  <2>2. CASE AgreePast(f, g, i)
    <3>1. \A k \in {1, 2, 4, 8} : f[i + k] = g[i + k]
      BY <2>2, HexPlaces DEF AgreePast
    <3>2. /\ f[i + 1] = g[i + 1] /\ f[i + 2] = g[i + 2]
          /\ f[i + (2 * (2 + HexLen))] = g[i + (2 * (2 + HexLen))]
          /\ f[i + 2 + HexLen] = g[i + 2 + HexLen]
      BY <3>1, HexPlaces
    <3> QED
      BY <3>2, Zenon DEF LoneCase
  <2> QED
    BY <1>4, <2>1, <2>2
<1>5. \A i \in Nat, f \in [Nat -> BOOLEAN] : C[i][f] = LoneCase(t, f, i)
  OBVIOUS
<1> HIDE DEF n, C
<1>6. LooksAhead(n, BOOLEAN, C)
  <2>1. ASSUME NEW i \in Nat, NEW f \in [Nat -> BOOLEAN], NEW g \in [Nat -> BOOLEAN],
               i > n \/ AgreePast(f, g, i)
        PROVE  C[i][f] = C[i][g]
    <3>1. LoneCase(t, f, i) = LoneCase(t, g, i)
      BY <1>4, <2>1
    <3>2. C[i][f] = LoneCase(t, f, i) /\ C[i][g] = LoneCase(t, g, i)
      BY <1>5
    <3> QED
      BY <3>1, <3>2, Zenon
  <2> QED
    BY <1>3, <2>1, Zenon DEF LooksAhead
<1>7. PICK f \in [Nat -> BOOLEAN] : Unfolds(f, C)
  BY <1>1, <1>6, ForwardRecursion, Zenon
<1>8. Def(f)
  <2>1. f = [i \in Nat |-> f[i]]
    OBVIOUS
  <2>2. \A i \in Nat : f[i] = LoneCase(t, f, i)
    BY <1>5, <1>7, Zenon DEF Unfolds
  <2>3. [i \in Nat |-> f[i]] = [i \in Nat |-> LoneCase(t, f, i)]
    BY <2>2, Zenon
  <2> QED
    BY <2>1, <2>3, Zenon
<1>9. Def(Lone(t))
  BY <1>8, Zenon DEF Lone
<1> QED
  BY <1>9, Zenon

LEMMA LoneTyped ==
  ASSUME NEW t \in Seq(Characters), NEW i \in Nat, i >= 1
  PROVE  Lone(t)[i] \in BOOLEAN
<1> DEFINE n == Len(t)
           P == {k \in Nat : Lone(t)[k] \in BOOLEAN}
<1>1. n \in Nat
  BY LenProperties
<1>2. ASSUME NEW k \in Nat, k > n PROVE k \in P
  <2>1. At(t, k) = "end"
    BY <1>1, <1>2, AtEnd
  <2>2. Lone(t)[k] = LoneCase(t, Lone(t), k)
    BY LoneUnfolds
  <2>3. LoneCase(t, Lone(t), k) = FALSE
    BY <2>1, Zenon DEF LoneCase
  <2> QED
    BY <2>2, <2>3
<1>3. ASSUME NEW k \in 1..n, \A j \in (k + 1)..n : j \in P PROVE k \in P
  <2>1. k \in Nat
    BY <1>1
  <2>2. \A j \in Nat : j > k => Lone(t)[j] \in BOOLEAN
    <3> SUFFICES ASSUME NEW j \in Nat, j > k PROVE j \in P
      OBVIOUS
    <3>1. j > n \/ j \in (k + 1)..n
      BY <1>1, <2>1
    <3> QED
      BY <1>2, <1>3, <3>1
  <2>3. \A d \in {1, 2, 4, 8} : Lone(t)[k + d] \in BOOLEAN
    BY <2>1, <2>2, HexPlaces
  <2>4. /\ Lone(t)[k + 1] \in BOOLEAN /\ Lone(t)[k + 2] \in BOOLEAN
        /\ Lone(t)[k + (2 * (2 + HexLen))] \in BOOLEAN /\ Lone(t)[k + 2 + HexLen] \in BOOLEAN
    BY <2>1, <2>3, HexPlaces
  <2>5. LoneCase(t, Lone(t), k) \in BOOLEAN
    BY <2>4, Zenon DEF LoneCase
  <2>6. Lone(t)[k] = LoneCase(t, Lone(t), k)
    BY <2>1, LoneUnfolds
  <2> QED
    BY <2>1, <2>5, <2>6
<1>4. \A k \in 1..n : k \in P
  <2> HIDE DEF P, n
  <2> QED
    BY <1>1, <1>3, Backwards
<1>5. i > n \/ i \in 1..n
  BY <1>1
<1> QED
  BY <1>2, <1>4, <1>5

LEMMA LoneSteps ==
  ASSUME NEW t \in Seq(Characters), NEW i \in Nat
  PROVE  /\ At(t, i) = "end" => Lone(t)[i] = FALSE
         /\ At(t, i) \in Plain => Lone(t)[i] = Lone(t)[i + 1]
         /\ At(t, i) = "\\" /\ At(t, i + 1) \in DOMAIN Short => Lone(t)[i] = Lone(t)[i + 2]
         /\ At(t, i) = "\\" /\ At(t, i + 1) = "u" /\ HexAhead(t, i + 2) =>
              Lone(t)[i] = IF PairAhead(t, i) THEN Lone(t)[i + 8]
                           ELSE UnitAhead(t, i) \in Surrogates \/ Lone(t)[i + 4]
<1>1. Lone(t)[i] = LoneCase(t, Lone(t), i)
  BY LoneUnfolds
<1>2. "end" \notin Plain /\ "\\" \notin Plain /\ "u" \notin DOMAIN Short
  BY PlaceKinds
<1>3. i + (2 * (2 + HexLen)) = i + 8 /\ i + 2 + HexLen = i + 4
  BY HexPlaces
<1>4. HexAhead(t, i + 2) => UnitAhead(t, i) # None
  <2>1. None \notin 0..24 /\ i + 2 \in Nat
    BY DEF None
  <2> QED
    BY <2>1, HexReadTyped, Zenon DEF UnitAhead
<1>5. Lone(t)[i] =
        IF At(t, i) = "end" THEN FALSE
        ELSE IF At(t, i) # "\\" THEN Lone(t)[i + 1]
        ELSE IF At(t, i + 1) # "u" \/ UnitAhead(t, i) = None THEN Lone(t)[i + 2]
        ELSE IF PairAhead(t, i) THEN Lone(t)[i + (2 * (2 + HexLen))]
        ELSE UnitAhead(t, i) \in Surrogates \/ Lone(t)[i + 2 + HexLen]
  BY <1>1, Zenon DEF LoneCase, PairAhead, UnitAhead
<1>6. At(t, i) = "end" => Lone(t)[i] = FALSE
  BY <1>5, Zenon
<1>7. At(t, i) \in Plain => Lone(t)[i] = Lone(t)[i + 1]
  BY <1>2, <1>5, Zenon
<1>8. At(t, i) = "\\" => At(t, i) # "end"
  OBVIOUS
<1>9. At(t, i) = "\\" /\ At(t, i + 1) \in DOMAIN Short => Lone(t)[i] = Lone(t)[i + 2]
  BY <1>2, <1>5, <1>8, Zenon
<1>10. ASSUME At(t, i) = "\\", At(t, i + 1) = "u", HexAhead(t, i + 2)
       PROVE  Lone(t)[i] = IF PairAhead(t, i) THEN Lone(t)[i + 8]
                           ELSE UnitAhead(t, i) \in Surrogates \/ Lone(t)[i + 4]
  <2>1. Lone(t)[i] = IF PairAhead(t, i) THEN Lone(t)[i + (2 * (2 + HexLen))]
                     ELSE UnitAhead(t, i) \in Surrogates \/ Lone(t)[i + 2 + HexLen]
    BY <1>4, <1>5, <1>8, <1>10, Zenon
  <2> QED
    BY <1>3, <2>1, Zenon
<1> QED
  BY <1>6, <1>7, <1>9, <1>10

-----------------------------------------------------------------------------
(* The respelling *)

WalkCase(t, walk, i) ==
  LET unit == ReadHex4(t, i + 2)
  IN IF At(t, i) = "end" THEN <<>>
     ELSE IF At(t, i) # "\\" THEN <<t[i]>> \o walk[i + 1]
     ELSE IF At(t, i + 1) \in DOMAIN Short THEN CanonicalEscape(t[i + 1]) \o walk[i + 2]
     ELSE IF At(t, i + 1) # "u" THEN <<"\\">> \o walk[i + 1]
     ELSE IF unit = None THEN <<"\\", "u">> \o walk[i + 2]
     ELSE IF CombinesPair(unit, t, i)
     THEN <<Joined(unit, ReadHex4(t, i + 4 + HexLen))>> \o walk[i + (2 * (2 + HexLen))]
     ELSE IF unit \in Surrogates
     THEN SubSeq(t, i, i + 1 + HexLen) \o walk[i + 2 + HexLen]
     ELSE EmitScalar(unit) \o walk[i + 2 + HexLen]

Walk(t) == CHOOSE walk : walk = [i \in Nat |-> WalkCase(t, walk, i)]

LEMMA CanonicalIsWalked ==
  ASSUME NEW lexeme
  PROVE  Canonicalize(lexeme) = IF HasLoneSurrogate(Inner(lexeme)) THEN lexeme
                                ELSE <<"quote">> \o Walk(Inner(lexeme))[1] \o <<"quote">>
BY Zenon DEF Canonicalize, Walk, WalkCase

\* A character is spelled alike by E1 and by the MCP writer.
LEMMA EscapedKinds ==
  /\ Escaped("quote") = <<"\\", "quote">> /\ Escaped("\\") = <<"\\", "\\">>
  /\ Escaped("lf") = <<"\\", "n">> /\ Escaped("ctl") = <<"\\", "u", "0", "0">>
  /\ \A c \in Plain : Escaped(c) = <<c>>
<1>1. ASSUME NEW c \in Plain PROVE Escaped(c) = <<c>>
  <2>1. c \notin {"quote", "\\"} /\ c # "lf" /\ c # "ctl"
    BY DEF Plain, Control
  <2> QED
    BY <2>1, Zenon DEF Escaped
<1>2. "lf" # "quote" /\ "lf" # "\\" /\ "ctl" # "quote" /\ "ctl" # "\\" /\ "ctl" # "lf"
  OBVIOUS
<1>3. Escaped("quote") = <<"\\", "quote">> /\ Escaped("\\") = <<"\\", "\\">>
  BY Zenon DEF Escaped
<1>4. Escaped("lf") = <<"\\", "n">> /\ Escaped("ctl") = <<"\\", "u", "0", "0">>
  BY <1>2, Zenon DEF Escaped
<1> QED
  BY <1>1, <1>3, <1>4

LEMMA PlainOrEscaped ==
  ASSUME NEW c \in Characters
  PROVE  c \in Plain \/ c = "quote" \/ c = "\\" \/ c = "lf" \/ c = "ctl"
BY DEF Plain, Control

LEMMA EscapedTyped ==
  ASSUME NEW c \in Characters
  PROVE  Escaped(c) \in Seq(Characters) /\ Escaped(c) # <<>>
<1>1. {"\\", "quote", "n", "u", "0"} \subseteq Characters
  BY CharactersListed DEF BasicNames
<1>2. CASE c \in Plain
  BY <1>2, EscapedKinds
<1>3. CASE c = "quote" \/ c = "\\" \/ c = "lf" \/ c = "ctl"
  <2>1. /\ <<"\\", "quote">> \in Seq(Characters) /\ <<"\\", "\\">> \in Seq(Characters)
        /\ <<"\\", "n">> \in Seq(Characters) /\ <<"\\", "u", "0", "0">> \in Seq(Characters)
    BY <1>1
  <2>2. /\ <<"\\", "quote">> # <<>> /\ <<"\\", "\\">> # <<>>
        /\ <<"\\", "n">> # <<>> /\ <<"\\", "u", "0", "0">> # <<>>
    OBVIOUS
  <2> QED
    BY <1>3, <2>1, <2>2, EscapedKinds, Zenon
<1> QED
  BY <1>2, <1>3, PlainOrEscaped

LEMMA CanonicalIsEscaped ==
  ASSUME NEW c \in DOMAIN Short
  PROVE  CanonicalEscape(c) = Escaped(Short[c])
<1>1. c = "quote" \/ c = "\\" \/ c = "/" \/ c = "n"
  BY ShortListed
<1>2. "/" \in Plain
  BY CharactersListed DEF Plain, Control, BasicNames
<1>3. Escaped("/") = <<"/">>
  BY <1>2, EscapedKinds
<1>4. "quote" # "/" /\ "\\" # "/" /\ "n" # "/"
  OBVIOUS
<1> QED
  BY <1>1, <1>3, <1>4, ShortListed, EscapedKinds, Zenon DEF CanonicalEscape

LEMMA EmittedIsEscaped ==
  ASSUME NEW u \in Scalars
  PROVE  EmitScalar(u) = Escaped(CharOf(u))
<1>1. CharOf(u) \in Characters
  BY CodeUnitsBasic
<1>2. CASE CharOf(u) \in Plain
  <2>1. CharOf(u) \notin {"quote", "\\"} /\ CharOf(u) # "lf" /\ CharOf(u) # "ctl"
    BY <1>2 DEF Plain, Control
  <2>2. EmitScalar(u) = <<CharOf(u)>>
    BY <2>1, Zenon DEF EmitScalar
  <2> QED
    BY <1>2, <2>2, EscapedKinds
<1>3. CASE CharOf(u) = "ctl"
  <2>1. u \in 0..24 /\ u \notin Surrogates /\ 0 \in 0..24 /\ 0 \notin Surrogates
    BY DEF Scalars, Surrogates
  <2>2. CharOf(0) = "ctl"
    BY UnitsListed DEF CharOf
  <2>3. u = 0
    BY <1>3, <2>1, <2>2, UnitsOfBasic
  <2>4. PushHex4(0) = <<"0", "0">>
    <3>1. 0 \div 5 = 0 /\ 0 % 5 = 0
      OBVIOUS
    <3>2. HexDigit(0) = "0"
      BY DEF HexDigit
    <3> QED
      BY <3>1, <3>2, Zenon DEF PushHex4
  <2>5. EmitScalar(u) = <<"\\", "u">> \o PushHex4(u)
    <3>1. CharOf(u) \notin {"quote", "\\"} /\ CharOf(u) # "lf"
      BY <1>3
    <3> QED
      BY <1>3, <3>1, Zenon DEF EmitScalar
  <2>6. <<"\\", "u">> \o <<"0", "0">> = <<"\\", "u", "0", "0">>
    <3> DEFINE S == {"\\", "u", "0"}
               a == <<"\\", "u">>
               b == <<"0", "0">>
               c == <<"\\", "u", "0", "0">>
    <3>1. a \in Seq(S) /\ b \in Seq(S) /\ c \in Seq(S) /\ Len(a) = 2 /\ Len(b) = 2 /\ Len(c) = 4
      OBVIOUS
    <3>2. /\ a[1] = "\\" /\ a[2] = "u" /\ b[1] = "0" /\ b[2] = "0"
          /\ c[1] = "\\" /\ c[2] = "u" /\ c[3] = "0" /\ c[4] = "0"
      OBVIOUS
    <3> HIDE DEF S, a, b, c
    <3>3. /\ a \o b \in Seq(S) /\ Len(a \o b) = Len(a) + Len(b)
          /\ \A i \in 1..(Len(a) + Len(b)) : (a \o b)[i] = IF i <= Len(a) THEN a[i] ELSE b[i - Len(a)]
      BY ONLY <3>1, ConcatProperties, Zenon
    <3>4. \A i \in 1..4 : (a \o b)[i] = c[i]
      <4>1. \A i \in 1..4 : i = 1 \/ i = 2 \/ i = 3 \/ i = 4
        OBVIOUS
      <4>2. (a \o b)[1] = a[1] /\ (a \o b)[2] = a[2] /\ (a \o b)[3] = b[1] /\ (a \o b)[4] = b[2]
        <5>1. \A i \in 1..4 : (a \o b)[i] = IF i <= 2 THEN a[i] ELSE b[i - 2]
          BY ONLY <3>1, <3>3
        <5>2. /\ 1 \in 1..4 /\ 2 \in 1..4 /\ 3 \in 1..4 /\ 4 \in 1..4
              /\ 1 <= 2 /\ 2 <= 2 /\ ~(3 <= 2) /\ ~(4 <= 2) /\ 3 - 2 = 1 /\ 4 - 2 = 2
          OBVIOUS
        <5>3. \A f : (\A i \in 1..4 : f[i] = IF i <= 2 THEN a[i] ELSE b[i - 2]) =>
                      f[1] = a[1] /\ f[2] = a[2] /\ f[3] = b[1] /\ f[4] = b[2]
          BY ONLY <5>2
        <5> QED
          BY ONLY <5>1, <5>3, Zenon
      <4> QED
        BY ONLY <3>2, <4>1, <4>2, Zenon
    <3>5. a \o b = c
      <4>1. Len(a \o b) = Len(c) /\ 1..Len(c) = 1..4
        BY ONLY <3>1, <3>3
      <4>2. \A i \in 1..Len(a \o b) : (a \o b)[i] = c[i]
        BY ONLY <3>4, <4>1, Zenon
      <4> QED
        BY ONLY <3>1, <3>3, <4>1, <4>2, SeqEqual, Zenon
    <3> QED
      BY <3>5 DEF a, b, c
  <2> QED
    BY <1>3, <2>3, <2>4, <2>5, <2>6, EscapedKinds
<1>4. CASE CharOf(u) = "lf"
  <2>1. EmitScalar(u) = <<"\\", "n">>
    BY <1>4, Zenon DEF EmitScalar
  <2> QED
    BY <1>4, <2>1, EscapedKinds
<1>5. CASE CharOf(u) \in {"quote", "\\"}
  <2>1. CharOf(u) # "lf"
    BY <1>5
  <2>2. EmitScalar(u) = <<"\\", CharOf(u)>>
    BY <1>5, <2>1, Zenon DEF EmitScalar
  <2>3. CharOf(u) = "quote" \/ CharOf(u) = "\\"
    BY <1>5
  <2> QED
    BY <2>2, <2>3, EscapedKinds, Zenon
<1> QED
  BY <1>1, <1>2, <1>3, <1>4, <1>5, PlainOrEscaped

\* The unit of an escape, and the character of a pair.
LEMMA UnitTyped ==
  ASSUME NEW t, NEW i \in Nat
  PROVE  /\ HexAhead(t, i + 2) => UnitAhead(t, i) \in 0..24
         /\ ~HexAhead(t, i + 2) => UnitAhead(t, i) = None
         /\ UnitAhead(t, i) # None => HexAhead(t, i + 2)
<1>1. i + 2 \in Nat /\ None \notin 0..24
  BY DEF None
<1> QED
  BY <1>1, HexReadTyped, Zenon DEF UnitAhead

LowAhead(t, i) == ReadHex4(t, i + 6)

LEMMA PairTyped ==
  ASSUME NEW t, NEW i \in Nat
  PROVE  /\ PairAhead(t, i) <=> /\ UnitAhead(t, i) \in {20, 21}
                                /\ At(t, i + 4) = "\\" /\ At(t, i + 5) = "u"
                                /\ LowAhead(t, i) \in {22, 23}
         /\ PairAhead(t, i) => Joined(UnitAhead(t, i), LowAhead(t, i)) \in Characters
         /\ LowAhead(t, i) \in {22, 23} => HexAhead(t, i + 6)
<1>1. i + 2 + HexLen = i + 4 /\ i + 3 + HexLen = i + 5 /\ i + 4 + HexLen = i + 6
  BY HexPlaces
<1>2. PairAhead(t, i) <=> /\ UnitAhead(t, i) \in {20, 21}
                          /\ At(t, i + 4) = "\\" /\ At(t, i + 5) = "u"
                          /\ LowAhead(t, i) \in {22, 23}
  BY <1>1, Zenon DEF PairAhead, CombinesPair, IsHigh, IsLow, UnitAhead, LowAhead
<1>3. i + 6 \in Nat /\ None \notin {22, 23}
  BY DEF None
<1>4. LowAhead(t, i) \in {22, 23} => HexAhead(t, i + 6)
  BY <1>3, HexReadTyped, Zenon DEF LowAhead
<1> QED
  BY <1>2, <1>4, CodeUnitsBeyond

LEMMA WalkTyped ==
  ASSUME NEW t \in Seq(Characters), NEW i \in Nat, NEW walk \in [Nat -> Seq(Characters)]
  PROVE  WalkCase(t, walk, i) \in Seq(Characters)
<1> DEFINE A == Seq(Characters)
<1>1. /\ walk[i + 1] \in A /\ walk[i + 2] \in A
      /\ walk[i + (2 * (2 + HexLen))] \in A /\ walk[i + 2 + HexLen] \in A
  <2>1. \A k \in {1, 2, 4, 8} : walk[i + k] \in A
    BY HexPlaces
  <2> HIDE DEF A
  <2> QED
    BY <2>1, HexPlaces
<1>2. \A x \in A, y \in A : x \o y \in A
  BY ConcatProperties
<1>3. {"\\", "u"} \subseteq Characters
  BY CharactersListed DEF BasicNames
<1>4. <<"\\">> \in A /\ <<"\\", "u">> \in A /\ <<>> \in A
  BY <1>3
<1>5. Len(t) \in Nat
  BY LenProperties
<1>6. At(t, i) # "end" => <<t[i]>> \in A
  <2> SUFFICES ASSUME At(t, i) # "end" PROVE <<t[i]>> \in A
    OBVIOUS
  <2>1. t[i] \in Characters
    BY AtEnd
  <2> QED
    BY <2>1
<1>7. At(t, i + 1) \in DOMAIN Short => CanonicalEscape(t[i + 1]) \in A
  <2> SUFFICES ASSUME At(t, i + 1) \in DOMAIN Short PROVE CanonicalEscape(t[i + 1]) \in A
    OBVIOUS
  <2>1. At(t, i + 1) = t[i + 1]
    BY ShortListed DEF At
  <2>2. CanonicalEscape(t[i + 1]) = Escaped(Short[t[i + 1]]) /\ Short[t[i + 1]] \in Characters
    BY <2>1, CanonicalIsEscaped, PlainOnes
  <2> QED
    BY <2>2, EscapedTyped
<1>8. PairAhead(t, i) => <<Joined(UnitAhead(t, i), LowAhead(t, i))>> \in A
  BY PairTyped
<1>9. At(t, i) = "\\" /\ At(t, i + 1) = "u" /\ UnitAhead(t, i) \in Surrogates =>
        SubSeq(t, i, i + 1 + HexLen) \in A
  <2> SUFFICES ASSUME At(t, i) = "\\", At(t, i + 1) = "u", UnitAhead(t, i) \in Surrogates
               PROVE  SubSeq(t, i, i + 1 + HexLen) \in A
    OBVIOUS
  <2>1. UnitAhead(t, i) # None
    <3>1. None \notin Surrogates
      BY DEF Surrogates, None
    <3> QED
      BY <3>1, Zenon
  <2>2. HexAhead(t, i + 2)
    BY <2>1, UnitTyped
  <2>3. SpellingAhead(t, i) /\ PastSpelling(t, i) = i + 4
    BY <2>2 DEF SpellingAhead, PastSpelling
  <2>4. i + 4 \in (i + 1)..(Len(t) + 1) /\ i \in 1..Len(t)
    BY <2>3, PastSpellingAhead
  <2>5. i + 1 + HexLen = i + 3
    BY DEF HexLen
  <2>6. \A k \in i..(i + 3) : t[k] \in Characters
    <3> TAKE k \in i..(i + 3)
    <3>1. k \in 1..Len(t)
      BY <1>5, <2>4
    <3> QED
      BY <3>1
  <2>7. i \in Int /\ i + 3 \in Int
    OBVIOUS
  <2>8. SubSeq(t, i, i + 3) \in Seq(Characters)
    BY <2>6, <2>7, SubSeqProperties
  <2> QED
    BY <2>5, <2>8
<1>10. UnitAhead(t, i) \notin Surrogates /\ UnitAhead(t, i) # None => EmitScalar(UnitAhead(t, i)) \in A
  <2> SUFFICES ASSUME UnitAhead(t, i) \notin Surrogates, UnitAhead(t, i) # None
               PROVE  EmitScalar(UnitAhead(t, i)) \in A
    OBVIOUS
  <2>1. UnitAhead(t, i) \in Scalars
    BY UnitTyped DEF Scalars
  <2> QED
    BY <2>1, EmittedIsEscaped, CodeUnitsBasic, EscapedTyped
<1>11. WalkCase(t, walk, i) =
         IF At(t, i) = "end" THEN <<>>
         ELSE IF At(t, i) # "\\" THEN <<t[i]>> \o walk[i + 1]
         ELSE IF At(t, i + 1) \in DOMAIN Short THEN CanonicalEscape(t[i + 1]) \o walk[i + 2]
         ELSE IF At(t, i + 1) # "u" THEN <<"\\">> \o walk[i + 1]
         ELSE IF UnitAhead(t, i) = None THEN <<"\\", "u">> \o walk[i + 2]
         ELSE IF PairAhead(t, i)
         THEN <<Joined(UnitAhead(t, i), LowAhead(t, i))>> \o walk[i + (2 * (2 + HexLen))]
         ELSE IF UnitAhead(t, i) \in Surrogates
         THEN SubSeq(t, i, i + 1 + HexLen) \o walk[i + 2 + HexLen]
         ELSE EmitScalar(UnitAhead(t, i)) \o walk[i + 2 + HexLen]
  <2>1. i + 4 + HexLen = i + 6
    BY HexPlaces
  <2> QED
    BY <2>1, Zenon DEF WalkCase, PairAhead, UnitAhead, LowAhead
<1> HIDE DEF A
<1>12. CASE At(t, i) = "end" \/ At(t, i) # "\\"
  <2>1. At(t, i) # "end" => <<t[i]>> \o walk[i + 1] \in A
    BY <1>1, <1>2, <1>6, Zenon
  <2> QED
    BY <1>4, <1>11, <1>12, <2>1, Zenon DEF A
<1>13. CASE At(t, i) = "\\" /\ At(t, i) # "end" /\ At(t, i + 1) # "u"
  <2>1. <<"\\">> \o walk[i + 1] \in A
    BY <1>1, <1>2, <1>4, Zenon
  <2>2. At(t, i + 1) \in DOMAIN Short => CanonicalEscape(t[i + 1]) \o walk[i + 2] \in A
    BY <1>1, <1>2, <1>7, Zenon
  <2> QED
    BY <1>11, <1>13, <2>1, <2>2, Zenon DEF A
<1>14. CASE At(t, i) = "\\" /\ At(t, i) # "end" /\ At(t, i + 1) = "u"
  <2>1. PairAhead(t, i) => <<Joined(UnitAhead(t, i), LowAhead(t, i))>> \o walk[i + (2 * (2 + HexLen))] \in A
    BY <1>1, <1>2, <1>8, Zenon
  <2>2. <<"\\", "u">> \o walk[i + 2] \in A
    BY <1>1, <1>2, <1>4, Zenon
  <2>3. UnitAhead(t, i) \in Surrogates => SubSeq(t, i, i + 1 + HexLen) \o walk[i + 2 + HexLen] \in A
    BY <1>1, <1>2, <1>9, <1>14, Zenon
  <2>4. UnitAhead(t, i) \notin Surrogates /\ UnitAhead(t, i) # None =>
          EmitScalar(UnitAhead(t, i)) \o walk[i + 2 + HexLen] \in A
    BY <1>1, <1>2, <1>10, Zenon
  <2>5. At(t, i + 1) \notin DOMAIN Short
    BY <1>14, ShortListed
  <2> QED
    BY <1>11, <1>14, <2>1, <2>2, <2>3, <2>4, <2>5, Zenon DEF A
<1>15. "\\" # "end"
  OBVIOUS
<1> QED
  BY <1>12, <1>13, <1>14, <1>15, Zenon DEF A

LEMMA WalkUnfolds ==
  ASSUME NEW t \in Seq(Characters)
  PROVE  \A i \in Nat : Walk(t)[i] = WalkCase(t, Walk(t), i)
<1> DEFINE n == Len(t)
           A == Seq(Characters)
           C == [i \in Nat |-> [g \in [Nat -> A] |-> WalkCase(t, g, i)]]
           Def(g) == g = [i \in Nat |-> WalkCase(t, g, i)]
<1>1. n \in Nat /\ A # {}
  BY LenProperties
<1>2. C \in [Nat -> [[Nat -> A] -> A]]
  <2>1. \A i \in Nat, g \in [Nat -> A] : WalkCase(t, g, i) \in A
    BY WalkTyped, Zenon
  <2> HIDE DEF A
  <2> QED
    BY <2>1
<1>3. ASSUME NEW i \in Nat, NEW f \in [Nat -> A], NEW g \in [Nat -> A],
             i > n \/ AgreePast(f, g, i)
      PROVE  WalkCase(t, f, i) = WalkCase(t, g, i)
  <2>1. CASE i > n
    <3>1. At(t, i) = "end"
      BY <1>1, <2>1, AtEnd
    <3> QED
      BY <3>1, Zenon DEF WalkCase
  <2>2. CASE AgreePast(f, g, i)
    <3>1. \A k \in {1, 2, 4, 8} : f[i + k] = g[i + k]
      BY <2>2, HexPlaces DEF AgreePast
    <3>2. /\ f[i + 1] = g[i + 1] /\ f[i + 2] = g[i + 2]
          /\ f[i + (2 * (2 + HexLen))] = g[i + (2 * (2 + HexLen))]
          /\ f[i + 2 + HexLen] = g[i + 2 + HexLen]
      BY <3>1, HexPlaces
    <3> QED
      BY <3>2, Zenon DEF WalkCase
  <2> QED
    BY <1>3, <2>1, <2>2
<1>4. \A i \in Nat, f \in [Nat -> A] : C[i][f] = WalkCase(t, f, i)
  OBVIOUS
<1> HIDE DEF n, A, C
<1>5. LooksAhead(n, A, C)
  <2>1. ASSUME NEW i \in Nat, NEW f \in [Nat -> A], NEW g \in [Nat -> A],
               i > n \/ AgreePast(f, g, i)
        PROVE  C[i][f] = C[i][g]
    <3>1. WalkCase(t, f, i) = WalkCase(t, g, i)
      BY <1>3, <2>1
    <3>2. C[i][f] = WalkCase(t, f, i) /\ C[i][g] = WalkCase(t, g, i)
      BY <1>4
    <3> QED
      BY <3>1, <3>2, Zenon
  <2> QED
    BY <1>1, <1>2, <2>1, Zenon DEF LooksAhead
<1>6. PICK f \in [Nat -> A] : Unfolds(f, C)
  BY <1>1, <1>5, ForwardRecursion, Zenon
<1>7. Def(f)
  <2>1. f = [i \in Nat |-> f[i]]
    OBVIOUS
  <2>2. \A i \in Nat : f[i] = WalkCase(t, f, i)
    BY <1>4, <1>6, Zenon DEF Unfolds
  <2>3. [i \in Nat |-> f[i]] = [i \in Nat |-> WalkCase(t, f, i)]
    BY <2>2, Zenon
  <2> QED
    BY <2>1, <2>3, Zenon
<1>8. Def(Walk(t))
  BY <1>7, Zenon DEF Walk
<1> QED
  BY <1>8, Zenon

LEMMA WalkSteps ==
  ASSUME NEW t \in Seq(Characters), NEW i \in Nat
  PROVE  /\ At(t, i) = "end" => Walk(t)[i] = <<>>
         /\ At(t, i) \in Plain => Walk(t)[i] = Escaped(At(t, i)) \o Walk(t)[i + 1]
         /\ At(t, i) = "\\" /\ At(t, i + 1) \in DOMAIN Short =>
              Walk(t)[i] = Escaped(Short[At(t, i + 1)]) \o Walk(t)[i + 2]
         /\ At(t, i) = "\\" /\ At(t, i + 1) = "u" /\ HexAhead(t, i + 2) =>
              /\ PairAhead(t, i) =>
                   Walk(t)[i] = <<Joined(UnitAhead(t, i), LowAhead(t, i))>> \o Walk(t)[i + 8]
              /\ UnitAhead(t, i) \in Scalars =>
                   Walk(t)[i] = Escaped(CharOf(UnitAhead(t, i))) \o Walk(t)[i + 4]
<1>1. Walk(t)[i] = WalkCase(t, Walk(t), i)
  BY WalkUnfolds
<1>2. /\ "end" \notin Plain /\ "\\" \notin Plain /\ "u" \notin DOMAIN Short
      /\ "end" \notin DOMAIN Short
  BY PlaceKinds
<1>3. i + (2 * (2 + HexLen)) = i + 8 /\ i + 2 + HexLen = i + 4 /\ i + 4 + HexLen = i + 6
  BY HexPlaces
<1>4. HexAhead(t, i + 2) => UnitAhead(t, i) # None
  <2>1. None \notin 0..24
    BY DEF None
  <2> QED
    BY <2>1, UnitTyped, Zenon
<1>5. Walk(t)[i] =
        IF At(t, i) = "end" THEN <<>>
        ELSE IF At(t, i) # "\\" THEN <<t[i]>> \o Walk(t)[i + 1]
        ELSE IF At(t, i + 1) \in DOMAIN Short THEN CanonicalEscape(t[i + 1]) \o Walk(t)[i + 2]
        ELSE IF At(t, i + 1) # "u" THEN <<"\\">> \o Walk(t)[i + 1]
        ELSE IF UnitAhead(t, i) = None THEN <<"\\", "u">> \o Walk(t)[i + 2]
        ELSE IF PairAhead(t, i)
        THEN <<Joined(UnitAhead(t, i), LowAhead(t, i))>> \o Walk(t)[i + 8]
        ELSE IF UnitAhead(t, i) \in Surrogates THEN SubSeq(t, i, i + 1 + HexLen) \o Walk(t)[i + 4]
        ELSE EmitScalar(UnitAhead(t, i)) \o Walk(t)[i + 4]
  BY <1>1, <1>3, Zenon DEF WalkCase, PairAhead, UnitAhead, LowAhead
<1>6. At(t, i) = "end" => Walk(t)[i] = <<>>
  BY <1>5, Zenon
<1>7. ASSUME At(t, i) \in Plain
      PROVE  Walk(t)[i] = Escaped(At(t, i)) \o Walk(t)[i + 1]
  <2>1. Walk(t)[i] = <<t[i]>> \o Walk(t)[i + 1]
    BY <1>2, <1>5, <1>7, Zenon
  <2>2. At(t, i) = t[i]
    BY <1>2, <1>7 DEF At
  <2>3. Escaped(At(t, i)) = <<t[i]>>
    BY <1>7, <2>2, EscapedKinds
  <2> QED
    BY <2>1, <2>3
<1>8. "\\" # "end"
  OBVIOUS
<1>9. ASSUME At(t, i) = "\\", At(t, i + 1) \in DOMAIN Short
      PROVE  Walk(t)[i] = Escaped(Short[At(t, i + 1)]) \o Walk(t)[i + 2]
  <2>1. Walk(t)[i] = CanonicalEscape(t[i + 1]) \o Walk(t)[i + 2]
    BY <1>2, <1>5, <1>8, <1>9, Zenon
  <2>2. At(t, i + 1) = t[i + 1]
    BY <1>2, <1>9 DEF At
  <2> QED
    BY <1>9, <2>1, <2>2, CanonicalIsEscaped
<1>10. ASSUME At(t, i) = "\\", At(t, i + 1) = "u", HexAhead(t, i + 2)
       PROVE  /\ PairAhead(t, i) =>
                   Walk(t)[i] = <<Joined(UnitAhead(t, i), LowAhead(t, i))>> \o Walk(t)[i + 8]
              /\ UnitAhead(t, i) \in Scalars =>
                   Walk(t)[i] = Escaped(CharOf(UnitAhead(t, i))) \o Walk(t)[i + 4]
  <2>1. At(t, i + 1) \notin DOMAIN Short /\ UnitAhead(t, i) # None
    BY <1>2, <1>4, <1>10, Zenon
  <2>2. PairAhead(t, i) =>
          Walk(t)[i] = <<Joined(UnitAhead(t, i), LowAhead(t, i))>> \o Walk(t)[i + 8]
    BY <1>5, <1>8, <1>10, <2>1, Zenon
  <2>3. ASSUME UnitAhead(t, i) \in Scalars
        PROVE  Walk(t)[i] = Escaped(CharOf(UnitAhead(t, i))) \o Walk(t)[i + 4]
    <3>1. UnitAhead(t, i) \notin Surrogates /\ UnitAhead(t, i) \notin {20, 21}
      BY <2>3 DEF Scalars, Surrogates
    <3>2. ~PairAhead(t, i)
      BY <3>1, PairTyped
    <3>3. Walk(t)[i] = EmitScalar(UnitAhead(t, i)) \o Walk(t)[i + 4]
      BY <1>4, <1>5, <1>8, <1>10, <2>1, <3>1, <3>2, Zenon
    <3> QED
      BY <2>3, <3>3, EmittedIsEscaped
  <2> QED
    BY <2>2, <2>3
<1> QED
  BY <1>6, <1>7, <1>9, <1>10

-----------------------------------------------------------------------------
(* The MCP reader *)

LEMMA HexAtIs ==
  ASSUME NEW t, NEW j \in Nat
  PROVE  /\ HexAhead(t, j) => HexAt(t, j) = Read(j + 2, ReadHex4(t, j))
         /\ ~HexAhead(t, j) => \E a \in Nat : HexAt(t, j) = Unread(a)
<1> DEFINE bad == {k \in 0..(HexLen - 1) : At(t, j + k) \notin DOMAIN HexVal}
<1>1. HexLen = 2 /\ 0..(HexLen - 1) = {0, 1}
  BY DEF HexLen
<1>2. j + 0 = j
  OBVIOUS
<1>3. bad = {} <=> HexAhead(t, j)
  BY <1>1, <1>2 DEF HexAhead
<1>4. bad \subseteq {0, 1}
  BY <1>1
<1>5. HexAt(t, j) = IF bad = {} THEN Read(j + HexLen, ReadHex4(t, j)) ELSE Unread(j + Min(bad))
  BY Zenon DEF HexAt
<1> HIDE DEF bad
<1>6. ASSUME bad # {} PROVE \E a \in Nat : HexAt(t, j) = Unread(a)
  <2>1. \E x \in bad : \A y \in bad : x <= y
    <3>1. \A y \in bad : y = 0 \/ y = 1
      BY <1>4
    <3>2. 0 <= 0 /\ 0 <= 1 /\ 1 <= 1
      OBVIOUS
    <3>3. CASE 0 \in bad
      BY <3>1, <3>2, <3>3, Zenon
    <3>4. CASE 0 \notin bad
      <4>1. 1 \in bad /\ \A y \in bad : y = 1
        BY <1>6, <3>1, <3>4
      <4> QED
        BY <3>2, <4>1, Zenon
    <3> QED
      BY <3>3, <3>4
  <2>2. Min(bad) \in bad
    BY <2>1, Zenon DEF Min
  <2>3. j + Min(bad) \in Nat
    <3>1. Min(bad) = 0 \/ Min(bad) = 1
      BY <1>4, <2>2
    <3>2. j + 0 \in Nat /\ j + 1 \in Nat
      OBVIOUS
    <3> QED
      BY <3>1, <3>2, Zenon
  <2> QED
    BY <1>5, <1>6, <2>3
<1> QED
  BY <1>1, <1>3, <1>5, <1>6

\* What is read of an escape: one character, or nothing.
ReadOf(e, at) ==
  \/ \E a \in Nat : e = Unread(a)
  \/ \E a \in Nat, c \in Characters : a > at /\ e = Read(a, c)

LEMMA ReadFields ==
  ASSUME NEW a, NEW v
  PROVE  /\ Read(a, v).ok = TRUE /\ Read(a, v).at = a /\ Read(a, v).value = v
         /\ Unread(a).ok = FALSE /\ Unread(a).at = a /\ Unread(a).value = <<>>
BY DEF Read, Unread

\* parse_unicode_escape, taken apart.
PairRead(t, high, low) ==
  IF At(t, high.at) # "\\" THEN Unread(high.at)
  ELSE IF At(t, high.at + 1) # "u" THEN Unread(high.at + 1)
  ELSE IF ~low.ok THEN low
  ELSE IF ~IsLow(low.value) THEN Unread(low.at)
  ELSE Read(low.at, Joined(high.value, low.value))

UnitRead(t, high) ==
  CASE ~high.ok -> high
    [] high.ok /\ IsHigh(high.value) -> PairRead(t, high, HexAt(t, high.at + 2))
    [] high.ok /\ IsLow(high.value)  -> Unread(high.at)
    [] OTHER -> Read(high.at, CharOf(high.value))

LEMMA UnicodeIsRead ==
  ASSUME NEW t, NEW j
  PROVE  ParseUnicodeEscape(t, j) = UnitRead(t, HexAt(t, j))
BY Zenon DEF ParseUnicodeEscape, UnitRead, PairRead

\* Half of a pair is refused, a pair is joined, anything else is a character.
LEMMA UnicodeRead ==
  ASSUME NEW t, NEW i \in Nat
  PROVE  /\ ReadOf(ParseUnicodeEscape(t, i + 2), i)
         /\ HexAhead(t, i + 2) /\ UnitAhead(t, i) \in Scalars =>
              ParseUnicodeEscape(t, i + 2) = Read(i + 4, CharOf(UnitAhead(t, i)))
         /\ HexAhead(t, i + 2) /\ PairAhead(t, i) =>
              ParseUnicodeEscape(t, i + 2) = Read(i + 8, Joined(UnitAhead(t, i), LowAhead(t, i)))
         /\ HexAhead(t, i + 2) /\ UnitAhead(t, i) \in Surrogates /\ ~PairAhead(t, i) =>
              \E a \in Nat : ParseUnicodeEscape(t, i + 2) = Unread(a)
<1> DEFINE u == UnitAhead(t, i)
           high == HexAt(t, i + 2)
<1>1. /\ i + 2 \in Nat /\ (i + 2) + 2 = i + 4 /\ (i + 4) + 2 = i + 6 /\ (i + 6) + 2 = i + 8
      /\ i + 4 \in Nat /\ i + 4 > i /\ i + 8 \in Nat /\ i + 8 > i /\ i + 6 \in Nat
      /\ (i + 4) + 1 = i + 5 /\ i + 5 \in Nat
  OBVIOUS
<1>2. ParseUnicodeEscape(t, i + 2) = UnitRead(t, high)
  BY UnicodeIsRead
<1>3. ASSUME ~HexAhead(t, i + 2)
      PROVE  \E a \in Nat : ParseUnicodeEscape(t, i + 2) = Unread(a)
  <2>1. PICK a \in Nat : high = Unread(a)
    BY <1>1, <1>3, HexAtIs
  <2>2. ~high.ok
    BY <2>1, ReadFields
  <2> HIDE DEF high
  <2>3. UnitRead(t, high) = high
    BY <2>2, Zenon DEF UnitRead
  <2> QED
    BY <1>2, <2>1, <2>3
<1>4. ASSUME HexAhead(t, i + 2)
      PROVE  /\ u \in 0..24 /\ high.ok = TRUE /\ high.at = i + 4 /\ high.value = u
  <2>1. high = Read(i + 4, u)
    BY <1>1, <1>4, HexAtIs, Zenon DEF UnitAhead
  <2>2. u \in 0..24
    BY <1>4, UnitTyped
  <2> HIDE DEF high, u
  <2>3. Read(i + 4, u).ok = TRUE /\ Read(i + 4, u).at = i + 4 /\ Read(i + 4, u).value = u
    BY DEF Read
  <2> QED
    BY <2>1, <2>2, <2>3, Zenon
<1>5. ASSUME HexAhead(t, i + 2), u \in Scalars
      PROVE  ParseUnicodeEscape(t, i + 2) = Read(i + 4, CharOf(u))
  <2>1. ~IsHigh(u) /\ ~IsLow(u)
    BY <1>5 DEF Scalars, Surrogates, IsHigh, IsLow
  <2> HIDE DEF high, u
  <2> QED
    BY <1>2, <1>4, <1>5, <2>1, Zenon DEF UnitRead
<1>6. ASSUME HexAhead(t, i + 2), u \in {22, 23}
      PROVE  ParseUnicodeEscape(t, i + 2) = Unread(i + 4)
  <2>1. ~IsHigh(u) /\ IsLow(u)
    BY <1>6 DEF IsHigh, IsLow
  <2> HIDE DEF high, u
  <2> QED
    BY <1>2, <1>4, <1>6, <2>1, Zenon DEF UnitRead
<1>7. ASSUME HexAhead(t, i + 2), u \in {20, 21}
      PROVE  /\ PairAhead(t, i) =>
                  ParseUnicodeEscape(t, i + 2) = Read(i + 8, Joined(u, LowAhead(t, i)))
             /\ ~PairAhead(t, i) => \E a \in Nat : ParseUnicodeEscape(t, i + 2) = Unread(a)
  <2> DEFINE low == HexAt(t, i + 6)
  <2>1. IsHigh(u)
    BY <1>7 DEF IsHigh
  <2>2. high.at + 2 = i + 6 /\ high.at + 1 = i + 5
    BY <1>1, <1>4, <1>7
  <2>3. UnitRead(t, high) = PairRead(t, high, low)
    <3>1. ~IsLow(u)
      BY <1>7 DEF IsLow
    <3>2. high.ok = TRUE /\ high.value = u
      <4> HIDE DEF high, u
      <4> QED
        BY <1>4, <1>7, Zenon
    <3> HIDE DEF high, u
    <3> QED
      BY <2>1, <2>2, <3>1, <3>2, Zenon DEF UnitRead
  <2>4. PairRead(t, high, low) =
          IF At(t, i + 4) # "\\" THEN Unread(i + 4)
          ELSE IF At(t, i + 5) # "u" THEN Unread(i + 5)
          ELSE IF ~low.ok THEN low
          ELSE IF ~IsLow(low.value) THEN Unread(low.at)
          ELSE Read(low.at, Joined(u, low.value))
    <3>1. high.at = i + 4 /\ high.value = u
      BY <1>4, <1>7
    <3> HIDE DEF high, u, low
    <3> QED
      BY <2>2, <3>1, Zenon DEF PairRead
  <2>5. HexAhead(t, i + 6) => low.ok = TRUE /\ low.at = i + 8 /\ low.value = LowAhead(t, i)
    <3> SUFFICES ASSUME HexAhead(t, i + 6)
                 PROVE  low.ok = TRUE /\ low.at = i + 8 /\ low.value = LowAhead(t, i)
      OBVIOUS
    <3>1. low = Read(i + 8, LowAhead(t, i))
      BY <1>1, HexAtIs, Zenon DEF LowAhead
    <3> DEFINE w == LowAhead(t, i)
    <3>2. Read(i + 8, w).ok = TRUE /\ Read(i + 8, w).at = i + 8 /\ Read(i + 8, w).value = w
      BY DEF Read
    <3> HIDE DEF low, w
    <3> QED
      BY <3>1, <3>2, Zenon DEF w
  <2>6. ~HexAhead(t, i + 6) => ~low.ok /\ \E a \in Nat : low = Unread(a)
    <3> SUFFICES ASSUME ~HexAhead(t, i + 6) PROVE ~low.ok /\ \E a \in Nat : low = Unread(a)
      OBVIOUS
    <3>1. PICK a \in Nat : low = Unread(a)
      BY <1>1, HexAtIs
    <3> HIDE DEF low
    <3> QED
      BY <3>1, ReadFields
  <2>7. IsLow(LowAhead(t, i)) <=> LowAhead(t, i) \in {22, 23}
    BY DEF IsLow
  <2> HIDE DEF low, high
  <2>8. PairAhead(t, i) => PairRead(t, high, low) = Read(i + 8, Joined(u, LowAhead(t, i)))
    <3> SUFFICES ASSUME PairAhead(t, i)
                 PROVE  PairRead(t, high, low) = Read(i + 8, Joined(u, LowAhead(t, i)))
      OBVIOUS
    <3>1. At(t, i + 4) = "\\" /\ At(t, i + 5) = "u" /\ LowAhead(t, i) \in {22, 23} /\ HexAhead(t, i + 6)
      BY PairTyped
    <3> HIDE DEF u
    <3> QED
      BY <2>4, <2>5, <2>7, <3>1, Zenon
  <2>9. ~PairAhead(t, i) => \E a \in Nat : PairRead(t, high, low) = Unread(a)
    <3> SUFFICES ASSUME ~PairAhead(t, i) PROVE \E a \in Nat : PairRead(t, high, low) = Unread(a)
      OBVIOUS
    <3>1. CASE At(t, i + 4) # "\\" \/ At(t, i + 5) # "u"
      <4> HIDE DEF u
      <4> QED
        BY <1>1, <2>4, <3>1, Zenon
    <3>2. CASE At(t, i + 4) = "\\" /\ At(t, i + 5) = "u"
      <4>1. LowAhead(t, i) \notin {22, 23}
        BY <1>7, <3>2, PairTyped
      <4> HIDE DEF u
      <4>2. CASE HexAhead(t, i + 6)
        BY <1>1, <2>4, <2>5, <2>7, <3>2, <4>1, <4>2, Zenon
      <4>3. CASE ~HexAhead(t, i + 6)
        BY <2>4, <2>6, <3>2, <4>3, Zenon
      <4> QED
        BY <4>2, <4>3
    <3> QED
      BY <3>1, <3>2
  <2> QED
    BY <1>2, <2>3, <2>8, <2>9 DEF high
<1>8. ReadOf(ParseUnicodeEscape(t, i + 2), i)
  <2>1. CASE ~HexAhead(t, i + 2)
    BY <1>3, <2>1 DEF ReadOf
  <2>2. CASE HexAhead(t, i + 2)
    <3>1. u \in Scalars \/ u \in {22, 23} \/ u \in {20, 21}
      BY <1>4, <2>2 DEF Scalars, Surrogates
    <3>2. CASE u \in Scalars
      BY <1>1, <1>5, <2>2, <3>2, CodeUnitsBasic, Zenon DEF ReadOf
    <3>3. CASE u \in {22, 23}
      BY <1>1, <1>6, <2>2, <3>3, Zenon DEF ReadOf
    <3>4. CASE u \in {20, 21}
      BY <1>1, <1>7, <2>2, <3>4, PairTyped, Zenon DEF ReadOf
    <3> QED
      BY <3>1, <3>2, <3>3, <3>4
  <2> QED
    BY <2>1, <2>2
<1>9. HexAhead(t, i + 2) /\ PairAhead(t, i) =>
        ParseUnicodeEscape(t, i + 2) = Read(i + 8, Joined(u, LowAhead(t, i)))
  BY <1>7, PairTyped
<1>10. HexAhead(t, i + 2) /\ u \in Surrogates /\ ~PairAhead(t, i) =>
         \E a \in Nat : ParseUnicodeEscape(t, i + 2) = Unread(a)
  <2>1. u \in Surrogates => u \in {20, 21} \/ u \in {22, 23}
    BY DEF Surrogates
  <2> QED
    BY <1>1, <1>6, <1>7, <2>1
<1> QED
  BY <1>5, <1>8, <1>9, <1>10

LEMMA EscapeRead ==
  ASSUME NEW t, NEW i \in Nat
  PROVE  /\ ReadOf(ParseEscape(t, i + 1), i)
         /\ At(t, i + 1) \in DOMAIN Short => ParseEscape(t, i + 1) = Read(i + 2, Short[At(t, i + 1)])
         /\ At(t, i + 1) = "u" => ParseEscape(t, i + 1) = ParseUnicodeEscape(t, i + 2)
<1>1. i + 1 \in Nat /\ i + 2 \in Nat /\ (i + 1) + 1 = i + 2 /\ i + 2 > i
  OBVIOUS
<1>2. "end" \notin DOMAIN Short /\ "u" \notin DOMAIN Short /\ "u" # "end"
  BY ShortListed
<1>3. ParseEscape(t, i + 1) =
        CASE At(t, i + 1) = "end"          -> Unread(i + 1)
          [] At(t, i + 1) \in DOMAIN Short -> Read(i + 2, Short[t[i + 1]])
          [] At(t, i + 1) = "u"            -> ParseUnicodeEscape(t, i + 2)
          [] OTHER                         -> Unread(i + 2)
  BY <1>1, Zenon DEF ParseEscape
<1>4. ASSUME At(t, i + 1) \in DOMAIN Short
      PROVE  ParseEscape(t, i + 1) = Read(i + 2, Short[At(t, i + 1)])
  <2>1. At(t, i + 1) = t[i + 1]
    BY <1>2, <1>4 DEF At
  <2> QED
    BY <1>2, <1>3, <1>4, <2>1, Zenon
<1>5. At(t, i + 1) = "u" => ParseEscape(t, i + 1) = ParseUnicodeEscape(t, i + 2)
  BY <1>2, <1>3, Zenon
<1>6. ReadOf(ParseEscape(t, i + 1), i)
  <2>1. CASE At(t, i + 1) \in DOMAIN Short
    BY <1>1, <1>4, <2>1, PlainOnes, Zenon DEF ReadOf
  <2>2. CASE At(t, i + 1) = "u"
    BY <1>5, <2>2, UnicodeRead
  <2>3. CASE At(t, i + 1) \notin DOMAIN Short /\ At(t, i + 1) # "u"
    <3>1. ParseEscape(t, i + 1) = Unread(i + 1) \/ ParseEscape(t, i + 1) = Unread(i + 2)
      BY <1>3, <2>3, Zenon
    <3> QED
      BY <1>1, <3>1, Zenon DEF ReadOf
  <2> QED
    BY <2>1, <2>2, <2>3, Zenon
<1> QED
  BY <1>4, <1>5, <1>6

Before(c, rest) == IF rest.ok THEN Read(rest.at, <<c>> \o rest.value) ELSE rest

ReadOutcomes == [ok : BOOLEAN, at : Nat, value : Seq(Characters)]

LEMMA BeforeTyped ==
  ASSUME NEW c \in Characters, NEW rest \in ReadOutcomes
  PROVE  /\ Before(c, rest) \in ReadOutcomes
         /\ Before(c, rest).ok = rest.ok
         /\ rest.ok => Before(c, rest) = Read(rest.at, <<c>> \o rest.value)
<1>1. /\ rest.ok \in BOOLEAN /\ rest.at \in Nat /\ rest.value \in Seq(Characters)
      /\ rest = [ok |-> rest.ok, at |-> rest.at, value |-> rest.value]
  BY DEF ReadOutcomes
<1>2. <<c>> \o rest.value \in Seq(Characters)
  <2>1. <<c>> \in Seq(Characters)
    OBVIOUS
  <2> QED
    BY ONLY <1>1, <2>1, ConcatProperties, Zenon
<1>3. CASE rest.ok
  <2> DEFINE v == <<c>> \o rest.value
  <2>1. v \in Seq(Characters) /\ Before(c, rest) = Read(rest.at, v) /\ rest.ok = TRUE
    BY <1>1, <1>2, <1>3, Zenon DEF Before
  <2> HIDE DEF v
  <2>2. Read(rest.at, v) \in ReadOutcomes /\ Read(rest.at, v).ok = TRUE
    BY <1>1, <2>1 DEF Read, ReadOutcomes
  <2> QED
    BY <2>1, <2>2, Zenon DEF v
<1>4. CASE ~rest.ok
  BY <1>4 DEF Before
<1> QED
  BY <1>3, <1>4

ReadCase(t, read, i) ==
  LET After(escape) == IF escape.ok THEN Before(escape.value, read[escape.at]) ELSE escape
  IN CASE At(t, i) = "end" -> Unread(i)
       [] At(t, i) = "quote" -> Read(i + 1, <<>>)
       [] At(t, i) = "\\" -> After(ParseEscape(t, i + 1))
       [] At(t, i) \in Control -> Unread(i)
       [] OTHER -> Before(t[i], read[i + 1])

Reading(t) == CHOOSE read : read = [i \in Nat |-> ReadCase(t, read, i)]

LEMMA StringIsReading ==
  ASSUME NEW t, NEW start
  PROVE  ParseString(t, start) = Reading(t)[start + 1]
BY Zenon DEF ParseString, Reading, ReadCase, Before

LEMMA ReadTyped ==
  ASSUME NEW t \in Seq(Characters), NEW i \in Nat, NEW read \in [Nat -> ReadOutcomes]
  PROVE  ReadCase(t, read, i) \in ReadOutcomes
<1> DEFINE e == ParseEscape(t, i + 1)
<1>1. \A a \in Nat : Unread(a) \in ReadOutcomes
  BY EmptySeq DEF Unread, ReadOutcomes
<1>2. Read(i + 1, <<>>) \in ReadOutcomes
  BY EmptySeq DEF Read, ReadOutcomes
<1>3. At(t, i) # "end" => Before(t[i], read[i + 1]) \in ReadOutcomes
  <2> SUFFICES ASSUME At(t, i) # "end" PROVE Before(t[i], read[i + 1]) \in ReadOutcomes
    OBVIOUS
  <2>1. t[i] \in Characters
    BY AtEnd
  <2>2. read[i + 1] \in ReadOutcomes
    OBVIOUS
  <2> QED
    BY <2>1, <2>2, BeforeTyped
<1>4. (IF e.ok THEN Before(e.value, read[e.at]) ELSE e) \in ReadOutcomes
  <2>1. ReadOf(e, i)
    BY EscapeRead
  <2> HIDE DEF e
  <2>2. CASE \E a \in Nat : e = Unread(a)
    <3>1. PICK a \in Nat : e = Unread(a)
      BY <2>2
    <3> QED
      BY <1>1, <3>1, ReadFields
  <2>3. CASE \E a \in Nat, c \in Characters : a > i /\ e = Read(a, c)
    <3>1. PICK a \in Nat, c \in Characters : a > i /\ e = Read(a, c)
      BY <2>3
    <3>2. e.ok = TRUE /\ e.at = a /\ e.value = c
      <4>1. Read(a, c).ok = TRUE /\ Read(a, c).at = a /\ Read(a, c).value = c
        BY DEF Read
      <4> QED
        BY <3>1, <4>1, Zenon
    <3>3. read[a] \in ReadOutcomes
      OBVIOUS
    <3> QED
      BY <3>2, <3>3, BeforeTyped
  <2> QED
    BY <2>1, <2>2, <2>3 DEF ReadOf
<1>5. ReadCase(t, read, i) =
        CASE At(t, i) = "end" -> Unread(i)
          [] At(t, i) = "quote" -> Read(i + 1, <<>>)
          [] At(t, i) = "\\" -> IF e.ok THEN Before(e.value, read[e.at]) ELSE e
          [] At(t, i) \in Control -> Unread(i)
          [] OTHER -> Before(t[i], read[i + 1])
  BY Zenon DEF ReadCase
<1> HIDE DEF e
<1> QED
  BY <1>1, <1>2, <1>3, <1>4, <1>5, Zenon

LEMMA ReadUnfolds ==
  ASSUME NEW t \in Seq(Characters)
  PROVE  \A i \in Nat : Reading(t)[i] = ReadCase(t, Reading(t), i)
<1> DEFINE n == Len(t)
           A == ReadOutcomes
           C == [i \in Nat |-> [g \in [Nat -> A] |-> ReadCase(t, g, i)]]
           Def(g) == g = [i \in Nat |-> ReadCase(t, g, i)]
<1>1. n \in Nat /\ A # {}
  <2>1. Read(0, <<>>) \in ReadOutcomes
    BY EmptySeq DEF Read, ReadOutcomes
  <2> QED
    BY <2>1, LenProperties
<1>2. C \in [Nat -> [[Nat -> A] -> A]]
  <2>1. \A i \in Nat, g \in [Nat -> A] : ReadCase(t, g, i) \in A
    BY ReadTyped, Zenon
  <2> HIDE DEF A
  <2> QED
    BY <2>1
<1>3. ASSUME NEW i \in Nat, NEW f \in [Nat -> A], NEW g \in [Nat -> A],
             i > n \/ AgreePast(f, g, i)
      PROVE  ReadCase(t, f, i) = ReadCase(t, g, i)
  <2>1. CASE i > n
    <3>1. At(t, i) = "end"
      BY <1>1, <2>1, AtEnd
    <3> QED
      BY <3>1, Zenon DEF ReadCase
  <2>2. CASE AgreePast(f, g, i)
    <3> DEFINE e == ParseEscape(t, i + 1)
    <3>1. f[i + 1] = g[i + 1]
      BY <2>2 DEF AgreePast
    <3>2. e.ok => f[e.at] = g[e.at]
      <4>1. ReadOf(e, i)
        BY EscapeRead
      <4> HIDE DEF e
      <4>2. CASE \E a \in Nat : e = Unread(a)
        <5>1. e.ok = FALSE
          BY <4>2, ReadFields, Zenon
        <5> QED
          BY <5>1, Zenon
      <4>3. CASE \E a \in Nat, c \in Characters : a > i /\ e = Read(a, c)
        <5>1. PICK a \in Nat, c \in Characters : a > i /\ e = Read(a, c)
          BY <4>3
        <5>2. e.at = a
          BY <5>1, ReadFields
        <5> QED
          BY <2>2, <5>1, <5>2 DEF AgreePast
      <4> QED
        BY <4>1, <4>2, <4>3 DEF ReadOf
    <3>3. (IF e.ok THEN Before(e.value, f[e.at]) ELSE e) = (IF e.ok THEN Before(e.value, g[e.at]) ELSE e)
      <4> HIDE DEF e
      <4> QED
        BY <3>2, Zenon
    <3> QED
      BY <3>1, <3>3, Zenon DEF ReadCase
  <2> QED
    BY <1>3, <2>1, <2>2
<1>4. \A i \in Nat, f \in [Nat -> A] : C[i][f] = ReadCase(t, f, i)
  OBVIOUS
<1> HIDE DEF n, A, C
<1>5. LooksAhead(n, A, C)
  <2>1. ASSUME NEW i \in Nat, NEW f \in [Nat -> A], NEW g \in [Nat -> A],
               i > n \/ AgreePast(f, g, i)
        PROVE  C[i][f] = C[i][g]
    <3>1. ReadCase(t, f, i) = ReadCase(t, g, i)
      BY <1>3, <2>1
    <3>2. C[i][f] = ReadCase(t, f, i) /\ C[i][g] = ReadCase(t, g, i)
      BY <1>4
    <3> QED
      BY <3>1, <3>2, Zenon
  <2> QED
    BY <1>1, <1>2, <2>1, Zenon DEF LooksAhead
<1>6. PICK f \in [Nat -> A] : Unfolds(f, C)
  BY <1>1, <1>5, ForwardRecursion, Zenon
<1>7. Def(f)
  <2>1. f = [i \in Nat |-> f[i]]
    OBVIOUS
  <2>2. \A i \in Nat : f[i] = ReadCase(t, f, i)
    BY <1>4, <1>6, Zenon DEF Unfolds
  <2>3. [i \in Nat |-> f[i]] = [i \in Nat |-> ReadCase(t, f, i)]
    BY <2>2, Zenon
  <2> QED
    BY <2>1, <2>3, Zenon
<1>8. Def(Reading(t))
  BY <1>7, Zenon DEF Reading
<1> QED
  BY <1>8, Zenon

LEMMA ReadSteps ==
  ASSUME NEW t \in Seq(Characters), NEW i \in Nat
  PROVE  /\ At(t, i) = "quote" => Reading(t)[i] = Read(i + 1, <<>>)
         /\ At(t, i) \in Plain => Reading(t)[i] = Before(At(t, i), Reading(t)[i + 1])
         /\ At(t, i) = "\\" /\ At(t, i + 1) \in DOMAIN Short =>
              Reading(t)[i] = Before(Short[At(t, i + 1)], Reading(t)[i + 2])
         /\ At(t, i) = "\\" /\ At(t, i + 1) = "u" /\ HexAhead(t, i + 2) =>
              /\ PairAhead(t, i) =>
                   Reading(t)[i] = Before(Joined(UnitAhead(t, i), LowAhead(t, i)), Reading(t)[i + 8])
              /\ UnitAhead(t, i) \in Scalars =>
                   Reading(t)[i] = Before(CharOf(UnitAhead(t, i)), Reading(t)[i + 4])
<1> DEFINE e == ParseEscape(t, i + 1)
           Rd == Reading(t)
<1>1. Rd[i] = ReadCase(t, Rd, i)
  BY ReadUnfolds
<1>2. /\ Plain \cap (Control \cup {"quote", "\\", "end"}) = {}
      /\ "quote" \notin Control /\ "\\" \notin Control
  BY PlaceKinds
<1>3. Rd[i] =
        CASE At(t, i) = "end" -> Unread(i)
          [] At(t, i) = "quote" -> Read(i + 1, <<>>)
          [] At(t, i) = "\\" -> IF e.ok THEN Before(e.value, Rd[e.at]) ELSE e
          [] At(t, i) \in Control -> Unread(i)
          [] OTHER -> Before(t[i], Rd[i + 1])
  BY <1>1, Zenon DEF ReadCase
<1>4. "quote" # "end" /\ "\\" # "end" /\ "\\" # "quote"
  OBVIOUS
<1> HIDE DEF Rd
<1>5. At(t, i) = "quote" => Rd[i] = Read(i + 1, <<>>)
  <2>1. At(t, i) = "quote" => /\ At(t, i) # "end" /\ At(t, i) # "\\" /\ At(t, i) \notin Control
    BY <1>2, <1>4, Zenon
  <2> QED
    BY <1>3, <2>1, Zenon
<1>6. ASSUME At(t, i) \in Plain PROVE Rd[i] = Before(At(t, i), Rd[i + 1])
  <2>1. /\ At(t, i) # "end" /\ At(t, i) # "quote" /\ At(t, i) # "\\"
        /\ At(t, i) \notin Control
    BY <1>2, <1>6, Zenon
  <2>2. Rd[i] = Before(t[i], Rd[i + 1])
    BY <1>3, <2>1, Zenon
  <2>3. At(t, i) = t[i]
    BY <2>1 DEF At
  <2> QED
    BY <2>2, <2>3
<1>7. ASSUME At(t, i) = "\\", NEW a, NEW c, e = Read(a, c)
      PROVE  Rd[i] = Before(c, Rd[a])
  <2>1. e.ok = TRUE /\ e.at = a /\ e.value = c
    <3>1. Read(a, c).ok = TRUE /\ Read(a, c).at = a /\ Read(a, c).value = c
      BY DEF Read
    <3> QED
      BY <1>7, <3>1, Zenon
  <2>2. Rd[i] = IF e.ok THEN Before(e.value, Rd[e.at]) ELSE e
    <3>1. At(t, i) # "end" /\ At(t, i) # "quote" /\ At(t, i) \notin Control
      BY <1>2, <1>4, <1>7, Zenon
    <3> QED
      BY <1>3, <1>7, <3>1, Zenon
  <2> HIDE DEF e
  <2> QED
    BY <2>1, <2>2, Zenon
<1>8. At(t, i) = "\\" /\ At(t, i + 1) \in DOMAIN Short =>
        Rd[i] = Before(Short[At(t, i + 1)], Rd[i + 2])
  BY <1>7, EscapeRead, Zenon
<1>9. ASSUME At(t, i) = "\\", At(t, i + 1) = "u", HexAhead(t, i + 2)
      PROVE  /\ PairAhead(t, i) => Rd[i] = Before(Joined(UnitAhead(t, i), LowAhead(t, i)), Rd[i + 8])
             /\ UnitAhead(t, i) \in Scalars => Rd[i] = Before(CharOf(UnitAhead(t, i)), Rd[i + 4])
  <2>1. e = ParseUnicodeEscape(t, i + 2)
    BY <1>9, EscapeRead
  <2> HIDE DEF e
  <2>2. PairAhead(t, i) => e = Read(i + 8, Joined(UnitAhead(t, i), LowAhead(t, i)))
    BY <1>9, <2>1, UnicodeRead, Zenon
  <2>3. UnitAhead(t, i) \in Scalars => e = Read(i + 4, CharOf(UnitAhead(t, i)))
    BY <1>9, <2>1, UnicodeRead, Zenon
  <2> QED
    BY <1>7, <1>9, <2>2, <2>3, Zenon
<1> QED
  BY <1>5, <1>6, <1>8, <1>9 DEF Rd

-----------------------------------------------------------------------------
(* The same spelling in two texts *)

Alike(s, k, t, i) == \A d \in 0..3 : i + d < PastSpelling(t, i) => At(s, k + d) = At(t, i + d)

LEMMA SameSpelling ==
  ASSUME NEW s \in Seq(Characters), NEW k \in Nat, NEW t \in Seq(Characters), NEW i \in Nat,
         SpellingAhead(t, i), Alike(s, k, t, i)
  PROVE  /\ SpellingAhead(s, k)
         /\ PastSpelling(s, k) = k + (PastSpelling(t, i) - i)
         /\ SpellingUnits(s, k) = SpellingUnits(t, i)
         /\ At(s, k) = At(t, i)
         /\ At(t, i) = "\\" => At(s, k + 1) = At(t, i + 1)
         /\ At(t, i) = "\\" /\ At(t, i + 1) = "u" =>
              HexAhead(s, k + 2) /\ UnitAhead(s, k) = UnitAhead(t, i)
<1>1. /\ "\\" \notin Plain /\ "u" \notin DOMAIN Short
  BY PlaceKinds
<1>2. /\ 0 \in 0..3 /\ 1 \in 0..3 /\ 2 \in 0..3 /\ 3 \in 0..3 /\ i + 0 = i /\ k + 0 = k
      /\ i + 3 = (i + 2) + 1 /\ k + 3 = (k + 2) + 1 /\ i + 2 \in Nat /\ k + 2 \in Nat
      /\ i < i + 1 /\ i < i + 2 /\ i < i + 4 /\ i + 1 < i + 2 /\ i + 1 < i + 4 /\ i + 2 < i + 4
      /\ (i + 2) + 1 < i + 4
      /\ k + ((i + 1) - i) = k + 1 /\ k + ((i + 2) - i) = k + 2 /\ k + ((i + 4) - i) = k + 4
  OBVIOUS
<1>3. CASE At(t, i) \in Plain
  <2>1. PastSpelling(t, i) = i + 1 /\ At(t, i) # "\\"
    BY <1>1, <1>3, Zenon DEF PastSpelling
  <2>2. At(s, k) = At(t, i)
    BY <1>2, <2>1, Zenon DEF Alike
  <2>3. PastSpelling(s, k) = k + 1
    BY <2>1, <2>2, Zenon DEF PastSpelling
  <2> QED
    BY <1>2, <1>3, <2>1, <2>2, <2>3, Zenon DEF SpellingAhead, SpellingUnits
<1>4. CASE At(t, i) = "\\" /\ At(t, i + 1) \in DOMAIN Short
  <2>1. PastSpelling(t, i) = i + 2 /\ At(t, i + 1) # "u"
    BY <1>1, <1>4, Zenon DEF PastSpelling
  <2>2. At(s, k) = At(t, i) /\ At(s, k + 1) = At(t, i + 1)
    BY <1>2, <2>1, Zenon DEF Alike
  <2>3. PastSpelling(s, k) = k + 2
    BY <1>4, <2>1, <2>2, Zenon DEF PastSpelling
  <2> QED
    BY <1>2, <1>4, <2>1, <2>2, <2>3, Zenon DEF SpellingAhead, SpellingUnits
<1>5. CASE At(t, i) = "\\" /\ At(t, i + 1) = "u" /\ HexAhead(t, i + 2)
  <2>1. PastSpelling(t, i) = i + 4
    BY <1>5, Zenon DEF PastSpelling
  <2>2. /\ At(s, k) = At(t, i) /\ At(s, k + 1) = At(t, i + 1) /\ At(s, k + 2) = At(t, i + 2)
        /\ At(s, (k + 2) + 1) = At(t, (i + 2) + 1)
    BY <1>2, <2>1, Zenon DEF Alike
  <2>3. PastSpelling(s, k) = k + 4
    BY <1>5, <2>2, Zenon DEF PastSpelling
  <2>4. HexAhead(s, k + 2)
    BY <1>5, <2>2, Zenon DEF HexAhead
  <2>5. /\ s[k + 2] = t[i + 2] /\ s[(k + 2) + 1] = t[(i + 2) + 1]
    BY <1>5, <2>2, <2>4, DigitsListed DEF HexAhead, At
  <2>6. ReadHex4(s, k + 2) = (5 * HexVal[s[k + 2]]) + HexVal[s[(k + 2) + 1]]
    BY <1>2, <2>4, HexRead, Zenon
  <2>7. ReadHex4(t, i + 2) = (5 * HexVal[t[i + 2]]) + HexVal[t[(i + 2) + 1]]
    BY <1>2, <1>5, HexRead, Zenon
  <2>8. UnitAhead(s, k) = UnitAhead(t, i)
    BY <2>5, <2>6, <2>7, Zenon DEF UnitAhead
  <2> QED
    BY <1>2, <1>5, <2>1, <2>2, <2>3, <2>4, <2>8, Zenon DEF SpellingAhead, SpellingUnits, UnitAhead
<1> QED
  BY <1>3, <1>4, <1>5, Zenon DEF SpellingAhead

-----------------------------------------------------------------------------
(* The scanned lexeme *)

LEMMA ScanGoesOn ==
  ASSUME NEW t \in Seq(Characters), NEW i \in Nat, Scan(t)[i].ok
  PROVE  \/ SpellingAhead(t, i) /\ Scan(t)[i] = Scan(t)[PastSpelling(t, i)]
         \/ At(t, i) = "quote" /\ Scan(t)[i].at = i + 1
<1>1. Scan(t)[i] = ScanCase(t, Scan(t), i)
  BY ScanSteps
<1>2. CASE SpellingAhead(t, i)
  BY <1>1, <1>2, ScanCases
<1>3. CASE At(t, i) = "quote"
  <2>1. Scan(t)[i] = Accepted(i + 1)
    BY <1>1, <1>3, ScanCases
  <2>2. Accepted(i + 1).at = i + 1
    BY DEF Accepted
  <2> QED
    BY <1>3, <2>1, <2>2, Zenon
<1>4. CASE ~SpellingAhead(t, i) /\ At(t, i) # "quote"
  <2>1. PICK p : Scan(t)[i] = Refused(p)
    BY <1>1, <1>4, ScanCases
  <2>2. Refused(p).ok = FALSE
    BY DEF Refused
  <2> QED
    BY <2>1, <2>2, Zenon
<1> QED
  BY <1>2, <1>3, <1>4

\* What the scan accepts ends with the first quote that is not escaped.
LEMMA ScanEnds ==
  ASSUME NEW t \in Seq(Characters), NEW a, NEW i \in 1..(Len(t) + 1),
         Scan(t)[i].ok, a = Scan(t)[i].at
  PROVE  a \in (i + 1)..(Len(t) + 1) /\ t[a - 1] = "quote"
<1> DEFINE n == Len(t)
           Ends(k) == a \in (k + 1)..(n + 1) /\ t[a - 1] = "quote"
           P == {k \in Nat : Scan(t)[k].ok /\ Scan(t)[k].at = a => Ends(k)}
<1>1. n \in Nat
  BY LenProperties
<1>2. ASSUME NEW k \in 1..(n + 1), \A j \in (k + 1)..(n + 1) : j \in P PROVE k \in P
  <2> SUFFICES ASSUME Scan(t)[k].ok, Scan(t)[k].at = a PROVE Ends(k)
    BY <1>1
  <2>0. k \in Nat
    BY <1>1
  <2>1. CASE SpellingAhead(t, k) /\ Scan(t)[k] = Scan(t)[PastSpelling(t, k)]
    <3>1. PastSpelling(t, k) \in (k + 1)..(n + 1)
      BY <2>0, <2>1, PastSpellingAhead
    <3>2. Ends(PastSpelling(t, k))
      <4>1. PastSpelling(t, k) \in P
        BY <1>2, <3>1
      <4> HIDE DEF Ends
      <4> QED
        BY <2>1, <4>1
    <3> QED
      BY <1>1, <3>1, <3>2
  <2>2. CASE At(t, k) = "quote" /\ Scan(t)[k].at = k + 1
    <3>1. k \in 1..n /\ t[k] = "quote"
      <4>1. k \in 1..n
        BY <2>0, <2>2, AtEnd
      <4>2. At(t, k) = t[k]
        BY <2>0, <4>1, AtEnd
      <4> QED
        BY <2>2, <4>1, <4>2
    <3>2. a = k + 1 /\ (k + 1) - 1 = k
      BY <2>0, <2>2
    <3> QED
      BY <1>1, <3>1, <3>2
  <2> QED
    BY <2>0, <2>1, <2>2, ScanGoesOn
<1>3. \A k \in 1..(n + 1) : k \in P
  <2>1. n + 1 \in Nat
    BY <1>1
  <2> HIDE DEF P, n
  <2> QED
    BY <1>2, <2>1, Backwards
<1> QED
  BY <1>3

\* What the scan accepts is a string of the grammar: quotes around spellings.
LEMMA ScanKeeps ==
  ASSUME NEW t \in Seq(Characters), NEW a, Len(t) >= 1, Scan(t)[2].ok, a = Scan(t)[2].at
  PROVE  /\ a \in 3..(Len(t) + 1)
         /\ t[a - 1] = "quote"
         /\ SubSeq(t, 2, a - 2) \in Seq(Characters) /\ Len(SubSeq(t, 2, a - 2)) = a - 3
         /\ \A i \in 1..(a - 3) : SubSeq(t, 2, a - 2)[i] = t[i + 1]
         /\ Cut(SubSeq(t, 2, a - 2))[1]
<1> DEFINE n == Len(t)
           b == SubSeq(t, 2, a - 2)
           P == {i \in Nat : i >= 2 /\ Scan(t)[i].ok /\ Scan(t)[i].at = a => Cut(b)[i - 1]}
<1>1. n \in Nat
  BY LenProperties
<1>2. a \in 3..(n + 1) /\ t[a - 1] = "quote"
  <2>1. 2 \in 1..(Len(t) + 1)
    BY <1>1
  <2> QED
    BY <2>1, ScanEnds
<1>3. b \in Seq(Characters) /\ Len(b) = a - 3 /\ \A i \in 1..(a - 3) : b[i] = t[i + 1]
  <2>1. \A i \in 2..(a - 2) : t[i] \in Characters
    BY <1>1, <1>2
  <2>2. 2 \in Int /\ a - 2 \in Int
    BY <1>2
  <2>3. /\ b \in Seq(Characters) /\ Len(b) = IF 2 <= a - 2 THEN (a - 2) - 2 + 1 ELSE 0
        /\ \A i \in 1..((a - 2) - 2 + 1) : b[i] = t[2 + i - 1]
    <3> DEFINE z == a - 2
    <3>1. (\A i \in 2..z : t[i] \in Characters) /\ 2 \in Int /\ z \in Int /\ t \in Seq(Characters)
      BY <2>1, <2>2
    <3> HIDE DEF z
    <3>2. /\ SubSeq(t, 2, z) \in Seq(Characters)
          /\ Len(SubSeq(t, 2, z)) = IF 2 <= z THEN z - 2 + 1 ELSE 0
          /\ \A i \in 1..(z - 2 + 1) : SubSeq(t, 2, z)[i] = t[2 + i - 1]
      BY ONLY <3>1, SubSeqProperties
    <3> QED
      BY <3>2, Zenon DEF z
  <2>4. \A i \in 1..(a - 3) : 2 + i - 1 = i + 1
    BY <1>2
  <2> HIDE DEF b
  <2> QED
    BY <1>2, <2>3, <2>4
<1> HIDE DEF b
<1>8. a \in Int /\ 3 <= a /\ a <= n + 1 /\ Len(b) = a - 3
  BY <1>1, <1>2, <1>3
<1>4. \A i \in Nat : i >= 1 /\ i <= a - 3 => At(b, i) = At(t, i + 1)
  <2> TAKE i \in Nat
  <2> HAVE i >= 1 /\ i <= a - 3
  <2>1. i \in 1..(a - 3) /\ i \in 1..Len(b) /\ i + 1 \in 1..n /\ i + 1 \in Nat
    <3>1. i \in Nat /\ i >= 1 /\ i <= a - 3
      OBVIOUS
    <3> QED
      BY ONLY <1>1, <1>8, <3>1
  <2>2. At(b, i) = b[i] /\ At(t, i + 1) = t[i + 1]
    BY <1>3, <2>1, AtEnd
  <2> QED
    BY <1>3, <2>1, <2>2
<1>5. ASSUME NEW k \in 1..(n + 1), \A j \in (k + 1)..(n + 1) : j \in P PROVE k \in P
  <2> SUFFICES ASSUME k >= 2, Scan(t)[k].ok, Scan(t)[k].at = a PROVE Cut(b)[k - 1]
    BY <1>1
  <2>0. k \in Nat /\ k - 1 \in Nat /\ k - 1 >= 1
    BY <1>1
  <2>1. CASE SpellingAhead(t, k) /\ Scan(t)[k] = Scan(t)[PastSpelling(t, k)]
    <3> DEFINE j == PastSpelling(t, k)
    <3>1. j \in (k + 1)..(n + 1)
      BY <2>0, <2>1, PastSpellingAhead
    <3>2. a \in (j + 1)..(n + 1)
      <4>1. j \in 1..(Len(t) + 1)
        BY <1>1, <3>1
      <4> QED
        BY <2>1, <4>1, ScanEnds
    <3>3. Alike(b, k - 1, t, k)
      <4> SUFFICES ASSUME NEW d \in 0..3, k + d < j PROVE At(b, (k - 1) + d) = At(t, k + d)
        BY DEF Alike
      <4>1. (k - 1) + d \in Nat /\ (k - 1) + d >= 1 /\ (k - 1) + d <= a - 3 /\ ((k - 1) + d) + 1 = k + d
        <5> HIDE DEF j
        <5>1. d \in Nat /\ j \in Int /\ k + d + 1 <= j /\ j + 1 <= a
          BY <1>1, <2>0, <3>1, <3>2
        <5> QED
          BY ONLY <1>8, <2>0, <5>1
      <4> QED
        BY <1>4, <4>1
    <3>4. SpellingAhead(b, k - 1) /\ PastSpelling(b, k - 1) = j - 1
      <4> HIDE DEF j
      <4>1. (k - 1) + (j - k) = j - 1
        BY <1>1, <2>0, <3>1
      <4>2. SpellingAhead(b, k - 1) /\ PastSpelling(b, k - 1) = (k - 1) + (j - k)
        BY <1>3, <2>0, <2>1, <3>3, SameSpelling DEF j
      <4> QED
        BY <4>1, <4>2
    <3>5. Cut(b)[j - 1]
      <4>1. j \in P /\ j >= 2
        BY <1>1, <1>5, <3>1
      <4> HIDE DEF j
      <4>2. Scan(t)[j].ok /\ Scan(t)[j].at = a
        BY <2>1 DEF j
      <4> QED
        BY <4>1, <4>2
    <3> QED
      BY <1>3, <2>0, <3>4, <3>5, CutSteps
  <2>2. CASE At(t, k) = "quote" /\ Scan(t)[k].at = k + 1
    <3>1. k - 1 > Len(b)
      <4>1. a = k + 1
        BY <2>2
      <4> QED
        BY <1>8, <2>0, <4>1
    <3> QED
      BY <1>3, <2>0, <3>1, CutSteps
  <2> QED
    BY <2>0, <2>1, <2>2, ScanGoesOn
<1>6. \A k \in 1..(n + 1) : k \in P
  <2>1. n + 1 \in Nat
    BY <1>1
  <2> HIDE DEF P, n
  <2> QED
    BY <1>5, <2>1, Backwards
<1>7. Cut(b)[1]
  <2>1. 2 \in P
    BY <1>1, <1>6
  <2> QED
    BY <2>1
<1> QED
  BY <1>2, <1>3, <1>7 DEF b

-----------------------------------------------------------------------------
(* One character of a body *)

\* A body with its quotes.
Quoted(lexeme, t) ==
  /\ lexeme \in Seq(Characters) /\ At(lexeme, Len(t) + 2) = "quote"
  /\ \A i \in Nat : i >= 1 /\ At(t, i) # "end" => At(lexeme, i + 1) = At(t, i)

\* The four walks agree that the character c is spelled from i to j.
Spells(lexeme, t, i, j, c) ==
  /\ c \in Characters /\ j \in (i + 1)..(Len(t) + 1)
  /\ Cut(t)[i] => Cut(t)[j]
  /\ Mean(t)[i] = CodeUnits(c) \o Mean(t)[j]
  /\ Lone(t)[i] <=> Lone(t)[j]
  /\ Walk(t)[i] = Escaped(c) \o Walk(t)[j]
  /\ Reading(lexeme)[i + 1] = Before(c, Reading(lexeme)[j + 1])

LEMMA QuotedAlike ==
  ASSUME NEW t \in Seq(Characters), NEW lexeme, Quoted(lexeme, t),
         NEW i \in Nat, i >= 1, SpellingAhead(t, i)
  PROVE  Alike(lexeme, i + 1, t, i)
<1>1. PastSpelling(t, i) \in (i + 1)..(Len(t) + 1) /\ Len(t) \in Nat
  BY PastSpellingAhead, LenProperties
<1> SUFFICES ASSUME NEW d \in 0..3, i + d < PastSpelling(t, i)
             PROVE  At(lexeme, (i + 1) + d) = At(t, i + d)
  BY DEF Alike
<1>2. i + d \in 1..Len(t) /\ i + d \in Nat /\ i + d >= 1 /\ (i + d) + 1 = (i + 1) + d
  BY <1>1
<1>3. "end" \notin Characters
  BY CharactersListed DEF BasicNames, BeyondNames
<1>4. At(t, i + d) # "end"
  BY <1>2, <1>3, AtEnd
<1> QED
  BY <1>2, <1>4, Zenon DEF Quoted

LEMMA PlainStep ==
  ASSUME NEW t \in Seq(Characters), NEW lexeme, Quoted(lexeme, t),
         NEW i \in Nat, i >= 1, At(t, i) \in Plain
  PROVE  Spells(lexeme, t, i, i + 1, At(t, i))
<1> DEFINE c == At(t, i)
<1>1. /\ lexeme \in Seq(Characters) /\ i + 1 \in Nat /\ c \in Characters /\ c # "\\"
  BY PlainOnes DEF Quoted
<1>2. SpellingAhead(t, i) /\ PastSpelling(t, i) = i + 1 /\ SpellingUnits(t, i) = CodeUnits(c)
  BY <1>1 DEF SpellingAhead, PastSpelling, SpellingUnits
<1>3. i + 1 \in (i + 1)..(Len(t) + 1)
  BY <1>2, PastSpellingAhead
<1>4. Cut(t)[i] => Cut(t)[i + 1]
  BY <1>2, CutSteps
<1>5. Mean(t)[i] = CodeUnits(c) \o Mean(t)[i + 1]
  BY <1>2, MeanSteps
<1>6. Lone(t)[i] = Lone(t)[i + 1]
  BY LoneSteps
<1>7. Walk(t)[i] = Escaped(c) \o Walk(t)[i + 1]
  BY WalkSteps
<1>8. At(lexeme, i + 1) = c
  BY <1>1, <1>2, QuotedAlike, SameSpelling
<1>9. Reading(lexeme)[i + 1] = Before(c, Reading(lexeme)[(i + 1) + 1])
  BY <1>1, <1>8, ReadSteps
<1> QED
  BY <1>1, <1>3, <1>4, <1>5, <1>6, <1>7, <1>9, Zenon DEF Spells

LEMMA ShortStep ==
  ASSUME NEW t \in Seq(Characters), NEW lexeme, Quoted(lexeme, t),
         NEW i \in Nat, i >= 1, At(t, i) = "\\", At(t, i + 1) \in DOMAIN Short
  PROVE  Spells(lexeme, t, i, i + 2, Short[At(t, i + 1)])
<1> DEFINE c == Short[At(t, i + 1)]
<1>1. /\ lexeme \in Seq(Characters) /\ i + 1 \in Nat /\ c \in Characters /\ At(t, i + 1) # "u"
      /\ (i + 1) + 2 = (i + 2) + 1
  BY PlainOnes, ShortListed DEF Quoted
<1>2. SpellingAhead(t, i) /\ PastSpelling(t, i) = i + 2 /\ SpellingUnits(t, i) = CodeUnits(c)
  BY <1>1 DEF SpellingAhead, PastSpelling, SpellingUnits
<1>3. i + 2 \in (i + 1)..(Len(t) + 1)
  BY <1>2, PastSpellingAhead
<1>4. Cut(t)[i] => Cut(t)[i + 2]
  BY <1>2, CutSteps
<1>5. Mean(t)[i] = CodeUnits(c) \o Mean(t)[i + 2]
  BY <1>2, MeanSteps
<1>6. Lone(t)[i] = Lone(t)[i + 2]
  BY LoneSteps
<1>7. Walk(t)[i] = Escaped(c) \o Walk(t)[i + 2]
  BY WalkSteps
<1>8. At(lexeme, i + 1) = "\\" /\ At(lexeme, (i + 1) + 1) = At(t, i + 1)
  BY <1>1, <1>2, QuotedAlike, SameSpelling
<1>9. Reading(lexeme)[i + 1] = Before(c, Reading(lexeme)[(i + 1) + 2])
  BY <1>1, <1>8, ReadSteps
<1> QED
  BY <1>1, <1>3, <1>4, <1>5, <1>6, <1>7, <1>9, Zenon DEF Spells

LEMMA ScalarStep ==
  ASSUME NEW t \in Seq(Characters), NEW lexeme, Quoted(lexeme, t), NEW i \in Nat, i >= 1,
         At(t, i) = "\\", At(t, i + 1) = "u", HexAhead(t, i + 2), UnitAhead(t, i) \in Scalars
  PROVE  Spells(lexeme, t, i, i + 4, CharOf(UnitAhead(t, i)))
<1> DEFINE u == UnitAhead(t, i)
           c == CharOf(u)
<1>1. /\ lexeme \in Seq(Characters) /\ i + 1 \in Nat /\ (i + 1) + 2 \in Nat
      /\ (i + 1) + 4 = (i + 4) + 1 /\ (i + 1) + 1 \in Nat
  BY DEF Quoted
<1>2. CodeUnits(c) = <<u>> /\ c \in Characters
  BY CodeUnitsBasic
<1>3. SpellingAhead(t, i) /\ PastSpelling(t, i) = i + 4 /\ SpellingUnits(t, i) = <<u>>
  BY DEF SpellingAhead, PastSpelling, SpellingUnits, UnitAhead
<1>4. i + 4 \in (i + 1)..(Len(t) + 1)
  BY <1>3, PastSpellingAhead
<1>5. Cut(t)[i] => Cut(t)[i + 4]
  BY <1>3, CutSteps
<1>6. Mean(t)[i] = CodeUnits(c) \o Mean(t)[i + 4]
  BY <1>2, <1>3, MeanSteps
<1>7. u \notin Surrogates /\ ~PairAhead(t, i)
  <2>1. u \notin Surrogates /\ u \notin {20, 21}
    BY DEF Scalars, Surrogates
  <2> QED
    BY <2>1, PairTyped
<1>8. Lone(t)[i] <=> Lone(t)[i + 4]
  <2>1. Lone(t)[i] = IF PairAhead(t, i) THEN Lone(t)[i + 8] ELSE u \in Surrogates \/ Lone(t)[i + 4]
    BY LoneSteps
  <2> QED
    BY <1>7, <2>1, Zenon
<1>9. Walk(t)[i] = Escaped(c) \o Walk(t)[i + 4]
  BY WalkSteps
<1>10. /\ At(lexeme, i + 1) = "\\" /\ At(lexeme, (i + 1) + 1) = "u"
       /\ HexAhead(lexeme, (i + 1) + 2) /\ UnitAhead(lexeme, i + 1) = u
  BY <1>1, <1>3, QuotedAlike, SameSpelling
<1>11. Reading(lexeme)[i + 1] = Before(c, Reading(lexeme)[(i + 1) + 4])
  BY <1>1, <1>10, ReadSteps
<1> QED
  BY <1>1, <1>2, <1>4, <1>5, <1>6, <1>8, <1>9, <1>11, Zenon DEF Spells

LEMMA TwoUnits ==
  ASSUME NEW h \in 0..24, NEW l \in 0..24, NEW r \in Seq(0..24)
  PROVE  <<h>> \o (<<l>> \o r) = <<h, l>> \o r
<1> DEFINE S == 0..24
           a == <<h>>
           b == <<l>>
           c == <<h, l>>
<1>1. /\ a \in Seq(S) /\ b \in Seq(S) /\ c \in Seq(S) /\ r \in Seq(S)
      /\ Len(a) = 1 /\ Len(b) = 1 /\ Len(c) = 2
  OBVIOUS
<1>2. a[1] = h /\ b[1] = l /\ c[1] = h /\ c[2] = l
  OBVIOUS
<1> HIDE DEF S, a, b, c
<1>3. /\ a \o b \in Seq(S) /\ Len(a \o b) = Len(a) + Len(b)
      /\ \A i \in 1..(Len(a) + Len(b)) : (a \o b)[i] = IF i <= Len(a) THEN a[i] ELSE b[i - Len(a)]
  BY ONLY <1>1, ConcatProperties, Zenon
<1>4. a \o b = c
  <2>1. Len(a \o b) = 2 /\ \A i \in 1..2 : (a \o b)[i] = IF i <= 1 THEN a[i] ELSE b[i - 1]
    BY ONLY <1>1, <1>3
  <2>2. \A f : (\A i \in 1..2 : f[i] = IF i <= 1 THEN a[i] ELSE b[i - 1]) => f[1] = h /\ f[2] = l
    BY ONLY <1>2
  <2>3. (a \o b)[1] = c[1] /\ (a \o b)[2] = c[2]
    BY ONLY <1>2, <2>1, <2>2, Zenon
  <2>4. \A i \in 1..2 : i = 1 \/ i = 2
    OBVIOUS
  <2>5. \A i \in 1..2 : (a \o b)[i] = c[i]
    BY ONLY <2>3, <2>4, Zenon
  <2>6. Len(a \o b) = Len(c) /\ \A i \in 1..Len(a \o b) : (a \o b)[i] = c[i]
    BY ONLY <1>1, <2>1, <2>5, Zenon
  <2> QED
    BY ONLY <1>1, <1>3, <2>6, SeqEqual, Zenon
<1>5. (a \o b) \o r = a \o (b \o r)
  <2>1. a \in Seq(S) /\ b \in Seq(S) /\ r \in Seq(S)
    BY ONLY <1>1
  <2> QED
    BY ONLY <2>1, ConcatAssociative
<1> QED
  BY <1>4, <1>5, Zenon DEF a, b, c

\* What is left of a pair once its first half is taken, in either text.
LEMMA PairStep ==
  ASSUME NEW t \in Seq(Characters), NEW lexeme, Quoted(lexeme, t), NEW i \in Nat, i >= 1,
         At(t, i) = "\\", At(t, i + 1) = "u", HexAhead(t, i + 2), PairAhead(t, i)
  PROVE  Spells(lexeme, t, i, i + 8, Joined(UnitAhead(t, i), LowAhead(t, i)))
<1> DEFINE h == UnitAhead(t, i)
           l == LowAhead(t, i)
           c == Joined(h, l)
<1>1. /\ lexeme \in Seq(Characters) /\ i + 1 \in Nat /\ i + 4 \in Nat /\ i + 4 >= 1
      /\ (i + 4) + 1 = i + 5 /\ (i + 4) + 2 = i + 6 /\ (i + 4) + 4 = i + 8 /\ (i + 1) + 8 = (i + 8) + 1
      /\ (i + 1) + 4 = (i + 4) + 1 /\ (i + 1) + 5 = (i + 5) + 1 /\ (i + 5) + 1 = (i + 4) + 2
      /\ (i + 1) + 6 = ((i + 4) + 1) + 2 /\ ((i + 4) + 1) + 1 = (i + 1) + 5
      /\ (i + 1) + 1 \in Nat /\ (i + 4) + 1 \in Nat /\ i + 8 > i /\ i + 6 \in Nat
  BY DEF Quoted
<1>2. /\ h \in {20, 21} /\ At(t, i + 4) = "\\" /\ At(t, i + 5) = "u" /\ l \in {22, 23}
      /\ HexAhead(t, i + 6)
  BY PairTyped
<1>3. CodeUnits(c) = <<h, l>> /\ c \in Characters
  BY <1>2, CodeUnitsBeyond
<1>4. SpellingAhead(t, i) /\ PastSpelling(t, i) = i + 4 /\ SpellingUnits(t, i) = <<h>>
  BY DEF SpellingAhead, PastSpelling, SpellingUnits, UnitAhead
<1>5. UnitAhead(t, i + 4) = l
  BY <1>1 DEF UnitAhead, LowAhead
<1>6. /\ SpellingAhead(t, i + 4) /\ PastSpelling(t, i + 4) = i + 8
      /\ SpellingUnits(t, i + 4) = <<l>>
  <2>1. At(t, (i + 4) + 1) = "u" /\ HexAhead(t, (i + 4) + 2)
    BY <1>1, <1>2
  <2>2. SpellingAhead(t, i + 4) /\ PastSpelling(t, i + 4) = (i + 4) + 4
    BY <1>2, <2>1 DEF SpellingAhead, PastSpelling
  <2>3. SpellingUnits(t, i + 4) = <<UnitAhead(t, i + 4)>>
    BY <1>2, <2>1 DEF SpellingUnits, UnitAhead
  <2> QED
    BY <1>1, <1>5, <2>2, <2>3, Zenon
<1>7. i + 8 \in (i + 1)..(Len(t) + 1)
  <2>1. i + 8 \in ((i + 4) + 1)..(Len(t) + 1)
    BY <1>1, <1>6, PastSpellingAhead
  <2> QED
    BY <2>1
<1>8. Cut(t)[i] => Cut(t)[i + 8]
  <2>1. Cut(t)[i] => Cut(t)[i + 4]
    BY <1>4, CutSteps
  <2>2. Cut(t)[i + 4] => Cut(t)[i + 8]
    BY <1>1, <1>6, CutSteps
  <2> QED
    BY <2>1, <2>2
<1>9. Mean(t)[i] = <<h>> \o (<<l>> \o Mean(t)[i + 8])
  <2>1. Mean(t)[i] = <<h>> \o Mean(t)[i + 4]
    BY <1>4, MeanSteps
  <2>2. Mean(t)[i + 4] = <<l>> \o Mean(t)[i + 8]
    BY <1>1, <1>6, MeanSteps
  <2> QED
    BY <2>1, <2>2, Zenon
<1>10. Lone(t)[i] = Lone(t)[i + 8]
  <2>1. Lone(t)[i] = IF PairAhead(t, i) THEN Lone(t)[i + 8]
                     ELSE UnitAhead(t, i) \in Surrogates \/ Lone(t)[i + 4]
    BY LoneSteps
  <2> QED
    BY <2>1, Zenon
<1>11. Escaped(c) = <<c>>
  <2>1. c \in BeyondNames
    BY <1>2, BeyondJoined
  <2>2. c \in Plain
    BY <1>3, <2>1 DEF Plain, Control, BeyondNames
  <2> QED
    BY <2>2, EscapedKinds
<1>12. Walk(t)[i] = Escaped(c) \o Walk(t)[i + 8]
  BY <1>11, WalkSteps
<1>13. /\ At(lexeme, i + 1) = "\\" /\ At(lexeme, (i + 1) + 1) = "u"
       /\ HexAhead(lexeme, (i + 1) + 2) /\ UnitAhead(lexeme, i + 1) = h
  BY <1>1, <1>4, QuotedAlike, SameSpelling
<1>14. /\ At(lexeme, (i + 4) + 1) = "\\" /\ At(lexeme, ((i + 4) + 1) + 1) = "u"
       /\ UnitAhead(lexeme, (i + 4) + 1) = l
  <2>1. Alike(lexeme, (i + 4) + 1, t, i + 4)
    BY <1>1, <1>6, QuotedAlike
  <2>2. At(t, i + 4) = "\\" /\ At(t, (i + 4) + 1) = "u"
    BY <1>1, <1>2
  <2> QED
    BY <1>1, <1>5, <1>6, <2>1, <2>2, SameSpelling
<1>15. LowAhead(lexeme, i + 1) = l
  BY <1>1, <1>14 DEF UnitAhead, LowAhead
<1>16. PairAhead(lexeme, i + 1)
  <2>1. At(lexeme, (i + 1) + 4) = "\\" /\ At(lexeme, (i + 1) + 5) = "u"
    BY <1>1, <1>14
  <2> QED
    BY <1>1, <1>2, <1>13, <1>15, <2>1, PairTyped
<1>17. Reading(lexeme)[i + 1] = Before(c, Reading(lexeme)[(i + 1) + 8])
  <2>1. Reading(lexeme)[i + 1]
          = Before(Joined(UnitAhead(lexeme, i + 1), LowAhead(lexeme, i + 1)), Reading(lexeme)[(i + 1) + 8])
    BY <1>1, <1>13, <1>16, ReadSteps
  <2> QED
    BY <1>13, <1>15, <2>1, Zenon
<1>18. Mean(t)[i] = CodeUnits(c) \o Mean(t)[i + 8]
  <2>1. Mean(t)[i + 8] \in Seq(0..24)
    BY MeanTyped
  <2>2. h \in 0..24 /\ l \in 0..24
    BY <1>2
  <2>3. <<h>> \o (<<l>> \o Mean(t)[i + 8]) = <<h, l>> \o Mean(t)[i + 8]
    BY <2>1, <2>2, TwoUnits
  <2> QED
    BY <1>3, <1>9, <2>3, Zenon
<1> QED
  BY <1>1, <1>3, <1>7, <1>8, <1>10, <1>12, <1>17, <1>18, Zenon DEF Spells

-----------------------------------------------------------------------------
(* Surrogates on their own *)

LEMMA ShiftLone ==
  ASSUME NEW r \in Seq(0..24), NEW s \in Seq(0..24), NEW p \in Nat, p >= 1, Len(s) = p + Len(r),
         \A k \in 1..Len(r) : s[k + p] = r[k], ~IsHigh(s[p])
  PROVE  \A m \in 1..Len(r) : IsLone(s, m + p) <=> IsLone(r, m)
<1> DEFINE n == Len(r)
<1>1. n \in Nat
  BY LenProperties
<1> SUFFICES ASSUME NEW m \in 1..n PROVE IsLone(s, m + p) <=> IsLone(r, m)
  OBVIOUS
<1>2. s[m + p] = r[m]
  OBVIOUS
<1>3. (m + p = Len(s) \/ ~IsLow(s[(m + p) + 1])) <=> (m = n \/ ~IsLow(r[m + 1]))
  <2>1. m + p = Len(s) <=> m = n
    <3>1. Len(s) = p + n /\ m \in Int /\ p \in Int
      BY <1>1
    <3> HIDE DEF n
    <3> QED
      BY ONLY <1>1, <3>1
  <2>2. m # n => s[(m + p) + 1] = r[m + 1]
    <3> SUFFICES ASSUME m # n PROVE s[(m + p) + 1] = r[m + 1]
      OBVIOUS
    <3>1. m + 1 \in 1..n /\ (m + 1) + p = (m + p) + 1
      BY <1>1
    <3> QED
      BY <3>1
  <2> QED
    BY <2>1, <2>2, Zenon
<1>4. (m + p = 1 \/ ~IsHigh(s[(m + p) - 1])) <=> (m = 1 \/ ~IsHigh(r[m - 1]))
  <2>1. m + p # 1
    BY <1>1
  <2>2. CASE m = 1
    <3>1. (m + p) - 1 = p
      BY <2>2
    <3> QED
      BY <2>2, <3>1
  <2>3. CASE m # 1
    <3>1. m - 1 \in 1..n /\ (m - 1) + p = (m + p) - 1
      BY <1>1, <2>3
    <3>2. s[(m + p) - 1] = r[m - 1]
      BY <3>1
    <3> QED
      BY <2>1, <2>3, <3>2, Zenon
  <2> QED
    BY <2>2, <2>3
<1> QED
  BY <1>2, <1>3, <1>4, Zenon DEF IsLone

LEMMA OneFirst ==
  ASSUME NEW S, NEW u \in S, NEW r \in Seq(S)
  PROVE  /\ <<u>> \o r \in Seq(S) /\ Len(<<u>> \o r) = 1 + Len(r)
         /\ (<<u>> \o r)[1] = u /\ \A k \in 1..Len(r) : (<<u>> \o r)[k + 1] = r[k]
<1> DEFINE a == <<u>>
<1>1. a \in Seq(S) /\ r \in Seq(S) /\ Len(a) = 1 /\ a[1] = u
  OBVIOUS
<1>2. Len(r) \in Nat
  BY LenProperties
<1> HIDE DEF a
<1>3. /\ a \o r \in Seq(S) /\ Len(a \o r) = Len(a) + Len(r)
      /\ \A i \in 1..(Len(a) + Len(r)) : (a \o r)[i] = IF i <= Len(a) THEN a[i] ELSE r[i - Len(a)]
  BY ONLY <1>1, ConcatProperties, Zenon
<1>4. \A i \in 1..(1 + Len(r)) : (a \o r)[i] = IF i <= 1 THEN a[i] ELSE r[i - 1]
  BY ONLY <1>1, <1>3, Zenon
<1>5. (a \o r)[1] = u
  <2>1. 1 \in 1..(1 + Len(r)) /\ 1 <= 1
    BY <1>2
  <2> QED
    BY <1>1, <1>4, <2>1, Zenon
<1>6. \A k \in 1..Len(r) : (a \o r)[k + 1] = r[k]
  <2> TAKE k \in 1..Len(r)
  <2>1. k + 1 \in 1..(1 + Len(r)) /\ ~(k + 1 <= 1) /\ (k + 1) - 1 = k
    BY <1>2
  <2> QED
    BY ONLY <1>4, <2>1
<1>7. Len(a \o r) = 1 + Len(r)
  BY ONLY <1>1, <1>3, Zenon
<1> QED
  BY <1>3, <1>5, <1>6, <1>7, Zenon DEF a

LEMMA OneUnit ==
  ASSUME NEW u \in 0..24, NEW r \in Seq(0..24)
  PROVE  /\ <<u>> \o r \in Seq(0..24) /\ Len(<<u>> \o r) = 1 + Len(r)
         /\ (<<u>> \o r)[1] = u /\ \A k \in 1..Len(r) : (<<u>> \o r)[k + 1] = r[k]
<1> DEFINE S == 0..24
<1>1. u \in S /\ r \in Seq(S)
  OBVIOUS
<1> HIDE DEF S
<1>2. /\ <<u>> \o r \in Seq(S) /\ Len(<<u>> \o r) = 1 + Len(r)
      /\ (<<u>> \o r)[1] = u /\ \A k \in 1..Len(r) : (<<u>> \o r)[k + 1] = r[k]
  BY ONLY <1>1, OneFirst
<1> QED
  BY <1>2 DEF S

\* The units of a character, in front of others.
LEMMA UnitsInFront ==
  ASSUME NEW c \in Characters, NEW r \in Seq(0..24)
  PROVE  /\ CodeUnits(c) \o r \in Seq(0..24)
         /\ \/ \E u \in Scalars : CodeUnits(c) \o r = <<u>> \o r
            \/ \E h \in {20, 21}, l \in {22, 23} : CodeUnits(c) \o r = <<h>> \o (<<l>> \o r)
<1>1. CASE \E u \in Scalars : c = CharOf(u)
  <2>1. PICK u \in Scalars : c = CharOf(u)
    BY <1>1
  <2>2. CodeUnits(c) \o r = <<u>> \o r
    BY <2>1, CodeUnitsBasic, Zenon
  <2>3. u \in 0..24
    BY DEF Scalars
  <2>4. <<u>> \o r \in Seq(0..24)
    BY <2>3, OneUnit
  <2> QED
    BY <2>2, <2>4, Zenon
<1>2. CASE \E h \in {20, 21}, l \in {22, 23} : c = Joined(h, l)
  <2>1. PICK h \in {20, 21}, l \in {22, 23} : c = Joined(h, l)
    BY <1>2
  <2>2. h \in 0..24 /\ l \in 0..24
    OBVIOUS
  <2>3. CodeUnits(c) = <<h, l>>
    BY <2>1, CodeUnitsBeyond, Zenon
  <2>4. CodeUnits(c) \o r = <<h>> \o (<<l>> \o r)
    <3>1. <<h>> \o (<<l>> \o r) = <<h, l>> \o r
      BY <2>2, TwoUnits, Zenon
    <3> QED
      BY <2>3, <3>1, Zenon
  <2>5. <<l>> \o r \in Seq(0..24)
    BY <2>2, OneUnit
  <2>6. <<h>> \o (<<l>> \o r) \in Seq(0..24)
    <3> DEFINE q == <<l>> \o r
    <3>1. q \in Seq(0..24) /\ h \in 0..24
      BY <2>2, <2>5
    <3> HIDE DEF q
    <3>2. <<h>> \o q \in Seq(0..24)
      BY ONLY <3>1, OneUnit
    <3> QED
      BY <3>2 DEF q
  <2> QED
    BY <2>4, <2>6, Zenon
<1> QED
  BY <1>1, <1>2, CharacterKinds

\* A character is no half of a pair, and takes none from what follows.
LEMMA LonesKept ==
  ASSUME NEW c \in Characters, NEW r \in Seq(0..24)
  PROVE  HasLone(CodeUnits(c) \o r) <=> HasLone(r)
<1> DEFINE n == Len(r)
<1>1. n \in Nat /\ DOMAIN r = 1..n
  BY LenProperties
<1>2. CASE \E u \in Scalars : CodeUnits(c) \o r = <<u>> \o r
  <2>1. PICK u \in Scalars : CodeUnits(c) \o r = <<u>> \o r
    BY <1>2
  <2> DEFINE s == <<u>> \o r
  <2>2. u \in 0..24 /\ ~IsHigh(u) /\ ~IsLow(u)
    BY DEF Scalars, Surrogates, IsHigh, IsLow
  <2>3. s \in Seq(0..24) /\ Len(s) = 1 + n /\ s[1] = u /\ \A k \in 1..n : s[k + 1] = r[k]
    BY <2>2, OneUnit
  <2>4. DOMAIN s = 1..(1 + n)
    BY <2>3, LenProperties
  <2> HIDE DEF s
  <2>5. \A m \in 1..n : IsLone(s, m + 1) <=> IsLone(r, m)
    <3>1. /\ r \in Seq(0..24) /\ s \in Seq(0..24) /\ 1 \in Nat /\ 1 >= 1 /\ Len(s) = 1 + Len(r)
          /\ \A k \in 1..Len(r) : s[k + 1] = r[k]
          /\ ~IsHigh(s[1])
      BY <2>2, <2>3
    <3>2. \A m \in 1..Len(r) : IsLone(s, m + 1) <=> IsLone(r, m)
      BY ONLY <3>1, ShiftLone
    <3> QED
      BY <3>2
  <2>6. ~IsLone(s, 1)
    BY <2>2, <2>3, Zenon DEF IsLone
  <2>7. \A k \in 1..(1 + n) : k = 1 \/ \E m \in 1..n : k = m + 1
    <3> TAKE k \in 1..(1 + n)
    <3>1. k # 1 => k - 1 \in 1..n /\ k = (k - 1) + 1
      BY <1>1
    <3> QED
      BY <3>1
  <2>8. \A m \in 1..n : m + 1 \in 1..(1 + n)
    BY <1>1
  <2>9. HasLone(s) <=> HasLone(r)
    BY <1>1, <2>4, <2>5, <2>6, <2>7, <2>8, Zenon DEF HasLone
  <2> QED
    BY <2>1, <2>9 DEF s
<1>3. CASE \E h \in {20, 21}, l \in {22, 23} : CodeUnits(c) \o r = <<h>> \o (<<l>> \o r)
  <2>1. PICK h \in {20, 21}, l \in {22, 23} : CodeUnits(c) \o r = <<h>> \o (<<l>> \o r)
    BY <1>3
  <2> DEFINE q == <<l>> \o r
             s == <<h>> \o q
  <2>2. h \in 0..24 /\ l \in 0..24 /\ IsHigh(h) /\ IsLow(l) /\ ~IsHigh(l) /\ ~IsLow(h)
    BY DEF IsHigh, IsLow
  <2>3. q \in Seq(0..24) /\ Len(q) = 1 + n /\ q[1] = l /\ \A k \in 1..n : q[k + 1] = r[k]
    BY <2>2, OneUnit
  <2> HIDE DEF q
  <2>4. s \in Seq(0..24) /\ Len(s) = 1 + Len(q) /\ s[1] = h /\ \A k \in 1..Len(q) : s[k + 1] = q[k]
    <3>1. h \in 0..24 /\ q \in Seq(0..24)
      BY ONLY <2>2, <2>3
    <3> QED
      BY ONLY <3>1, OneUnit
  <2> HIDE DEF s
  <2>5. Len(s) = 2 + n /\ s[1] = h /\ s[2] = l /\ \A k \in 1..n : s[k + 2] = r[k]
    <3>1. Len(s) = 2 + n
      BY <1>1, <2>3, <2>4
    <3>2. s[2] = l
      <4>1. 1 \in 1..Len(q) /\ 1 + 1 = 2
        BY <1>1, <2>3
      <4> QED
        BY <2>3, <2>4, <4>1
    <3>3. \A k \in 1..n : s[k + 2] = r[k]
      <4> TAKE k \in 1..n
      <4>1. k + 1 \in 1..Len(q) /\ (k + 1) + 1 = k + 2
        BY <1>1, <2>3
      <4>2. q[k + 1] = r[k]
        BY <2>3
      <4>3. s[(k + 1) + 1] = q[k + 1]
        BY <2>4, <4>1
      <4> QED
        BY <4>1, <4>2, <4>3, Zenon
    <3> QED
      BY <2>4, <3>1, <3>2, <3>3
  <2>6. DOMAIN s = 1..(2 + n)
    BY <2>4, <2>5, LenProperties
  <2>7. \A m \in 1..n : IsLone(s, m + 2) <=> IsLone(r, m)
    <3>1. /\ r \in Seq(0..24) /\ s \in Seq(0..24) /\ 2 \in Nat /\ 2 >= 1 /\ Len(s) = 2 + n
          /\ \A k \in 1..n : s[k + 2] = r[k]
      BY <2>4, <2>5
    <3>2. ~IsHigh(s[2])
      BY <2>2, <2>5, Zenon
    <3> QED
      BY ONLY <3>1, <3>2, ShiftLone, Zenon
  <2>8. ~IsLone(s, 1) /\ ~IsLone(s, 2)
    <3>1. 1 # 2 + n /\ 1 + 1 = 2 /\ 2 - 1 = 1 /\ 2 # 1
      BY <1>1
    <3>2. ~IsLone(s, 1)
      BY <2>2, <2>5, <3>1, Zenon DEF IsLone
    <3>3. ~IsLone(s, 2)
      BY <2>2, <2>5, <3>1, Zenon DEF IsLone
    <3> QED
      BY <3>2, <3>3
  <2>9. \A k \in 1..(2 + n) : k = 1 \/ k = 2 \/ \E m \in 1..n : k = m + 2
    <3> TAKE k \in 1..(2 + n)
    <3>1. k # 1 /\ k # 2 => k - 2 \in 1..n /\ k = (k - 2) + 2
      BY <1>1
    <3> QED
      BY <3>1
  <2>10. \A m \in 1..n : m + 2 \in 1..(2 + n)
    BY <1>1
  <2>11. HasLone(s) <=> HasLone(r)
    BY <1>1, <2>6, <2>7, <2>8, <2>9, <2>10, Zenon DEF HasLone
  <2> QED
    BY <2>1, <2>11 DEF s, q
<1> QED
  BY <1>2, <1>3, UnitsInFront

LEMMA LoneFirst ==
  ASSUME NEW u \in Surrogates, NEW r \in Seq(0..24),
         IsHigh(u) /\ r # <<>> => ~IsLow(r[1])
  PROVE  HasLone(<<u>> \o r)
<1> DEFINE n == Len(r)
           s == <<u>> \o r
<1>1. n \in Nat /\ (r # <<>> => n >= 1) /\ (n = 0 => r = <<>>)
  BY LenProperties, EmptySeq
<1>2. u \in 0..24 /\ (IsHigh(u) \/ IsLow(u))
  BY DEF Surrogates, IsHigh, IsLow
<1>3. s \in Seq(0..24) /\ Len(s) = 1 + n /\ s[1] = u /\ \A k \in 1..n : s[k + 1] = r[k]
  BY <1>2, OneUnit
<1>4. DOMAIN s = 1..(1 + n)
  BY <1>3, LenProperties
<1> HIDE DEF s
<1>5. IsLone(s, 1)
  <2>1. CASE IsLow(u)
    BY <1>3, <2>1, Zenon DEF IsLone
  <2>2. CASE IsHigh(u) /\ n = 0
    <3>1. 1 = Len(s)
      BY <1>3, <2>2
    <3> QED
      BY <1>3, <2>2, <3>1, Zenon DEF IsLone
  <2>3. CASE IsHigh(u) /\ n # 0
    <3>1. 1 \in 1..n
      BY <1>1, <2>3
    <3>2. s[1 + 1] = r[1] /\ r # <<>>
      BY <1>3, <2>3, <3>1, EmptySeq
    <3>3. ~IsLow(s[1 + 1])
      BY <2>3, <3>2
    <3> QED
      BY <1>3, <2>3, <3>3, Zenon DEF IsLone
  <2> QED
    BY <1>2, <2>1, <2>2, <2>3
<1>6. 1 \in DOMAIN s
  BY <1>1, <1>4
<1> QED
  BY <1>5, <1>6, Zenon DEF HasLone, s

\* Only an escape by number begins with the second half of a pair.
LEMMA FirstUnit ==
  ASSUME NEW t \in Seq(Characters), NEW i \in Nat, i >= 1, Cut(t)[i],
         Mean(t)[i] # <<>>, IsLow(Mean(t)[i][1])
  PROVE  At(t, i) = "\\" /\ At(t, i + 1) = "u" /\ UnitAhead(t, i) \in {22, 23}
<1>1. Len(t) \in Nat
  BY LenProperties
<1>2. ~(i > Len(t))
  BY MeanSteps
<1>3. SpellingAhead(t, i)
  BY <1>1, <1>2, CutSteps
<1> DEFINE j == PastSpelling(t, i)
           r == Mean(t)[j]
<1>4. r \in Seq(0..24)
  <2>1. j \in Nat /\ j >= 1
    BY <1>1, <1>3, PastSpellingAhead
  <2> HIDE DEF j
  <2> QED
    BY <2>1, MeanTyped
<1>5. Mean(t)[i] = SpellingUnits(t, i) \o r
  BY <1>3, MeanSteps
<1> HIDE DEF r, j
<1>6. ASSUME NEW c \in Characters, SpellingUnits(t, i) = CodeUnits(c) PROVE FALSE
  <2>1. CASE \E u \in Scalars : CodeUnits(c) \o r = <<u>> \o r
    <3>1. PICK u \in Scalars : CodeUnits(c) \o r = <<u>> \o r
      BY <2>1
    <3>2. u \in 0..24 /\ ~IsLow(u)
      BY DEF Scalars, Surrogates, IsLow
    <3>3. (<<u>> \o r)[1] = u
      BY <1>4, <3>2, OneUnit
    <3>4. Mean(t)[i] = <<u>> \o r
      BY <1>5, <1>6, <3>1, Zenon
    <3> QED
      BY <3>2, <3>3, <3>4, Zenon
  <2>2. CASE \E h \in {20, 21}, l \in {22, 23} : CodeUnits(c) \o r = <<h>> \o (<<l>> \o r)
    <3>1. PICK h \in {20, 21}, l \in {22, 23} : CodeUnits(c) \o r = <<h>> \o (<<l>> \o r)
      BY <2>2
    <3>2. h \in 0..24 /\ l \in 0..24 /\ ~IsLow(h)
      BY DEF IsLow
    <3>3. <<l>> \o r \in Seq(0..24)
      BY <1>4, <3>2, OneUnit
    <3>4. (<<h>> \o (<<l>> \o r))[1] = h
      BY <3>2, <3>3, OneUnit
    <3>5. Mean(t)[i] = <<h>> \o (<<l>> \o r)
      BY <1>5, <1>6, <3>1, Zenon
    <3> QED
      BY <3>2, <3>4, <3>5, Zenon
  <2> QED
    BY <1>4, <2>1, <2>2, UnitsInFront
<1>7. CASE At(t, i) \in Plain
  <2>1. At(t, i) # "\\" /\ At(t, i) \in Characters
    BY <1>7, PlainOnes
  <2>2. SpellingUnits(t, i) = CodeUnits(At(t, i))
    BY <2>1 DEF SpellingUnits
  <2> QED
    BY <1>6, <2>1, <2>2
<1>8. CASE At(t, i) = "\\" /\ At(t, i + 1) \in DOMAIN Short
  <2>1. At(t, i + 1) # "u" /\ Short[At(t, i + 1)] \in Characters
    BY <1>8, PlainOnes, ShortListed
  <2>2. SpellingUnits(t, i) = CodeUnits(Short[At(t, i + 1)])
    BY <1>8, <2>1 DEF SpellingUnits
  <2> QED
    BY <1>6, <2>1, <2>2
<1>9. CASE At(t, i) = "\\" /\ At(t, i + 1) = "u" /\ HexAhead(t, i + 2)
  <2>1. SpellingUnits(t, i) = <<UnitAhead(t, i)>>
    BY <1>9 DEF SpellingUnits, UnitAhead
  <2>2. UnitAhead(t, i) \in 0..24
    BY <1>9, UnitTyped
  <2>3. (<<UnitAhead(t, i)>> \o r)[1] = UnitAhead(t, i)
    BY <1>4, <2>2, OneUnit
  <2>4. IsLow(UnitAhead(t, i))
    BY <1>5, <2>1, <2>3, Zenon
  <2> QED
    BY <1>9, <2>4 DEF IsLow
<1> QED
  BY <1>3, <1>7, <1>8, <1>9 DEF SpellingAhead

\* Half of a pair is noticed, and is half of one.
LEMMA LoneStep ==
  ASSUME NEW t \in Seq(Characters), NEW i \in Nat, i >= 1, Cut(t)[i],
         At(t, i) = "\\", At(t, i + 1) = "u", HexAhead(t, i + 2),
         UnitAhead(t, i) \in Surrogates, ~PairAhead(t, i)
  PROVE  Lone(t)[i] /\ HasLone(Mean(t)[i])
<1> DEFINE u == UnitAhead(t, i)
           r == Mean(t)[i + 4]
<1>1. Lone(t)[i]
  <2>1. Lone(t)[i] = IF PairAhead(t, i) THEN Lone(t)[i + 8] ELSE u \in Surrogates \/ Lone(t)[i + 4]
    BY LoneSteps
  <2> QED
    BY <2>1, Zenon
<1>2. SpellingAhead(t, i) /\ PastSpelling(t, i) = i + 4 /\ SpellingUnits(t, i) = <<u>>
  BY DEF SpellingAhead, PastSpelling, SpellingUnits, UnitAhead
<1>3. Mean(t)[i] = <<u>> \o r
  BY <1>2, MeanSteps
<1>4. i + 4 \in Nat /\ i + 4 >= 1 /\ (i + 4) + 1 = i + 5 /\ (i + 4) + 2 = i + 6
  OBVIOUS
<1>5. r \in Seq(0..24) /\ Cut(t)[i + 4]
  <2>1. Cut(t)[i + 4]
    BY <1>2, CutSteps
  <2> QED
    BY <1>4, <2>1, MeanTyped
<1>6. IsHigh(u) /\ r # <<>> => ~IsLow(r[1])
  <2> SUFFICES ASSUME IsHigh(u), r # <<>>, IsLow(r[1]) PROVE FALSE
    OBVIOUS
  <2>1. At(t, i + 4) = "\\" /\ At(t, (i + 4) + 1) = "u" /\ UnitAhead(t, i + 4) \in {22, 23}
    BY <1>4, <1>5, FirstUnit
  <2>2. LowAhead(t, i) \in {22, 23}
    BY <1>4, <2>1 DEF UnitAhead, LowAhead
  <2>3. u \in {20, 21}
    BY DEF IsHigh
  <2> QED
    BY <1>4, <2>1, <2>2, <2>3, PairTyped
<1> HIDE DEF r
<1>7. HasLone(<<u>> \o r)
  BY <1>5, <1>6, LoneFirst
<1> QED
  BY <1>1, <1>3, <1>7

\* Every place of a body is one or the other.
LEMMA PlaceStep ==
  ASSUME NEW t \in Seq(Characters), NEW lexeme, Quoted(lexeme, t),
         NEW i \in 1..Len(t), Cut(t)[i]
  PROVE  \/ Lone(t)[i] /\ HasLone(Mean(t)[i])
         \/ \E c \in Characters, j \in (i + 1)..(Len(t) + 1) : Spells(lexeme, t, i, j, c)
<1>1. i \in Nat /\ i >= 1 /\ i <= Len(t)
  BY LenProperties
<1>2. SpellingAhead(t, i)
  BY <1>1, CutSteps
<1>3. ASSUME NEW j, NEW c, Spells(lexeme, t, i, j, c)
      PROVE  \E d \in Characters, k \in (i + 1)..(Len(t) + 1) : Spells(lexeme, t, i, k, d)
  <2>1. c \in Characters /\ j \in (i + 1)..(Len(t) + 1)
    BY <1>3 DEF Spells
  <2> QED
    BY <1>3, <2>1, Zenon
<1>4. CASE At(t, i) \in Plain
  BY <1>1, <1>3, <1>4, PlainStep
<1>5. CASE At(t, i) = "\\" /\ At(t, i + 1) \in DOMAIN Short
  BY <1>1, <1>3, <1>5, ShortStep
<1>6. CASE At(t, i) = "\\" /\ At(t, i + 1) = "u" /\ HexAhead(t, i + 2)
  <2>1. UnitAhead(t, i) \in 0..24
    BY <1>1, <1>6, UnitTyped
  <2>2. CASE UnitAhead(t, i) \in Scalars
    BY <1>1, <1>3, <1>6, <2>2, ScalarStep
  <2>3. CASE PairAhead(t, i)
    BY <1>1, <1>3, <1>6, <2>3, PairStep
  <2>4. CASE UnitAhead(t, i) \notin Scalars /\ ~PairAhead(t, i)
    <3>1. UnitAhead(t, i) \in Surrogates
      BY <2>1, <2>4 DEF Scalars
    <3> QED
      BY <1>1, <1>6, <2>4, <3>1, LoneStep
  <2> QED
    BY <2>2, <2>3, <2>4
<1> QED
  BY <1>2, <1>4, <1>5, <1>6 DEF SpellingAhead

-----------------------------------------------------------------------------
(* Sequences of sequences *)

FlatCase(s, flat, i) == IF i = 1 THEN s[i] ELSE flat[i - 1] \o s[i]

Flat(s) == CHOOSE flat : flat = [i \in 1..Len(s) |-> FlatCase(s, flat, i)]

LEMMA FlattenIsFlat ==
  ASSUME NEW s
  PROVE  FlattenSeq(s) = IF Len(s) = 0 THEN s ELSE Flat(s)[Len(s)]
BY Zenon DEF FlattenSeq, Flat, FlatCase

LEMMA FlatSteps ==
  ASSUME NEW S, NEW s \in Seq(Seq(S))
  PROVE  \A i \in 1..Len(s) : Flat(s)[i] = FlatCase(s, Flat(s), i)
<1> DEFINE n == Len(s)
           A == Seq(S)
           Upto(f, d) == \A i \in 1..d : f[i] = FlatCase(s, f, i)
           Has(d) == \E f \in [1..d -> A] : Upto(f, d)
           D == {d \in Nat : d <= n => Has(d)}
           Def(g) == g = [i \in 1..n |-> FlatCase(s, g, i)]
<1>1. n \in Nat /\ \A i \in 1..n : s[i] \in A
  BY LenProperties, ElementOfSeq
<1>2. 0 \in D
  <2> DEFINE f == [i \in 1..0 |-> <<>>]
  <2>0. \A i : i \notin 1..0
    OBVIOUS
  <2>1. f \in [1..0 -> A] /\ Upto(f, 0)
    <3> HIDE DEF A
    <3> QED
      BY <2>0, Zenon
  <2> QED
    BY <2>1
<1>3. ASSUME NEW d \in Nat, d \in D PROVE d + 1 \in D
  <2> SUFFICES ASSUME d + 1 <= n PROVE Has(d + 1)
    <3> HIDE DEF Has
    <3> QED
      OBVIOUS
  <2>1. d <= n /\ d + 1 \in 1..n
    BY <1>1
  <2>2. PICK f \in [1..d -> A] : Upto(f, d)
    BY <1>3, <2>1
  <2> DEFINE x == FlatCase(s, f, d + 1)
             g == [i \in 1..(d + 1) |-> IF i <= d THEN f[i] ELSE x]
  <2>3. x \in A
    <3>1. CASE d + 1 = 1
      BY <1>1, <2>1, <3>1, Zenon DEF FlatCase
    <3>2. CASE d + 1 # 1
      <4>1. (d + 1) - 1 \in 1..d
        BY <3>2
      <4>2. f[(d + 1) - 1] \in A /\ s[d + 1] \in A
        BY <1>1, <2>1, <4>1
      <4>3. f[(d + 1) - 1] \o s[d + 1] \in A
        BY ONLY <4>2, ConcatProperties, Zenon
      <4> QED
        BY <3>2, <4>3, Zenon DEF FlatCase
    <3> QED
      BY <3>1, <3>2
  <2> HIDE DEF x
  <2>4. g \in [1..(d + 1) -> A]
    <3> HIDE DEF A
    <3>1. \A i \in 1..(d + 1) : i <= d => i \in 1..d
      OBVIOUS
    <3> QED
      BY <2>3, <3>1
  <2>5. \A i \in 1..d : g[i] = f[i]
    OBVIOUS
  <2>6. g[d + 1] = x
    OBVIOUS
  <2> HIDE DEF g
  <2>7. ASSUME NEW i \in 1..(d + 1) PROVE FlatCase(s, g, i) = FlatCase(s, f, i)
    <3>1. CASE i = 1
      BY <3>1, Zenon DEF FlatCase
    <3>2. CASE i # 1
      <4>1. i - 1 \in 1..d
        BY <3>2
      <4>2. g[i - 1] = f[i - 1]
        BY <2>5, <4>1
      <4> QED
        BY <4>2, Zenon DEF FlatCase
    <3> QED
      BY <3>1, <3>2
  <2>8. ASSUME NEW i \in 1..(d + 1) PROVE g[i] = FlatCase(s, g, i)
    <3>1. CASE i \in 1..d
      <4>1. g[i] = f[i] /\ f[i] = FlatCase(s, f, i)
        BY <2>2, <2>5, <3>1
      <4> QED
        BY <2>7, <4>1
    <3>2. CASE i = d + 1
      <4>1. g[i] = FlatCase(s, f, i)
        BY <2>6, <3>2, Zenon DEF x
      <4> QED
        BY <2>7, <4>1
    <3>3. i \in 1..d \/ i = d + 1
      OBVIOUS
    <3> QED
      BY <3>1, <3>2, <3>3
  <2> QED
    BY <2>4, <2>8
<1>4. Nat \subseteq D
  <2> HIDE DEF D
  <2> QED
    BY <1>2, <1>3, EveryNumber
<1>5. \E f \in [1..n -> A] : Upto(f, n)
  <2>1. n \in D
    BY <1>1, <1>4
  <2> QED
    BY <1>1, <2>1
<1> HIDE DEF n, A, D
<1>6. PICK f \in [1..n -> A] : \A i \in 1..n : f[i] = FlatCase(s, f, i)
  BY <1>5
<1>7. Def(f)
  <2>1. f = [i \in 1..n |-> f[i]]
    OBVIOUS
  <2>2. [i \in 1..n |-> f[i]] = [i \in 1..n |-> FlatCase(s, f, i)]
    BY <1>6, Zenon
  <2> QED
    BY <2>1, <2>2, Zenon
<1>8. Def(Flat(s))
  BY <1>7, Zenon DEF Flat, n
<1> QED
  BY <1>8, Zenon DEF n

LEMMA FlatTyped ==
  ASSUME NEW S, NEW s \in Seq(Seq(S))
  PROVE  \A i \in 1..Len(s) : Flat(s)[i] \in Seq(S)
<1> DEFINE n == Len(s)
           A == Seq(S)
           D == {d \in Nat : d + 1 <= n => Flat(s)[d + 1] \in A}
<1>1. n \in Nat /\ \A i \in 1..n : s[i] \in A
  BY LenProperties, ElementOfSeq
<1>2. \A i \in 1..n : Flat(s)[i] = FlatCase(s, Flat(s), i)
  BY FlatSteps
<1> HIDE DEF A
<1>3. 0 \in D
  <2>1. 0 + 1 = 1
    OBVIOUS
  <2>2. ASSUME 1 <= n PROVE Flat(s)[1] \in A
    <3>1. 1 \in 1..n
      BY <1>1, <2>2
    <3>2. Flat(s)[1] = s[1]
      BY <1>2, <3>1, Zenon DEF FlatCase
    <3> QED
      BY <1>1, <3>1, <3>2
  <2> QED
    BY <2>1, <2>2
<1>4. ASSUME NEW d \in Nat, d \in D PROVE d + 1 \in D
  <2> SUFFICES ASSUME (d + 1) + 1 <= n PROVE Flat(s)[(d + 1) + 1] \in A
    OBVIOUS
  <2>1. (d + 1) + 1 \in 1..n /\ (d + 1) + 1 # 1 /\ ((d + 1) + 1) - 1 = d + 1 /\ d + 1 <= n
    BY <1>1
  <2>2. Flat(s)[d + 1] \in A /\ s[(d + 1) + 1] \in A
    BY <1>1, <1>4, <2>1
  <2>3. Flat(s)[d + 1] \o s[(d + 1) + 1] \in A
    BY ONLY <2>2, ConcatProperties, Zenon DEF A
  <2>4. Flat(s)[(d + 1) + 1] = Flat(s)[((d + 1) + 1) - 1] \o s[(d + 1) + 1]
    BY <1>2, <2>1, Zenon DEF FlatCase
  <2> QED
    BY <2>1, <2>3, <2>4, Zenon
<1>5. Nat \subseteq D
  <2> HIDE DEF D
  <2> QED
    BY <1>3, <1>4, EveryNumber
<1> SUFFICES ASSUME NEW i \in 1..n PROVE Flat(s)[i] \in A
  BY DEF A
<1>6. i - 1 \in Nat /\ (i - 1) + 1 = i /\ i <= n
  BY <1>1
<1>7. i - 1 \in D
  BY <1>5, <1>6
<1> QED
  BY <1>6, <1>7

\* A sequence in front of the others is in front of their concatenation.
LEMMA FlattenFront ==
  ASSUME NEW S, NEW x \in Seq(S), NEW s \in Seq(Seq(S))
  PROVE  /\ FlattenSeq(<<x>> \o s) = x \o FlattenSeq(s)
         /\ FlattenSeq(s) \in Seq(S)
<1> DEFINE n == Len(s)
           w == <<x>> \o s
           A == Seq(S)
           D == {d \in Nat : d + 1 <= n => Flat(w)[(d + 1) + 1] = x \o Flat(s)[d + 1]}
<1>1. n \in Nat /\ \A i \in 1..n : s[i] \in A
  BY LenProperties, ElementOfSeq
<1>2. w \in Seq(Seq(S)) /\ Len(w) = 1 + n /\ w[1] = x /\ \A k \in 1..n : w[k + 1] = s[k]
  <2> DEFINE U == Seq(S)
  <2>1. x \in U /\ s \in Seq(U)
    OBVIOUS
  <2> HIDE DEF U
  <2>2. /\ <<x>> \o s \in Seq(U) /\ Len(<<x>> \o s) = 1 + Len(s)
        /\ (<<x>> \o s)[1] = x /\ \A k \in 1..Len(s) : (<<x>> \o s)[k + 1] = s[k]
    BY ONLY <2>1, OneFirst
  <2> QED
    BY <2>2 DEF U
<1> HIDE DEF w
<1>3. \A i \in 1..n : Flat(s)[i] = FlatCase(s, Flat(s), i) /\ Flat(s)[i] \in A
  BY FlatSteps, FlatTyped
<1>4. \A i \in 1..(1 + n) : Flat(w)[i] = FlatCase(w, Flat(w), i) /\ Flat(w)[i] \in A
  BY <1>2, FlatSteps, FlatTyped
<1> HIDE DEF A
<1>5. Flat(w)[1] = x
  <2>1. 1 \in 1..(1 + n)
    BY <1>1
  <2> QED
    BY <1>2, <1>4, <2>1, Zenon DEF FlatCase
<1>6. 0 \in D
  <2> SUFFICES ASSUME 0 + 1 <= n PROVE Flat(w)[(0 + 1) + 1] = x \o Flat(s)[0 + 1]
    OBVIOUS
  <2>1. 0 + 1 = 1 /\ 1 + 1 = 2 /\ 1 \in 1..n /\ 2 \in 1..(1 + n) /\ 2 # 1 /\ 2 - 1 = 1
    BY <1>1
  <2>2. Flat(w)[2] = Flat(w)[2 - 1] \o w[2]
    BY <1>4, <2>1, Zenon DEF FlatCase
  <2>3. w[2] = s[1]
    BY <1>2, <2>1, Zenon
  <2>4. Flat(s)[1] = s[1]
    BY <1>3, <2>1, Zenon DEF FlatCase
  <2> QED
    BY <1>5, <2>1, <2>2, <2>3, <2>4, Zenon
<1>7. ASSUME NEW d \in Nat, d \in D PROVE d + 1 \in D
  <2> DEFINE e == d + 1
  <2> SUFFICES ASSUME e + 1 <= n PROVE Flat(w)[(e + 1) + 1] = x \o Flat(s)[e + 1]
    OBVIOUS
  <2>1. /\ e \in 1..n /\ e + 1 \in 1..n /\ (e + 1) + 1 \in 1..(1 + n) /\ (e + 1) + 1 # 1 /\ e + 1 # 1
        /\ ((e + 1) + 1) - 1 = e + 1 /\ (e + 1) - 1 = e /\ e <= n
    BY <1>1
  <2>2. Flat(w)[e + 1] = x \o Flat(s)[e]
    BY <1>7, <2>1
  <2> HIDE DEF e
  <2>3. Flat(w)[(e + 1) + 1] = Flat(w)[e + 1] \o w[(e + 1) + 1]
    BY <1>4, <2>1, Zenon DEF FlatCase
  <2>4. w[(e + 1) + 1] = s[e + 1]
    BY <1>2, <2>1, Zenon
  <2>5. Flat(s)[e + 1] = Flat(s)[e] \o s[e + 1]
    BY <1>3, <2>1, Zenon DEF FlatCase
  <2>6. x \in A /\ Flat(s)[e] \in A /\ s[e + 1] \in A
    BY <1>1, <1>3, <2>1 DEF A
  <2>7. (x \o Flat(s)[e]) \o s[e + 1] = x \o (Flat(s)[e] \o s[e + 1])
    <3> DEFINE p == Flat(s)[e]
               q == s[e + 1]
    <3>1. x \in Seq(S) /\ p \in Seq(S) /\ q \in Seq(S)
      BY <2>6 DEF A
    <3> HIDE DEF p, q
    <3>2. (x \o p) \o q = x \o (p \o q)
      BY ONLY <3>1, ConcatAssociative
    <3> QED
      BY <3>2 DEF p, q
  <2> QED
    BY <2>2, <2>3, <2>4, <2>5, <2>7, Zenon
<1>8. Nat \subseteq D
  <2> HIDE DEF D
  <2> QED
    BY <1>6, <1>7, EveryNumber
<1>9. Len(w) # 0 /\ FlattenSeq(w) = Flat(w)[1 + n]
  BY <1>1, <1>2, FlattenIsFlat
<1>10. CASE n = 0
  <2>1. s = <<>> /\ FlattenSeq(s) = s
    BY <1>10, FlattenIsFlat, EmptySeq
  <2>2. x \o <<>> = x /\ <<>> \in Seq(S)
    BY ConcatEmptySeq, EmptySeq
  <2>3. 1 + n = 1
    BY <1>10
  <2>4. FlattenSeq(w) = x \o FlattenSeq(s) /\ FlattenSeq(s) \in Seq(S)
    BY <1>5, <1>9, <2>1, <2>2, <2>3, Zenon
  <2> QED
    BY <2>4 DEF w
<1>11. CASE n # 0
  <2>1. n - 1 \in Nat /\ (n - 1) + 1 = n /\ n + 1 = 1 + n /\ n \in 1..n /\ n <= n
    BY <1>1, <1>11
  <2>2. n - 1 \in D
    BY <1>8, <2>1
  <2>3. Flat(w)[1 + n] = x \o Flat(s)[n]
    <3>1. (n - 1) + 1 <= n => Flat(w)[((n - 1) + 1) + 1] = x \o Flat(s)[(n - 1) + 1]
      BY <2>2
    <3> HIDE DEF n
    <3> QED
      BY <2>1, <3>1, Zenon
  <2>4. FlattenSeq(s) = Flat(s)[n]
    BY <1>11, FlattenIsFlat, Zenon
  <2>5. FlattenSeq(w) = x \o FlattenSeq(s) /\ FlattenSeq(s) \in Seq(S)
    BY <1>3, <1>9, <2>1, <2>3, <2>4, Zenon DEF A
  <2> QED
    BY <2>5 DEF w
<1> QED
  BY <1>10, <1>11

-----------------------------------------------------------------------------
(* A whole body *)

Images(f, v) == [k \in DOMAIN v |-> f[v[k]]]

\* An image in front of the others.
ImageFirst(A, f, c, v) ==
  /\ Images(f, v) \in Seq(A) /\ f[c] \in A
  /\ Images(f, <<c>> \o v) = <<f[c]>> \o Images(f, v)

LEMMA ImagesFront ==
  ASSUME NEW S, NEW A, NEW f, \A a \in S : f[a] \in A, NEW c \in S, NEW v \in Seq(S)
  PROVE  ImageFirst(A, f, c, v)
<1> DEFINE n == Len(v)
           w == <<c>> \o v
           x == f[c]
           p == Images(f, v)
           q == Images(f, w)
           r == <<x>> \o p
<1>1. n \in Nat /\ DOMAIN v = 1..n /\ \A k \in 1..n : v[k] \in S
  BY LenProperties, ElementOfSeq
<1>2. w \in Seq(S) /\ Len(w) = 1 + n /\ w[1] = c /\ \A k \in 1..n : w[k + 1] = v[k]
  BY OneFirst
<1>3. DOMAIN w = 1..(1 + n) /\ \A k \in 1..(1 + n) : w[k] \in S
  BY <1>2, LenProperties, ElementOfSeq
<1> HIDE DEF w
<1>4. p \in Seq(A) /\ Len(p) = n /\ \A k \in 1..n : p[k] = f[v[k]]
  BY <1>1 DEF Images
<1>5. q \in Seq(A) /\ Len(q) = 1 + n /\ \A k \in 1..(1 + n) : q[k] = f[w[k]]
  <2>1. 1 + n \in Nat
    BY <1>1
  <2> QED
    BY <1>3, <2>1 DEF Images
<1>6. x \in A
  OBVIOUS
<1> HIDE DEF n, p, q, x
<1>7. r \in Seq(A) /\ Len(r) = 1 + n /\ r[1] = x /\ \A k \in 1..n : r[k + 1] = p[k]
  BY ONLY <1>4, <1>6, OneFirst
<1> HIDE DEF r
<1>8. \A k \in 1..(1 + n) : q[k] = r[k]
  <2> SUFFICES ASSUME NEW k \in 1..(1 + n) PROVE q[k] = r[k]
    OBVIOUS
  <2>1. CASE k = 1
    BY <1>2, <1>5, <1>7, <2>1 DEF x
  <2>2. CASE k # 1
    <3>1. k - 1 \in 1..n /\ (k - 1) + 1 = k
      BY <1>1, <2>2
    <3>2. w[k] = v[k - 1] /\ r[k] = p[k - 1] /\ p[k - 1] = f[v[k - 1]]
      BY <1>2, <1>4, <1>7, <3>1
    <3> QED
      BY <1>5, <3>2
  <2> QED
    BY <2>1, <2>2
<1>9. q = r
  BY ONLY <1>5, <1>7, <1>8, SeqEqual
<1> QED
  BY <1>4, <1>6, <1>9 DEF p, q, r, w, x, ImageFirst

Spelt(v) == FlattenSeq([k \in DOMAIN v |-> Escaped(v[k])])

UnitsOf(v) == FlattenSeq([k \in DOMAIN v |-> CodeUnits(v[k])])

LEMMA NothingSpelt ==
  Spelt(<<>>) = <<>> /\ UnitsOf(<<>>) = <<>>
<1>1. \A s : Len(s) = 0 => FlattenSeq(s) = s
  BY FlattenIsFlat
<1>2. /\ [k \in DOMAIN <<>> |-> Escaped(<<>>[k])] = <<>>
      /\ [k \in DOMAIN <<>> |-> CodeUnits(<<>>[k])] = <<>>
  OBVIOUS
<1>3. Len(<<>>) = 0
  OBVIOUS
<1> QED
  BY <1>1, <1>2, <1>3, Zenon DEF Spelt, UnitsOf

LEMMA SpeltFront ==
  ASSUME NEW c \in Characters, NEW v \in Seq(Characters)
  PROVE  /\ Spelt(v) \in Seq(Characters) /\ UnitsOf(v) \in Seq(0..24)
         /\ Spelt(<<c>> \o v) = Escaped(c) \o Spelt(v)
         /\ UnitsOf(<<c>> \o v) = CodeUnits(c) \o UnitsOf(v)
<1> DEFINE f == [x \in Characters |-> Escaped(x)]
           g == [x \in Characters |-> CodeUnits(x)]
           N == 0..24
<1>1. f \in [Characters -> Seq(Characters)] /\ g \in [Characters -> Seq(N)]
  BY EscapedTyped, CodeUnitsTyped
<1>2. f[c] = Escaped(c) /\ g[c] = CodeUnits(c)
  OBVIOUS
<1>3. ASSUME NEW w \in Seq(Characters)
      PROVE  Spelt(w) = FlattenSeq(Images(f, w)) /\ UnitsOf(w) = FlattenSeq(Images(g, w))
  <2>1. \A k \in DOMAIN w : w[k] \in Characters
    BY LenProperties, ElementOfSeq
  <2>2. \A k \in DOMAIN w : f[w[k]] = Escaped(w[k]) /\ g[w[k]] = CodeUnits(w[k])
    BY <2>1
  <2> HIDE DEF f, g
  <2> QED
    BY <2>2, Zenon DEF Spelt, UnitsOf, Images
<1> HIDE DEF f, g, N
<1>4. <<c>> \o v \in Seq(Characters)
  BY OneFirst
<1>5. /\ Images(f, v) \in Seq(Seq(Characters)) /\ Escaped(c) \in Seq(Characters)
      /\ Images(f, <<c>> \o v) = <<Escaped(c)>> \o Images(f, v)
  <2> DEFINE A == Seq(Characters)
  <2>1. \A a \in Characters : f[a] \in A
    BY <1>1
  <2>2. c \in Characters /\ v \in Seq(Characters)
    OBVIOUS
  <2> HIDE DEF A
  <2>3. ImageFirst(A, f, c, v)
    BY ONLY <2>1, <2>2, ImagesFront, Zenon
  <2> QED
    BY <1>2, <2>3, Zenon DEF A, ImageFirst
<1>6. /\ Images(g, v) \in Seq(Seq(N)) /\ CodeUnits(c) \in Seq(N)
      /\ Images(g, <<c>> \o v) = <<CodeUnits(c)>> \o Images(g, v)
  <2> DEFINE A == Seq(N)
  <2>1. \A a \in Characters : g[a] \in A
    BY <1>1
  <2>2. c \in Characters /\ v \in Seq(Characters)
    OBVIOUS
  <2> HIDE DEF A
  <2>3. ImageFirst(A, g, c, v)
    BY ONLY <2>1, <2>2, ImagesFront, Zenon
  <2> QED
    BY <1>2, <2>3, Zenon DEF A, ImageFirst
<1>7. Spelt(v) \in Seq(Characters) /\ Spelt(<<c>> \o v) = Escaped(c) \o Spelt(v)
  <2>1. /\ FlattenSeq(<<Escaped(c)>> \o Images(f, v)) = Escaped(c) \o FlattenSeq(Images(f, v))
        /\ FlattenSeq(Images(f, v)) \in Seq(Characters)
    <3> DEFINE x == Escaped(c)
               p == Images(f, v)
    <3>1. x \in Seq(Characters) /\ p \in Seq(Seq(Characters))
      BY <1>5
    <3> HIDE DEF x, p
    <3>2. FlattenSeq(<<x>> \o p) = x \o FlattenSeq(p) /\ FlattenSeq(p) \in Seq(Characters)
      BY ONLY <3>1, FlattenFront, Zenon
    <3> QED
      BY <3>2 DEF x, p
  <2>2. Spelt(v) = FlattenSeq(Images(f, v)) /\ Spelt(<<c>> \o v) = FlattenSeq(Images(f, <<c>> \o v))
    BY <1>3, <1>4
  <2> QED
    BY ONLY <1>5, <2>1, <2>2, Zenon
<1>8. UnitsOf(v) \in Seq(N) /\ UnitsOf(<<c>> \o v) = CodeUnits(c) \o UnitsOf(v)
  <2>1. /\ FlattenSeq(<<CodeUnits(c)>> \o Images(g, v)) = CodeUnits(c) \o FlattenSeq(Images(g, v))
        /\ FlattenSeq(Images(g, v)) \in Seq(N)
    <3> DEFINE x == CodeUnits(c)
               p == Images(g, v)
    <3>1. x \in Seq(N) /\ p \in Seq(Seq(N))
      BY <1>6
    <3> HIDE DEF x, p
    <3>2. FlattenSeq(<<x>> \o p) = x \o FlattenSeq(p) /\ FlattenSeq(p) \in Seq(N)
      BY ONLY <3>1, FlattenFront, Zenon
    <3> QED
      BY <3>2 DEF x, p
  <2>2. UnitsOf(v) = FlattenSeq(Images(g, v)) /\ UnitsOf(<<c>> \o v) = FlattenSeq(Images(g, <<c>> \o v))
    BY <1>3, <1>4
  <2> QED
    BY ONLY <1>6, <2>1, <2>2, Zenon
<1> QED
  BY <1>7, <1>8 DEF N

\* The reader, the respelling and the grammar take the rest of a body for the same characters.
Respelt(lexeme, t, i, v) ==
  /\ Reading(lexeme)[i + 1] = Read(Len(t) + 3, v)
  /\ Walk(t)[i] = Spelt(v)
  /\ Mean(t)[i] = UnitsOf(v)

Agreed(lexeme, t, i) ==
  /\ Lone(t)[i] <=> HasLone(Mean(t)[i])
  /\ ~Lone(t)[i] => \E v \in Seq(Characters) : Respelt(lexeme, t, i, v)

LEMMA NothingLeft ==
  ASSUME NEW t \in Seq(Characters), NEW lexeme, Quoted(lexeme, t)
  PROVE  Agreed(lexeme, t, Len(t) + 1)
<1> DEFINE i == Len(t) + 1
<1>1. i \in Nat /\ i > Len(t) /\ i \notin 1..Len(t) /\ i + 1 = Len(t) + 2 /\ (i + 1) + 1 = Len(t) + 3
      /\ i + 1 \in Nat
  BY LenProperties
<1>2. At(t, i) = "end"
  BY <1>1, AtEnd
<1>3. At(lexeme, i + 1) = "quote" /\ lexeme \in Seq(Characters)
  BY <1>1 DEF Quoted
<1> HIDE DEF i
<1>4. Mean(t)[i] = <<>> /\ Lone(t)[i] = FALSE /\ Walk(t)[i] = <<>>
  BY <1>1, <1>2, MeanSteps, LoneSteps, WalkSteps
<1>5. Reading(lexeme)[i + 1] = Read((i + 1) + 1, <<>>)
  BY <1>1, <1>3, ReadSteps
<1>6. <<>> \in Seq(Characters)
  BY EmptySeq
<1>7. ~HasLone(<<>>)
  BY DEF HasLone
<1>8. Respelt(lexeme, t, i, <<>>)
  BY <1>1, <1>4, <1>5, NothingSpelt, Zenon DEF Respelt
<1>9. Agreed(lexeme, t, i)
  BY <1>4, <1>6, <1>7, <1>8, Zenon DEF Agreed
<1> QED
  BY <1>9 DEF i

LEMMA OneMore ==
  ASSUME NEW t \in Seq(Characters), NEW lexeme, NEW c \in Characters, NEW i \in Nat, i >= 1,
         NEW j \in (i + 1)..(Len(t) + 1),
         Spells(lexeme, t, i, j, c), Agreed(lexeme, t, j)
  PROVE  Agreed(lexeme, t, i)
<1>1. Len(t) \in Nat /\ j \in Nat /\ j >= 1 /\ Len(t) + 3 \in Nat
  BY LenProperties
<1>2. /\ Mean(t)[i] = CodeUnits(c) \o Mean(t)[j]
      /\ Lone(t)[i] <=> Lone(t)[j]
      /\ Walk(t)[i] = Escaped(c) \o Walk(t)[j]
      /\ Reading(lexeme)[i + 1] = Before(c, Reading(lexeme)[j + 1])
  BY Zenon DEF Spells
<1>3. Mean(t)[j] \in Seq(0..24)
  BY <1>1, MeanTyped
<1>4. HasLone(Mean(t)[i]) <=> HasLone(Mean(t)[j])
  BY <1>2, <1>3, LonesKept
<1>5. ASSUME ~Lone(t)[i] PROVE \E v \in Seq(Characters) : Respelt(lexeme, t, i, v)
  <2>1. PICK v \in Seq(Characters) : Respelt(lexeme, t, j, v)
    BY <1>2, <1>5, Zenon DEF Agreed
  <2> DEFINE w == <<c>> \o v
             at == Len(t) + 3
  <2>2. w \in Seq(Characters)
    BY OneFirst
  <2>3. Spelt(w) = Escaped(c) \o Spelt(v) /\ UnitsOf(w) = CodeUnits(c) \o UnitsOf(v)
    BY SpeltFront
  <2>4. Before(c, Read(at, v)) = Read(at, w)
    <3>1. Read(at, v).ok = TRUE /\ Read(at, v).at = at /\ Read(at, v).value = v
      BY DEF Read
    <3> QED
      BY <3>1, Zenon DEF Before
  <2> HIDE DEF w
  <2>5. Respelt(lexeme, t, i, w)
    BY <1>2, <2>1, <2>3, <2>4, Zenon DEF Respelt
  <2> QED
    BY <2>2, <2>5
<1>6. Lone(t)[j] <=> HasLone(Mean(t)[j])
  BY Zenon DEF Agreed
<1> QED
  BY <1>2, <1>4, <1>5, <1>6, Zenon DEF Agreed

LEMMA BodyAgreed ==
  ASSUME NEW t \in Seq(Characters), NEW lexeme, Quoted(lexeme, t),
         NEW i \in 1..(Len(t) + 1), Cut(t)[i]
  PROVE  Agreed(lexeme, t, i)
<1> DEFINE n == Len(t)
           P == {k \in Nat : Cut(t)[k] => Agreed(lexeme, t, k)}
<1>1. n \in Nat /\ n + 1 \in Nat
  BY LenProperties
<1>2. ASSUME NEW k \in 1..(n + 1), \A j \in (k + 1)..(n + 1) : j \in P PROVE k \in P
  <2> SUFFICES ASSUME Cut(t)[k] PROVE Agreed(lexeme, t, k)
    BY <1>1
  <2>1. k \in Nat /\ k >= 1 /\ (k = n + 1 \/ k \in 1..n)
    BY <1>1
  <2>2. CASE k = n + 1
    BY <2>2, NothingLeft
  <2>3. CASE k \in 1..n /\ Lone(t)[k] /\ HasLone(Mean(t)[k])
    BY <2>3, Zenon DEF Agreed
  <2>4. CASE k \in 1..n /\ \E c \in Characters, j \in (k + 1)..(n + 1) : Spells(lexeme, t, k, j, c)
    <3>1. PICK c \in Characters, j \in (k + 1)..(n + 1) : Spells(lexeme, t, k, j, c)
      BY <2>4
    <3>2. Cut(t)[j]
      BY <3>1, Zenon DEF Spells
    <3>3. Agreed(lexeme, t, j)
      BY <1>2, <3>2
    <3> QED
      BY <2>1, <3>1, <3>3, OneMore
  <2> QED
    BY <2>1, <2>2, <2>3, <2>4, PlaceStep
<1>3. \A k \in 1..(n + 1) : k \in P
  <2> HIDE DEF P, n
  <2> QED
    BY <1>1, <1>2, Backwards
<1> QED
  BY <1>3

-----------------------------------------------------------------------------
(* What is written means what was read *)

LEMMA ConcatAt ==
  ASSUME NEW e \in Seq(Characters), NEW w \in Seq(Characters)
  PROVE  /\ e \o w \in Seq(Characters) /\ Len(e \o w) = Len(e) + Len(w)
         /\ \A i \in 1..Len(e) : At(e \o w, i) = e[i]
         /\ \A i \in Nat : i >= 1 => At(e \o w, Len(e) + i) = At(w, i)
<1> DEFINE s == e \o w
           p == Len(e)
           q == Len(w)
<1>1. p \in Nat /\ q \in Nat
  BY LenProperties
<1>2. s \in Seq(Characters) /\ Len(s) = p + q
      /\ \A i \in 1..(p + q) : s[i] = IF i <= p THEN e[i] ELSE w[i - p]
  BY ConcatProperties, Zenon
<1> HIDE DEF s
<1>3. ASSUME NEW i \in 1..p PROVE At(s, i) = e[i]
  <2>1. i \in 1..Len(s) /\ i \in Nat /\ i \in 1..(p + q) /\ i <= p
    BY <1>1, <1>2
  <2> QED
    BY <1>2, <2>1, AtEnd
<1>4. ASSUME NEW i \in Nat, i >= 1 PROVE At(s, p + i) = At(w, i)
  <2>1. CASE i <= q
    <3>1. /\ p + i \in 1..Len(s) /\ p + i \in Nat /\ p + i \in 1..(p + q) /\ ~(p + i <= p)
          /\ (p + i) - p = i /\ i \in 1..q
      BY <1>1, <1>2, <1>4, <2>1
    <3>2. At(s, p + i) = s[p + i] /\ At(w, i) = w[i]
      BY <1>2, <3>1, AtEnd
    <3>3. s[p + i] = w[(p + i) - p]
      BY <1>2, <3>1, Zenon
    <3> QED
      BY <3>1, <3>2, <3>3
  <2>2. CASE ~(i <= q)
    <3>1. p + i \notin 1..Len(s) /\ p + i \in Nat /\ i \notin 1..q
      BY <1>1, <1>2, <2>2
    <3> QED
      BY <1>2, <3>1, AtEnd
  <2> QED
    BY <2>1, <2>2
<1> QED
  BY <1>2, <1>3, <1>4 DEF s

\* What is written in front of a body leaves its reading alone.
LEMMA FrontKeeps ==
  ASSUME NEW e \in Seq(Characters), NEW w \in Seq(Characters),
         NEW i \in 1..(Len(w) + 1), Cut(w)[i]
  PROVE  Cut(e \o w)[Len(e) + i] /\ Mean(e \o w)[Len(e) + i] = Mean(w)[i]
<1> DEFINE s == e \o w
           p == Len(e)
           n == Len(w)
           Kept(k) == Cut(s)[p + k] /\ Mean(s)[p + k] = Mean(w)[k]
           P == {k \in Nat : Cut(w)[k] => Kept(k)}
<1>1. p \in Nat /\ n \in Nat /\ n + 1 \in Nat
  BY LenProperties
<1>2. s \in Seq(Characters) /\ Len(s) = p + n /\ \A k \in Nat : k >= 1 => At(s, p + k) = At(w, k)
  BY ConcatAt
<1> HIDE DEF s
<1>3. ASSUME NEW k \in 1..(n + 1), \A j \in (k + 1)..(n + 1) : j \in P PROVE k \in P
  <2> SUFFICES ASSUME Cut(w)[k] PROVE Kept(k)
    BY <1>1
  <2>1. k \in Nat /\ k >= 1 /\ p + k \in Nat /\ (k = n + 1 \/ k <= n)
    BY <1>1
  <2>2. CASE k = n + 1
    <3> DEFINE x == p + k
    <3>1. k > Len(w) /\ x > Len(s) /\ x \in Nat
      <4>1. k > n /\ x > p + n /\ x \in Nat
        <5> HIDE DEF p, n
        <5> QED
          BY ONLY <1>1, <2>2 DEF x
      <4> QED
        BY <1>2, <4>1
    <3> HIDE DEF x
    <3>2. Cut(s)[x] /\ Mean(s)[x] = <<>>
      BY <1>2, <3>1, CutSteps, MeanSteps, Zenon
    <3>3. Mean(w)[k] = <<>>
      BY <2>1, <3>1, MeanSteps, Zenon
    <3> QED
      BY <3>2, <3>3 DEF x
  <2>3. CASE k <= n
    <3> DEFINE j == PastSpelling(w, k)
    <3>1. SpellingAhead(w, k)
      BY <2>1, <2>3, CutSteps
    <3>2. j \in (k + 1)..(n + 1)
      BY <2>1, <3>1, PastSpellingAhead
    <3>3. Alike(s, p + k, w, k)
      <4> SUFFICES ASSUME NEW d \in 0..3 PROVE At(s, (p + k) + d) = At(w, k + d)
        BY DEF Alike
      <4>1. k + d \in Nat /\ k + d >= 1 /\ p + (k + d) = (p + k) + d
        BY <1>1, <2>1
      <4>2. At(s, p + (k + d)) = At(w, k + d)
        BY ONLY <1>2, <4>1, Zenon
      <4> QED
        BY <4>1, <4>2
    <3>4. /\ SpellingAhead(s, p + k) /\ PastSpelling(s, p + k) = (p + k) + (j - k)
          /\ SpellingUnits(s, p + k) = SpellingUnits(w, k)
      <4> DEFINE x == p + k
      <4>1. s \in Seq(Characters) /\ x \in Nat /\ k \in Nat /\ Alike(s, x, w, k)
        BY <1>2, <2>1, <3>3
      <4> HIDE DEF p, x, s
      <4>2. /\ SpellingAhead(s, x) /\ PastSpelling(s, x) = x + (PastSpelling(w, k) - k)
            /\ SpellingUnits(s, x) = SpellingUnits(w, k)
        BY ONLY <3>1, <4>1, w \in Seq(Characters), SameSpelling
      <4> QED
        BY <4>2, Zenon DEF x
    <3>5. Cut(w)[j] /\ Mean(w)[k] = SpellingUnits(w, k) \o Mean(w)[j]
      BY <2>1, <3>1, CutSteps, MeanSteps
    <3> HIDE DEF j
    <3>6. (p + k) + (j - k) = p + j /\ j \in Nat
      BY <1>1, <2>1, <3>2
    <3>7. Cut(s)[p + j] /\ Mean(s)[p + j] = Mean(w)[j]
      BY <1>3, <3>2, <3>5
    <3>8. /\ Cut(s)[p + k] <=> Cut(s)[p + j]
          /\ Mean(s)[p + k] = SpellingUnits(s, p + k) \o Mean(s)[p + j]
      <4> DEFINE x == p + k
      <4>1. PastSpelling(s, x) = p + j /\ SpellingAhead(s, x) /\ x \in Nat
        BY <2>1, <3>4, <3>6
      <4> HIDE DEF x, p
      <4>2. /\ Cut(s)[x] <=> Cut(s)[PastSpelling(s, x)]
            /\ Mean(s)[x] = SpellingUnits(s, x) \o Mean(s)[PastSpelling(s, x)]
        BY <1>2, <4>1, CutSteps, MeanSteps, Zenon
      <4> QED
        BY <4>1, <4>2, Zenon DEF x
    <3> QED
      BY <3>4, <3>5, <3>7, <3>8, Zenon
  <2> QED
    BY <2>1, <2>2, <2>3
<1>4. \A k \in 1..(n + 1) : k \in P
  <2> HIDE DEF P, n
  <2> QED
    BY <1>1, <1>3, Backwards
<1> QED
  BY <1>4 DEF s

\* The writer's spelling of a character is one of the grammar's for it.
LEMMA FirstSpelling ==
  ASSUME NEW c \in Characters, NEW w \in Seq(Characters)
  PROVE  /\ SpellingAhead(Escaped(c) \o w, 1)
         /\ PastSpelling(Escaped(c) \o w, 1) = Len(Escaped(c)) + 1
         /\ SpellingUnits(Escaped(c) \o w, 1) = CodeUnits(c)
<1> DEFINE e == Escaped(c)
           s == e \o w
           Right == /\ SpellingAhead(s, 1) /\ PastSpelling(s, 1) = Len(e) + 1
                    /\ SpellingUnits(s, 1) = CodeUnits(c)
<1>1. e \in Seq(Characters)
  BY EscapedTyped
<1> HIDE DEF e
<1>2. s \in Seq(Characters) /\ \A i \in 1..Len(e) : At(s, i) = e[i]
  BY <1>1, ConcatAt
<1> HIDE DEF s
<1>3. /\ "\\" \notin Plain /\ "u" \notin DOMAIN Short
  BY PlaceKinds
<1>4. 1 + 1 = 2 /\ 1 + 2 = 3 /\ 1 + 4 = 5 /\ 2 + 1 = 3 /\ 4 + 1 = 5 /\ 3 + 1 = 4
  OBVIOUS
<1>5. ASSUME c \in Plain PROVE Right
  <2>1. e = <<c>>
    BY <1>5, EscapedKinds DEF e
  <2>2. Len(e) = 1 /\ e[1] = c /\ 1 \in 1..Len(e)
    BY <2>1
  <2>3. At(s, 1) = c
    BY <1>2, <2>2
  <2>4. At(s, 1) # "\\"
    BY <1>3, <1>5, <2>3
  <2> QED
    BY <1>5, <2>2, <2>3, <2>4, Zenon DEF SpellingAhead, PastSpelling, SpellingUnits
<1>6. ASSUME NEW d \in DOMAIN Short, e = <<"\\", d>>, c = Short[d] PROVE Right
  <2>1. Len(e) = 2 /\ e[1] = "\\" /\ e[2] = d /\ 1 \in 1..Len(e) /\ 2 \in 1..Len(e)
    BY <1>6
  <2>2. At(s, 1) = "\\" /\ At(s, 1 + 1) = d /\ d # "u"
    BY <1>2, <1>3, <1>4, <2>1
  <2>3. SpellingAhead(s, 1) /\ PastSpelling(s, 1) = 1 + 2 /\ SpellingUnits(s, 1) = CodeUnits(Short[d])
    BY <2>2, Zenon DEF SpellingAhead, PastSpelling, SpellingUnits
  <2> QED
    BY <1>4, <1>6, <2>1, <2>3
<1>7. ASSUME c = "ctl" PROVE Right
  <2>1. e = <<"\\", "u", "0", "0">>
    BY <1>7, EscapedKinds DEF e
  <2>2. Len(e) = 4 /\ e[1] = "\\" /\ e[2] = "u" /\ e[3] = "0" /\ e[4] = "0"
    BY <2>1
  <2>3. At(s, 1) = "\\" /\ At(s, 2) = "u" /\ At(s, 3) = "0" /\ At(s, 4) = "0"
    <3>1. 1 \in 1..Len(e) /\ 2 \in 1..Len(e) /\ 3 \in 1..Len(e) /\ 4 \in 1..Len(e)
      BY <2>2
    <3> QED
      BY <1>2, <2>2, <3>1
  <2>4. HexAhead(s, 3)
    <3>1. "0" \in DOMAIN HexVal
      BY DigitsListed
    <3> QED
      BY <1>4, <2>3, <3>1, Zenon DEF HexAhead
  <2>5. ReadHex4(s, 3) = 0
    <3>1. s[3] = "0" /\ s[3 + 1] = "0"
      <4>1. 3 \in Nat /\ 4 \in Nat /\ "0" # "end"
        OBVIOUS
      <4> QED
        BY <1>4, <2>3, <4>1, Zenon DEF At
    <3>2. ReadHex4(s, 3) = IF HexAhead(s, 3) THEN (5 * HexVal[s[3]]) + HexVal[s[3 + 1]] ELSE None
      BY HexRead
    <3>3. HexVal["0"] = 0 /\ (5 * 0) + 0 = 0
      BY DigitsListed
    <3> QED
      BY <2>4, <3>1, <3>2, <3>3
  <2>6. CodeUnits("ctl") = <<0>>
    <3>1. 0 \in Scalars /\ CharOf(0) = "ctl"
      BY UnitsListed DEF Scalars, Surrogates, CharOf
    <3> QED
      BY <3>1, CodeUnitsBasic
  <2>7. /\ SpellingAhead(s, 1) /\ PastSpelling(s, 1) = 1 + 4
        /\ SpellingUnits(s, 1) = <<ReadHex4(s, 3)>>
    BY <1>4, <2>3, <2>4 DEF SpellingAhead, PastSpelling, SpellingUnits
  <2> QED
    BY <1>4, <1>7, <2>2, <2>5, <2>6, <2>7
<1>8. CASE c = "quote"
  <2>1. e = <<"\\", "quote">> /\ "quote" \in DOMAIN Short /\ c = Short["quote"]
    BY <1>8, EscapedKinds, ShortListed DEF e
  <2> QED
    BY <1>6, <2>1 DEF s, e
<1>9. CASE c = "\\"
  <2>1. e = <<"\\", "\\">> /\ "\\" \in DOMAIN Short /\ c = Short["\\"]
    BY <1>9, EscapedKinds, ShortListed DEF e
  <2> QED
    BY <1>6, <2>1 DEF s, e
<1>10. CASE c = "lf"
  <2>1. e = <<"\\", "n">> /\ "n" \in DOMAIN Short /\ c = Short["n"]
    BY <1>10, EscapedKinds, ShortListed DEF e
  <2> QED
    BY <1>6, <2>1 DEF s, e
<1> QED
  BY <1>5, <1>7, <1>8, <1>9, <1>10, PlainOrEscaped DEF s, e

LEMMA FirstAndRest ==
  ASSUME NEW S, NEW v \in Seq(S), v # <<>>
  PROVE  Head(v) \in S /\ Tail(v) \in Seq(S) /\ Len(Tail(v)) = Len(v) - 1 /\ v = <<Head(v)>> \o Tail(v)
<1> DEFINE c == Head(v)
           r == Tail(v)
           w == <<c>> \o r
           n == Len(v)
<1>1. c \in S /\ r \in Seq(S) /\ Len(r) = n - 1 /\ \A i \in 1..Len(r) : r[i] = v[i + 1]
  BY HeadTailProperties
<1>2. n \in Nat /\ n >= 1
  BY LenProperties, EmptySeq
<1>3. c = v[1]
  OBVIOUS
<1> HIDE DEF c, r, n
<1>4. w \in Seq(S) /\ Len(w) = 1 + Len(r) /\ w[1] = c /\ \A k \in 1..Len(r) : w[k + 1] = r[k]
  BY ONLY <1>1, OneFirst
<1> HIDE DEF w
<1>5. Len(w) = n
  BY <1>1, <1>2, <1>4
<1>6. ASSUME NEW k \in 1..n PROVE w[k] = v[k]
  <2>1. CASE k = 1
    BY <1>3, <1>4, <2>1
  <2>2. CASE k # 1
    <3>1. k - 1 \in 1..Len(r) /\ (k - 1) + 1 = k
      BY <1>1, <1>2, <2>2
    <3> QED
      BY <1>1, <1>4, <3>1
  <2> QED
    BY <2>1, <2>2
<1>7. w = v
  BY <1>4, <1>5, <1>6, SeqEqual DEF n
<1> QED
  BY <1>1, <1>7 DEF w, c, r, n

\* What is written for characters is a body, and means their code units.
LEMMA SpeltMeans ==
  ASSUME NEW v \in Seq(Characters)
  PROVE  Cut(Spelt(v))[1] /\ Mean(Spelt(v))[1] = UnitsOf(v)
<1> DEFINE Right(w) == Cut(Spelt(w))[1] /\ Mean(Spelt(w))[1] = UnitsOf(w)
           D == {d \in Nat : \A w \in Seq(Characters) : Len(w) = d => Right(w)}
<1>1. 0 \in D
  <2>1. Right(<<>>)
    <3>1. <<>> \in Seq(Characters) /\ 1 > Len(<<>>)
      BY EmptySeq
    <3>2. Cut(<<>>)[1] /\ Mean(<<>>)[1] = <<>>
      BY <3>1, CutSteps, MeanSteps
    <3> QED
      BY <3>2, NothingSpelt
  <2>2. \A w \in Seq(Characters) : Len(w) = 0 => w = <<>>
    BY EmptySeq
  <2> HIDE DEF Right
  <2> QED
    BY <2>1, <2>2
<1>2. ASSUME NEW d \in Nat, d \in D PROVE d + 1 \in D
  <2> SUFFICES ASSUME NEW w \in Seq(Characters), Len(w) = d + 1 PROVE Right(w)
    <3> HIDE DEF Right
    <3> QED
      OBVIOUS
  <2> DEFINE c == Head(w)
             r == Tail(w)
  <2>1. w # <<>>
    BY EmptySeq
  <2>2. c \in Characters /\ r \in Seq(Characters) /\ Len(r) = Len(w) - 1 /\ w = <<c>> \o r
    BY <2>1, FirstAndRest
  <2> HIDE DEF c, r
  <2>3. Right(r)
    <3>1. Len(r) = d
      BY <2>2
    <3> HIDE DEF Right
    <3> QED
      BY <1>2, <2>2, <3>1
  <2> DEFINE e == Escaped(c)
             s == Spelt(r)
             k == Len(e)
  <2>4. /\ s \in Seq(Characters) /\ Spelt(w) = e \o s
        /\ UnitsOf(w) = CodeUnits(c) \o UnitsOf(r)
    BY <2>2, SpeltFront
  <2>5. e \in Seq(Characters) /\ k \in Nat
    BY <2>2, EscapedTyped, LenProperties
  <2>6. /\ SpellingAhead(e \o s, 1) /\ PastSpelling(e \o s, 1) = k + 1
        /\ SpellingUnits(e \o s, 1) = CodeUnits(c)
    BY <2>2, <2>4, FirstSpelling
  <2>7. Cut(s)[1] /\ Mean(s)[1] = UnitsOf(r)
    BY <2>3
  <2> HIDE DEF e, s
  <2>8. Cut(e \o s)[k + 1] /\ Mean(e \o s)[k + 1] = Mean(s)[1]
    <3>1. 1 \in 1..(Len(s) + 1)
      BY <2>4, LenProperties
    <3> QED
      BY ONLY <2>4, <2>5, <2>7, <3>1, FrontKeeps
  <2> DEFINE x == e \o s
  <2>9. x \in Seq(Characters) /\ 1 \in Nat
    BY <2>4, <2>5, ConcatAt
  <2> HIDE DEF x
  <2>10. /\ Cut(x)[1] <=> Cut(x)[PastSpelling(x, 1)]
         /\ Mean(x)[1] = SpellingUnits(x, 1) \o Mean(x)[PastSpelling(x, 1)]
    <3>1. SpellingAhead(x, 1)
      BY <2>6 DEF x
    <3> QED
      BY <2>9, <3>1, CutSteps, MeanSteps, Zenon
  <2>11. Cut(x)[1] /\ Mean(x)[1] = CodeUnits(c) \o UnitsOf(r)
    BY <2>6, <2>7, <2>8, <2>10, Zenon DEF x
  <2> QED
    BY <2>4, <2>11, Zenon DEF x
<1>3. Nat \subseteq D
  <2> HIDE DEF D
  <2> QED
    BY <1>1, <1>2, EveryNumber
<1>4. Len(v) \in D
  BY <1>3, LenProperties
<1> QED
  BY <1>4

-----------------------------------------------------------------------------
(* A string and its spelling *)

\* What is between the quotes.
LEMMA StringParts ==
  ASSUME NEW x \in Seq(Characters), Len(x) >= 2, x[Len(x)] = "quote"
  PROVE  /\ Inner(x) \in Seq(Characters) /\ Len(Inner(x)) = Len(x) - 2
         /\ \A i \in 1..(Len(x) - 2) : Inner(x)[i] = x[i + 1]
         /\ Quoted(x, Inner(x))
<1> DEFINE n == Len(x)
           b == Inner(x)
<1>1. n \in Nat /\ n >= 2
  BY LenProperties
<1>2. b \in Seq(Characters) /\ Len(b) = n - 2 /\ \A i \in 1..(n - 2) : b[i] = x[i + 1]
  <2>1. \A i \in 2..(n - 1) : x[i] \in Characters
    BY <1>1
  <2>2. 2 \in Int /\ n - 1 \in Int
    BY <1>1
  <2> DEFINE c == SubSeq(x, 2, n - 1)
  <2>3. /\ c \in Seq(Characters) /\ Len(c) = IF 2 <= n - 1 THEN (n - 1) - 2 + 1 ELSE 0
        /\ \A i \in 1..((n - 1) - 2 + 1) : c[i] = x[2 + i - 1]
    BY <2>1, <2>2, SubSeqProperties
  <2>4. b = c
    BY DEF Inner
  <2>5. \A i \in 1..(n - 2) : 2 + i - 1 = i + 1
    BY <1>1
  <2> HIDE DEF b, c
  <2> QED
    BY <1>1, <2>3, <2>4, <2>5
<1> HIDE DEF b
<1>3. At(x, Len(b) + 2) = "quote"
  <2>1. Len(b) + 2 = n /\ n \in 1..n
    BY <1>1, <1>2
  <2> QED
    BY <1>1, <2>1, AtEnd
<1>4. ASSUME NEW i \in Nat, i >= 1, At(b, i) # "end" PROVE At(x, i + 1) = At(b, i)
  <2>1. i \in 1..Len(b)
    BY <1>2, <1>4, AtEnd
  <2>2. i \in 1..(n - 2) /\ i + 1 \in 1..n /\ i + 1 \in Nat
    BY <1>1, <1>2, <2>1
  <2>3. At(b, i) = b[i] /\ At(x, i + 1) = x[i + 1]
    BY <1>2, <2>1, <2>2, AtEnd
  <2> QED
    BY <1>2, <2>2, <2>3
<1>5. Quoted(x, b)
  BY <1>3, <1>4 DEF Quoted
<1> QED
  BY <1>2, <1>5 DEF b

LEMMA AroundBody ==
  ASSUME NEW b \in Seq(Characters)
  PROVE  LET x == <<"quote">> \o b \o <<"quote">>
         IN /\ x \in Seq(Characters) /\ Len(x) >= 2 /\ x[1] = "quote" /\ x[Len(x)] = "quote"
            /\ Inner(x) = b
<1> DEFINE q == <<"quote">>
           y == q \o b
           x == y \o q
           n == Len(b)
<1>1. "quote" \in Characters
  BY CharactersListed DEF BasicNames
<1>2. q \in Seq(Characters) /\ Len(q) = 1 /\ q[1] = "quote"
  BY <1>1
<1>3. n \in Nat
  BY LenProperties
<1>4. y \in Seq(Characters) /\ Len(y) = 1 + n /\ y[1] = "quote" /\ \A k \in 1..n : y[k + 1] = b[k]
  BY <1>1, OneFirst
<1> HIDE DEF q, y
<1>5. /\ x \in Seq(Characters) /\ Len(x) = Len(y) + Len(q)
      /\ \A i \in 1..(Len(y) + Len(q)) : x[i] = IF i <= Len(y) THEN y[i] ELSE q[i - Len(y)]
  BY ONLY <1>2, <1>4, ConcatProperties, Zenon
<1> HIDE DEF x
<1>6. Len(x) = n + 2 /\ x[1] = "quote" /\ x[n + 2] = "quote"
  <2>1. Len(y) + Len(q) = n + 2 /\ Len(y) = n + 1
    BY <1>2, <1>3, <1>4
  <2>2. 1 \in 1..(n + 2) /\ 1 <= n + 1 /\ n + 2 \in 1..(n + 2) /\ ~(n + 2 <= n + 1) /\ (n + 2) - (n + 1) = 1
    BY <1>3
  <2>3. x[1] = y[1]
    BY ONLY <1>5, <2>1, <2>2, Zenon
  <2>4. x[n + 2] = q[1]
    BY ONLY <1>5, <2>1, <2>2, Zenon
  <2> QED
    BY ONLY <1>2, <1>4, <1>5, <2>1, <2>3, <2>4, Zenon
<1>7. \A k \in 1..n : x[k + 1] = b[k]
  <2> TAKE k \in 1..n
  <2>1. k + 1 \in 1..(Len(y) + Len(q)) /\ k + 1 <= Len(y)
    BY <1>2, <1>3, <1>4
  <2>2. x[k + 1] = y[k + 1]
    BY <1>5, <2>1, Zenon
  <2> QED
    BY <1>4, <2>2
<1>8. Inner(x) = b
  <2>1. Len(x) >= 2 /\ x[Len(x)] = "quote" /\ Len(x) - 2 = n
    BY <1>3, <1>6
  <2> DEFINE c == Inner(x)
  <2>2. c \in Seq(Characters) /\ Len(c) = n /\ \A i \in 1..n : c[i] = x[i + 1]
    BY <1>5, <2>1, StringParts
  <2> HIDE DEF c
  <2>3. \A i \in 1..Len(c) : c[i] = b[i]
    BY <1>7, <2>2
  <2>4. c = b
    BY <2>2, <2>3, SeqEqual
  <2> QED
    BY <2>4 DEF c
<1>9. Len(x) >= 2 /\ x[Len(x)] = "quote"
  BY <1>3, <1>6
<1>10. /\ x \in Seq(Characters) /\ Len(x) >= 2 /\ x[1] = "quote" /\ x[Len(x)] = "quote"
       /\ Inner(x) = b
  BY <1>5, <1>6, <1>8, <1>9
<1> QED
  BY <1>10, Zenon DEF x, y, q

\* What the writer writes is a string, and means the units of what it was given.
LEMMA WrittenMeans ==
  ASSUME NEW v \in Seq(Characters)
  PROVE  /\ WriteEscaped(v) = <<"quote">> \o Spelt(v) \o <<"quote">>
         /\ IsString(WriteEscaped(v)) /\ Meaning(WriteEscaped(v)) = UnitsOf(v)
<1> DEFINE b == Spelt(v)
           x == <<"quote">> \o b \o <<"quote">>
<1>1. WriteEscaped(v) = x
  BY Zenon DEF WriteEscaped, Spelt
<1>2. b \in Seq(Characters)
  <2>1. "n" \in Characters
    BY CharactersListed DEF BasicNames
  <2> QED
    BY <2>1, SpeltFront
<1>3. Cut(b)[1] /\ Mean(b)[1] = UnitsOf(v)
  BY SpeltMeans
<1> HIDE DEF b
<1>4. /\ x \in Seq(Characters) /\ Len(x) >= 2 /\ x[1] = "quote" /\ x[Len(x)] = "quote"
      /\ Inner(x) = b
  BY <1>2, AroundBody, Zenon
<1> HIDE DEF x
<1>5. IsString(x)
  BY <1>3, <1>4, BodyIsCut, Zenon DEF IsString
<1>6. Meaning(x) = UnitsOf(v)
  BY <1>3, <1>4, MeaningIsMean, Zenon
<1> QED
  BY <1>1, <1>5, <1>6, Zenon DEF x, b

\* E1's spelling of a string is a string and means what it means.
LEMMA StringKept ==
  ASSUME NEW x \in Seq(Characters), IsString(x)
  PROVE  /\ IsString(EmitString(x)) /\ Meaning(EmitString(x)) = Meaning(x)
         /\ HasLone(Meaning(x)) \/ IsProtected(x) => EmitString(x) = x
         /\ ~(HasLone(Meaning(x)) \/ IsProtected(x)) =>
              EmitString(x) = WriteEscaped(ParseString(x, 1).value)
<1> DEFINE t == Inner(x)
<1>1. Len(x) >= 2 /\ x[Len(x)] = "quote" /\ IsBody(t)
  BY Zenon DEF IsString
<1>2. t \in Seq(Characters) /\ Quoted(x, t)
  BY <1>1, StringParts
<1>3. Cut(t)[1] /\ Meaning(x) = Mean(t)[1] /\ (HasLoneSurrogate(t) <=> Lone(t)[1])
  BY <1>1, BodyIsCut, MeaningIsMean, LoneIsLone, Zenon
<1>4. Canonicalize(x) = IF HasLoneSurrogate(t) THEN x
                        ELSE <<"quote">> \o Walk(t)[1] \o <<"quote">>
  BY CanonicalIsWalked, Zenon
<1> HIDE DEF t
<1>5. Agreed(x, t, 1)
  <2>1. 1 \in 1..(Len(t) + 1)
    BY <1>2, LenProperties
  <2> QED
    BY <1>2, <1>3, <2>1, BodyAgreed
<1>6. Lone(t)[1] <=> HasLone(Meaning(x))
  BY <1>3, <1>5, Zenon DEF Agreed
<1>7. CASE HasLone(Meaning(x)) \/ IsProtected(x)
  <2>1. EmitString(x) = x
    BY <1>3, <1>4, <1>6, <1>7, Zenon DEF EmitString
  <2> QED
    BY <1>7, <2>1
<1>8. CASE ~(HasLone(Meaning(x)) \/ IsProtected(x))
  <2>1. PICK v \in Seq(Characters) : Respelt(x, t, 1, v)
    BY <1>5, <1>6, <1>8, Zenon DEF Agreed
  <2>2. ParseString(x, 1).value = v
    <3>1. 1 + 1 = 2
      OBVIOUS
    <3>2. ParseString(x, 1) = Read(Len(t) + 3, v)
      BY <2>1, <3>1, StringIsReading, Zenon DEF Respelt
    <3>3. Read(Len(t) + 3, v).value = v
      BY DEF Read
    <3> QED
      BY <3>2, <3>3, Zenon
  <2>3. /\ WriteEscaped(v) = <<"quote">> \o Spelt(v) \o <<"quote">>
        /\ IsString(WriteEscaped(v)) /\ Meaning(WriteEscaped(v)) = UnitsOf(v)
    BY WrittenMeans
  <2>4. Walk(t)[1] = Spelt(v) /\ Meaning(x) = UnitsOf(v)
    BY <1>3, <2>1, Zenon DEF Respelt
  <2>5. EmitString(x) = WriteEscaped(v)
    BY <1>3, <1>4, <1>6, <1>8, <2>3, <2>4, Zenon DEF EmitString
  <2> QED
    BY <1>8, <2>2, <2>3, <2>4, <2>5, Zenon
<1> QED
  BY <1>7, <1>8

\* A text is never empty, and a string is typed in characters.
Typing ==
  /\ text \in Seq(Characters \cup NumberChars \cup ToSet(Null)) /\ text # <<>>
  /\ IsText => text \in Seq(Characters)

LEMMA InitTyping == Init => Typing
<1> SUFFICES ASSUME Init PROVE Typing
  OBVIOUS
<1>1. {"quote", "-", "0", "1", "n"} \subseteq Characters
  BY CharactersListed DEF BasicNames
<1>2. \A S, c : c \in S => <<c>> \in Seq(S) /\ <<c>> # <<>>
  OBVIOUS
<1>3. PICK c \in {"quote", "-", "0", "1", "n"} : text = <<c>>
  BY DEF Init
<1> QED
  BY <1>1, <1>2, <1>3, Zenon DEF Typing

LEMMA NextTyping == Typing /\ [Next]_vars => Typing'
<1> SUFFICES ASSUME Typing, [Next]_vars PROVE Typing'
  OBVIOUS
<1> DEFINE S == Characters \cup NumberChars \cup ToSet(Null)
           n == Len(text)
<1>1. "quote" \in Characters
  BY CharactersListed DEF BasicNames
<1>2. n \in Nat /\ n >= 1 /\ text \in Seq(S)
  BY LenProperties, EmptySeq DEF Typing
<1>3. CASE TypeString
  <2>1. text \in Seq(Characters)
    BY <1>3 DEF TypeString, Typing, IsText
  <2>2. PICK piece \in Seq(Characters) : text' = text \o piece
    <3>1. <<"quote">> \in Seq(Characters)
      BY <1>1
    <3> QED
      BY <1>3, <3>1, JsonTextAssumption, Zenon DEF TypeString
  <2>3. text \o piece \in Seq(Characters) /\ Len(text \o piece) = Len(text) + Len(piece)
    BY <2>1, ConcatProperties, Zenon
  <2>4. text' \in Seq(S) /\ text' \in Seq(Characters)
    BY <2>2, <2>3
  <2>5. text' # <<>>
    <3>1. Len(text') = n + Len(piece) /\ Len(piece) \in Nat
      BY <2>2, <2>3, LenProperties
    <3> QED
      BY <1>2, <3>1, EmptySeq
  <2> QED
    BY <2>4, <2>5 DEF Typing
<1>4. ASSUME NEW c \in S, text' = Append(text, c), Typed # "quote" PROVE Typing'
  <2>1. /\ Append(text, c) \in Seq(S) /\ Append(text, c) # <<>>
        /\ \A i \in 1..n : Append(text, c)[i] = text[i]
    <3>1. text \in Seq(S) /\ c \in S
      BY <1>2
    <3> HIDE DEF S
    <3> QED
      BY ONLY <3>1, AppendProperties
  <2>2. text'[1] = text[1]
    BY <1>2, <1>4, <2>1
  <2> QED
    BY <1>4, <2>1, <2>2 DEF Typing, IsText, Typed
<1>5. CASE TypeNumber
  <2>1. Typed # "quote"
    BY <1>5 DEF TypeNumber
  <2>2. PICK c \in NumberChars : text' = Append(text, c)
    BY <1>5, Zenon DEF TypeNumber
  <2> QED
    BY <1>4, <2>1, <2>2
<1>6. CASE TypeLiteral
  <2>1. Typed # "quote"
    BY <1>6 DEF TypeLiteral
  <2>2. PICK c \in ToSet(Null) : text' = Append(text, c)
    BY <1>6, Zenon DEF TypeLiteral
  <2> QED
    BY <1>4, <2>1, <2>2
<1>7. CASE UNCHANGED vars
  BY <1>7 DEF vars, Typing, IsText, Typed
<1> QED
  BY <1>3, <1>5, <1>6, <1>7 DEF Next

\* What the scanner of the tape takes for a string is one.
LEMMA LexemeIsString ==
  ASSUME Typing, IsText, ScanValue(text).ok
  PROVE  LET x == Prefix(ScanValue(text).at - 1)
         IN x \in Seq(Characters) /\ IsString(x)
<1> DEFINE n == Len(text)
           a == ScanValue(text).at
           x == Prefix(a - 1)
<1>1. text \in Seq(Characters) /\ text # <<>> /\ text[1] = "quote"
  BY DEF Typing, IsText, Typed
<1>2. n \in Nat /\ n >= 1
  BY <1>1, LenProperties, EmptySeq
<1>3. ScanValue(text) = Scan(text)[2]
  <2>1. ScanValue(text) = ScanString(text, 1)
    BY <1>1, Zenon DEF ScanValue
  <2>2. 1 + 1 = 2
    OBVIOUS
  <2> QED
    BY <2>1, <2>2, ScanIsScan, Zenon
<1>4. /\ a \in 3..(n + 1) /\ text[a - 1] = "quote"
      /\ SubSeq(text, 2, a - 2) \in Seq(Characters) /\ Len(SubSeq(text, 2, a - 2)) = a - 3
      /\ \A i \in 1..(a - 3) : SubSeq(text, 2, a - 2)[i] = text[i + 1]
      /\ Cut(SubSeq(text, 2, a - 2))[1]
  BY <1>1, <1>2, <1>3, ScanKeeps
<1> HIDE DEF a
<1>5. x \in Seq(Characters) /\ Len(x) = a - 1 /\ \A i \in 1..(a - 1) : x[i] = text[i]
  <2>1. \A i \in 1..(a - 1) : text[i] \in Characters
    BY <1>1, <1>2, <1>4
  <2>2. 1 \in Int /\ a - 1 \in Int
    BY <1>4
  <2> DEFINE c == SubSeq(text, 1, a - 1)
  <2>3. /\ c \in Seq(Characters) /\ Len(c) = IF 1 <= a - 1 THEN (a - 1) - 1 + 1 ELSE 0
        /\ \A i \in 1..((a - 1) - 1 + 1) : c[i] = text[1 + i - 1]
    BY <2>1, <2>2, SubSeqProperties
  <2>4. x = c
    BY DEF Prefix
  <2>5. \A i \in 1..(a - 1) : 1 + i - 1 = i
    BY <1>4
  <2> HIDE DEF x, c
  <2> QED
    BY <1>4, <2>3, <2>4, <2>5
<1> HIDE DEF x
<1>6. Len(x) >= 2 /\ x[Len(x)] = "quote" /\ x[1] = "quote"
  <2>1. 1 \in 1..(a - 1) /\ a - 1 \in 1..(a - 1) /\ a - 1 >= 2
    BY <1>4
  <2> QED
    BY <1>1, <1>4, <1>5, <2>1
<1>7. Inner(x) = SubSeq(text, 2, a - 2)
  <2> DEFINE b == Inner(x)
             c == SubSeq(text, 2, a - 2)
  <2>1. b \in Seq(Characters) /\ Len(b) = Len(x) - 2 /\ \A i \in 1..(Len(x) - 2) : b[i] = x[i + 1]
    BY <1>5, <1>6, StringParts
  <2> HIDE DEF b
  <2>2. c \in Seq(Characters) /\ Len(c) = a - 3 /\ \A i \in 1..(a - 3) : c[i] = text[i + 1]
    BY <1>4
  <2> HIDE DEF c
  <2>3. Len(b) = a - 3
    BY <1>4, <1>5, <2>1
  <2>4. \A i \in 1..(a - 3) : b[i] = c[i]
    <3> TAKE i \in 1..(a - 3)
    <3>1. i \in 1..(Len(x) - 2) /\ i + 1 \in 1..(a - 1)
      BY <1>4, <1>5
    <3> QED
      BY <1>5, <2>1, <2>2, <3>1
  <2>5. b = c
    BY <2>1, <2>2, <2>3, <2>4, SeqEqual
  <2> QED
    BY <2>5 DEF b, c
<1>8. IsString(x)
  BY <1>4, <1>6, <1>7, BodyIsCut, Zenon DEF IsString
<1>9. x \in Seq(Characters) /\ IsString(x)
  BY <1>5, <1>8
<1> QED
  BY <1>9, Zenon DEF x, a

LEMMA TextsKeepMeaning == Typing => SpellingKeepsMeaning
<1> SUFFICES ASSUME Typing, IsText, ScanValue(text).ok
             PROVE  LET x == Prefix(ScanValue(text).at - 1)
                    IN /\ IsString(EmitString(x)) /\ Meaning(EmitString(x)) = Meaning(x)
                       /\ IF HasLone(Meaning(x)) \/ IsProtected(x)
                          THEN EmitString(x) = x
                          ELSE EmitString(x) = WriteEscaped(ParseString(x, 1).value)
  BY Zenon DEF SpellingKeepsMeaning
<1> DEFINE x == Prefix(ScanValue(text).at - 1)
<1>1. x \in Seq(Characters) /\ IsString(x)
  BY LexemeIsString, Zenon
<1> HIDE DEF x
<1>2. /\ IsString(EmitString(x)) /\ Meaning(EmitString(x)) = Meaning(x)
      /\ IF HasLone(Meaning(x)) \/ IsProtected(x)
         THEN EmitString(x) = x
         ELSE EmitString(x) = WriteEscaped(ParseString(x, 1).value)
  BY <1>1, StringKept, Zenon
<1> QED
  BY <1>2, Zenon DEF x

\* E1 respells strings without changing what they mean: of every text that is typed, the
\* lexeme the scanner finds and E1's spelling of it are strings that mean the same code
\* units (e1_minify.rs:36-53).
THEOREM TheSpellingKeepsTheMeaning == Spec => []SpellingKeepsMeaning
<1>1. Spec => []Typing
  BY InitTyping, NextTyping, PTL DEF Spec
<1> QED
  BY <1>1, TextsKeepMeaning, PTL

-----------------------------------------------------------------------------
(* What runs cost *)

\* A product is no larger for a smaller factor.
LEMMA NoLargerProduct ==
  ASSUME NEW d \in Nat, NEW p \in Int, NEW q \in Int, p <= q
  PROVE  d * p <= d * q /\ d * p \in Int /\ d * q \in Int
<1>1. d * (q - p) \in Nat
  OBVIOUS
<1>2. d * q = d * p + d * (q - p) /\ d * p \in Int /\ d * q \in Int
  OBVIOUS
<1> QED
  BY <1>1, <1>2

\* ceil(a / d) tokens are the least that cover a.
LEMMA CeilLeast ==
  ASSUME NEW d \in Nat \ {0}, NEW a \in Nat
  PROVE  /\ CeilDiv(a, d) \in Nat
         /\ \A q \in Nat : CeilDiv(a, d) <= q <=> a <= d * q
<1> DEFINE c == CeilDiv(a, d)
           r == (a + d - 1) % d
<1>1. a + d - 1 \in Nat
  OBVIOUS
<1>2. c \in Nat /\ r \in 0..(d - 1) /\ a + d - 1 = d * c + r
  BY <1>1 DEF CeilDiv
<1> HIDE DEF c, r
<1>3. d * c \in Nat
  BY <1>2
<1>4. ASSUME NEW q \in Nat PROVE c <= q <=> a <= d * q
  <2>1. d * q \in Nat
    OBVIOUS
  <2>2. CASE c <= q
    <3>1. d * c <= d * q
      BY <1>2, <2>2, NoLargerProduct
    <3> QED
      BY <1>2, <1>3, <2>1, <2>2, <3>1
  <2>3. CASE q + 1 <= c
    <3>1. d * (q + 1) <= d * c
      BY <1>2, <2>3, NoLargerProduct
    <3>2. d * (q + 1) = d * q + d
      OBVIOUS
    <3> QED
      BY <1>2, <1>3, <2>1, <2>3, <3>1, <3>2
  <2> QED
    BY <1>2, <2>2, <2>3
<1> QED
  BY <1>2, <1>4 DEF c

\* ceil is monotone, subadditive, and grows by one over d.
LEMMA CeilFacts ==
  ASSUME NEW d \in Nat \ {0}, NEW a \in Nat, NEW b \in Nat
  PROVE  /\ CeilDiv(a, d) \in Nat /\ CeilDiv(0, d) = 0
         /\ a <= b => CeilDiv(a, d) <= CeilDiv(b, d)
         /\ CeilDiv(a + b, d) <= CeilDiv(a, d) + CeilDiv(b, d)
         /\ a + d <= b => CeilDiv(a, d) + 1 <= CeilDiv(b, d)
<1> DEFINE ca == CeilDiv(a, d)
           cb == CeilDiv(b, d)
<1>1. /\ ca \in Nat /\ \A q \in Nat : ca <= q <=> a <= d * q
  BY CeilLeast
<1>2. /\ cb \in Nat /\ \A q \in Nat : cb <= q <=> b <= d * q
  BY CeilLeast
<1>3. /\ CeilDiv(a + b, d) \in Nat /\ \A q \in Nat : CeilDiv(a + b, d) <= q <=> a + b <= d * q
  <2>1. a + b \in Nat
    OBVIOUS
  <2> QED
    BY ONLY d \in Nat \ {0}, <2>1, CeilLeast
<1>4. /\ CeilDiv(0, d) \in Nat /\ \A q \in Nat : CeilDiv(0, d) <= q <=> 0 <= d * q
  BY CeilLeast
<1> HIDE DEF ca, cb
<1>5. a <= d * ca /\ b <= d * cb /\ d * ca \in Nat /\ d * cb \in Nat
  BY <1>1, <1>2
<1>6. CeilDiv(0, d) = 0
  <2>1. 0 <= d * 0
    OBVIOUS
  <2> QED
    BY <1>4, <2>1
<1>7. a <= b => ca <= cb
  BY <1>1, <1>2, <1>5
<1>8. CeilDiv(a + b, d) <= ca + cb
  <2>1. d * (ca + cb) = d * ca + d * cb /\ ca + cb \in Nat
    BY <1>1, <1>2
  <2>2. a + b <= d * (ca + cb)
    BY <1>5, <2>1
  <2> QED
    BY <1>3, <2>1, <2>2
<1>9. a + d <= b => ca + 1 <= cb
  <2> SUFFICES ASSUME a + d <= b PROVE ca + 1 <= cb
    OBVIOUS
  <2>1. cb # 0
    <3>1. d * 0 = 0
      OBVIOUS
    <3> QED
      BY <1>2, <1>5, <3>1
  <2>2. cb - 1 \in Nat /\ d * (cb - 1) = d * cb - d
    BY <1>2, <2>1
  <2>3. a <= d * (cb - 1)
    BY <1>5, <2>2
  <2>4. ca <= cb - 1
    BY <1>1, <2>2, <2>3
  <2> QED
    BY <1>1, <1>2, <2>4
<1> QED
  BY <1>1, <1>6, <1>7, <1>8, <1>9 DEF ca, cb

Kinds == {"alphanumeric", "space", "wide", "punctuation"}

\* An escaped unit is a u and its digits.
LEMMA RunsOf ==
  ASSUME NEW a \in Nat
  PROVE  /\ RunTokens("alphanumeric", a) = CeilDiv(a * 10, Density)
         /\ RunTokens("space", a) = IF a >= 2 THEN 1 ELSE 0
         /\ RunTokens("wide", a) = CeilDiv(a, 2)
         /\ RunTokens("punctuation", a) = a /\ RunTokens("none", a) = a
BY DEF RunTokens, AlphanumericRunTokens, WhitespaceRunTokens, NonAsciiRunTokens

LEMMA RunTyped ==
  ASSUME NEW k \in Kinds \cup {"none"}, NEW a \in Nat
  PROVE  RunTokens(k, a) \in Nat /\ RunTokens(k, 0) = 0
<1>1. Density \in Nat \ {0} /\ a * 10 \in Nat /\ 0 * 10 = 0 /\ 2 \in Nat \ {0}
  BY JsonTextAssumption
<1>2. CeilDiv(a * 10, Density) \in Nat /\ CeilDiv(0 * 10, Density) = 0
  BY ONLY <1>1, CeilFacts
<1>3. CeilDiv(a, 2) \in Nat /\ CeilDiv(0, 2) = 0
  BY ONLY a \in Nat, <1>1, CeilFacts
<1> QED
  BY <1>2, <1>3, RunsOf DEF Kinds

LEMMA AlphanumericRun ==
  ASSUME NEW a \in Nat, NEW b \in Nat
  PROVE  /\ a <= b => RunTokens("alphanumeric", a) <= RunTokens("alphanumeric", b)
         /\ RunTokens("alphanumeric", a + b)
              <= RunTokens("alphanumeric", a) + RunTokens("alphanumeric", b)
         /\ RunTokens("alphanumeric", a) + 1 <= RunTokens("alphanumeric", 3 + a)
<1>1. /\ Density \in Nat \ {0} /\ a * 10 \in Nat /\ b * 10 \in Nat /\ (3 + a) * 10 \in Nat
      /\ (a + b) * 10 = a * 10 + b * 10
      /\ a <= b => a * 10 <= b * 10
      /\ a * 10 + Density <= (3 + a) * 10
      /\ a + b \in Nat /\ 3 + a \in Nat
  BY JsonTextAssumption DEF HexLen
<1> DEFINE x == a * 10
           y == b * 10
           z == (3 + a) * 10
<1>2. /\ x <= y => CeilDiv(x, Density) <= CeilDiv(y, Density)
      /\ CeilDiv(x + y, Density) <= CeilDiv(x, Density) + CeilDiv(y, Density)
  <2> HIDE DEF x, y
  <2>1. x \in Nat /\ y \in Nat /\ Density \in Nat \ {0}
    BY <1>1 DEF x, y
  <2> QED
    BY ONLY <2>1, CeilFacts
<1>3. CeilDiv(x, Density) + 1 <= CeilDiv(z, Density)
  <2>1. x \in Nat /\ z \in Nat /\ Density \in Nat \ {0} /\ x + Density <= z
    BY <1>1
  <2> HIDE DEF x, z
  <2> QED
    BY ONLY <2>1, CeilFacts
<1> QED
  BY <1>1, <1>2, <1>3, RunsOf

LEMMA WideRun ==
  ASSUME NEW a \in Nat, NEW b \in Nat
  PROVE  /\ a <= b => RunTokens("wide", a) <= RunTokens("wide", b)
         /\ RunTokens("wide", a + b) <= RunTokens("wide", a) + RunTokens("wide", b)
         /\ RunTokens("wide", 4 + a) <= 2 + RunTokens("wide", a)
         /\ RunTokens("wide", 3 + a) <= 2 + RunTokens("wide", a)
<1>1. a + b \in Nat /\ 4 + a \in Nat /\ 3 + a \in Nat
  OBVIOUS
<1>2. \A n \in Nat : CeilDiv(n, 2) = (n + 1) \div 2
  BY DEF CeilDiv
<1> QED
  BY <1>1, <1>2, RunsOf

\* A longer run costs no less, and two runs of a kind no less than one as long; but two
\* single spaces are free.
LEMMA RunFacts ==
  ASSUME NEW k \in Kinds, NEW a \in Nat, NEW b \in Nat
  PROVE  /\ a <= b => RunTokens(k, a) <= RunTokens(k, b)
         /\ k # "space" => RunTokens(k, a + b) <= RunTokens(k, a) + RunTokens(k, b)
         /\ k = "space" => RunTokens(k, a) <= 1
<1>1. a + b \in Nat
  OBVIOUS
<1>2. CASE k = "alphanumeric"
  BY <1>2, AlphanumericRun
<1>3. CASE k = "wide"
  BY <1>3, WideRun
<1>4. CASE k = "space"
  BY <1>4, RunsOf
<1>5. CASE k = "punctuation"
  BY <1>1, <1>5, RunsOf
<1> QED
  BY <1>2, <1>3, <1>4, <1>5 DEF Kinds

-----------------------------------------------------------------------------
(* What a text costs so far, and what more it may come to *)

Accs == [total : Nat, class : Kinds \cup {"none"}, run : Nat]

\* The cost if so much more of a kind comes and the text ends.
Charge(acc, k, more) ==
  acc.total + IF k = acc.class THEN RunTokens(k, acc.run + more)
              ELSE RunTokens(acc.class, acc.run) + RunTokens(k, more)

\* The cost if the text ends.
Whole(acc) == acc.total + RunTokens(acc.class, acc.run)

\* However the texts go on together, one costs no more than the other.
NoMore(a, b) == \A k \in Kinds, x \in Nat : Charge(a, k, x) <= Charge(b, k, x)

LEMMA ClassTyped ==
  ASSUME NEW c
  PROVE  Class(c) \in Kinds /\ BytesOf(c) \in {1, 3, 4}
BY Zenon DEF Class, BytesOf, Kinds

\* The classes do not overlap.
LEMMA ClassListed ==
  ASSUME NEW c
  PROVE  /\ c \in Whitespace => Class(c) = "space" /\ BytesOf(c) = 1
         /\ c \in Punctuation => Class(c) = "punctuation" /\ BytesOf(c) = 1
         /\ c = "wide" => Class(c) = "wide" /\ BytesOf(c) = 3
         /\ c \in ToSet(Beyond) => Class(c) = "wide" /\ BytesOf(c) = 4
         /\ c \notin Whitespace \cup Punctuation \cup NonAscii =>
              Class(c) = "alphanumeric" /\ BytesOf(c) = 1
<1>1. /\ c \in Whitespace => c \notin Punctuation /\ c \notin NonAscii
      /\ c \in Punctuation => c \notin Whitespace /\ c \notin NonAscii
      /\ c \in NonAscii => c \notin Whitespace /\ c \notin Punctuation
      /\ c = "wide" => c \notin ToSet(Beyond)
      /\ c \in NonAscii <=> c = "wide" \/ c \in ToSet(Beyond)
  BY CharactersListed DEF Whitespace, Punctuation, NonAscii, BeyondNames
<1>2. c \in Whitespace => Class(c) = "space"
  BY <1>1, Zenon DEF Class
<1>3. c \in Punctuation => Class(c) = "punctuation"
  BY <1>1, Zenon DEF Class
<1>4. c \in NonAscii => Class(c) = "wide"
  BY <1>1, Zenon DEF Class
<1>5. c \notin Whitespace \cup Punctuation \cup NonAscii => Class(c) = "alphanumeric"
  BY Zenon DEF Class
<1>6. c \notin NonAscii => BytesOf(c) = 1
  BY <1>1, Zenon DEF BytesOf
<1>7. (c = "wide" => BytesOf(c) = 3) /\ (c \in ToSet(Beyond) => BytesOf(c) = 4)
  BY <1>1, Zenon DEF BytesOf
<1> QED
  BY <1>1, <1>2, <1>3, <1>4, <1>5, <1>6, <1>7, Zenon

LEMMA ChargeTyped ==
  ASSUME NEW acc \in Accs, NEW k \in Kinds, NEW x \in Nat
  PROVE  /\ Charge(acc, k, x) \in Nat /\ Whole(acc) \in Nat
         /\ Charge(acc, k, 0) = Whole(acc)
<1>1. /\ acc.total \in Nat /\ acc.run \in Nat /\ acc.class \in Kinds \cup {"none"}
      /\ acc.run + x \in Nat /\ acc.run + 0 = acc.run
  BY DEF Accs
<1>2. /\ RunTokens(k, acc.run + x) \in Nat /\ RunTokens(acc.class, acc.run) \in Nat
      /\ RunTokens(k, x) \in Nat /\ RunTokens(k, 0) = 0
  BY <1>1, RunTyped
<1> QED
  BY <1>1, <1>2 DEF Charge, Whole

\* A character is charged as more of its class.
LEMMA CountedCharge ==
  ASSUME NEW acc \in Accs, NEW c
  PROVE  /\ Counted(acc, c) \in Accs
         /\ \A k \in Kinds, x \in Nat :
              Charge(Counted(acc, c), k, x) =
                IF k = Class(c) THEN Charge(acc, k, BytesOf(c) + x)
                ELSE Charge(acc, Class(c), BytesOf(c)) + RunTokens(k, x)
<1> DEFINE d == Counted(acc, c)
           j == Class(c)
           y == BytesOf(c)
<1>1. j \in Kinds /\ y \in Nat
  BY ClassTyped
<1>2. /\ acc.total \in Nat /\ acc.run \in Nat /\ acc.class \in Kinds \cup {"none"}
      /\ acc.run + y \in Nat
  BY <1>1 DEF Accs
<1>3. RunTokens(acc.class, acc.run) \in Nat
  BY <1>2, RunTyped
<1>4. CASE j = acc.class
  <2>1. d = [acc EXCEPT !.run = acc.run + y]
    BY <1>4 DEF Counted
  <2> HIDE DEF d, j, y
  <2>2. d \in Accs /\ d.total = acc.total /\ d.class = acc.class /\ d.run = acc.run + y
    BY <1>2, <2>1 DEF Accs
  <2>3. ASSUME NEW k \in Kinds, NEW x \in Nat
        PROVE  Charge(d, k, x) = IF k = j THEN Charge(acc, k, y + x)
                                 ELSE Charge(acc, j, y) + RunTokens(k, x)
    <3>1. (acc.run + y) + x = acc.run + (y + x) /\ RunTokens(j, acc.run + y) \in Nat
          /\ RunTokens(k, x) \in Nat
      BY <1>1, <1>2, RunTyped
    <3> QED
      BY <1>2, <1>4, <2>2, <3>1 DEF Charge
  <2> QED
    BY <2>2, <2>3 DEF d, j, y
<1>5. CASE j # acc.class
  <2>1. d = [total |-> acc.total + RunTokens(acc.class, acc.run), class |-> j, run |-> y]
    BY <1>5 DEF Counted
  <2> HIDE DEF d, j, y
  <2>2. /\ d \in Accs /\ d.total = acc.total + RunTokens(acc.class, acc.run)
        /\ d.class = j /\ d.run = y
    BY <1>1, <1>2, <1>3, <2>1 DEF Accs
  <2>3. ASSUME NEW k \in Kinds, NEW x \in Nat
        PROVE  Charge(d, k, x) = IF k = j THEN Charge(acc, k, y + x)
                                 ELSE Charge(acc, j, y) + RunTokens(k, x)
    <3>1. RunTokens(j, y) \in Nat /\ RunTokens(k, x) \in Nat /\ RunTokens(j, y + x) \in Nat
      BY <1>1, RunTyped
    <3> QED
      BY <1>2, <1>3, <1>5, <2>2, <3>1 DEF Charge
  <2> QED
    BY <2>2, <2>3 DEF d, j, y
<1> QED
  BY <1>4, <1>5

\* The same character keeps one text no dearer than the other.
LEMMA SameMore ==
  ASSUME NEW a \in Accs, NEW b \in Accs, NoMore(a, b), NEW c
  PROVE  NoMore(Counted(a, c), Counted(b, c))
<1> SUFFICES ASSUME NEW k \in Kinds, NEW x \in Nat
             PROVE  Charge(Counted(a, c), k, x) <= Charge(Counted(b, c), k, x)
  BY DEF NoMore
<1> DEFINE j == Class(c)
           y == BytesOf(c)
<1>1. j \in Kinds /\ y \in Nat /\ y + x \in Nat /\ RunTokens(k, x) \in Nat
  BY ClassTyped, RunTyped
<1>2. /\ Charge(Counted(a, c), k, x) = IF k = j THEN Charge(a, k, y + x) ELSE Charge(a, j, y) + RunTokens(k, x)
      /\ Charge(Counted(b, c), k, x) = IF k = j THEN Charge(b, k, y + x) ELSE Charge(b, j, y) + RunTokens(k, x)
  BY CountedCharge
<1> HIDE DEF j, y
<1>3. Charge(a, k, y + x) <= Charge(b, k, y + x) /\ Charge(a, j, y) <= Charge(b, j, y)
  BY <1>1 DEF NoMore
<1>4. Charge(a, j, y) \in Nat /\ Charge(b, j, y) \in Nat
  BY <1>1, ChargeTyped
<1> QED
  BY <1>1, <1>2, <1>3, <1>4

\* A space costs nothing less than no space.
LEMMA SpaceMore ==
  ASSUME NEW b \in Accs, NEW c \in Whitespace
  PROVE  NoMore(b, Counted(b, c))
<1> SUFFICES ASSUME NEW k \in Kinds, NEW x \in Nat
             PROVE  Charge(b, k, x) <= Charge(Counted(b, c), k, x)
  BY DEF NoMore
<1>1. Class(c) = "space" /\ BytesOf(c) = 1
  BY ClassListed
<1>2. Charge(Counted(b, c), k, x) = IF k = "space" THEN Charge(b, k, 1 + x) ELSE Charge(b, "space", 1) + RunTokens(k, x)
  <2>1. Charge(Counted(b, c), k, x) = IF k = Class(c) THEN Charge(b, k, BytesOf(c) + x)
                                      ELSE Charge(b, Class(c), BytesOf(c)) + RunTokens(k, x)
    BY CountedCharge
  <2> QED
    BY <1>1, <2>1, Zenon
<1>3. /\ b.total \in Nat /\ b.run \in Nat /\ b.class \in Kinds \cup {"none"}
      /\ b.run + x \in Nat /\ b.run + 1 \in Nat /\ b.run + (1 + x) \in Nat /\ 1 + x \in Nat
      /\ b.run + x <= b.run + (1 + x) /\ x <= 1 + x /\ b.run <= b.run + 1
      /\ "space" \in Kinds
  BY DEF Accs, Kinds
<1>4. /\ RunTokens(k, x) \in Nat /\ RunTokens(k, b.run + x) \in Nat /\ RunTokens(b.class, b.run) \in Nat
      /\ RunTokens("space", b.run) \in Nat /\ RunTokens("space", b.run + 1) \in Nat
      /\ RunTokens(k, b.run + (1 + x)) \in Nat /\ RunTokens(k, 1 + x) \in Nat /\ RunTokens("space", 1) \in Nat
  BY <1>3, RunTyped
<1>5. CASE k = "space"
  <2>1. RunTokens(k, b.run + x) <= RunTokens(k, b.run + (1 + x)) /\ RunTokens(k, x) <= RunTokens(k, 1 + x)
    BY <1>3, RunFacts
  <2> QED
    BY <1>2, <1>3, <1>4, <1>5, <2>1 DEF Charge
<1>6. CASE k # "space"
  <2>1. CASE b.class = "space"
    <3>1. RunTokens("space", b.run) <= RunTokens("space", b.run + 1)
      BY <1>3, RunFacts
    <3> QED
      BY <1>2, <1>3, <1>4, <1>6, <2>1, <3>1 DEF Charge
  <2>2. CASE b.class # "space"
    <3>1. RunTokens(k, b.run + x) <= RunTokens(k, b.run) + RunTokens(k, x)
      BY <1>3, <1>6, RunFacts
    <3> QED
      BY <1>2, <1>3, <1>4, <1>6, <2>2, <3>1 DEF Charge
  <2> QED
    BY <2>1, <2>2
<1> QED
  BY <1>5, <1>6

LEMMA ChargeWithin ==
  ASSUME NEW b \in Accs, NEW k \in Kinds, NEW x \in Nat
  PROVE  /\ k # "space" => Charge(b, k, x) <= Whole(b) + RunTokens(k, x)
         /\ k = "space" => Charge(b, k, x) <= Whole(b) + 1
         /\ k = "punctuation" => Charge(b, k, x) = Whole(b) + x
<1>1. /\ b.total \in Nat /\ b.run \in Nat /\ b.class \in Kinds \cup {"none"} /\ b.run + x \in Nat
  BY DEF Accs
<1>2. /\ RunTokens(k, x) \in Nat /\ RunTokens(k, b.run + x) \in Nat
      /\ RunTokens(b.class, b.run) \in Nat
  BY <1>1, RunTyped
<1>3. k # "space" => RunTokens(k, b.run + x) <= RunTokens(k, b.run) + RunTokens(k, x)
  BY <1>1, RunFacts
<1>4. k = "space" => RunTokens(k, b.run + x) <= 1 /\ RunTokens(k, x) <= 1
  BY <1>1, RunFacts
<1>5. k = "punctuation" => /\ RunTokens(k, b.run + x) = b.run + x /\ RunTokens(k, x) = x
                           /\ RunTokens(k, b.run) = b.run
  BY <1>1, RunsOf
<1>6. k # "space" => Charge(b, k, x) <= Whole(b) + RunTokens(k, x)
  BY <1>1, <1>2, <1>3 DEF Charge, Whole
<1>7. k = "space" => Charge(b, k, x) <= Whole(b) + 1
  BY <1>1, <1>2, <1>4 DEF Charge, Whole
<1>8. k = "punctuation" => Charge(b, k, x) = Whole(b) + x
  BY <1>1, <1>2, <1>5 DEF Charge, Whole
<1> QED
  BY <1>6, <1>7, <1>8

LEMMA NoMoreWhole ==
  ASSUME NEW a \in Accs, NEW b \in Accs, NoMore(a, b)
  PROVE  Whole(a) <= Whole(b)
<1>1. "wide" \in Kinds /\ 0 \in Nat
  BY DEF Kinds
<1>2. Charge(a, "wide", 0) <= Charge(b, "wide", 0)
  BY <1>1, Zenon DEF NoMore
<1>3. Charge(a, "wide", 0) = Whole(a) /\ Charge(b, "wide", 0) = Whole(b)
  BY <1>1, ChargeTyped
<1> QED
  BY <1>2, <1>3

LEMMA NoMoreLinks ==
  ASSUME NEW a \in Accs, NEW b \in Accs, NEW c \in Accs, NoMore(a, b), NoMore(b, c)
  PROVE  NoMore(a, c)
<1> SUFFICES ASSUME NEW k \in Kinds, NEW x \in Nat PROVE Charge(a, k, x) <= Charge(c, k, x)
  BY DEF NoMore
<1>1. Charge(a, k, x) <= Charge(b, k, x) /\ Charge(b, k, x) <= Charge(c, k, x)
  BY DEF NoMore
<1>2. Charge(a, k, x) \in Nat /\ Charge(b, k, x) \in Nat /\ Charge(c, k, x) \in Nat
  BY ChargeTyped
<1> QED
  BY <1>1, <1>2

\* A mark costs a token of its own.
LEMMA MarkCharge ==
  ASSUME NEW b \in Accs, NEW c \in Punctuation
  PROVE  /\ Counted(b, c) \in Accs
         /\ \A k \in Kinds, x \in Nat : Charge(Counted(b, c), k, x) = Whole(b) + 1 + RunTokens(k, x)
         /\ NoMore(b, Counted(b, c))
<1> DEFINE d == Counted(b, c)
           p == "punctuation"
<1>1. Class(c) = p /\ BytesOf(c) = 1 /\ p \in Kinds
  BY ClassListed DEF Kinds
<1>2. d \in Accs
  BY CountedCharge
<1>3. ASSUME NEW k \in Kinds, NEW x \in Nat PROVE Charge(d, k, x) = Whole(b) + 1 + RunTokens(k, x)
  <2>1. Charge(d, k, x) = IF k = p THEN Charge(b, k, 1 + x) ELSE Charge(b, p, 1) + RunTokens(k, x)
    <3>1. Charge(d, k, x) = IF k = Class(c) THEN Charge(b, k, BytesOf(c) + x)
                            ELSE Charge(b, Class(c), BytesOf(c)) + RunTokens(k, x)
      BY CountedCharge
    <3> HIDE DEF d, p
    <3> QED
      BY <1>1, <3>1, Zenon
  <2>2. Whole(b) \in Nat /\ 1 + x \in Nat /\ RunTokens(k, x) \in Nat
    BY ChargeTyped, RunTyped
  <2>3. Charge(b, p, 1) = Whole(b) + 1
    BY <1>1, ChargeWithin
  <2>4. k = p => Charge(b, k, 1 + x) = Whole(b) + (1 + x) /\ RunTokens(k, x) = x
    BY <2>2, ChargeWithin, RunsOf
  <2> HIDE DEF d
  <2> QED
    BY <2>1, <2>2, <2>3, <2>4
<1>4. ASSUME NEW k \in Kinds, NEW x \in Nat PROVE Charge(b, k, x) <= Charge(d, k, x)
  <2>1. Whole(b) \in Nat /\ RunTokens(k, x) \in Nat /\ Charge(b, k, x) \in Nat
    BY ChargeTyped, RunTyped
  <2>2. Charge(b, k, x) <= Whole(b) + RunTokens(k, x) \/ Charge(b, k, x) <= Whole(b) + 1
    BY ChargeWithin
  <2>3. Charge(d, k, x) = Whole(b) + 1 + RunTokens(k, x)
    BY <1>3
  <2> HIDE DEF d
  <2> QED
    BY <2>1, <2>2, <2>3
<1> QED
  BY <1>2, <1>3, <1>4 DEF NoMore

\* A letter or a digit goes on with its run.
LEMMA LetterCharge ==
  ASSUME NEW b \in Accs, NEW c, Class(c) = "alphanumeric", BytesOf(c) = 1
  PROVE  /\ Counted(b, c) \in Accs
         /\ \A k \in Kinds, x \in Nat :
              Charge(Counted(b, c), k, x) =
                IF k = "alphanumeric" THEN Charge(b, k, 1 + x)
                ELSE Charge(b, "alphanumeric", 1) + RunTokens(k, x)
<1> DEFINE d == Counted(b, c)
<1>1. /\ d \in Accs
      /\ \A k \in Kinds, x \in Nat :
              Charge(d, k, x) =
                IF k = Class(c) THEN Charge(b, k, BytesOf(c) + x)
                ELSE Charge(b, Class(c), BytesOf(c)) + RunTokens(k, x)
  BY CountedCharge
<1> HIDE DEF d
<1>2. \A k \in Kinds, x \in Nat :
              Charge(d, k, x) =
                IF k = "alphanumeric" THEN Charge(b, k, 1 + x)
                ELSE Charge(b, "alphanumeric", 1) + RunTokens(k, x)
  BY <1>1, Zenon
<1> QED
  BY <1>1, <1>2 DEF d

FourCounted(b, c1, c2, c3, c4) == Counted(Counted(Counted(Counted(b, c1), c2), c3), c4)

LEMMA Letters ==
  ASSUME NEW c \in {"u", "n"} \cup DOMAIN HexVal
  PROVE  Class(c) = "alphanumeric" /\ BytesOf(c) = 1
<1>1. c \in {"u", "n", "0", "1", "2", "3", "a", "A"}
  BY DigitsListed
<1>2. c \notin Whitespace \cup Punctuation \cup NonAscii
  BY <1>1, CharactersListed DEF Whitespace, Punctuation, NonAscii, BeyondNames
<1> QED
  BY <1>2, ClassListed

\* What an escape by number costs.
LEMMA EscapeCharge ==
  ASSUME NEW b \in Accs, NEW h \in DOMAIN HexVal, NEW l \in DOMAIN HexVal
  PROVE  LET e == FourCounted(b, "\\", "u", h, l)
         IN /\ e \in Accs
            /\ \A k \in Kinds, x \in Nat :
                 Charge(e, k, x) =
                   Whole(b) + 1 + IF k = "alphanumeric" THEN RunTokens(k, 3 + x)
                                  ELSE RunTokens("alphanumeric", 3) + RunTokens(k, x)
            /\ NoMore(b, e)
<1> DEFINE b1 == Counted(b, "\\")
           b2 == Counted(b1, "u")
           b3 == Counted(b2, h)
           b4 == Counted(b3, l)
           w == "alphanumeric"
<1>1. /\ b1 \in Accs
      /\ \A k \in Kinds, x \in Nat : Charge(b1, k, x) = Whole(b) + 1 + RunTokens(k, x)
  <2>1. "\\" \in Punctuation
    BY DEF Punctuation
  <2> QED
    BY <2>1, MarkCharge
<1> HIDE DEF b1
<1>2. /\ b2 \in Accs
      /\ \A k \in Kinds, x \in Nat :
           Charge(b2, k, x) = IF k = w THEN Charge(b1, k, 1 + x) ELSE Charge(b1, w, 1) + RunTokens(k, x)
  <2>1. Class("u") = w /\ BytesOf("u") = 1
    BY Letters
  <2> QED
    BY <1>1, <2>1, LetterCharge
<1> HIDE DEF b2
<1>3. /\ b3 \in Accs
      /\ \A k \in Kinds, x \in Nat :
           Charge(b3, k, x) = IF k = w THEN Charge(b2, k, 1 + x) ELSE Charge(b2, w, 1) + RunTokens(k, x)
  <2>1. Class(h) = w /\ BytesOf(h) = 1
    BY Letters
  <2> QED
    BY <1>2, <2>1, LetterCharge
<1> HIDE DEF b3
<1>4. /\ b4 \in Accs
      /\ \A k \in Kinds, x \in Nat :
           Charge(b4, k, x) = IF k = w THEN Charge(b3, k, 1 + x) ELSE Charge(b3, w, 1) + RunTokens(k, x)
  <2>1. Class(l) = w /\ BytesOf(l) = 1
    BY Letters
  <2> QED
    BY <1>3, <2>1, LetterCharge
<1> HIDE DEF b4
<1>5. w \in Kinds /\ Whole(b) \in Nat
  BY ChargeTyped DEF Kinds
<1>6. ASSUME NEW x \in Nat PROVE Charge(b4, w, x) = Whole(b) + 1 + RunTokens(w, 3 + x)
  <2>1. 1 + x \in Nat /\ 1 + (1 + x) \in Nat /\ 1 + (1 + (1 + x)) \in Nat /\ 1 + (1 + (1 + x)) = 3 + x
    OBVIOUS
  <2>2. Charge(b4, w, x) = Charge(b3, w, 1 + x)
    BY <1>4, <1>5
  <2>3. Charge(b3, w, 1 + x) = Charge(b2, w, 1 + (1 + x))
    BY <1>3, <1>5, <2>1
  <2>4. Charge(b2, w, 1 + (1 + x)) = Charge(b1, w, 1 + (1 + (1 + x)))
    BY <1>2, <1>5, <2>1
  <2>5. Charge(b1, w, 1 + (1 + (1 + x))) = Whole(b) + 1 + RunTokens(w, 1 + (1 + (1 + x)))
    BY <1>1, <1>5, <2>1
  <2> QED
    BY ONLY <2>1, <2>2, <2>3, <2>4, <2>5, Zenon
<1>7. ASSUME NEW k \in Kinds, NEW x \in Nat
      PROVE  Charge(b4, k, x) =
                   Whole(b) + 1 + IF k = w THEN RunTokens(k, 3 + x) ELSE RunTokens(w, 3) + RunTokens(k, x)
  <2>1. CASE k = w
    BY <1>6, <2>1
  <2>2. CASE k # w
    <3>1. Charge(b4, w, 0) = Whole(b) + 1 + RunTokens(w, 3)
      <4>1. 3 + 0 = 3 /\ 0 \in Nat
        OBVIOUS
      <4>2. Charge(b4, w, 0) = Whole(b) + 1 + RunTokens(w, 3 + 0)
        BY <1>6
      <4> QED
        BY <4>1, <4>2
    <3>2. Charge(b4, w, 0) = Charge(b3, w, 1)
      <4>1. 1 + 0 = 1 /\ 0 \in Nat
        OBVIOUS
      <4>2. Charge(b4, w, 0) = Charge(b3, w, 1 + 0)
        BY <1>4, <1>5
      <4> QED
        BY <4>1, <4>2
    <3>3. Charge(b4, k, x) = Charge(b3, w, 1) + RunTokens(k, x)
      BY <1>4, <2>2
    <3>4. RunTokens(w, 3) \in Nat /\ RunTokens(k, x) \in Nat
      BY <1>5, RunTyped
    <3> QED
      BY <1>5, <2>2, <3>1, <3>2, <3>3, <3>4
  <2> QED
    BY <2>1, <2>2
<1>8. ASSUME NEW k \in Kinds, NEW x \in Nat PROVE Charge(b, k, x) <= Charge(b4, k, x)
  <2>1. /\ Whole(b) \in Nat /\ RunTokens(k, x) \in Nat /\ Charge(b, k, x) \in Nat
        /\ RunTokens(w, 3) \in Nat /\ 3 + x \in Nat
    BY <1>5, ChargeTyped, RunTyped
  <2>2. Charge(b, k, x) <= Whole(b) + RunTokens(k, x) \/ Charge(b, k, x) <= Whole(b) + 1
    BY ChargeWithin
  <2>3. k = w => RunTokens(k, 3 + x) \in Nat /\ RunTokens(k, x) + 1 <= RunTokens(k, 3 + x)
    BY <2>1, RunTyped, AlphanumericRun
  <2> QED
    BY <1>7, <2>1, <2>2, <2>3
<1> QED
  BY <1>4, <1>7, <1>8 DEF b1, b2, b3, b4, FourCounted, NoMore

-----------------------------------------------------------------------------
(* Counting a text, from what came before it *)

CountCase(acc, s, upto, k) == IF k = 0 THEN acc ELSE Counted(upto[k - 1], s[k])

Upto(acc, s) == CHOOSE upto : upto = [k \in 0..Len(s) |-> CountCase(acc, s, upto, k)]

After(acc, s) == Upto(acc, s)[Len(s)]

LEMMA EstimateIsWhole ==
  ASSUME NEW s
  PROVE  Estimate(s) = Whole(After(Uncounted, s))
BY Zenon DEF Estimate, After, Upto, CountCase, Whole

LEMMA UptoSteps ==
  ASSUME NEW acc \in Accs, NEW S, NEW s \in Seq(S)
  PROVE  /\ Upto(acc, s)[0] = acc
         /\ \A k \in 1..Len(s) : Upto(acc, s)[k] = Counted(Upto(acc, s)[k - 1], s[k])
         /\ \A k \in 0..Len(s) : Upto(acc, s)[k] \in Accs
<1> DEFINE n == Len(s)
           Ok(f, d) == \A k \in 0..d : f[k] = CountCase(acc, s, f, k)
           Has(d) == \E f \in [0..d -> Accs] : Ok(f, d)
           D == {d \in Nat : Has(d)}
           Def(g) == g = [k \in 0..n |-> CountCase(acc, s, g, k)]
<1>1. n \in Nat
  BY LenProperties
<1>2. 0 \in D
  <2> DEFINE f == [k \in 0..0 |-> acc]
  <2>1. f \in [0..0 -> Accs]
    OBVIOUS
  <2>2. \A k \in 0..0 : k = 0 /\ f[k] = acc
    OBVIOUS
  <2>3. Ok(f, 0)
    BY <2>2, Zenon DEF CountCase
  <2> QED
    BY <2>1, <2>3
<1>3. ASSUME NEW d \in Nat, d \in D PROVE d + 1 \in D
  <2>1. PICK f \in [0..d -> Accs] : Ok(f, d)
    BY <1>3
  <2> DEFINE e == d + 1
             x == Counted(f[d], s[e])
             g == [k \in 0..e |-> IF k <= d THEN f[k] ELSE x]
  <2>2. f[d] \in Accs
    OBVIOUS
  <2>3. x \in Accs
    BY <2>2, CountedCharge
  <2> HIDE DEF x
  <2>4. g \in [0..e -> Accs]
    <3>1. \A k \in 0..e : k <= d => k \in 0..d
      OBVIOUS
    <3> QED
      BY <2>3, <3>1
  <2>5. (\A k \in 0..d : g[k] = f[k]) /\ g[e] = x
    OBVIOUS
  <2> HIDE DEF g
  <2>6. ASSUME NEW k \in 0..e PROVE g[k] = CountCase(acc, s, g, k)
    <3>1. CASE k = 0
      <4>1. 0 \in 0..d
        OBVIOUS
      <4>2. g[0] = f[0] /\ f[0] = CountCase(acc, s, f, 0)
        BY <2>1, <2>5, <4>1
      <4> QED
        BY <3>1, <4>2, Zenon DEF CountCase
    <3>2. CASE k \in 1..d
      <4>1. k \in 0..d /\ k - 1 \in 0..d /\ k # 0
        BY <3>2
      <4>2. g[k] = f[k] /\ f[k] = CountCase(acc, s, f, k) /\ g[k - 1] = f[k - 1]
        BY <2>1, <2>5, <4>1
      <4> QED
        BY <4>1, <4>2, Zenon DEF CountCase
    <3>3. CASE k = e
      <4>1. e # 0 /\ e - 1 = d /\ d \in 0..d
        OBVIOUS
      <4>2. g[e - 1] = f[d]
        BY <2>5, <4>1
      <4>3. CountCase(acc, s, g, e) = Counted(g[e - 1], s[e])
        BY <4>1, Zenon DEF CountCase
      <4>4. g[e] = Counted(f[d], s[e])
        BY <2>5 DEF x
      <4> QED
        BY <3>3, <4>2, <4>3, <4>4, Zenon
    <3>4. k = 0 \/ k \in 1..d \/ k = e
      OBVIOUS
    <3> QED
      BY <3>1, <3>2, <3>3, <3>4
  <2> QED
    BY <2>4, <2>6
<1>4. Nat \subseteq D
  <2> HIDE DEF D
  <2> QED
    BY <1>2, <1>3, EveryNumber
<1>5. \E f \in [0..n -> Accs] : Ok(f, n)
  <2>1. n \in D
    BY <1>1, <1>4
  <2> QED
    BY <2>1
<1> HIDE DEF n, D
<1>6. PICK f \in [0..n -> Accs] : \A k \in 0..n : f[k] = CountCase(acc, s, f, k)
  BY <1>5
<1>7. Def(f)
  <2>1. f = [k \in 0..n |-> f[k]]
    OBVIOUS
  <2>2. [k \in 0..n |-> f[k]] = [k \in 0..n |-> CountCase(acc, s, f, k)]
    BY <1>6, Zenon
  <2> QED
    BY <2>1, <2>2, Zenon
<1>8. Def(Upto(acc, s))
  BY <1>7, Zenon DEF Upto, n
<1> DEFINE u == Upto(acc, s)
<1>9. \A k \in 0..n : u[k] = CountCase(acc, s, u, k)
  BY <1>8, Zenon
<1> HIDE DEF u
<1>10. /\ 0 \in 0..n /\ 0 # 1
       /\ \A k \in 1..n : k \in 0..n /\ k # 0
       /\ \A k \in 0..n : k = 0 \/ k - 1 \in 0..n
  BY <1>1
<1>11. u[0] = acc
  BY <1>9, <1>10, Zenon DEF CountCase
<1>12. \A k \in 1..n : u[k] = Counted(u[k - 1], s[k])
  BY <1>9, <1>10, Zenon DEF CountCase
<1>13. \A k \in 0..n : u[k] \in Accs
  <2> DEFINE T == {d \in Nat : d <= n => u[d] \in Accs}
  <2>1. 0 \in T
    BY <1>11
  <2>2. ASSUME NEW d \in Nat, d \in T PROVE d + 1 \in T
    <3> SUFFICES ASSUME d + 1 <= n PROVE u[d + 1] \in Accs
      OBVIOUS
    <3>1. d + 1 \in 1..n /\ (d + 1) - 1 = d /\ d <= n
      BY <1>1
    <3>2. u[d] \in Accs
      BY <2>2, <3>1
    <3>3. u[d + 1] = Counted(u[d], s[d + 1])
      BY <1>12, <3>1
    <3> QED
      BY <3>2, <3>3, CountedCharge
  <2>3. Nat \subseteq T
    <3> HIDE DEF T
    <3> QED
      BY <2>1, <2>2, EveryNumber
  <2> QED
    BY <1>1, <2>3
<1> QED
  BY <1>11, <1>12, <1>13 DEF u, n

LEMMA AfterNothing ==
  ASSUME NEW acc \in Accs
  PROVE  After(acc, <<>>) = acc
<1>1. <<>> \in Seq(Nat) /\ Len(<<>>) = 0
  BY EmptySeq
<1> QED
  BY <1>1, UptoSteps, Zenon DEF After

LEMMA AfterTyped ==
  ASSUME NEW acc \in Accs, NEW S, NEW s \in Seq(S)
  PROVE  After(acc, s) \in Accs
<1>1. Len(s) \in 0..Len(s)
  BY LenProperties
<1> QED
  BY <1>1, UptoSteps DEF After

\* Counting goes on where it was.
LEMMA AfterJoined ==
  ASSUME NEW acc \in Accs, NEW S, NEW s \in Seq(S), NEW t \in Seq(S)
  PROVE  After(acc, s \o t) = After(After(acc, s), t)
<1> DEFINE m == Len(s)
           n == Len(t)
           w == s \o t
           b == After(acc, s)
           D == {d \in Nat : d <= m => Upto(acc, w)[d] = Upto(acc, s)[d]}
           E == {d \in Nat : d <= n => Upto(acc, w)[m + d] = Upto(b, t)[d]}
<1>1. m \in Nat /\ n \in Nat
  BY LenProperties
<1>2. /\ w \in Seq(S) /\ Len(w) = m + n
      /\ \A i \in 1..(m + n) : w[i] = IF i <= m THEN s[i] ELSE t[i - m]
  BY ConcatProperties
<1>3. b \in Accs
  BY AfterTyped
<1> HIDE DEF w
<1>4. /\ Upto(acc, w)[0] = acc
      /\ \A k \in 1..(m + n) : Upto(acc, w)[k] = Counted(Upto(acc, w)[k - 1], w[k])
  <2>1. w \in Seq(S) /\ acc \in Accs
    BY <1>2
  <2>2. /\ Upto(acc, w)[0] = acc
        /\ \A k \in 1..Len(w) : Upto(acc, w)[k] = Counted(Upto(acc, w)[k - 1], w[k])
    BY ONLY <2>1, UptoSteps
  <2> QED
    BY <1>2, <2>2, Zenon
<1>5. /\ Upto(acc, s)[0] = acc
      /\ \A k \in 1..m : Upto(acc, s)[k] = Counted(Upto(acc, s)[k - 1], s[k])
  BY UptoSteps
<1>6. b = Upto(acc, s)[m]
  BY DEF After
<1> HIDE DEF b
<1>7. /\ Upto(b, t)[0] = b
      /\ \A k \in 1..n : Upto(b, t)[k] = Counted(Upto(b, t)[k - 1], t[k])
  BY <1>3, UptoSteps
<1>8. 0 \in D
  BY <1>4, <1>5
<1>9. ASSUME NEW d \in Nat, d \in D PROVE d + 1 \in D
  <2> DEFINE e == d + 1
  <2> SUFFICES ASSUME e <= m PROVE Upto(acc, w)[e] = Upto(acc, s)[e]
    OBVIOUS
  <2>1. e \in 1..m /\ e \in 1..(m + n) /\ e - 1 = d /\ d <= m
    BY <1>1
  <2>2. Upto(acc, w)[d] = Upto(acc, s)[d]
    BY <1>9, <2>1
  <2> HIDE DEF e
  <2>3. w[e] = s[e]
    BY <1>2, <2>1
  <2>4. Upto(acc, w)[e] = Counted(Upto(acc, w)[e - 1], w[e])
    BY <1>4, <2>1
  <2>5. Upto(acc, s)[e] = Counted(Upto(acc, s)[e - 1], s[e])
    BY <1>5, <2>1
  <2> QED
    BY ONLY <2>1, <2>2, <2>3, <2>4, <2>5, Zenon
<1>10. Nat \subseteq D
  <2> HIDE DEF D
  <2> QED
    BY <1>8, <1>9, EveryNumber
<1>11. Upto(acc, w)[m] = b
  <2>1. m \in D
    BY <1>1, <1>10
  <2>2. m <= m
    BY <1>1
  <2> QED
    BY <1>6, <2>1, <2>2
<1> HIDE DEF D
<1>12. 0 \in E
  <2>1. m + 0 = m
    BY <1>1
  <2> QED
    BY <1>7, <1>11, <2>1
<1>13. ASSUME NEW d \in Nat, d \in E PROVE d + 1 \in E
  <2> DEFINE e == d + 1
             p == m + e
             q == m + d
  <2> SUFFICES ASSUME e <= n PROVE Upto(acc, w)[p] = Upto(b, t)[e]
    OBVIOUS
  <2>1. /\ e \in 1..n /\ p \in 1..(m + n) /\ e - 1 = d /\ d <= n /\ p - 1 = q
        /\ ~(p <= m) /\ p - m = e
    BY <1>1
  <2>2. Upto(acc, w)[q] = Upto(b, t)[d]
    BY <1>13, <2>1
  <2> HIDE DEF e, p, q
  <2>3. w[p] = t[p - m]
    BY <1>2, <2>1
  <2>4. Upto(acc, w)[p] = Counted(Upto(acc, w)[p - 1], w[p])
    BY <1>4, <2>1
  <2>5. Upto(b, t)[e] = Counted(Upto(b, t)[e - 1], t[e])
    BY <1>7, <2>1
  <2> QED
    BY ONLY <2>1, <2>2, <2>3, <2>4, <2>5, Zenon
<1>14. Nat \subseteq E
  <2> HIDE DEF E
  <2> QED
    BY <1>12, <1>13, EveryNumber
<1>15. Upto(acc, w)[m + n] = Upto(b, t)[n]
  <2>1. n \in E
    BY <1>1, <1>14
  <2>2. n <= n
    BY <1>1
  <2> QED
    BY <2>1, <2>2
<1> QED
  BY <1>2, <1>15, Zenon DEF After, b, w

LEMMA AfterOne ==
  ASSUME NEW acc \in Accs, NEW c
  PROVE  After(acc, <<c>>) = Counted(acc, c)
<1> DEFINE s == <<c>>
<1>1. s \in Seq({c}) /\ Len(s) = 1 /\ s[1] = c /\ 1 \in 1..1 /\ 1 - 1 = 0
  OBVIOUS
<1> HIDE DEF s
<1>2. Upto(acc, s)[1] = Counted(Upto(acc, s)[1 - 1], s[1]) /\ Upto(acc, s)[0] = acc
  BY <1>1, UptoSteps
<1> QED
  BY <1>1, <1>2, Zenon DEF After, s

\* A character in front is counted first.
LEMMA AfterFront ==
  ASSUME NEW acc \in Accs, NEW S, NEW c \in S, NEW s \in Seq(S)
  PROVE  After(acc, <<c>> \o s) = After(Counted(acc, c), s)
<1> DEFINE one == <<c>>
<1>1. one \in Seq(S)
  OBVIOUS
<1> HIDE DEF one
<1>2. After(acc, one \o s) = After(After(acc, one), s)
  BY ONLY acc \in Accs, s \in Seq(S), <1>1, AfterJoined
<1> QED
  BY <1>2, AfterOne, Zenon DEF one

LEMMA AfterTwo ==
  ASSUME NEW acc \in Accs, NEW c, NEW d
  PROVE  After(acc, <<c, d>>) = Counted(Counted(acc, c), d)
<1> DEFINE s == <<c, d>>
<1>1. /\ s \in Seq({c, d}) /\ Len(s) = 2 /\ s[1] = c /\ s[2] = d
      /\ 1 \in 1..2 /\ 2 \in 1..2 /\ 1 - 1 = 0 /\ 2 - 1 = 1
  OBVIOUS
<1> HIDE DEF s
<1>2. /\ Upto(acc, s)[1] = Counted(Upto(acc, s)[1 - 1], s[1]) /\ Upto(acc, s)[0] = acc
      /\ Upto(acc, s)[2] = Counted(Upto(acc, s)[2 - 1], s[2])
  BY <1>1, UptoSteps
<1> QED
  BY <1>1, <1>2, Zenon DEF After, s

LEMMA AfterFour ==
  ASSUME NEW acc \in Accs, NEW c1, NEW c2, NEW c3, NEW c4
  PROVE  After(acc, <<c1, c2, c3, c4>>) = FourCounted(acc, c1, c2, c3, c4)
<1> DEFINE s == <<c1, c2, c3, c4>>
<1>1. /\ s \in Seq({c1, c2, c3, c4}) /\ Len(s) = 4
      /\ s[1] = c1 /\ s[2] = c2 /\ s[3] = c3 /\ s[4] = c4
  OBVIOUS
<1>2. /\ 1 \in 1..4 /\ 2 \in 1..4 /\ 3 \in 1..4 /\ 4 \in 1..4
      /\ 1 - 1 = 0 /\ 2 - 1 = 1 /\ 3 - 1 = 2 /\ 4 - 1 = 3
  OBVIOUS
<1> HIDE DEF s
<1>3. /\ Upto(acc, s)[0] = acc
      /\ \A k \in 1..4 : Upto(acc, s)[k] = Counted(Upto(acc, s)[k - 1], s[k])
  BY <1>1, UptoSteps
<1>4. /\ Upto(acc, s)[1] = Counted(acc, c1)
      /\ Upto(acc, s)[2] = Counted(Upto(acc, s)[1], c2)
      /\ Upto(acc, s)[3] = Counted(Upto(acc, s)[2], c3)
      /\ Upto(acc, s)[4] = Counted(Upto(acc, s)[3], c4)
  BY <1>1, <1>2, <1>3, Zenon
<1> QED
  BY <1>1, <1>4, Zenon DEF After, s, FourCounted

-----------------------------------------------------------------------------
(* A spelling costs no more than what it stands for *)

\* Two tokens at most are in the place of an escape by number, and before more letters one.
Within(d, b) ==
  \A k \in Kinds, x \in Nat :
    \/ Charge(d, k, x) <= Whole(b) + 2 + RunTokens(k, x)
    \/ k = "alphanumeric" /\ Charge(d, k, x) <= Whole(b) + 1 + RunTokens(k, 3 + x)
    \/ k # "alphanumeric" /\ Charge(d, k, x) <= Whole(b) + 1 + RunTokens("alphanumeric", 3) + RunTokens(k, x)

LEMMA WithinEscape ==
  ASSUME NEW b \in Accs, NEW d \in Accs, Within(d, b),
         NEW h \in DOMAIN HexVal, NEW l \in DOMAIN HexVal
  PROVE  NoMore(d, FourCounted(b, "\\", "u", h, l))
<1> DEFINE e == FourCounted(b, "\\", "u", h, l)
           w == "alphanumeric"
           three == RunTokens(w, 3)
<1>1. /\ e \in Accs
      /\ \A k \in Kinds, x \in Nat :
           Charge(e, k, x) = Whole(b) + 1 + IF k = w THEN RunTokens(k, 3 + x)
                                            ELSE three + RunTokens(k, x)
  BY EscapeCharge
<1>2. w \in Kinds /\ Whole(b) \in Nat
  BY ChargeTyped DEF Kinds
<1>3. three \in Nat /\ three >= 1
  <2>1. 3 + 0 = 3 /\ 0 \in Nat
    OBVIOUS
  <2>2. RunTokens(w, 0) + 1 <= RunTokens(w, 3 + 0)
    BY <2>1, AlphanumericRun
  <2>3. RunTokens(w, 3) \in Nat /\ RunTokens(w, 0) = 0
    BY <1>2, RunTyped
  <2> QED
    BY <2>1, <2>2, <2>3
<1> HIDE DEF e
<1> SUFFICES ASSUME NEW k \in Kinds, NEW x \in Nat PROVE Charge(d, k, x) <= Charge(e, k, x)
  BY DEF NoMore, e
<1>4. /\ Charge(e, k, x) = Whole(b) + 1 + IF k = w THEN RunTokens(k, 3 + x) ELSE three + RunTokens(k, x)
      /\ Charge(d, k, x) \in Nat /\ RunTokens(k, x) \in Nat /\ 3 + x \in Nat
  BY <1>1, ChargeTyped, RunTyped
<1>5. RunTokens(k, 3 + x) \in Nat /\ (k = w => RunTokens(k, x) + 1 <= RunTokens(k, 3 + x))
  BY <1>4, RunTyped, AlphanumericRun
<1>6. \/ Charge(d, k, x) <= Whole(b) + 2 + RunTokens(k, x)
      \/ k = w /\ Charge(d, k, x) <= Whole(b) + 1 + RunTokens(k, 3 + x)
      \/ k # w /\ Charge(d, k, x) <= Whole(b) + 1 + three + RunTokens(k, x)
  BY DEF Within
<1> HIDE DEF three
<1>7. CASE Charge(d, k, x) <= Whole(b) + 2 + RunTokens(k, x)
  BY <1>2, <1>3, <1>4, <1>5, <1>7
<1>8. CASE k = w /\ Charge(d, k, x) <= Whole(b) + 1 + RunTokens(k, 3 + x)
  BY <1>4, <1>8
<1>9. CASE k # w /\ Charge(d, k, x) <= Whole(b) + 1 + three + RunTokens(k, x)
  BY <1>2, <1>3, <1>4, <1>9
<1> QED
  BY <1>6, <1>7, <1>8, <1>9

\* A mark and a letter, or two marks, of the writer's escapes.
LEMMA ShortWithin ==
  ASSUME NEW a \in Accs, NEW b \in Accs, Whole(a) <= Whole(b),
         NEW m \in Punctuation, NEW c \in {"n"} \cup Punctuation
  PROVE  Within(Counted(Counted(a, m), c), b) /\ Counted(Counted(a, m), c) \in Accs
<1> DEFINE d == Counted(a, m)
           e == Counted(d, c)
           w == "alphanumeric"
<1>1. /\ d \in Accs
      /\ \A k \in Kinds, x \in Nat : Charge(d, k, x) = Whole(a) + 1 + RunTokens(k, x)
  BY MarkCharge
<1>2. Whole(a) \in Nat /\ Whole(b) \in Nat /\ w \in Kinds
  BY ChargeTyped DEF Kinds
<1> HIDE DEF d
<1>3. CASE c \in Punctuation
  <2>1. Whole(d) = Whole(a) + 1
    <3>1. Charge(d, w, 0) = Whole(d) /\ RunTokens(w, 0) = 0
      BY <1>1, <1>2, ChargeTyped, RunTyped
    <3>2. Charge(d, w, 0) = Whole(a) + 1 + RunTokens(w, 0)
      BY <1>1, <1>2
    <3> QED
      BY <1>2, <3>1, <3>2
  <2>2. e \in Accs /\ \A k \in Kinds, x \in Nat : Charge(e, k, x) = Whole(d) + 1 + RunTokens(k, x)
    BY <1>1, <1>3, MarkCharge
  <2> HIDE DEF e
  <2>3. ASSUME NEW k \in Kinds, NEW x \in Nat
        PROVE  Charge(e, k, x) <= Whole(b) + 2 + RunTokens(k, x)
    <3>1. RunTokens(k, x) \in Nat
      BY RunTyped
    <3> QED
      BY <1>2, <2>1, <2>2, <3>1
  <2>4. Within(e, b)
    BY <2>3, Zenon DEF Within
  <2> QED
    BY <2>2, <2>4 DEF e, d
<1>4. CASE c = "n"
  <2>1. Class(c) = w /\ BytesOf(c) = 1
    BY <1>4, Letters
  <2>2. /\ e \in Accs
        /\ \A k \in Kinds, x \in Nat :
             Charge(e, k, x) = IF k = w THEN Charge(d, k, 1 + x) ELSE Charge(d, w, 1) + RunTokens(k, x)
    BY <1>1, <2>1, LetterCharge
  <2> HIDE DEF e
  <2>3. ASSUME NEW k \in Kinds, NEW x \in Nat
        PROVE  \/ k = w /\ Charge(e, k, x) <= Whole(b) + 1 + RunTokens(k, 3 + x)
               \/ k # w /\ Charge(e, k, x) <= Whole(b) + 1 + RunTokens(w, 3) + RunTokens(k, x)
    <3>1. 1 + x \in Nat /\ 3 + x \in Nat /\ 1 + x <= 3 + x
      OBVIOUS
    <3>2. /\ RunTokens(k, x) \in Nat /\ RunTokens(w, 3) \in Nat /\ RunTokens(w, 1) \in Nat
          /\ RunTokens(w, 1 + x) \in Nat /\ RunTokens(w, 3 + x) \in Nat
      BY <1>2, <3>1, RunTyped
    <3>3. RunTokens(w, 1 + x) <= RunTokens(w, 3 + x) /\ RunTokens(w, 1) <= RunTokens(w, 3)
      BY <3>1, AlphanumericRun
    <3>4. Charge(d, w, 1) = Whole(a) + 1 + RunTokens(w, 1) /\ Charge(d, w, 1 + x) = Whole(a) + 1 + RunTokens(w, 1 + x)
      BY <1>1, <1>2, <3>1
    <3>5. CASE k = w
      <4>1. Charge(e, k, x) = Whole(a) + 1 + RunTokens(k, 1 + x)
        BY <2>2, <3>4, <3>5
      <4> QED
        BY <1>2, <3>2, <3>3, <3>5, <4>1
    <3>6. CASE k # w
      <4>1. Charge(e, k, x) = Whole(a) + 1 + RunTokens(w, 1) + RunTokens(k, x)
        BY <2>2, <3>4, <3>6
      <4> QED
        BY <1>2, <3>2, <3>3, <3>6, <4>1
    <3> QED
      BY <3>5, <3>6
  <2>4. Within(e, b)
    BY <2>3, Zenon DEF Within
  <2> QED
    BY <2>2, <2>4 DEF e, d
<1> QED
  BY <1>3, <1>4

\* A character that needs no escape goes with its class.
LEMMA PlainWithin ==
  ASSUME NEW a \in Accs, NEW b \in Accs, Whole(a) <= Whole(b), NEW c
  PROVE  Within(Counted(a, c), b) /\ Counted(a, c) \in Accs
<1> DEFINE d == Counted(a, c)
           w == "alphanumeric"
<1>1. /\ Whole(a) \in Nat /\ Whole(b) \in Nat
      /\ w \in Kinds /\ "wide" \in Kinds /\ "space" \in Kinds /\ "punctuation" \in Kinds
  BY ChargeTyped DEF Kinds
<1>2. ASSUME NEW j \in Kinds, NEW y \in Nat, Class(c) = j, BytesOf(c) = y
      PROVE  /\ d \in Accs
             /\ \A k \in Kinds, x \in Nat :
                  Charge(d, k, x) = IF k = j THEN Charge(a, k, y + x) ELSE Charge(a, j, y) + RunTokens(k, x)
  <2>1. /\ d \in Accs
        /\ \A k \in Kinds, x \in Nat :
             Charge(d, k, x) = IF k = Class(c) THEN Charge(a, k, BytesOf(c) + x)
                               ELSE Charge(a, Class(c), BytesOf(c)) + RunTokens(k, x)
    BY CountedCharge
  <2> HIDE DEF d
  <2> QED
    BY <1>2, <2>1, Zenon
<1> HIDE DEF d
<1>3. CASE c \in Punctuation
  <2>1. d \in Accs /\ \A k \in Kinds, x \in Nat : Charge(d, k, x) = Whole(a) + 1 + RunTokens(k, x)
    BY <1>3, MarkCharge DEF d
  <2>2. ASSUME NEW k \in Kinds, NEW x \in Nat
        PROVE  Charge(d, k, x) <= Whole(b) + 2 + RunTokens(k, x)
    <3>1. RunTokens(k, x) \in Nat
      BY RunTyped
    <3> QED
      BY <1>1, <2>1, <3>1
  <2> QED
    BY <2>1, <2>2, Zenon DEF Within, d
<1>4. CASE c \in Whitespace
  <2>1. Class(c) = "space" /\ BytesOf(c) = 1
    BY <1>4, ClassListed
  <2>2. /\ d \in Accs
        /\ \A k \in Kinds, x \in Nat :
             Charge(d, k, x) = IF k = "space" THEN Charge(a, k, 1 + x) ELSE Charge(a, "space", 1) + RunTokens(k, x)
    BY <1>1, <1>2, <2>1
  <2>3. ASSUME NEW k \in Kinds, NEW x \in Nat
        PROVE  Charge(d, k, x) <= Whole(b) + 2 + RunTokens(k, x)
    <3>1. 1 + x \in Nat /\ RunTokens(k, x) \in Nat
      BY RunTyped
    <3>2. Charge(a, "space", 1 + x) <= Whole(a) + 1 /\ Charge(a, "space", 1) <= Whole(a) + 1
      BY <1>1, <3>1, ChargeWithin
    <3>3. Charge(a, "space", 1 + x) \in Nat /\ Charge(a, "space", 1) \in Nat
      BY <1>1, <3>1, ChargeTyped
    <3>4. CASE k = "space"
      BY <1>1, <2>2, <3>1, <3>2, <3>3, <3>4
    <3>5. CASE k # "space"
      BY <1>1, <2>2, <3>1, <3>2, <3>3, <3>5
    <3> QED
      BY <3>4, <3>5
  <2> QED
    BY <2>2, <2>3, Zenon DEF Within, d
<1>5. CASE c \in NonAscii
  <2>1. PICK y \in {3, 4} : BytesOf(c) = y
    BY <1>5, ClassListed DEF NonAscii
  <2>2. Class(c) = "wide" /\ y \in Nat
    BY <1>5, ClassListed DEF NonAscii
  <2>3. /\ d \in Accs
        /\ \A k \in Kinds, x \in Nat :
             Charge(d, k, x) = IF k = "wide" THEN Charge(a, k, y + x) ELSE Charge(a, "wide", y) + RunTokens(k, x)
    BY <1>1, <1>2, <2>1, <2>2
  <2>4. ASSUME NEW k \in Kinds, NEW x \in Nat
        PROVE  Charge(d, k, x) <= Whole(b) + 2 + RunTokens(k, x)
    <3>1. y + x \in Nat /\ y + 0 = y /\ 0 \in Nat
      BY <2>2
    <3>2. /\ RunTokens(k, x) \in Nat /\ RunTokens("wide", y + x) \in Nat /\ RunTokens("wide", y) \in Nat
          /\ RunTokens("wide", x) \in Nat /\ RunTokens("wide", 0) = 0
      BY <1>1, <2>2, <3>1, RunTyped
    <3>3. RunTokens("wide", y + x) <= 2 + RunTokens("wide", x)
      BY <2>1, WideRun
    <3>4. RunTokens("wide", y) <= 2
      <4>1. RunTokens("wide", 3 + 0) <= 2 + RunTokens("wide", 0) /\ RunTokens("wide", 4 + 0) <= 2 + RunTokens("wide", 0)
        BY <3>1, WideRun
      <4>2. 3 + 0 = 3 /\ 4 + 0 = 4
        OBVIOUS
      <4> QED
        BY <2>1, <3>2, <4>1, <4>2
    <3>5. /\ Charge(a, "wide", y + x) <= Whole(a) + RunTokens("wide", y + x)
          /\ Charge(a, "wide", y) <= Whole(a) + RunTokens("wide", y)
      BY <1>1, <2>2, <3>1, ChargeWithin
    <3>6. Charge(a, "wide", y + x) \in Nat /\ Charge(a, "wide", y) \in Nat
      BY <1>1, <2>2, <3>1, ChargeTyped
    <3>7. CASE k = "wide"
      BY <1>1, <2>3, <3>2, <3>3, <3>5, <3>6, <3>7
    <3>8. CASE k # "wide"
      BY <1>1, <2>3, <3>2, <3>4, <3>5, <3>6, <3>8
    <3> QED
      BY <3>7, <3>8
  <2> QED
    BY <2>3, <2>4, Zenon DEF Within, d
<1>6. CASE c \notin Whitespace \cup Punctuation \cup NonAscii
  <2>1. Class(c) = w /\ BytesOf(c) = 1
    BY <1>6, ClassListed
  <2>2. /\ d \in Accs
        /\ \A k \in Kinds, x \in Nat :
             Charge(d, k, x) = IF k = w THEN Charge(a, k, 1 + x) ELSE Charge(a, w, 1) + RunTokens(k, x)
    BY <1>1, <1>2, <2>1
  <2>3. ASSUME NEW k \in Kinds, NEW x \in Nat
        PROVE  \/ k = w /\ Charge(d, k, x) <= Whole(b) + 1 + RunTokens(k, 3 + x)
               \/ k # w /\ Charge(d, k, x) <= Whole(b) + 1 + RunTokens(w, 3) + RunTokens(k, x)
    <3>1. 1 + x \in Nat /\ 3 + x \in Nat /\ 1 + x <= 3 + x
      OBVIOUS
    <3>2. /\ RunTokens(k, x) \in Nat /\ RunTokens(w, 3) \in Nat /\ RunTokens(w, 1) \in Nat
          /\ RunTokens(w, 1 + x) \in Nat /\ RunTokens(w, 3 + x) \in Nat
      BY <1>1, <3>1, RunTyped
    <3>3. RunTokens(w, 1 + x) <= RunTokens(w, 3 + x) /\ RunTokens(w, 1) <= RunTokens(w, 3)
      BY <3>1, AlphanumericRun
    <3>4. /\ Charge(a, w, 1) <= Whole(a) + RunTokens(w, 1)
          /\ Charge(a, w, 1 + x) <= Whole(a) + RunTokens(w, 1 + x)
      BY <1>1, <3>1, ChargeWithin
    <3>5. Charge(a, w, 1) \in Nat /\ Charge(a, w, 1 + x) \in Nat
      BY <1>1, <3>1, ChargeTyped
    <3>6. CASE k = w
      BY <1>1, <2>2, <3>2, <3>3, <3>4, <3>5, <3>6
    <3>7. CASE k # w
      BY <1>1, <2>2, <3>2, <3>3, <3>4, <3>5, <3>7
    <3> QED
      BY <3>6, <3>7
  <2> QED
    BY <2>2, <2>3, Zenon DEF Within, d
<1> QED
  BY <1>3, <1>4, <1>5, <1>6

\* What an escape by number stands for costs no more than the escape.
LEMMA NumberedCostsMore ==
  ASSUME NEW a \in Accs, NEW b \in Accs, NoMore(a, b), NEW c \in Characters,
         NEW h \in DOMAIN HexVal, NEW l \in DOMAIN HexVal
  PROVE  NoMore(After(a, Escaped(c)), FourCounted(b, "\\", "u", h, l))
<1>1. Whole(a) <= Whole(b) /\ Whole(a) \in Nat /\ Whole(b) \in Nat
  <2>1. "wide" \in Kinds /\ 0 \in Nat
    BY DEF Kinds
  <2>2. Whole(a) \in Nat /\ Whole(b) \in Nat
    BY <2>1, ChargeTyped
  <2> QED
    BY <2>2, NoMoreWhole
<1>2. CASE c \in Plain
  <2>1. After(a, Escaped(c)) = Counted(a, c)
    BY <1>2, EscapedKinds, AfterOne
  <2>2. Within(Counted(a, c), b) /\ Counted(a, c) \in Accs
    BY <1>1, PlainWithin
  <2>3. NoMore(Counted(a, c), FourCounted(b, "\\", "u", h, l))
    BY <2>2, WithinEscape
  <2> QED
    BY <2>1, <2>3, Zenon
<1>3. ASSUME NEW m \in {"n"} \cup Punctuation, Escaped(c) = <<"\\", m>>
      PROVE  NoMore(After(a, Escaped(c)), FourCounted(b, "\\", "u", h, l))
  <2>1. After(a, <<"\\", m>>) = Counted(Counted(a, "\\"), m)
    BY AfterTwo
  <2>2. "\\" \in Punctuation
    BY DEF Punctuation
  <2>3. Within(Counted(Counted(a, "\\"), m), b) /\ Counted(Counted(a, "\\"), m) \in Accs
    BY <1>1, <2>2, ShortWithin
  <2>4. NoMore(Counted(Counted(a, "\\"), m), FourCounted(b, "\\", "u", h, l))
    BY <2>3, WithinEscape
  <2> QED
    BY <1>3, <2>1, <2>4, Zenon
<1>4. CASE c = "quote" \/ c = "\\" \/ c = "lf"
  <2>1. "quote" \in Punctuation /\ "\\" \in Punctuation
    BY DEF Punctuation
  <2> QED
    BY <1>3, <1>4, <2>1, EscapedKinds
<1>5. CASE c = "ctl"
  <2> DEFINE d == FourCounted(a, "\\", "u", "0", "0")
             e == FourCounted(b, "\\", "u", h, l)
  <2>1. After(a, Escaped(c)) = d
    <3>1. Escaped(c) = <<"\\", "u", "0", "0">>
      BY <1>5, EscapedKinds
    <3> QED
      BY <3>1, AfterFour
  <2>2. "0" \in DOMAIN HexVal
    BY DigitsListed
  <2>3. \A k \in Kinds, x \in Nat :
           Charge(d, k, x) = Whole(a) + 1 + IF k = "alphanumeric" THEN RunTokens(k, 3 + x)
                                            ELSE RunTokens("alphanumeric", 3) + RunTokens(k, x)
    BY <2>2, EscapeCharge
  <2>4. \A k \in Kinds, x \in Nat :
           Charge(e, k, x) = Whole(b) + 1 + IF k = "alphanumeric" THEN RunTokens(k, 3 + x)
                                            ELSE RunTokens("alphanumeric", 3) + RunTokens(k, x)
    BY EscapeCharge
  <2> HIDE DEF d, e
  <2>5. ASSUME NEW k \in Kinds, NEW x \in Nat PROVE Charge(d, k, x) <= Charge(e, k, x)
    <3>1. 3 + x \in Nat /\ "alphanumeric" \in Kinds
      BY DEF Kinds
    <3>2. RunTokens(k, 3 + x) \in Nat /\ RunTokens("alphanumeric", 3) \in Nat /\ RunTokens(k, x) \in Nat
      BY <3>1, RunTyped
    <3> QED
      BY <1>1, <2>3, <2>4, <3>2
  <2> QED
    BY <2>1, <2>5 DEF NoMore, d, e
<1> QED
  BY <1>2, <1>4, <1>5, PlainOrEscaped

\* What is still to count.
Rest(b, t, i) == After(b, SubSeq(t, i, Len(t)))

LEMMA RestSteps ==
  ASSUME NEW b \in Accs, NEW t \in Seq(Characters), NEW i \in Nat, i >= 1
  PROVE  /\ i = Len(t) + 1 => Rest(b, t, i) = b
         /\ At(t, i) # "end" => Rest(b, t, i) = Rest(Counted(b, At(t, i)), t, i + 1)
         /\ Rest(b, t, 1) = After(b, t)
<1> DEFINE n == Len(t)
           S == Characters
<1>1. n \in Nat /\ t \in Seq(S) /\ \A k \in 1..n : t[k] \in S
  BY LenProperties, ElementOfSeq
<1> HIDE DEF S
<1>2. ASSUME NEW k \in 1..(n + 1)
      PROVE  /\ SubSeq(t, k, n) \in Seq(S) /\ Len(SubSeq(t, k, n)) = (n - k) + 1
             /\ \A m \in 1..((n - k) + 1) : SubSeq(t, k, n)[m] = t[(k + m) - 1]
  <2>1. \A m \in k..n : m \in 1..n
    BY <1>1
  <2>2. k \in Int /\ n \in Int /\ (n - k) + 1 \in Nat
    BY <1>1
  <2>3. \A m \in k..n : t[m] \in S
    BY <1>1, <2>1
  <2> QED
    BY <1>1, <2>2, <2>3
<1>3. i = n + 1 => Rest(b, t, i) = b
  <2> SUFFICES ASSUME i = n + 1 PROVE Rest(b, t, i) = b
    OBVIOUS
  <2> DEFINE s == SubSeq(t, i, n)
  <2>1. i \in 1..(n + 1) /\ (n - i) + 1 = 0
    BY <1>1
  <2>2. s \in Seq(S) /\ Len(s) = 0
    BY <1>2, <2>1
  <2> HIDE DEF s
  <2>3. s = <<>>
    BY <2>2, EmptySeq
  <2>4. After(b, s) = b
    BY <2>3, AfterNothing
  <2> QED
    BY <2>4 DEF Rest, s
<1>4. At(t, i) # "end" => Rest(b, t, i) = Rest(Counted(b, At(t, i)), t, i + 1)
  <2> SUFFICES ASSUME At(t, i) # "end" PROVE Rest(b, t, i) = Rest(Counted(b, At(t, i)), t, i + 1)
    OBVIOUS
  <2>1. i \in 1..n /\ At(t, i) = t[i]
    BY AtEnd
  <2> DEFINE c == t[i]
             j == i + 1
             s == SubSeq(t, i, n)
             r == SubSeq(t, j, n)
             q == <<c>> \o r
  <2>2. c \in S /\ i \in 1..(n + 1) /\ j \in 1..(n + 1) /\ (n - j) + 1 = n - i
    BY <1>1, <2>1
  <2>3. /\ s \in Seq(S) /\ Len(s) = (n - i) + 1
        /\ \A m \in 1..((n - i) + 1) : s[m] = t[(i + m) - 1]
    BY <1>2, <2>2
  <2>4. /\ r \in Seq(S) /\ Len(r) = n - i
        /\ \A m \in 1..(n - i) : r[m] = t[(j + m) - 1]
    <3> HIDE DEF j
    <3>1. /\ SubSeq(t, j, n) \in Seq(S) /\ Len(SubSeq(t, j, n)) = (n - j) + 1
          /\ \A m \in 1..((n - j) + 1) : SubSeq(t, j, n)[m] = t[(j + m) - 1]
      BY <1>2, <2>2
    <3> QED
      BY <2>2, <3>1
  <2> HIDE DEF c, s, r
  <2>5. /\ q \in Seq(S) /\ Len(q) = 1 + Len(r)
        /\ q[1] = c /\ \A k \in 1..Len(r) : q[k + 1] = r[k]
    BY ONLY <2>2, <2>4, OneFirst
  <2>6. Len(s) = Len(q)
    BY <1>1, <2>1, <2>3, <2>4, <2>5
  <2> HIDE DEF q
  <2>7. \A m \in 1..Len(s) : s[m] = q[m]
    <3> TAKE m \in 1..Len(s)
    <3>1. m \in 1..((n - i) + 1)
      BY <2>3
    <3>2. CASE m = 1
      <4>1. (i + m) - 1 = i
        BY <3>2
      <4> QED
        BY <2>3, <2>5, <3>1, <3>2, <4>1 DEF c
    <3>3. CASE m # 1
      <4> DEFINE p == m - 1
      <4>1. p \in 1..(n - i) /\ p + 1 = m /\ (j + p) - 1 = (i + m) - 1
        BY <1>1, <2>1, <3>1, <3>3
      <4> HIDE DEF p
      <4>2. q[p + 1] = r[p]
        BY <2>4, <2>5, <4>1
      <4>3. r[p] = t[(j + p) - 1]
        BY <2>4, <4>1
      <4>4. s[m] = t[(i + m) - 1]
        BY <2>3, <3>1
      <4> QED
        BY <4>1, <4>2, <4>3, <4>4, Zenon
    <3> QED
      BY <3>2, <3>3
  <2>8. s = q
    <3>1. s \in Seq(S) /\ q \in Seq(S)
      BY <2>3, <2>5
    <3> QED
      BY ONLY <2>6, <2>7, <3>1, SeqEqual
  <2>9. After(b, <<c>> \o r) = After(Counted(b, c), r)
    BY <2>2, <2>4, AfterFront
  <2> QED
    BY <2>1, <2>8, <2>9, Zenon DEF Rest, s, q, r, j, c
<1>5. Rest(b, t, 1) = After(b, t)
  <2> DEFINE s == SubSeq(t, 1, n)
  <2>1. 1 \in 1..(n + 1) /\ (n - 1) + 1 = n /\ \A m \in 1..n : (1 + m) - 1 = m
    BY <1>1
  <2>2. s \in Seq(S) /\ Len(s) = n /\ \A m \in 1..n : s[m] = t[m]
    BY <1>2, <2>1
  <2> HIDE DEF s
  <2>3. s = t
    BY <1>1, <2>2, SeqEqual
  <2> QED
    BY <2>3 DEF Rest, s
<1> QED
  BY <1>3, <1>4, <1>5

LEMMA RestFour ==
  ASSUME NEW b \in Accs, NEW t \in Seq(Characters), NEW i \in Nat, i >= 1,
         At(t, i) # "end", At(t, i + 1) # "end", At(t, i + 2) # "end", At(t, i + 3) # "end"
  PROVE  /\ Rest(b, t, i) =
              Rest(FourCounted(b, At(t, i), At(t, i + 1), At(t, i + 2), At(t, i + 3)), t, i + 4)
         /\ FourCounted(b, At(t, i), At(t, i + 1), At(t, i + 2), At(t, i + 3)) \in Accs
<1> DEFINE b1 == Counted(b, At(t, i))
           b2 == Counted(b1, At(t, i + 1))
           b3 == Counted(b2, At(t, i + 2))
           b4 == Counted(b3, At(t, i + 3))
<1>1. /\ i + 1 \in Nat /\ i + 1 >= 1 /\ (i + 1) + 1 = i + 2
      /\ i + 2 \in Nat /\ i + 2 >= 1 /\ (i + 2) + 1 = i + 3
      /\ i + 3 \in Nat /\ i + 3 >= 1 /\ (i + 3) + 1 = i + 4
  OBVIOUS
<1>2. b1 \in Accs /\ Rest(b, t, i) = Rest(b1, t, i + 1)
  BY CountedCharge, RestSteps
<1> HIDE DEF b1
<1>3. b2 \in Accs /\ Rest(b1, t, i + 1) = Rest(b2, t, i + 2)
  <2>1. b2 \in Accs
    BY <1>2, CountedCharge
  <2>2. Rest(b1, t, i + 1) = Rest(b2, t, (i + 1) + 1)
    BY <1>1, <1>2, RestSteps
  <2> QED
    BY <1>1, <2>1, <2>2, Zenon
<1> HIDE DEF b2
<1>4. b3 \in Accs /\ Rest(b2, t, i + 2) = Rest(b3, t, i + 3)
  <2>1. b3 \in Accs
    BY <1>3, CountedCharge
  <2>2. Rest(b2, t, i + 2) = Rest(b3, t, (i + 2) + 1)
    BY <1>1, <1>3, RestSteps
  <2> QED
    BY <1>1, <2>1, <2>2, Zenon
<1> HIDE DEF b3
<1>5. b4 \in Accs /\ Rest(b3, t, i + 3) = Rest(b4, t, i + 4)
  <2>1. b4 \in Accs
    BY <1>4, CountedCharge
  <2>2. Rest(b3, t, i + 3) = Rest(b4, t, (i + 3) + 1)
    BY <1>1, <1>4, RestSteps
  <2> QED
    BY <1>1, <2>1, <2>2, Zenon
<1> HIDE DEF b4
<1> QED
  BY <1>2, <1>3, <1>4, <1>5, Zenon DEF b1, b2, b3, b4, FourCounted

\* The character costs no more than its spelling from i to j.
Cheaper(t, i, j, c) ==
  \A a \in Accs, b \in Accs :
    NoMore(a, b) => \E e \in Accs : NoMore(After(a, Escaped(c)), e) /\ Rest(b, t, i) = Rest(e, t, j)

LEMMA PlainCheaper ==
  ASSUME NEW t \in Seq(Characters), NEW i \in Nat, i >= 1, At(t, i) \in Plain
  PROVE  Cheaper(t, i, i + 1, At(t, i))
<1> DEFINE c == At(t, i)
<1>1. c # "end" /\ Escaped(c) = <<c>>
  BY PlaceKinds, EscapedKinds
<1> SUFFICES ASSUME NEW a \in Accs, NEW b \in Accs, NoMore(a, b)
             PROVE  \E e \in Accs : NoMore(After(a, Escaped(c)), e) /\ Rest(b, t, i) = Rest(e, t, i + 1)
  BY DEF Cheaper
<1>2. Rest(b, t, i) = Rest(Counted(b, c), t, i + 1) /\ Counted(b, c) \in Accs
  BY <1>1, RestSteps, CountedCharge
<1>3. After(a, Escaped(c)) = Counted(a, c)
  BY <1>1, AfterOne
<1>4. NoMore(Counted(a, c), Counted(b, c))
  BY SameMore
<1> QED
  BY <1>2, <1>3, <1>4, Zenon

LEMMA ShortCheaper ==
  ASSUME NEW t \in Seq(Characters), NEW i \in Nat, i >= 1, At(t, i) = "\\", At(t, i + 1) \in DOMAIN Short
  PROVE  Cheaper(t, i, i + 2, Short[At(t, i + 1)])
<1> DEFINE m == At(t, i + 1)
           c == Short[m]
<1>1. m # "end" /\ "\\" # "end" /\ i + 1 \in Nat /\ i + 1 >= 1 /\ (i + 1) + 1 = i + 2
  BY PlaceKinds
<1>2. m = "quote" \/ m = "\\" \/ m = "/" \/ m = "n"
  BY ShortListed
<1> SUFFICES ASSUME NEW a \in Accs, NEW b \in Accs, NoMore(a, b)
             PROVE  \E e \in Accs : NoMore(After(a, Escaped(c)), e) /\ Rest(b, t, i) = Rest(e, t, i + 2)
  BY DEF Cheaper
<1> DEFINE b1 == Counted(b, "\\")
           b2 == Counted(b1, m)
           a1 == Counted(a, "\\")
<1>3. b1 \in Accs /\ a1 \in Accs /\ Rest(b, t, i) = Rest(b1, t, i + 1) /\ NoMore(a1, b1)
  BY <1>1, CountedCharge, RestSteps, SameMore
<1>4. NoMore(b, b1)
  <2>1. "\\" \in Punctuation
    BY DEF Punctuation
  <2> QED
    BY <2>1, MarkCharge
<1> HIDE DEF b1, a1
<1>5. b2 \in Accs /\ Rest(b1, t, i + 1) = Rest(b2, t, i + 2)
  <2>1. b2 \in Accs
    BY <1>3, CountedCharge
  <2>2. Rest(b1, t, i + 1) = Rest(b2, t, (i + 1) + 1)
    BY <1>1, <1>3, RestSteps
  <2> QED
    BY <1>1, <2>1, <2>2, Zenon
<1>6. CASE m # "/"
  <2>1. Escaped(c) = <<"\\", m>>
    BY <1>2, <1>6, ShortListed, EscapedKinds, Zenon
  <2>2. After(a, <<"\\", m>>) = Counted(a1, m)
    BY AfterTwo DEF a1
  <2>3. NoMore(Counted(a1, m), b2)
    BY <1>3, SameMore
  <2> QED
    BY <1>3, <1>5, <2>1, <2>2, <2>3, Zenon
<1>7. CASE m = "/"
  <2>1. "/" \in Plain
    BY CharactersListed DEF Plain, Control, BasicNames
  <2>2. Escaped(c) = <<m>>
    BY <1>7, <2>1, ShortListed, EscapedKinds, Zenon
  <2>3. After(a, <<m>>) = Counted(a, m) /\ Counted(a, m) \in Accs
    BY AfterOne, CountedCharge
  <2>4. NoMore(a, b1)
    BY <1>3, <1>4, NoMoreLinks
  <2>5. NoMore(Counted(a, m), b2)
    BY <1>3, <2>4, SameMore
  <2> QED
    BY <1>3, <1>5, <2>2, <2>3, <2>5, Zenon
<1> QED
  BY <1>6, <1>7

LEMMA NumberedCheaper ==
  ASSUME NEW t \in Seq(Characters), NEW i \in Nat, i >= 1,
         At(t, i) = "\\", At(t, i + 1) = "u", HexAhead(t, i + 2), NEW c \in Characters
  PROVE  Cheaper(t, i, i + 4, c)
<1> DEFINE h == At(t, i + 2)
           l == At(t, i + 3)
<1>1. h \in DOMAIN HexVal /\ l \in DOMAIN HexVal
  <2>1. (i + 2) + 1 = i + 3
    OBVIOUS
  <2> QED
    BY <2>1 DEF HexAhead
<1>2. h # "end" /\ l # "end" /\ "u" # "end" /\ "\\" # "end"
  BY <1>1, DigitsListed
<1> SUFFICES ASSUME NEW a \in Accs, NEW b \in Accs, NoMore(a, b)
             PROVE  \E e \in Accs : NoMore(After(a, Escaped(c)), e) /\ Rest(b, t, i) = Rest(e, t, i + 4)
  BY DEF Cheaper
<1>3. /\ Rest(b, t, i) = Rest(FourCounted(b, "\\", "u", h, l), t, i + 4)
      /\ FourCounted(b, "\\", "u", h, l) \in Accs
  <2> HIDE DEF h, l
  <2>1. At(t, i + 2) = h /\ At(t, i + 3) = l
    BY DEF h, l
  <2>2. /\ Rest(b, t, i) =
             Rest(FourCounted(b, At(t, i), At(t, i + 1), At(t, i + 2), At(t, i + 3)), t, i + 4)
        /\ FourCounted(b, At(t, i), At(t, i + 1), At(t, i + 2), At(t, i + 3)) \in Accs
    BY <1>2, <2>1, RestFour
  <2> QED
    BY <2>1, <2>2, Zenon
<1>4. NoMore(After(a, Escaped(c)), FourCounted(b, "\\", "u", h, l))
  BY <1>1, NumberedCostsMore
<1> QED
  BY <1>3, <1>4, Zenon

\* A pair costs no more than its first half does.
LEMMA PairCheaper ==
  ASSUME NEW t \in Seq(Characters), NEW i \in Nat, i >= 1,
         At(t, i) = "\\", At(t, i + 1) = "u", HexAhead(t, i + 2), PairAhead(t, i), NEW c \in Characters
  PROVE  Cheaper(t, i, i + 8, c)
<1> DEFINE j == i + 4
           h == At(t, j + 2)
           l == At(t, j + 3)
<1>1. j \in Nat /\ j >= 1 /\ j + 1 = i + 5 /\ j + 2 = i + 6 /\ (j + 2) + 1 = j + 3 /\ j + 4 = i + 8
  OBVIOUS
<1>2. At(t, j) = "\\" /\ At(t, j + 1) = "u" /\ HexAhead(t, j + 2)
  BY <1>1, PairTyped
<1>3. Cheaper(t, i, j, c)
  BY NumberedCheaper
<1> HIDE DEF j
<1>4. h \in DOMAIN HexVal /\ l \in DOMAIN HexVal
  BY <1>1, <1>2 DEF HexAhead
<1>5. h # "end" /\ l # "end" /\ "u" # "end" /\ "\\" # "end"
  BY <1>4, DigitsListed
<1> SUFFICES ASSUME NEW a \in Accs, NEW b \in Accs, NoMore(a, b)
             PROVE  \E e \in Accs : NoMore(After(a, Escaped(c)), e) /\ Rest(b, t, i) = Rest(e, t, i + 8)
  BY DEF Cheaper
<1>6. PICK d \in Accs : NoMore(After(a, Escaped(c)), d) /\ Rest(b, t, i) = Rest(d, t, j)
  BY <1>3 DEF Cheaper
<1> DEFINE e == FourCounted(d, "\\", "u", h, l)
<1>7. e \in Accs /\ Rest(d, t, j) = Rest(e, t, i + 8)
  <2> HIDE DEF h, l
  <2>1. At(t, j + 2) = h /\ At(t, j + 3) = l
    BY DEF h, l
  <2>2. /\ Rest(d, t, j) =
             Rest(FourCounted(d, At(t, j), At(t, j + 1), At(t, j + 2), At(t, j + 3)), t, j + 4)
        /\ FourCounted(d, At(t, j), At(t, j + 1), At(t, j + 2), At(t, j + 3)) \in Accs
    BY <1>1, <1>2, <1>5, <2>1, RestFour
  <2> QED
    BY <1>1, <1>2, <2>1, <2>2, Zenon
<1>8. NoMore(d, e)
  BY <1>4, EscapeCharge
<1> HIDE DEF e
<1>9. After(a, Escaped(c)) \in Accs
  BY EscapedTyped, AfterTyped
<1>10. NoMore(After(a, Escaped(c)), e)
  BY <1>6, <1>7, <1>8, <1>9, NoMoreLinks
<1> QED
  BY <1>6, <1>7, <1>10, Zenon

\* Every place of a body that is respelled costs no more for it.
LEMMA PlaceCheaper ==
  ASSUME NEW t \in Seq(Characters), NEW lexeme, Quoted(lexeme, t),
         NEW i \in 1..Len(t), Cut(t)[i], ~Lone(t)[i]
  PROVE  \E c \in Characters, j \in (i + 1)..(Len(t) + 1) :
           Spells(lexeme, t, i, j, c) /\ Cheaper(t, i, j, c)
<1>1. i \in Nat /\ i >= 1 /\ i <= Len(t)
  BY LenProperties
<1>2. SpellingAhead(t, i)
  BY <1>1, CutSteps
<1>3. ASSUME NEW j, NEW c, Spells(lexeme, t, i, j, c), Cheaper(t, i, j, c)
      PROVE  \E d \in Characters, k \in (i + 1)..(Len(t) + 1) :
               Spells(lexeme, t, i, k, d) /\ Cheaper(t, i, k, d)
  <2>1. c \in Characters /\ j \in (i + 1)..(Len(t) + 1)
    BY <1>3 DEF Spells
  <2> QED
    BY <1>3, <2>1, Zenon
<1>4. CASE At(t, i) \in Plain
  <2>1. Spells(lexeme, t, i, i + 1, At(t, i)) /\ Cheaper(t, i, i + 1, At(t, i))
    BY <1>1, <1>4, PlainStep, PlainCheaper
  <2> QED
    BY <1>3, <2>1
<1>5. CASE At(t, i) = "\\" /\ At(t, i + 1) \in DOMAIN Short
  <2>1. Spells(lexeme, t, i, i + 2, Short[At(t, i + 1)]) /\ Cheaper(t, i, i + 2, Short[At(t, i + 1)])
    BY <1>1, <1>5, ShortStep, ShortCheaper
  <2> QED
    BY <1>3, <2>1
<1>6. CASE At(t, i) = "\\" /\ At(t, i + 1) = "u" /\ HexAhead(t, i + 2)
  <2>1. UnitAhead(t, i) \in 0..24
    BY <1>1, <1>6, UnitTyped
  <2>2. CASE UnitAhead(t, i) \in Scalars
    <3> DEFINE c == CharOf(UnitAhead(t, i))
    <3>1. Spells(lexeme, t, i, i + 4, c)
      BY <1>1, <1>6, <2>2, ScalarStep
    <3>2. c \in Characters
      BY <3>1 DEF Spells
    <3> HIDE DEF c
    <3>3. Cheaper(t, i, i + 4, c)
      BY <1>1, <1>6, <3>2, NumberedCheaper
    <3> QED
      BY <1>3, <3>1, <3>3
  <2>3. CASE PairAhead(t, i)
    <3> DEFINE c == Joined(UnitAhead(t, i), LowAhead(t, i))
    <3>1. Spells(lexeme, t, i, i + 8, c)
      BY <1>1, <1>6, <2>3, PairStep
    <3>2. c \in Characters
      BY <3>1 DEF Spells
    <3> HIDE DEF c
    <3>3. Cheaper(t, i, i + 8, c)
      BY <1>1, <1>6, <2>3, <3>2, PairCheaper
    <3> QED
      BY <1>3, <3>1, <3>3
  <2>4. CASE UnitAhead(t, i) \notin Scalars /\ ~PairAhead(t, i)
    <3>1. UnitAhead(t, i) \in Surrogates
      BY <2>1, <2>4 DEF Scalars
    <3> QED
      BY <1>1, <1>6, <2>4, <3>1, LoneStep
  <2> QED
    BY <2>2, <2>3, <2>4
<1> QED
  BY <1>2, <1>4, <1>5, <1>6 DEF SpellingAhead

LEMMA BodyCheaper ==
  ASSUME NEW t \in Seq(Characters), NEW lexeme, Quoted(lexeme, t), Cut(t)[1], ~Lone(t)[1],
         NEW a \in Accs, NEW b \in Accs, NoMore(a, b)
  PROVE  Walk(t)[1] \in Seq(Characters) /\ NoMore(After(a, Walk(t)[1]), After(b, t))
<1> DEFINE n == Len(t)
           Holds(k) == /\ Walk(t)[k] \in Seq(Characters)
                       /\ \A x \in Accs, y \in Accs :
                            NoMore(x, y) => NoMore(After(x, Walk(t)[k]), Rest(y, t, k))
           P == {k \in Nat : Cut(t)[k] /\ ~Lone(t)[k] => Holds(k)}
<1>1. n \in Nat /\ n + 1 \in Nat
  BY LenProperties
<1>2. ASSUME NEW k \in 1..(n + 1), \A j \in (k + 1)..(n + 1) : j \in P PROVE k \in P
  <2> SUFFICES ASSUME Cut(t)[k], ~Lone(t)[k] PROVE Holds(k)
    BY <1>1
  <2>1. k \in Nat /\ k >= 1 /\ (k = n + 1 \/ k \in 1..n)
    BY <1>1
  <2>2. CASE k = n + 1
    <3>1. At(t, k) = "end"
      <4>1. k \notin 1..n
        BY <1>1, <2>2
      <4> QED
        BY <2>1, <4>1, AtEnd
    <3>2. Walk(t)[k] = <<>>
      BY <2>1, <3>1, WalkSteps
    <3>3. <<>> \in Seq(Characters)
      BY EmptySeq
    <3>4. ASSUME NEW x \in Accs, NEW y \in Accs, NoMore(x, y)
          PROVE  NoMore(After(x, Walk(t)[k]), Rest(y, t, k))
      <4>1. After(x, <<>>) = x
        BY AfterNothing
      <4>2. Rest(y, t, k) = y
        BY <2>1, <2>2, RestSteps
      <4> QED
        BY <3>2, <3>4, <4>1, <4>2, Zenon
    <3> QED
      BY <3>2, <3>3, <3>4
  <2>3. CASE k \in 1..n
    <3>1. PICK c \in Characters, j \in (k + 1)..(n + 1) : Spells(lexeme, t, k, j, c) /\ Cheaper(t, k, j, c)
      BY <2>3, PlaceCheaper
    <3>2. Cut(t)[j] /\ ~Lone(t)[j] /\ Walk(t)[k] = Escaped(c) \o Walk(t)[j]
      BY <3>1, Zenon DEF Spells
    <3>3. Holds(j)
      BY <1>2, <3>2
    <3> DEFINE s == Escaped(c)
               w == Walk(t)[j]
    <3>4. s \in Seq(Characters) /\ w \in Seq(Characters)
      BY <3>3, EscapedTyped
    <3>5. s \o w \in Seq(Characters)
      <4> HIDE DEF s, w
      <4> QED
        BY ONLY <3>4, ConcatProperties
    <3>6. ASSUME NEW x \in Accs, NEW y \in Accs, NoMore(x, y)
          PROVE  NoMore(After(x, s \o w), Rest(y, t, k))
      <4>1. PICK e \in Accs : NoMore(After(x, s), e) /\ Rest(y, t, k) = Rest(e, t, j)
        BY <3>1, <3>6 DEF Cheaper
      <4>2. After(x, s) \in Accs
        BY <3>4, AfterTyped
      <4>3. NoMore(After(After(x, s), w), Rest(e, t, j))
        BY <3>3, <4>1, <4>2
      <4>4. After(x, s \o w) = After(After(x, s), w)
        <5> HIDE DEF s, w
        <5> QED
          BY <3>4, AfterJoined
      <4> QED
        BY <4>1, <4>3, <4>4, Zenon
    <3> QED
      BY <3>2, <3>5, <3>6, Zenon
  <2> QED
    BY <2>1, <2>2, <2>3
<1>3. \A k \in 1..(n + 1) : k \in P
  <2> HIDE DEF P, n
  <2> QED
    BY <1>1, <1>2, Backwards
<1>4. Holds(1)
  <2>1. 1 \in 1..(n + 1)
    BY <1>1
  <2> QED
    BY <1>3, <2>1
<1>5. Rest(b, t, 1) = After(b, t)
  BY RestSteps
<1> QED
  BY <1>4, <1>5

-----------------------------------------------------------------------------
(* A text with whitespace around it *)

LEMMA UncountedTyped == Uncounted \in Accs
BY DEF Uncounted, Accs

LEMMA NoMoreSelf ==
  ASSUME NEW a \in Accs
  PROVE  NoMore(a, a)
<1> SUFFICES ASSUME NEW k \in Kinds, NEW x \in Nat PROVE Charge(a, k, x) <= Charge(a, k, x)
  BY DEF NoMore
<1>1. Charge(a, k, x) \in Nat
  BY ChargeTyped
<1> QED
  BY <1>1

\* The same text keeps one no dearer than the other.
LEMMA SameTextMore ==
  ASSUME NEW S, NEW s \in Seq(S), NEW a \in Accs, NEW b \in Accs, NoMore(a, b)
  PROVE  NoMore(After(a, s), After(b, s))
<1> DEFINE n == Len(s)
           D == {d \in Nat : d <= n => NoMore(Upto(a, s)[d], Upto(b, s)[d])}
<1>1. n \in Nat
  BY LenProperties
<1>2. /\ Upto(a, s)[0] = a /\ Upto(b, s)[0] = b
      /\ \A k \in 1..n : Upto(a, s)[k] = Counted(Upto(a, s)[k - 1], s[k])
      /\ \A k \in 1..n : Upto(b, s)[k] = Counted(Upto(b, s)[k - 1], s[k])
      /\ \A k \in 0..n : Upto(a, s)[k] \in Accs /\ Upto(b, s)[k] \in Accs
  BY UptoSteps
<1> HIDE DEF n
<1>3. 0 \in D
  BY <1>2
<1>4. ASSUME NEW d \in Nat, d \in D PROVE d + 1 \in D
  <2> DEFINE e == d + 1
  <2> SUFFICES ASSUME e <= n PROVE NoMore(Upto(a, s)[e], Upto(b, s)[e])
    OBVIOUS
  <2>1. e \in 1..n /\ e - 1 = d /\ d <= n /\ d \in 0..n
    BY <1>1
  <2>2. NoMore(Upto(a, s)[d], Upto(b, s)[d])
    BY <1>4, <2>1
  <2> HIDE DEF e
  <2>3. Upto(a, s)[e] = Counted(Upto(a, s)[d], s[e]) /\ Upto(b, s)[e] = Counted(Upto(b, s)[d], s[e])
    BY <1>2, <2>1
  <2>4. Upto(a, s)[d] \in Accs /\ Upto(b, s)[d] \in Accs
    BY <1>2, <2>1
  <2>5. NoMore(Counted(Upto(a, s)[d], s[e]), Counted(Upto(b, s)[d], s[e]))
    BY ONLY <2>2, <2>4, SameMore
  <2> QED
    BY <2>3, <2>5, Zenon
<1>5. Nat \subseteq D
  <2> HIDE DEF D
  <2> QED
    BY <1>3, <1>4, EveryNumber
<1>6. NoMore(Upto(a, s)[n], Upto(b, s)[n])
  <2>1. n \in D /\ n <= n
    BY <1>1, <1>5
  <2> QED
    BY <2>1
<1> QED
  BY <1>6, Zenon DEF After, n

Spaces == {<<>>, <<"blank">>, <<"lf", "blank">>}

LEMMA SpacesMore ==
  ASSUME NEW b \in Accs, NEW space \in Spaces
  PROVE  /\ space \in Seq(Whitespace)
         /\ After(b, space) \in Accs /\ NoMore(b, After(b, space))
<1>1. "blank" \in Whitespace /\ "lf" \in Whitespace
  BY DEF Whitespace
<1>2. space \in Seq(Whitespace)
  <2>1. <<>> \in Seq(Whitespace)
    BY EmptySeq
  <2>2. <<"blank">> \in Seq(Whitespace)
    BY <1>1
  <2>3. <<"lf", "blank">> \in Seq(Whitespace)
    BY <1>1
  <2> QED
    BY <2>1, <2>2, <2>3, Zenon DEF Spaces
<1>3. After(b, space) \in Accs
  BY <1>2, AfterTyped
<1>4. CASE space = <<>>
  BY <1>2, <1>3, <1>4, AfterNothing, NoMoreSelf, Zenon
<1>5. CASE space = <<"blank">>
  BY <1>1, <1>2, <1>3, <1>5, AfterOne, SpaceMore, Zenon
<1>6. CASE space = <<"lf", "blank">>
  <2> DEFINE c == Counted(b, "lf")
             d == Counted(c, "blank")
  <2>1. After(b, space) = d
    BY <1>6, AfterTwo, Zenon
  <2>2. c \in Accs
    BY CountedCharge, Zenon
  <2>3. NoMore(b, c)
    BY <1>1, SpaceMore, Zenon
  <2> HIDE DEF c
  <2>4. d \in Accs
    BY <2>2, CountedCharge, Zenon
  <2>5. NoMore(c, d)
    BY <1>1, <2>2, SpaceMore, Zenon
  <2> HIDE DEF d
  <2>6. NoMore(b, d)
    BY <2>2, <2>3, <2>4, <2>5, NoMoreLinks
  <2> QED
    BY <1>2, <1>3, <2>1, <2>6, Zenon
<1> QED
  BY <1>4, <1>5, <1>6 DEF Spaces

\* What costs no more wherever it stands costs no more than the other between spaces.
LEMMA SpacedMore ==
  ASSUME NEW S, Whitespace \subseteq S, NEW x \in Seq(S), NEW y \in Seq(S), NEW space \in Spaces,
         \A a \in Accs, b \in Accs : NoMore(a, b) => NoMore(After(a, y), After(b, x))
  PROVE  Estimate(y) <= Estimate(space \o x \o space)
<1> DEFINE z == Uncounted
           a1 == After(z, space)
           a2 == After(a1, x)
           a3 == After(a2, space)
           e == After(z, y)
           w == space \o x
<1>1. space \in Seq(S)
  <2>1. space \in Seq(Whitespace)
    BY UncountedTyped, SpacesMore
  <2> QED
    BY <2>1
<1>2. z \in Accs
  BY UncountedTyped
<1>3. a1 \in Accs /\ NoMore(z, a1)
  BY <1>2, SpacesMore
<1> HIDE DEF z
<1>4. w \in Seq(S) /\ After(z, w) = After(a1, x)
  BY ONLY <1>1, <1>2, x \in Seq(S), AfterJoined, ConcatProperties
<1> HIDE DEF a1
<1>5. a2 \in Accs /\ e \in Accs
  BY <1>2, <1>3, AfterTyped
<1>6. NoMore(e, a2)
  BY <1>2, <1>3
<1> HIDE DEF w
<1>7. After(z, w \o space) = After(After(z, w), space)
  BY ONLY <1>1, <1>2, <1>4, AfterJoined
<1>8. After(z, w \o space) = a3
  BY <1>4, <1>7, Zenon
<1> HIDE DEF a2, e
<1>9. a3 \in Accs /\ NoMore(a2, a3)
  BY <1>5, SpacesMore
<1> HIDE DEF a3
<1>10. NoMore(e, a3)
  BY <1>5, <1>6, <1>9, NoMoreLinks
<1>11. Whole(e) <= Whole(a3)
  BY <1>5, <1>9, <1>10, NoMoreWhole
<1>12. Estimate(y) = Whole(e)
  BY EstimateIsWhole, Zenon DEF e, z
<1>13. Estimate(w \o space) = Whole(a3)
  BY <1>8, EstimateIsWhole, Zenon DEF z
<1> QED
  BY <1>11, <1>12, <1>13, Zenon DEF w

\* E1's spelling of a string costs no more wherever it stands.
LEMMA StringCheaper ==
  ASSUME NEW x \in Seq(Characters), IsString(x), NEW a \in Accs, NEW b \in Accs, NoMore(a, b)
  PROVE  EmitString(x) \in Seq(Characters) /\ NoMore(After(a, EmitString(x)), After(b, x))
<1> DEFINE t == Inner(x)
           q == <<"quote">>
<1>1. Len(x) >= 2 /\ x[1] = "quote" /\ x[Len(x)] = "quote" /\ IsBody(t)
  BY Zenon DEF IsString
<1>2. t \in Seq(Characters) /\ Len(t) = Len(x) - 2 /\ Quoted(x, t)
      /\ \A i \in 1..(Len(x) - 2) : t[i] = x[i + 1]
  BY <1>1, StringParts
<1>3. Cut(t)[1] /\ (HasLoneSurrogate(t) <=> Lone(t)[1])
  BY <1>1, BodyIsCut, LoneIsLone, Zenon
<1>4. Canonicalize(x) = IF HasLoneSurrogate(t) THEN x ELSE q \o Walk(t)[1] \o q
  BY CanonicalIsWalked, Zenon
<1>5. CASE EmitString(x) = x
  <2>1. NoMore(After(a, x), After(b, x))
    BY SameTextMore
  <2> QED
    BY <1>5, <2>1, Zenon
<1>6. CASE EmitString(x) # x
  <2> DEFINE w == Walk(t)[1]
             d == Counted(a, "quote")
             e == Counted(b, "quote")
             d1 == After(d, w)
             e1 == After(e, t)
  <2>1. EmitString(x) = q \o w \o q /\ ~Lone(t)[1]
    BY <1>3, <1>4, <1>6, Zenon DEF EmitString
  <2>2. x = q \o t \o q
    <3> DEFINE y == q \o t \o q
    <3> HIDE DEF t
    <3>1. /\ y \in Seq(Characters) /\ Len(y) >= 2 /\ y[1] = "quote" /\ y[Len(y)] = "quote"
          /\ Inner(y) = t
      BY <1>2, AroundBody, Zenon
    <3> HIDE DEF y
    <3>2. Len(t) = Len(y) - 2 /\ \A i \in 1..(Len(y) - 2) : t[i] = y[i + 1]
      BY <3>1, StringParts, Zenon
    <3>3. Len(x) \in Nat /\ Len(y) \in Nat
      BY <3>1, LenProperties
    <3>4. Len(x) = Len(y)
      BY <1>2, <3>2, <3>3
    <3>5. \A i \in 1..Len(x) : x[i] = y[i]
      <4> TAKE i \in 1..Len(x)
      <4>1. CASE i = 1
        BY <1>1, <3>1, <4>1
      <4>2. CASE i = Len(x)
        BY <1>1, <3>1, <3>4, <4>2
      <4>3. CASE i # 1 /\ i # Len(x)
        <5>1. i - 1 \in 1..(Len(x) - 2) /\ (i - 1) + 1 = i
          BY <3>3, <4>3
        <5>2. t[i - 1] = x[i] /\ t[i - 1] = y[i]
          BY <1>2, <3>2, <3>4, <5>1
        <5> QED
          BY <5>2
      <4> QED
        BY <4>1, <4>2, <4>3
    <3>6. x = y
      BY <3>1, <3>4, <3>5, SeqEqual
    <3> QED
      BY <3>6 DEF y
  <2>3. d \in Accs /\ e \in Accs
    BY CountedCharge, Zenon
  <2>4. NoMore(d, e)
    BY SameMore
  <2> HIDE DEF t, d, e
  <2>5. w \in Seq(Characters) /\ NoMore(d1, e1)
    BY <1>2, <1>3, <2>1, <2>3, <2>4, BodyCheaper
  <2> HIDE DEF w
  <2>6. d1 \in Accs /\ e1 \in Accs
    BY <1>2, <2>3, <2>5, AfterTyped
  <2> HIDE DEF d1, e1
  <2>7. NoMore(Counted(d1, "quote"), Counted(e1, "quote"))
    BY <2>5, <2>6, SameMore
  <2>8. ASSUME NEW acc \in Accs, NEW s \in Seq(Characters)
        PROVE  After(acc, q \o s \o q) = Counted(After(Counted(acc, "quote"), s), "quote")
    <3>1. "quote" \in Characters
      BY CharactersListed DEF BasicNames
    <3>2. q \in Seq(Characters)
      BY <3>1
    <3> HIDE DEF q
    <3>3. q \o s \in Seq(Characters)
      BY <3>2, ConcatProperties
    <3>4. After(acc, q \o s) \in Accs
      BY <3>3, AfterTyped
    <3>5. After(acc, q \o s) = After(Counted(acc, "quote"), s)
      BY <3>1, AfterFront, Zenon DEF q
    <3> DEFINE v == q \o s
               f == After(acc, v)
    <3> HIDE DEF v
    <3>6. After(acc, v \o q) = After(f, q)
      <4>1. v \in Seq(Characters)
        BY <3>3 DEF v
      <4> QED
        BY ONLY acc \in Accs, <3>2, <4>1, AfterJoined
    <3>7. f \in Accs
      BY <3>4 DEF v
    <3> HIDE DEF f
    <3>8. After(f, q) = Counted(f, "quote")
      BY <3>7, AfterOne, Zenon DEF q
    <3> QED
      BY <3>5, <3>6, <3>8, Zenon DEF v, f
  <2>9. After(b, x) = Counted(e1, "quote")
    BY <1>2, <2>2, <2>8, Zenon DEF e, e1
  <2>10. After(a, q \o w \o q) = Counted(d1, "quote")
    BY <2>5, <2>8, Zenon DEF d, d1
  <2>11. q \o w \o q \in Seq(Characters)
    BY <2>5, AroundBody, Zenon
  <2> QED
    BY <2>1, <2>7, <2>9, <2>10, <2>11, Zenon
<1> QED
  BY <1>5, <1>6

-----------------------------------------------------------------------------
(* What a number is read by *)

LEMMA AtPlaces ==
  ASSUME NEW S, NEW t \in Seq(S), NEW i \in Nat, i >= 1
  PROVE  (i \in 1..Len(t) /\ At(t, i) = t[i]) \/ (i \notin 1..Len(t) /\ At(t, i) = "end")
<1>1. DOMAIN t = 1..Len(t)
  BY LenProperties
<1> QED
  BY <1>1, Zenon DEF At

\* The digits end somewhere, at the end of the text if not before, and no digit is there.
LEMMA DigitsEndKnown ==
  ASSUME NEW S, NEW t \in Seq(S), NEW i \in 1..(Len(t) + 1)
  PROVE  LET e == DigitsEnd(t, i)
         IN /\ e \in i..(Len(t) + 1) /\ At(t, e) \notin Digits
            /\ \A k \in i..(e - 1) : At(t, k) \in Digits
<1> DEFINE n == Len(t)
           Fits(j) == At(t, j) \notin Digits /\ \A k \in i..(j - 1) : At(t, k) \in Digits
           D == {d \in Nat : i + d <= n + 1 => \A k \in i..(i + d) : At(t, k) \in Digits}
<1>1. n \in Nat /\ i \in Nat /\ i >= 1 /\ i <= n + 1
  BY LenProperties
<1>2. At(t, n + 1) \notin Digits
  <2>1. n + 1 \in Nat /\ n + 1 >= 1 /\ n + 1 \notin 1..Len(t)
    BY <1>1
  <2>2. At(t, n + 1) = "end"
    BY <2>1, AtPlaces
  <2>3. "end" \notin Digits
    BY DEF Digits
  <2> QED
    BY <2>2, <2>3
<1> HIDE DEF n
<1>3. \E j \in i..(n + 1) : Fits(j)
  <2> SUFFICES ASSUME \A j \in i..(n + 1) : ~Fits(j) PROVE FALSE
    OBVIOUS
  <2>1. 0 \in D
    <3> SUFFICES ASSUME NEW k \in i..(i + 0) PROVE At(t, k) \in Digits
      BY DEF D
    <3>1. k = i /\ i \in i..(n + 1) /\ \A x : x \notin i..(i - 1)
      BY <1>1
    <3> QED
      BY <3>1, Zenon
  <2>2. ASSUME NEW d \in Nat, d \in D PROVE d + 1 \in D
    <3> DEFINE e == i + (d + 1)
    <3> SUFFICES ASSUME e <= n + 1, NEW k \in i..e PROVE At(t, k) \in Digits
      BY DEF D
    <3>1. i + d <= n + 1 /\ e \in i..(n + 1) /\ e - 1 = i + d /\ (k = e \/ k \in i..(i + d))
      BY <1>1
    <3>2. \A x \in i..(i + d) : At(t, x) \in Digits
      BY <2>2, <3>1
    <3> HIDE DEF e
    <3>3. At(t, e) \in Digits
      <4>1. ~Fits(e)
        BY <3>1
      <4>2. ASSUME NEW x \in i..(e - 1) PROVE At(t, x) \in Digits
        BY <3>1, <3>2
      <4> QED
        BY <4>1, <4>2, Zenon
    <3> QED
      BY <3>1, <3>2, <3>3
  <2>3. Nat \subseteq D
    <3> HIDE DEF D
    <3> QED
      BY <2>1, <2>2, EveryNumber
  <2>4. PICK d \in Nat : i + d = n + 1
    <3>1. (n + 1) - i \in Nat /\ i + ((n + 1) - i) = n + 1
      BY <1>1
    <3> QED
      BY <3>1
  <2>5. d \in D
    <3> HIDE DEF D
    <3> QED
      BY <2>3
  <2>6. n + 1 \in i..(i + d) /\ i + d <= n + 1
    BY <1>1, <2>4
  <2> QED
    BY <1>2, <2>5, <2>6
<1>4. DigitsEnd(t, i) = CHOOSE j \in i..(n + 1) : Fits(j)
  BY Zenon DEF DigitsEnd, n
<1> DEFINE e == DigitsEnd(t, i)
<1> HIDE DEF Fits
<1>5. e \in i..(n + 1) /\ Fits(e)
  BY <1>3, <1>4, Zenon
<1> QED
  BY <1>5, Zenon DEF n, Fits, e

\* The places a number is read by, each given by the one before.
MarksOf(t, first, int, frac, mark, exp) ==
  /\ first = IF At(t, 1) = "-" THEN 2 ELSE 1
  /\ int \in first..(Len(t) + 1) /\ int = IF At(t, first) = "0" THEN first + 1 ELSE DigitsEnd(t, first)
  /\ frac \in int..(Len(t) + 1) /\ frac = IF At(t, int) = "." THEN DigitsEnd(t, int + 1) ELSE int
  /\ mark \in frac..(Len(t) + 1)
  /\ mark = IF At(t, frac) \notin {"e", "E"} THEN frac
            ELSE IF At(t, frac + 1) \in {"+", "-"} THEN frac + 2 ELSE frac + 1
  /\ exp \in mark..(Len(t) + 1) /\ exp = DigitsEnd(t, mark)

LEMMA DigitsEndTyped ==
  ASSUME NEW S, NEW t \in Seq(S), NEW i \in 1..(Len(t) + 1)
  PROVE  DigitsEnd(t, i) \in i..(Len(t) + 1)
BY DigitsEndKnown, Zenon

LEMMA MarksKnown ==
  ASSUME NEW S, NEW t \in Seq(S), t # <<>>
  PROVE  LET m == NumberMarks(t, 1) IN MarksOf(t, m.first, m.int, m.frac, m.mark, m.exp)
<1> DEFINE n == Len(t)
           first == IF At(t, 1) = "-" THEN 1 + 1 ELSE 1
           int   == IF At(t, first) = "0" THEN first + 1 ELSE DigitsEnd(t, first)
           frac  == IF At(t, int) = "." THEN DigitsEnd(t, int + 1) ELSE int
           mark  == IF At(t, frac) \notin {"e", "E"} THEN frac
                    ELSE IF At(t, frac + 1) \in {"+", "-"} THEN frac + 2 ELSE frac + 1
           exp   == DigitsEnd(t, mark)
           m     == [first |-> first, int |-> int, frac |-> frac, mark |-> mark, exp |-> exp]
<1>1. NumberMarks(t, 1) = m
  BY Zenon DEF NumberMarks
<1>2. m.first = first /\ m.int = int /\ m.frac = frac /\ m.mark = mark /\ m.exp = exp
  <2> HIDE DEF first, int, frac, mark, exp
  <2> QED
    OBVIOUS
<1> HIDE DEF m
<1>3. n \in Nat /\ n >= 1
  BY LenProperties, EmptySeq
<1>4. ASSUME NEW i \in 1..(n + 1), At(t, i) # "end" PROVE i \in 1..n /\ i + 1 \in i..(n + 1)
  <2>1. i \in Nat /\ i >= 1
    BY <1>3
  <2>2. i \in 1..n
    BY <1>4, <2>1, AtPlaces
  <2> QED
    BY <1>3, <2>2
<1>5. ASSUME NEW i \in 1..(n + 1) PROVE DigitsEnd(t, i) \in i..(n + 1)
  BY DigitsEndTyped
<1>6. \A i \in 1..(n + 1) : \A j \in i..(n + 1) : j \in 1..(n + 1)
  BY <1>3
<1> HIDE DEF n
<1>7. first = (IF At(t, 1) = "-" THEN 2 ELSE 1) /\ first \in 1..(n + 1)
  BY <1>3
<1>8. int \in first..(n + 1) /\ int \in 1..(n + 1)
  <2> HIDE DEF first
  <2>1. int \in first..(n + 1)
    BY <1>4, <1>5, <1>7
  <2> QED
    BY <1>6, <1>7, <2>1, Zenon
<1>9. frac \in int..(n + 1) /\ frac \in 1..(n + 1)
  <2> HIDE DEF int
  <2>1. CASE At(t, int) = "."
    <3> DEFINE j == int + 1
    <3>1. j \in int..(n + 1)
      BY <1>4, <1>8, <2>1
    <3>2. j \in 1..(n + 1)
      BY <1>6, <1>8, <3>1, Zenon
    <3> HIDE DEF j
    <3>3. DigitsEnd(t, j) \in j..(n + 1)
      BY <1>5, <3>2
    <3>4. DigitsEnd(t, j) \in int..(n + 1)
      <4> DEFINE d == DigitsEnd(t, j)
      <4> HIDE DEF d
      <4>1. d \in j..(n + 1)
        BY <3>3 DEF d
      <4>2. d \in int..(n + 1)
        BY <1>3, <1>8, <3>1, <4>1
      <4> QED
        BY <4>2 DEF d
    <3>5. frac = DigitsEnd(t, j)
      BY <2>1 DEF j
    <3> QED
      BY <1>6, <1>8, <3>4, <3>5, Zenon
  <2>2. CASE At(t, int) # "."
    <3>1. int \in int..(n + 1)
      BY <1>3, <1>8
    <3> QED
      BY <1>8, <2>2, <3>1
  <2> QED
    BY <2>1, <2>2
<1>10. mark \in frac..(n + 1) /\ mark \in 1..(n + 1)
  <2> HIDE DEF frac
  <2>1. CASE At(t, frac) \in {"e", "E"}
    <3>1. frac + 1 \in frac..(n + 1)
      BY <1>4, <1>9, <2>1
    <3>2. frac + 1 \in 1..(n + 1)
      BY <1>6, <1>9, <3>1, Zenon
    <3>3. At(t, frac + 1) \in {"+", "-"} => (frac + 1) + 1 \in (frac + 1)..(n + 1)
      BY <1>4, <3>2
    <3>4. (frac + 1) + 1 = frac + 2
      BY <1>3, <1>9
    <3>5. mark \in frac..(n + 1)
      BY <1>3, <1>9, <2>1, <3>1, <3>3, <3>4
    <3> HIDE DEF mark
    <3> QED
      BY <1>6, <1>9, <3>5, Zenon
  <2>2. CASE At(t, frac) \notin {"e", "E"}
    <3>1. frac \in frac..(n + 1)
      BY <1>3, <1>9
    <3> QED
      BY <1>9, <2>2, <3>1
  <2> QED
    BY <2>1, <2>2
<1>11. exp \in mark..(n + 1)
  <2> HIDE DEF mark
  <2> QED
    BY <1>5, <1>10
<1> HIDE DEF first
<1>12. MarksOf(t, first, int, frac, mark, exp)
  BY <1>7, <1>8, <1>9, <1>10, <1>11, Zenon DEF MarksOf, n
<1> HIDE DEF int, frac, mark, exp
<1> QED
  BY <1>1, <1>2, <1>12, Zenon

\* The marks stand one after the other, inside the text or at its end.
LEMMA MarksOrdered ==
  ASSUME NEW S, NEW t \in Seq(S), t # <<>>,
         NEW f, NEW i, NEW r, NEW q, NEW e, MarksOf(t, f, i, r, q, e)
  PROVE  /\ Len(t) \in Nat /\ Len(t) >= 1
         /\ f \in Nat /\ i \in Nat /\ r \in Nat /\ q \in Nat /\ e \in Nat
         /\ f \in {1, 2} /\ f <= i /\ i <= r /\ r <= q /\ q <= e /\ e <= Len(t) + 1
<1>1. Len(t) \in Nat /\ Len(t) >= 1
  BY LenProperties, EmptySeq
<1>2. /\ i \in f..(Len(t) + 1) /\ r \in i..(Len(t) + 1) /\ q \in r..(Len(t) + 1)
      /\ e \in q..(Len(t) + 1) /\ f = IF At(t, 1) = "-" THEN 2 ELSE 1
  BY Zenon DEF MarksOf
<1>3. f \in Nat /\ f \in {1, 2}
  BY <1>2
<1>4. i \in Nat /\ f <= i
  BY <1>1, <1>2, <1>3
<1>5. r \in Nat /\ i <= r
  BY <1>1, <1>2, <1>4
<1>6. q \in Nat /\ r <= q
  BY <1>1, <1>2, <1>5
<1>7. e \in Nat /\ q <= e /\ e <= Len(t) + 1
  BY <1>1, <1>2, <1>6
<1> QED
  BY <1>1, <1>3, <1>4, <1>5, <1>6, <1>7

LEMMA MarksTyped ==
  ASSUME NEW S, NEW t \in Seq(S), t # <<>>
  PROVE  NumberMarks(t, 1).exp \in 1..(Len(t) + 1)
<1> DEFINE m == NumberMarks(t, 1)
           e == m.exp
<1>1. MarksOf(t, m.first, m.int, m.frac, m.mark, e)
  BY MarksKnown
<1> HIDE DEF m, e
<1>2. /\ Len(t) \in Nat /\ e \in Nat /\ m.first \in Nat /\ m.first \in {1, 2}
      /\ m.first <= m.int /\ m.int <= m.frac /\ m.frac <= m.mark /\ m.mark <= e
      /\ m.int \in Nat /\ m.frac \in Nat /\ m.mark \in Nat /\ e <= Len(t) + 1
  BY <1>1, MarksOrdered
<1>3. e \in 1..(Len(t) + 1)
  BY <1>2
<1> QED
  BY <1>3 DEF e, m

LEMMA NumberEnds ==
  ASSUME NEW S, NEW t \in Seq(S), t # <<>>, ScanNumber(t, 1).ok
  PROVE  ScanNumber(t, 1).at \in 1..(Len(t) + 1)
<1> DEFINE m == NumberMarks(t, 1)
<1>1. m.exp \in 1..(Len(t) + 1)
  BY MarksTyped
<1>2. /\ \A i : ~Refused(i).ok
      /\ \A i : Accepted(i).ok /\ Accepted(i).at = i
  BY DEF Refused, Accepted
<1>3. ScanNumber(t, 1) = Accepted(m.exp)
  <2>1. ScanNumber(t, 1) =
          IF m.int = m.first \/ LeadingZero(t, m) THEN Refused(m.first)
          ELSE IF FractionMissing(t, m) THEN Refused(m.frac)
          ELSE IF ExponentMissing(t, m) THEN Refused(m.exp)
          ELSE Accepted(m.exp)
    BY Zenon DEF ScanNumber
  <2> HIDE DEF m
  <2> QED
    BY <1>2, <2>1, Zenon
<1> QED
  BY <1>1, <1>2, <1>3, Zenon

LEMMA LiteralEnds ==
  ASSUME NEW S, NEW t \in Seq(S), ScanLiteral(t).ok
  PROVE  ScanLiteral(t).at \in 1..(Len(t) + 1)
<1>1. Len(t) \in Nat
  BY LenProperties
<1>2. IsPrefix(Null, t) /\ ScanLiteral(t) = Accepted(5)
  BY DEF ScanLiteral, Accepted, Refused
<1>3. Accepted(5).at = 5
  BY DEF Accepted
<1>4. Len(Null) = 4
  BY DEF Null
<1>5. Len(Null) <= Len(t)
  BY <1>2, Zenon DEF IsPrefix
<1> QED
  BY <1>1, <1>2, <1>3, <1>4, <1>5

\* Whatever the tape takes is part of the text.
LEMMA LexemeTyped ==
  ASSUME NEW S, text \in Seq(S), text # <<>>, ~IsText, ScanValue(text).ok
  PROVE  Prefix(ScanValue(text).at - 1) \in Seq(S)
<1> DEFINE a == ScanValue(text).at
<1>1. Len(text) \in Nat
  BY LenProperties
<1>2. text[1] # "quote"
  BY DEF IsText, Typed
<1>3. a \in 1..(Len(text) + 1)
  <2>1. CASE text[1] = "n"
    <3>1. ScanValue(text) = ScanLiteral(text)
      BY <1>2, <2>1, Zenon DEF ScanValue
    <3> QED
      BY <3>1, LiteralEnds
  <2>2. CASE text[1] # "n"
    <3>1. ScanValue(text) = ScanNumber(text, 1)
      BY <1>2, <2>2, Zenon DEF ScanValue
    <3> QED
      BY <3>1, NumberEnds
  <2> QED
    BY <2>1, <2>2
<1> HIDE DEF a
<1>4. \A i \in 1..(a - 1) : text[i] \in S
  <2>1. \A i \in 1..(a - 1) : i \in 1..Len(text)
    BY <1>1, <1>3
  <2> QED
    BY <2>1
<1>5. 1 \in Int /\ a - 1 \in Int
  BY <1>1, <1>3
<1>6. SubSeq(text, 1, a - 1) \in Seq(S)
  BY <1>4, <1>5, SubSeqProperties
<1> QED
  BY <1>6, Zenon DEF Prefix, a

-----------------------------------------------------------------------------
(* No lexeme costs more *)

LEMMA TextsCostNoMore == Typing => MinifyNeverCostsMore
<1> DEFINE x == Prefix(ScanValue(text).at - 1)
<1> SUFFICES ASSUME Typing, ScanValue(text).ok, NEW space \in Spaces
             PROVE  Estimate(IF IsText THEN EmitString(x) ELSE x) <= Estimate(space \o x \o space)
  BY Zenon DEF MinifyNeverCostsMore, Spaces
<1>1. CASE IsText
  <2>1. x \in Seq(Characters) /\ IsString(x)
    BY <1>1, LexemeIsString, Zenon
  <2> HIDE DEF x
  <2> DEFINE y == EmitString(x)
  <2>2. ASSUME NEW a \in Accs, NEW b \in Accs, NoMore(a, b)
        PROVE  y \in Seq(Characters) /\ NoMore(After(a, y), After(b, x))
    BY <2>1, <2>2, StringCheaper
  <2>3. y \in Seq(Characters)
    <3>1. Uncounted \in Accs /\ NoMore(Uncounted, Uncounted)
      BY UncountedTyped, NoMoreSelf
    <3> QED
      BY <2>2, <3>1
  <2> HIDE DEF y
  <2>4. Whitespace \subseteq Characters
    BY CharactersListed DEF Whitespace, BasicNames
  <2>5. Estimate(y) <= Estimate(space \o x \o space)
    BY <2>1, <2>2, <2>3, <2>4, SpacedMore
  <2> QED
    BY <1>1, <2>5 DEF y
<1>2. CASE ~IsText
  <2> DEFINE S == (Characters \cup NumberChars \cup ToSet(Null)) \cup Whitespace
  <2>1. text \in Seq(S) /\ text # <<>> /\ Whitespace \subseteq S
    BY DEF Typing
  <2> HIDE DEF S
  <2>2. x \in Seq(S)
    BY <1>2, <2>1, LexemeTyped
  <2> HIDE DEF x
  <2>3. \A a \in Accs, b \in Accs : NoMore(a, b) => NoMore(After(a, x), After(b, x))
    BY <2>2, SameTextMore
  <2>4. Estimate(x) <= Estimate(space \o x \o space)
    BY <2>1, <2>2, <2>3, SpacedMore
  <2> QED
    BY <1>2, <2>4
<1> QED
  BY <1>1, <1>2

\* The cost model never charges more for E1's spelling of a lexeme than for the lexeme and
\* the whitespace around it (estimator.rs:317-363 on e1_minify.rs:208-256): a string, a
\* number or a literal of any length.
THEOREM TheSpellingCostsNoMore == Spec => []MinifyNeverCostsMore
<1>1. Spec => []Typing
  BY InitTyping, NextTyping, PTL DEF Spec
<1> QED
  BY <1>1, TextsCostNoMore, PTL

=============================================================================
