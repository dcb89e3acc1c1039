--------------------------- MODULE ScannersProofs ---------------------------
(***************************************************************************)
(* The tape and the MCP reader take the same texts, of any length, for the   *)
(* lexemes of the grammar, and reject at the byte where none goes on.  A     *)
(* lexeme is followed along a text that begins as it does: the scanner takes *)
(* the same steps, so it cannot stop inside what they share.  And where it   *)
(* stops, what it has read so far is filled up to a lexeme.                  *)
(***************************************************************************)
EXTENDS JsonTextProofs

-----------------------------------------------------------------------------
(* Where the scan of a string stops *)

\* No spelling starts at i, nor does the string end: a is the first place where none can go on.
Stops(t, i, a) ==
  \/ At(t, i) \in Control \cup {"end"} /\ a = i
  \/ At(t, i) = "\\" /\ At(t, i + 1) \notin DOMAIN Short \cup {"u"} /\ a = i + 1
  \/ /\ At(t, i) = "\\" /\ At(t, i + 1) = "u" /\ At(t, i + 2) \notin DOMAIN HexVal
     /\ a = i + 2
  \/ /\ At(t, i) = "\\" /\ At(t, i + 1) = "u" /\ At(t, i + 2) \in DOMAIN HexVal
     /\ At(t, i + 3) \notin DOMAIN HexVal
     /\ a = i + 3

LEMMA ScanStops ==
  ASSUME NEW t \in Seq(Characters), NEW i \in Nat,
         ~SpellingAhead(t, i), At(t, i) # "quote"
  PROVE  \E a \in i..(i + 3) : Stops(t, i, a) /\ Scan(t)[i] = Refused(a)
<1> DEFINE bad == {k \in 1..HexLen : At(t, i + 1 + k) \notin DOMAIN HexVal}
           r == Scan(t)[i]
<1>1. /\ Plain \cap (Control \cup {"quote", "\\", "end"}) = {}
      /\ "u" \notin DOMAIN Short /\ "end" \notin DOMAIN Short
      /\ At(t, i) \in Plain \cup Control \cup {"quote", "\\", "end"}
      /\ "quote" \notin Control \cup {"\\", "end"} /\ "\\" \notin Control /\ "end" \notin Control
  BY PlaceKinds
<1>2. r = ScanCase(t, Scan(t), i)
  BY ScanSteps
<1>3. r = CASE At(t, i) = "end" -> Refused(i)
            [] At(t, i) = "quote" -> Accepted(i + 1)
            [] At(t, i) = "\\" ->
                 CASE At(t, i + 1) \in DOMAIN Short -> Scan(t)[i + 2]
                   [] At(t, i + 1) = "u" -> IF bad = {} THEN Scan(t)[i + 2 + HexLen]
                                            ELSE Refused(i + 1 + Min(bad))
                   [] OTHER -> Refused(i + 1)
            [] At(t, i) \in Control -> Refused(i)
            [] OTHER -> Scan(t)[i + 1]
  BY <1>2, Zenon DEF ScanCase
<1> HIDE DEF r
<1>4. i \in i..(i + 3) /\ i + 1 \in i..(i + 3) /\ i + 2 \in i..(i + 3) /\ i + 3 \in i..(i + 3)
  OBVIOUS
<1>5. CASE At(t, i) \in Control \cup {"end"}
  <2>1. r = Refused(i)
    BY <1>1, <1>3, <1>5, Zenon
  <2> QED
    BY <1>4, <1>5, <2>1, Zenon DEF Stops, r
<1>6. CASE At(t, i) = "\\"
  <2> HIDE DEF bad
  <2>1. r = CASE At(t, i + 1) \in DOMAIN Short -> Scan(t)[i + 2]
              [] At(t, i + 1) = "u" -> IF bad = {} THEN Scan(t)[i + 2 + HexLen]
                                       ELSE Refused(i + 1 + Min(bad))
              [] OTHER -> Refused(i + 1)
    BY <1>1, <1>3, <1>6, Zenon
  <2>2. At(t, i + 1) \notin DOMAIN Short
    BY <1>6, Zenon DEF SpellingAhead
  <2>3. CASE At(t, i + 1) # "u"
    <3>1. r = Refused(i + 1)
      BY <2>1, <2>2, <2>3, Zenon
    <3>2. At(t, i + 1) \notin DOMAIN Short \cup {"u"}
      BY <2>2, <2>3
    <3> QED
      BY <1>4, <1>6, <3>1, <3>2, Zenon DEF Stops, r
  <2>4. CASE At(t, i + 1) = "u"
    <3>1. r = IF bad = {} THEN Scan(t)[i + 2 + HexLen] ELSE Refused(i + 1 + Min(bad))
      BY <1>1, <2>1, <2>4, Zenon
    <3>2. ~(At(t, i + 2) \in DOMAIN HexVal /\ At(t, i + 3) \in DOMAIN HexVal)
      <4>1. (i + 2) + 1 = i + 3
        OBVIOUS
      <4> QED
        BY <1>6, <2>4, <4>1 DEF SpellingAhead, HexAhead
    <3>3. /\ bad \subseteq {1, 2}
          /\ 1 \in bad <=> At(t, i + 2) \notin DOMAIN HexVal
          /\ 2 \in bad <=> At(t, i + 3) \notin DOMAIN HexVal
      <4>1. 1..HexLen = {1, 2} /\ i + 1 + 1 = i + 2 /\ i + 1 + 2 = i + 3
        BY DEF HexLen
      <4> QED
        BY <4>1 DEF bad
    <3>4. \A k : (k \in bad /\ \A y \in bad : k <= y) => Min(bad) = k
      <4> SUFFICES ASSUME NEW k, k \in bad, \A y \in bad : k <= y PROVE Min(bad) = k
        OBVIOUS
      <4>1. Min(bad) \in bad /\ \A y \in bad : Min(bad) <= y
        BY Zenon DEF Min
      <4>2. Min(bad) <= k /\ k <= Min(bad) /\ Min(bad) \in {1, 2} /\ k \in {1, 2}
        BY <3>3, <4>1
      <4> QED
        BY <4>2
    <3>5. CASE 1 \in bad
      <4>1. 1 <= 1 /\ 1 <= 2
        OBVIOUS
      <4>2. Min(bad) = 1
        BY <3>3, <3>4, <3>5, <4>1
      <4>3. r = Refused(i + 2)
        <5>1. i + 1 + 1 = i + 2
          OBVIOUS
        <5> QED
          BY <3>1, <3>5, <4>2, <5>1
      <4> QED
        BY <1>4, <1>6, <2>4, <3>3, <3>5, <4>3, Zenon DEF Stops, r
    <3>6. CASE 1 \notin bad
      <4>1. bad = {2}
        BY <3>2, <3>3, <3>6
      <4>2. Min(bad) = 2
        BY <3>4, <4>1
      <4>3. r = Refused(i + 3)
        <5>1. i + 1 + 2 = i + 3
          OBVIOUS
        <5> QED
          BY <3>1, <4>1, <4>2, <5>1
      <4>4. At(t, i + 2) \in DOMAIN HexVal /\ At(t, i + 3) \notin DOMAIN HexVal
        BY <3>3, <3>6, <4>1
      <4> QED
        BY <1>4, <1>6, <2>4, <4>3, <4>4, Zenon DEF Stops, r
    <3> QED
      BY <3>5, <3>6
  <2> QED
    BY <2>3, <2>4
<1>7. At(t, i) \notin Plain
  BY DEF SpellingAhead
<1> QED
  BY <1>1, <1>5, <1>6, <1>7

\* The scan goes on, accepts or stops.
LEMMA ScanWays ==
  ASSUME NEW t \in Seq(Characters), NEW i \in Nat
  PROVE  \/ SpellingAhead(t, i) /\ Scan(t)[i] = Scan(t)[PastSpelling(t, i)]
         \/ At(t, i) = "quote" /\ Scan(t)[i] = Accepted(i + 1)
         \/ /\ ~SpellingAhead(t, i) /\ At(t, i) # "quote"
            /\ \E a \in i..(i + 3) : Stops(t, i, a) /\ Scan(t)[i] = Refused(a)
<1>1. Scan(t)[i] = ScanCase(t, Scan(t), i)
  BY ScanSteps
<1>2. CASE SpellingAhead(t, i)
  BY <1>1, <1>2, ScanCases
<1>3. CASE At(t, i) = "quote"
  BY <1>1, <1>3, ScanCases
<1>4. CASE ~SpellingAhead(t, i) /\ At(t, i) # "quote"
  BY <1>4, ScanStops
<1> QED
  BY <1>2, <1>3, <1>4

LEMMA JudgedFields ==
  ASSUME NEW a
  PROVE  /\ Accepted(a).ok = TRUE /\ Accepted(a).at = a
         /\ Refused(a).ok = FALSE /\ Refused(a).at = a
BY DEF Accepted, Refused

\* A stop is inside the text, or at its end.
LEMMA StopInside ==
  ASSUME NEW t \in Seq(Characters), NEW i \in 1..(Len(t) + 1), NEW a \in i..(i + 3), Stops(t, i, a)
  PROVE  a \in i..(Len(t) + 1)
<1>1. Len(t) \in Nat
  BY LenProperties
<1>2. ASSUME NEW k \in Nat, At(t, k) # "end" PROVE k + 1 <= Len(t) + 1
  <2>1. k \in 1..Len(t)
    BY <1>2, AtEnd
  <2> QED
    BY <1>1, <2>1
<1>3. "u" # "end" /\ "\\" # "end" /\ "end" \notin DOMAIN HexVal
  BY DigitsListed
<1>4. i \in Nat /\ i + 1 \in Nat /\ i + 2 \in Nat /\ (i + 1) + 1 = i + 2 /\ (i + 2) + 1 = i + 3
  BY <1>1
<1>5. CASE a = i
  BY <1>1, <1>5
<1>6. CASE a = i + 1 /\ At(t, i) = "\\"
  BY <1>1, <1>2, <1>3, <1>4, <1>6
<1>7. CASE a = i + 2 /\ At(t, i + 1) = "u"
  BY <1>1, <1>2, <1>3, <1>4, <1>7
<1>8. CASE a = i + 3 /\ At(t, i + 2) \in DOMAIN HexVal
  BY <1>1, <1>2, <1>3, <1>4, <1>8
<1> QED
  BY <1>5, <1>6, <1>7, <1>8 DEF Stops

\* The scan ends at a later place; where it fails, it is at a place where it stops.
LEMMA ScanTo ==
  ASSUME NEW t \in Seq(Characters), NEW i \in 1..(Len(t) + 1)
  PROVE  /\ Scan(t)[i].at \in i..(Len(t) + 1)
         /\ Scan(t)[i].ok \in BOOLEAN
         /\ Scan(t)[i].ok => Scan(t)[i].at > i
<1> DEFINE n == Len(t)
           Ends(k) == /\ Scan(t)[k].at \in k..(n + 1) /\ Scan(t)[k].ok \in BOOLEAN
                      /\ Scan(t)[k].ok => Scan(t)[k].at > k
           P == {k \in Nat : Ends(k)}
<1>1. n \in Nat /\ n + 1 \in Nat
  BY LenProperties
<1>2. ASSUME NEW k \in 1..(n + 1), \A j \in (k + 1)..(n + 1) : j \in P PROVE k \in P
  <2>0. k \in Nat
    BY <1>1
  <2>1. CASE SpellingAhead(t, k) /\ Scan(t)[k] = Scan(t)[PastSpelling(t, k)]
    <3> DEFINE j == PastSpelling(t, k)
    <3>1. j \in (k + 1)..(n + 1)
      BY <2>0, <2>1, PastSpellingAhead
    <3>2. Ends(j)
      BY <1>2, <3>1
    <3> HIDE DEF j
    <3>3. Scan(t)[k] = Scan(t)[j]
      BY <2>1 DEF j
    <3> DEFINE r == Scan(t)[j]
    <3>4. r.at \in j..(n + 1) /\ r.ok \in BOOLEAN /\ (r.ok => r.at > j)
      BY <3>2
    <3> HIDE DEF r, n
    <3>5. r.at \in k..(n + 1) /\ r.ok \in BOOLEAN /\ (r.ok => r.at > k)
      BY <1>1, <2>0, <3>1, <3>4
    <3>6. Ends(k)
      BY <3>3, <3>5, Zenon DEF r
    <3> QED
      BY <2>0, <3>6
  <2>2. CASE At(t, k) = "quote" /\ Scan(t)[k] = Accepted(k + 1)
    <3>1. k \in 1..n
      BY <2>0, <2>2, AtEnd
    <3>2. Scan(t)[k].at = k + 1 /\ Scan(t)[k].ok = TRUE
      BY <2>2, JudgedFields
    <3> DEFINE r == Scan(t)[k]
    <3> HIDE DEF r, n
    <3>3. r.at \in k..(n + 1) /\ r.ok \in BOOLEAN /\ (r.ok => r.at > k)
      <4>1. r.at = k + 1 /\ r.ok = TRUE
        BY <3>2, Zenon DEF r
      <4>2. r.at \in k..(n + 1) /\ r.at > k
        BY <1>1, <2>0, <3>1, <4>1
      <4> QED
        BY <4>1, <4>2, Zenon
    <3>4. Ends(k)
      BY <3>3, Zenon DEF r
    <3> QED
      BY <2>0, <3>4, Zenon
  <2>3. CASE \E a \in k..(k + 3) : Stops(t, k, a) /\ Scan(t)[k] = Refused(a)
    <3>1. PICK a \in k..(k + 3) : Stops(t, k, a) /\ Scan(t)[k] = Refused(a)
      BY <2>3
    <3>2. a \in k..(n + 1)
      BY <3>1, StopInside
    <3>3. Scan(t)[k].at = a /\ Scan(t)[k].ok = FALSE
      BY <3>1, JudgedFields
    <3> DEFINE r == Scan(t)[k]
    <3> HIDE DEF r, n
    <3>4. r.at \in k..(n + 1) /\ r.ok \in BOOLEAN /\ (r.ok => r.at > k)
      <4>1. r.at = a /\ r.ok = FALSE
        BY <3>3, Zenon DEF r
      <4>2. a \in k..(n + 1)
        BY <3>2, Zenon DEF n
      <4> QED
        BY <4>1, <4>2
    <3>5. Ends(k)
      BY <3>4, Zenon DEF r
    <3> QED
      BY <2>0, <3>5, Zenon
  <2> QED
    BY <2>0, <2>1, <2>2, <2>3, ScanWays
<1>3. \A k \in 1..(n + 1) : k \in P
  <2> HIDE DEF P, n
  <2> QED
    BY <1>1, <1>2, Backwards
<1> QED
  BY <1>3

-----------------------------------------------------------------------------
(* A text that goes on as a string does *)

\* w and t begin with the same p characters.
Shares(w, t, p) == p \in 1..Len(w) /\ p \in 1..Len(t) /\ \A k \in 1..p : w[k] = t[k]

LEMMA SharedAt ==
  ASSUME NEW S, NEW w \in Seq(S), NEW R, NEW t \in Seq(R), NEW p, Shares(w, t, p), NEW k \in 1..p
  PROVE  At(w, k) = w[k] /\ At(t, k) = w[k]
<1>1. Len(w) \in Nat /\ Len(t) \in Nat
  BY LenProperties
<1>2. k \in 1..Len(w) /\ k \in 1..Len(t) /\ w[k] = t[k]
  BY <1>1 DEF Shares
<1>3. k \in DOMAIN w /\ k \in DOMAIN t
  BY <1>2
<1> QED
  BY <1>2, <1>3, Zenon DEF At

\* The scan from a place ends there or later, wherever the place is.
LEMMA ScanFrom ==
  ASSUME NEW t \in Seq(Characters), NEW i \in Nat, i >= 1
  PROVE  Scan(t)[i].at \in Nat /\ Scan(t)[i].at >= i
<1> DEFINE r == Scan(t)[i]
<1>1. Len(t) \in Nat
  BY LenProperties
<1>2. CASE i \in 1..(Len(t) + 1)
  <2>1. r.at \in i..(Len(t) + 1)
    BY <1>2, ScanTo
  <2> HIDE DEF r
  <2>2. r.at \in Nat /\ r.at >= i
    BY <1>1, <2>1
  <2> QED
    BY <2>2 DEF r
<1>3. CASE i \notin 1..(Len(t) + 1)
  <2>1. i \notin 1..Len(t)
    BY <1>1, <1>3
  <2>2. At(t, i) = "end" /\ ~SpellingAhead(t, i)
    BY <2>1, AtEnd, PastSpellingAhead
  <2>3. "end" # "quote"
    OBVIOUS
  <2>4. PICK a \in i..(i + 3) : r = Refused(a)
    BY <2>2, <2>3, ScanWays
  <2>5. r.at = a
    BY <2>4, JudgedFields, Zenon
  <2> HIDE DEF r
  <2>6. r.at \in Nat /\ r.at >= i
    BY <2>5
  <2> QED
    BY <2>6 DEF r
<1> QED
  BY <1>2, <1>3

\* Where one text has a spelling and the scan of the other stops, they have parted.
LEMMA PartedThere ==
  ASSUME NEW w \in Seq(Characters), NEW t \in Seq(Characters), NEW i \in Nat, NEW a \in Nat,
         SpellingAhead(w, i), Stops(t, i, a), \A k \in i..a : At(w, k) = At(t, k)
  PROVE  FALSE
<1>1. /\ Plain \cap (Control \cup {"quote", "\\", "end"}) = {}
      /\ "\\" \notin Control
  BY PlaceKinds
<1>2. At(w, i) \notin Control \cup {"end"} /\ (At(w, i) = "\\" => At(w, i) \notin Plain)
  BY <1>1 DEF SpellingAhead
<1>3. (i + 2) + 1 = i + 3
  OBVIOUS
<1>4. At(w, i) = "\\" => At(w, i + 1) \in DOMAIN Short \cup {"u"}
  BY <1>2 DEF SpellingAhead
<1>5. "u" \notin DOMAIN Short
  BY PlaceKinds
<1>6. At(w, i) = "\\" /\ At(w, i + 1) = "u" =>
        At(w, i + 2) \in DOMAIN HexVal /\ At(w, i + 3) \in DOMAIN HexVal
  BY <1>2, <1>3, <1>5 DEF SpellingAhead, HexAhead
<1>7. CASE At(t, i) \in Control \cup {"end"} /\ a = i
  <2>1. i \in i..a
    BY <1>7
  <2>2. At(w, i) = At(t, i)
    BY <2>1
  <2> QED
    BY <1>2, <1>7, <2>2
<1>8. CASE At(t, i) = "\\" /\ At(t, i + 1) \notin DOMAIN Short \cup {"u"} /\ a = i + 1
  <2>1. i \in i..a /\ i + 1 \in i..a
    BY <1>8
  <2>2. At(w, i) = At(t, i) /\ At(w, i + 1) = At(t, i + 1)
    BY <2>1
  <2> QED
    BY <1>4, <1>8, <2>2
<1>9. CASE /\ At(t, i) = "\\" /\ At(t, i + 1) = "u" /\ At(t, i + 2) \notin DOMAIN HexVal
           /\ a = i + 2
  <2>1. i \in i..a /\ i + 1 \in i..a /\ i + 2 \in i..a
    BY <1>9
  <2>2. At(w, i) = At(t, i) /\ At(w, i + 1) = At(t, i + 1) /\ At(w, i + 2) = At(t, i + 2)
    BY <2>1
  <2> QED
    BY <1>6, <1>9, <2>2
<1>10. CASE /\ At(t, i) = "\\" /\ At(t, i + 1) = "u" /\ At(t, i + 3) \notin DOMAIN HexVal
            /\ a = i + 3
  <2>1. i \in i..a /\ i + 1 \in i..a /\ i + 3 \in i..a
    BY <1>10
  <2>2. At(w, i) = At(t, i) /\ At(w, i + 1) = At(t, i + 1) /\ At(w, i + 3) = At(t, i + 3)
    BY <2>1
  <2> QED
    BY <1>6, <1>10, <2>2
<1> QED
  BY <1>7, <1>8, <1>9, <1>10 DEF Stops

\* What the scan of t answers when w has a spelling at i that they share, or share in part.
LEMMA SpellingShared ==
  ASSUME NEW w \in Seq(Characters), NEW t \in Seq(Characters), NEW p, Shares(w, t, p),
         NEW i \in 1..p, SpellingAhead(w, i)
  PROVE  /\ PastSpelling(w, i) <= p + 1 =>
              SpellingAhead(t, i) /\ PastSpelling(t, i) = PastSpelling(w, i)
         /\ PastSpelling(w, i) > p + 1 /\ ~Scan(t)[i].ok => Scan(t)[i].at > p
<1> DEFINE j == PastSpelling(w, i)
<1>1. Len(w) \in Nat /\ Len(t) \in Nat /\ p \in Nat /\ i \in Nat /\ i >= 1 /\ i <= p /\ p <= Len(w)
  BY LenProperties DEF Shares
<1>2. \A k \in 1..p : At(t, k) = At(w, k)
  BY SharedAt
<1>3. j \in (i + 1)..(Len(w) + 1)
  BY <1>1, PastSpellingAhead
<1>4. ASSUME j <= p + 1 PROVE SpellingAhead(t, i) /\ PastSpelling(t, i) = j
  <2>1. Alike(t, i, w, i)
    <3> SUFFICES ASSUME NEW d \in 0..3, i + d < j PROVE At(t, i + d) = At(w, i + d)
      BY DEF Alike
    <3> HIDE DEF j
    <3>1. i + d \in 1..p
      BY <1>1, <1>3, <1>4
    <3> QED
      BY <1>2, <3>1
  <2>2. SpellingAhead(t, i) /\ PastSpelling(t, i) = i + (j - i)
    BY <1>1, <2>1, SameSpelling
  <2> HIDE DEF j
  <2> QED
    BY <1>1, <1>3, <2>2
<1>5. ASSUME j > p + 1, ~Scan(t)[i].ok PROVE Scan(t)[i].at > p
  <2>1. CASE SpellingAhead(t, i) /\ Scan(t)[i] = Scan(t)[PastSpelling(t, i)]
    <3> DEFINE q == PastSpelling(t, i)
    <3>1. q \in (i + 1)..(Len(t) + 1)
      BY <1>1, <2>1, PastSpellingAhead
    <3>2. q > p
      <4>1. CASE p = i
        <5> HIDE DEF q
        <5> QED
          BY <1>1, <3>1, <4>1
      <4>2. CASE p # i
        <5>1. i \in 1..p /\ i + 1 \in 1..p
          BY <1>1, <4>2
        <5>2. At(t, i) = At(w, i) /\ At(t, i + 1) = At(w, i + 1)
          BY <1>2, <5>1
        <5>3. q = j
          BY <5>2, Zenon DEF PastSpelling
        <5> HIDE DEF q, j
        <5> QED
          BY <1>1, <1>3, <1>5, <5>3
      <4> QED
        BY <4>1, <4>2
    <3> HIDE DEF q
    <3>3. q \in Nat /\ q >= 1
      BY <1>1, <3>1
    <3>4. Scan(t)[q].at \in Nat /\ Scan(t)[q].at >= q
      BY <3>3, ScanFrom
    <3>5. Scan(t)[i].at = Scan(t)[q].at
      BY <2>1, Zenon DEF q
    <3> DEFINE x == Scan(t)[q].at
               y == Scan(t)[i].at
    <3>6. x \in Nat /\ x >= q /\ y = x
      BY <3>4, <3>5
    <3> HIDE DEF x, y
    <3>7. y > p
      BY <1>1, <3>2, <3>3, <3>6
    <3> QED
      BY <3>7 DEF y
  <2>2. CASE At(t, i) = "quote" /\ Scan(t)[i] = Accepted(i + 1)
    <3>1. Scan(t)[i].ok = TRUE
      BY <2>2, JudgedFields, Zenon
    <3> QED
      BY <1>5, <3>1
  <2>3. CASE \E a \in i..(i + 3) : Stops(t, i, a) /\ Scan(t)[i] = Refused(a)
    <3>1. PICK a \in i..(i + 3) : Stops(t, i, a) /\ Scan(t)[i] = Refused(a)
      BY <2>3
    <3>2. Scan(t)[i].at = a
      BY <3>1, JudgedFields, Zenon
    <3>3. a \in Nat
      BY <1>1, <3>1
    <3>4. CASE a <= p
      <4>1. \A k \in i..a : At(w, k) = At(t, k)
        BY <1>1, <1>2, <3>3, <3>4
      <4> QED
        BY <1>1, <3>1, <3>3, <4>1, PartedThere
    <3>5. CASE a > p
      BY <3>2, <3>5
    <3> QED
      BY <1>1, <3>3, <3>4, <3>5
  <2> QED
    BY <1>1, <2>1, <2>2, <2>3, ScanWays
<1> QED
  BY <1>4, <1>5

\* What the scan of t answers is no surprise to a string that begins as t does.
Expected(r, w, p) ==
  /\ ~r.ok => r.at > p
  /\ p = Len(w) => r.ok /\ r.at > p

LEMMA StringForced ==
  ASSUME NEW w \in Seq(Characters), NEW t \in Seq(Characters), NEW p, Shares(w, t, p), IsString(w)
  PROVE  Expected(Scan(t)[2], w, p)
<1> DEFINE n == Len(w)
           b == Inner(w)
           P == {k \in Nat : k >= 2 /\ Cut(b)[k - 1] => Expected(Scan(t)[k], w, p)}
<1>1. n \in Nat /\ n >= 2 /\ w[n] = "quote" /\ Len(t) \in Nat /\ p \in Nat /\ p >= 1 /\ p <= n /\ p <= Len(t)
  BY LenProperties DEF Shares, IsString
<1>2. b \in Seq(Characters) /\ Len(b) = n - 2 /\ Quoted(w, b)
  BY <1>1, StringParts
<1>3. Cut(b)[1]
  BY BodyIsCut, Zenon DEF IsString
<1> HIDE DEF b
<1>4. ASSUME NEW k \in 1..n, \A j \in (k + 1)..n : j \in P PROVE k \in P
  <2> SUFFICES ASSUME k >= 2, Cut(b)[k - 1] PROVE Expected(Scan(t)[k], w, p)
    BY <1>1
  <2> DEFINE r == Scan(t)[k]
  <2>1. k \in Nat /\ k >= 1 /\ k <= n /\ k - 1 \in Nat /\ k - 1 >= 1 /\ (k - 1) + 1 = k
    BY <1>1
  <2>2. CASE k > p
    <3>1. r.at \in Nat /\ r.at >= k
      BY <2>1, ScanFrom
    <3> HIDE DEF r
    <3>2. r.at > p /\ p # n
      BY <1>1, <2>1, <2>2, <3>1
    <3> QED
      BY <3>2, Zenon DEF Expected, r, n
  <2>3. CASE k <= p /\ k = n
    <3>1. k \in 1..p
      BY <2>1, <2>3
    <3>2. At(t, k) = "quote"
      BY <1>1, <2>3, <3>1, SharedAt
    <3>3. ~SpellingAhead(t, k)
      BY <3>2, PlaceKinds DEF SpellingAhead
    <3>4. r = Accepted(k + 1)
      BY <2>1, <3>2, <3>3, ScanWays
    <3>5. r.ok = TRUE /\ r.at = k + 1
      BY <3>4, JudgedFields, Zenon
    <3>6. k + 1 > p
      BY <1>1, <2>3
    <3> HIDE DEF r
    <3> QED
      BY <3>5, <3>6, Zenon DEF Expected, r
  <2>4. CASE k <= p /\ k < n
    <3>1. k - 1 <= Len(b)
      BY <1>1, <1>2, <2>1, <2>4
    <3>2. SpellingAhead(b, k - 1) /\ Cut(b)[PastSpelling(b, k - 1)]
      BY <1>2, <2>1, <3>1, CutSteps
    <3>3. Alike(w, k, b, k - 1)
      BY <1>2, <2>1, <3>2, QuotedAlike
    <3> DEFINE j == PastSpelling(w, k)
    <3>4. SpellingAhead(w, k) /\ j = k + (PastSpelling(b, k - 1) - (k - 1))
      BY <1>2, <2>1, <3>2, <3>3, SameSpelling
    <3>5. PastSpelling(b, k - 1) \in ((k - 1) + 1)..(Len(b) + 1)
      BY <1>2, <2>1, <3>2, PastSpellingAhead
    <3> HIDE DEF j
    <3>6. j \in (k + 1)..n /\ j - 1 = PastSpelling(b, k - 1) /\ j \in Nat /\ j >= 2
      <4> DEFINE y == PastSpelling(b, k - 1)
      <4>1. y \in k..(n - 1) /\ j = k + (y - (k - 1))
        BY <1>1, <1>2, <2>1, <3>4, <3>5
      <4> HIDE DEF y, n
      <4>2. j \in (k + 1)..n /\ j - 1 = y /\ j \in Nat /\ j >= 2
        BY <1>1, <2>1, <4>1
      <4> QED
        BY <4>2 DEF y
    <3>7. k \in 1..p
      BY <1>1, <2>1, <2>4
    <3>8. CASE j <= p + 1
      <4>1. SpellingAhead(t, k) /\ PastSpelling(t, k) = j
        BY <3>4, <3>7, <3>8, SpellingShared DEF j
      <4>2. r = Scan(t)[j]
        BY <2>1, <4>1, ScanSteps, ScanCases
      <4>3. Cut(b)[j - 1]
        BY <3>2, <3>6
      <4>4. Expected(Scan(t)[j], w, p)
        BY <1>4, <3>6, <4>3
      <4> QED
        BY <4>2, <4>4, Zenon
    <3>9. CASE j > p + 1
      <4>1. ~r.ok => r.at > p
        BY <3>4, <3>7, <3>9, SpellingShared DEF j
      <4>2. p # n
        BY <1>1, <3>6, <3>9
      <4> HIDE DEF r
      <4> QED
        BY <4>1, <4>2, Zenon DEF Expected, r, n
    <3> QED
      BY <1>1, <3>6, <3>8, <3>9
  <2> QED
    BY <1>1, <2>1, <2>2, <2>3, <2>4
<1>5. \A k \in 1..n : k \in P
  <2> HIDE DEF P, n
  <2> QED
    BY <1>1, <1>4, Backwards
<1>6. 2 \in P
  <2> HIDE DEF P
  <2> QED
    BY <1>1, <1>5
<1>7. 2 - 1 = 1 /\ 2 >= 2
  OBVIOUS
<1> QED
  BY <1>3, <1>6, <1>7

-----------------------------------------------------------------------------
(* What a scan that stops leaves open *)

\* The scan from i stops at a, where a spelling at e is broken off: whatever has the
\* characters of t in front of that spelling is cut there as at i.
BreaksAt(t, i, e, a) ==
  /\ Stops(t, e, a)
  /\ \A b \in Seq(Characters) :
       (\A k \in Nat : k >= i - 1 /\ k <= e - 2 => At(b, k) = At(t, k + 1)) /\ Cut(b)[e - 1]
         => Cut(b)[i - 1]

LEMMA LastPlace ==
  ASSUME NEW t \in Seq(Characters), NEW i \in 2..(Len(t) + 1), ~Scan(t)[i].ok
  PROVE  \E e \in i..(Len(t) + 1) : BreaksAt(t, i, e, Scan(t)[i].at)
<1> DEFINE n == Len(t)
           Found(k) == \E e \in k..(n + 1) : BreaksAt(t, k, e, Scan(t)[k].at)
           P == {k \in Nat : k >= 2 /\ ~Scan(t)[k].ok => Found(k)}
<1>1. n \in Nat /\ n + 1 \in Nat
  BY LenProperties
<1>2. ASSUME NEW k \in 1..(n + 1), \A j \in (k + 1)..(n + 1) : j \in P PROVE k \in P
  <2> SUFFICES ASSUME k >= 2, ~Scan(t)[k].ok PROVE Found(k)
    BY <1>1
  <2>1. k \in Nat /\ k >= 1 /\ k - 1 \in Nat /\ k - 1 >= 1
    BY <1>1
  <2>2. CASE SpellingAhead(t, k) /\ Scan(t)[k] = Scan(t)[PastSpelling(t, k)]
    <3> DEFINE j == PastSpelling(t, k)
    <3>1. j \in (k + 1)..(n + 1)
      BY <2>1, <2>2, PastSpellingAhead
    <3>2. Alike(t, k, t, k)
      BY DEF Alike
    <3>3. Scan(t)[k] = Scan(t)[j]
      BY <2>2
    <3> HIDE DEF j
    <3>4. j \in Nat /\ j >= 2 /\ j > k
      BY <1>1, <2>1, <3>1
    <3>5. Found(j)
      <4>1. j \in P
        BY <1>2, <3>1
      <4>2. ~Scan(t)[j].ok
        BY <3>3
      <4> HIDE DEF Found
      <4> QED
        BY <3>4, <4>1, <4>2
    <3>6. PICK e \in j..(n + 1) : BreaksAt(t, j, e, Scan(t)[j].at)
      BY <3>5
    <3>7. e \in k..(n + 1) /\ e \in Nat
      BY <1>1, <2>1, <3>4
    <3>8. ASSUME NEW b \in Seq(Characters), Cut(b)[e - 1],
                 \A x \in Nat : x >= k - 1 /\ x <= e - 2 => At(b, x) = At(t, x + 1)
          PROVE  Cut(b)[k - 1]
      <4>1. \A x \in Nat : x >= j - 1 /\ x <= e - 2 => At(b, x) = At(t, x + 1)
        BY <2>1, <3>4, <3>8
      <4>2. Cut(b)[j - 1]
        BY <3>6, <3>8, <4>1 DEF BreaksAt
      <4>3. Alike(b, k - 1, t, k)
        <5> SUFFICES ASSUME NEW d \in 0..3, k + d < j PROVE At(b, (k - 1) + d) = At(t, k + d)
          BY DEF Alike, j
        <5> DEFINE x == (k - 1) + d
        <5>1. x \in Nat /\ x >= k - 1 /\ x <= e - 2 /\ x + 1 = k + d
          BY <1>1, <2>1, <3>4, <3>7
        <5> HIDE DEF x
        <5>2. At(b, x) = At(t, x + 1)
          BY <3>8, <5>1
        <5> QED
          BY <5>1, <5>2 DEF x
      <4>4. SpellingAhead(b, k - 1) /\ PastSpelling(b, k - 1) = (k - 1) + (j - k)
        BY <2>1, <2>2, <4>3, SameSpelling DEF j
      <4>5. (k - 1) + (j - k) = j - 1
        BY <2>1, <3>4
      <4>6. Cut(b)[k - 1] <=> Cut(b)[j - 1]
        BY <2>1, <4>4, <4>5, CutSteps
      <4> QED
        BY <4>2, <4>6
    <3>9. Stops(t, e, Scan(t)[k].at)
      BY <3>3, <3>6 DEF BreaksAt
    <3>10. BreaksAt(t, k, e, Scan(t)[k].at)
      BY <3>8, <3>9 DEF BreaksAt
    <3> QED
      BY <3>7, <3>10
  <2>3. CASE At(t, k) = "quote" /\ Scan(t)[k] = Accepted(k + 1)
    <3>1. Scan(t)[k].ok = TRUE
      BY <2>3, JudgedFields, Zenon
    <3> QED
      BY <3>1
  <2>4. CASE \E a \in k..(k + 3) : Stops(t, k, a) /\ Scan(t)[k] = Refused(a)
    <3>1. PICK a \in k..(k + 3) : Stops(t, k, a) /\ Scan(t)[k] = Refused(a)
      BY <2>4
    <3>2. Scan(t)[k].at = a
      BY <3>1, JudgedFields, Zenon
    <3>3. BreaksAt(t, k, k, a)
      BY <3>1, Zenon DEF BreaksAt
    <3>4. k \in k..(n + 1)
      BY <1>1
    <3> QED
      BY <3>2, <3>3, <3>4, Zenon
  <2> QED
    BY <2>1, <2>2, <2>3, <2>4, ScanWays
<1>3. \A k \in 1..(n + 1) : k \in P
  <2> HIDE DEF P, n
  <2> QED
    BY <1>1, <1>2, Backwards
<1>4. i \in P
  <2> HIDE DEF P
  <2>1. i \in 1..(n + 1)
    BY <1>1
  <2> QED
    BY <1>3, <2>1
<1>5. i >= 2
  BY <1>1
<1> HIDE DEF Found
<1>6. Found(i)
  BY <1>4, <1>5
<1> QED
  BY <1>6 DEF Found

LEMMA FillsListed ==
  Fills = {<<>>, <<"1">>, <<"quote">>, <<"n", "quote">>, <<"u", "0", "0", "quote">>,
           <<"0", "quote">>, <<"0", "0", "quote">>}
BY DEF Fills

\* What fills up the spelling that is broken off at a.
StringFill(t, e, a) ==
  CASE a = e     -> <<"quote">>
    [] a = e + 1 -> <<"n", "quote">>
    [] a = e + 2 -> <<"0", "0", "quote">>
    [] OTHER     -> <<"0", "quote">>

\* A place in front of the join, and a place past it.
LEMMA JoinedAt ==
  ASSUME NEW S, NEW x \in Seq(S), NEW y \in Seq(S)
  PROVE  /\ x \o y \in Seq(S) /\ Len(x \o y) = Len(x) + Len(y)
         /\ \A k \in 1..Len(x) : (x \o y)[k] = x[k]
         /\ \A k \in 1..Len(y) : (x \o y)[Len(x) + k] = y[k]
<1> DEFINE w == x \o y
           p == Len(x)
           q == Len(y)
<1>1. p \in Nat /\ q \in Nat
  BY LenProperties
<1>2. /\ w \in Seq(S) /\ Len(w) = p + q
      /\ \A k \in 1..(p + q) : w[k] = IF k <= p THEN x[k] ELSE y[k - p]
  BY ConcatProperties, Zenon
<1> HIDE DEF w, p, q
<1>3. ASSUME NEW k \in 1..p PROVE w[k] = x[k]
  <2>1. k \in 1..(p + q) /\ k <= p
    BY <1>1
  <2> QED
    BY <1>2, <2>1, Zenon
<1>4. ASSUME NEW k \in 1..q PROVE w[p + k] = y[k]
  <2>1. p + k \in 1..(p + q) /\ ~(p + k <= p) /\ (p + k) - p = k
    BY <1>1
  <2> QED
    BY <1>2, <2>1, Zenon
<1> QED
  BY <1>2, <1>3, <1>4, Zenon DEF w, p, q

LEMMA FrontTyped ==
  ASSUME NEW S, NEW t \in Seq(S), NEW k \in 0..Len(t)
  PROVE  /\ SubSeq(t, 1, k) \in Seq(S) /\ Len(SubSeq(t, 1, k)) = k
         /\ \A i \in 1..k : SubSeq(t, 1, k)[i] = t[i]
<1> DEFINE x == SubSeq(t, 1, k)
<1>1. Len(t) \in Nat /\ 1 \in Int /\ k \in Int
  BY LenProperties
<1>2. \A i \in 1..k : t[i] \in S
  BY <1>1
<1>3. /\ x \in Seq(S) /\ Len(x) = IF 1 <= k THEN k - 1 + 1 ELSE 0
      /\ \A i \in 1..(k - 1 + 1) : x[i] = t[1 + i - 1]
  BY <1>1, <1>2, SubSeqProperties
<1> HIDE DEF x
<1>4. Len(x) = k /\ k - 1 + 1 = k
  BY <1>1, <1>3
<1>5. ASSUME NEW i \in 1..k PROVE x[i] = t[i]
  <2>1. 1 + i - 1 = i /\ i \in 1..(k - 1 + 1)
    BY <1>1, <1>4
  <2> QED
    BY <1>3, <2>1
<1>6. x \in Seq(S) /\ Len(x) = k /\ \A i \in 1..k : x[i] = t[i]
  BY <1>3, <1>4, <1>5
<1> QED
  BY <1>6 DEF x

\* A body that ends with the spelling at e - 1 is cut from there.
LEMMA EndsWithSpelling ==
  ASSUME NEW b \in Seq(Characters), NEW k \in Nat, k >= 1,
         \/ k > Len(b)
         \/ At(b, k) = "\\" /\ At(b, k + 1) \in DOMAIN Short /\ k + 2 > Len(b)
         \/ At(b, k) = "\\" /\ At(b, k + 1) = "u" /\ HexAhead(b, k + 2) /\ k + 4 > Len(b)
  PROVE  Cut(b)[k]
<1>1. CASE k > Len(b)
  BY <1>1, CutSteps
<1>2. ASSUME SpellingAhead(b, k), NEW j \in Nat, PastSpelling(b, k) = j, j > Len(b) PROVE Cut(b)[k]
  <2>1. Cut(b)[j]
    BY <1>2, CutSteps
  <2> QED
    BY <1>2, <2>1, CutSteps
<1>3. k + 2 \in Nat /\ k + 4 \in Nat
  OBVIOUS
<1>4. CASE At(b, k) = "\\" /\ At(b, k + 1) \in DOMAIN Short /\ k + 2 > Len(b)
  <2>1. SpellingAhead(b, k) /\ At(b, k + 1) # "u"
    BY <1>4, PlaceKinds DEF SpellingAhead
  <2>2. PastSpelling(b, k) = k + 2
    BY <1>4, <2>1 DEF PastSpelling
  <2> QED
    BY <1>2, <1>3, <1>4, <2>1, <2>2
<1>5. CASE At(b, k) = "\\" /\ At(b, k + 1) = "u" /\ HexAhead(b, k + 2) /\ k + 4 > Len(b)
  <2>1. SpellingAhead(b, k)
    BY <1>5 DEF SpellingAhead
  <2>2. PastSpelling(b, k) = k + 4
    BY <1>5 DEF PastSpelling
  <2> QED
    BY <1>2, <1>3, <1>5, <2>1, <2>2
<1> QED
  BY <1>1, <1>4, <1>5

LEMMA FillTyped ==
  ASSUME NEW t, NEW e \in Nat, NEW a \in Nat, Stops(t, e, a)
  PROVE  LET f == StringFill(t, e, a)
         IN /\ f \in Fills /\ f \in Seq(Characters) /\ f[Len(f)] = "quote"
            /\ Len(f) = IF a = e THEN 1 ELSE IF a = e + 2 THEN 3 ELSE 2
            /\ a = e + 1 => f[1] = "n"
            /\ a = e + 2 => f[1] = "0" /\ f[2] = "0"
            /\ a = e + 3 => f[1] = "0"
<1>1. a = e \/ a = e + 1 \/ a = e + 2 \/ a = e + 3
  BY DEF Stops
<1>2. {"quote", "n", "0"} \subseteq Characters
  BY CharactersListed DEF BasicNames
<1>3. e # e + 1 /\ e # e + 2 /\ e # e + 3 /\ e + 1 # e + 2 /\ e + 1 # e + 3 /\ e + 2 # e + 3
  OBVIOUS
<1>4. /\ <<"quote">> \in Fills /\ <<"n", "quote">> \in Fills /\ <<"0", "0", "quote">> \in Fills
      /\ <<"0", "quote">> \in Fills
  BY Zenon DEF Fills
<1>5. CASE a = e
  <2>0. a # e + 1 /\ a # e + 2 /\ a # e + 3
    BY <1>3, <1>5
  <2>1. StringFill(t, e, a) = <<"quote">>
    BY <1>5, <2>0, Zenon DEF StringFill
  <2>2. <<"quote">> \in Seq(Characters) /\ Len(<<"quote">>) = 1 /\ <<"quote">>[1] = "quote"
    BY <1>2
  <2> QED
    BY <1>3, <1>4, <1>5, <2>0, <2>1, <2>2
<1>6. CASE a = e + 1
  <2>1. StringFill(t, e, a) = <<"n", "quote">>
    BY <1>3, <1>6, Zenon DEF StringFill
  <2>2. /\ <<"n", "quote">> \in Seq(Characters) /\ Len(<<"n", "quote">>) = 2
        /\ <<"n", "quote">>[2] = "quote" /\ <<"n", "quote">>[1] = "n"
    BY <1>2
  <2>3. a # e /\ a # e + 2 /\ a # e + 3
    BY <1>3, <1>6
  <2> QED
    BY <1>4, <1>6, <2>1, <2>2, <2>3
<1>7. CASE a = e + 2
  <2>1. StringFill(t, e, a) = <<"0", "0", "quote">>
    BY <1>3, <1>7, Zenon DEF StringFill
  <2>2. /\ <<"0", "0", "quote">> \in Seq(Characters) /\ Len(<<"0", "0", "quote">>) = 3
        /\ <<"0", "0", "quote">>[3] = "quote" /\ <<"0", "0", "quote">>[1] = "0"
        /\ <<"0", "0", "quote">>[2] = "0"
    BY <1>2
  <2>3. a # e /\ a # e + 1 /\ a # e + 3
    BY <1>3, <1>7
  <2> QED
    BY <1>4, <1>7, <2>1, <2>2, <2>3
<1>8. CASE a = e + 3
  <2>1. StringFill(t, e, a) = <<"0", "quote">>
    BY <1>3, <1>8, Zenon DEF StringFill
  <2>2. /\ <<"0", "quote">> \in Seq(Characters) /\ Len(<<"0", "quote">>) = 2
        /\ <<"0", "quote">>[2] = "quote" /\ <<"0", "quote">>[1] = "0"
    BY <1>2
  <2> QED
    BY <1>3, <1>4, <1>8, <2>1, <2>2
<1> QED
  BY <1>1, <1>5, <1>6, <1>7, <1>8

\* What is in front of the place where the scan of a string stops begins some string.
LEMMA StringGoesOn ==
  ASSUME NEW t \in Seq(Characters), t # <<>>, t[1] = "quote", ~Scan(t)[2].ok
  PROVE  BeginsSomeValue(SubSeq(t, 1, Scan(t)[2].at - 1))
<1> DEFINE n == Len(t)
           a == Scan(t)[2].at
<1>1. n \in Nat /\ n >= 1 /\ 2 \in 2..(n + 1) /\ 2 \in 1..(n + 1)
  BY LenProperties, EmptySeq
<1>2. a \in 2..(n + 1)
  BY <1>1, ScanTo
<1>3. PICK e \in 2..(n + 1) : BreaksAt(t, 2, e, a)
  BY <1>1, LastPlace
<1> HIDE DEF a
<1>4. a \in Nat /\ a >= 2 /\ e \in Nat /\ e >= 2 /\ a <= n + 1
  BY <1>1, <1>2, <1>3
<1>5. Stops(t, e, a) /\ (a = e \/ a = e + 1 \/ a = e + 2 \/ a = e + 3)
  BY <1>3 DEF BreaksAt, Stops
<1> DEFINE x == SubSeq(t, 1, a - 1)
           f == StringFill(t, e, a)
           w == x \o f
           b == Inner(w)
           p == a - 1
<1>6. p \in 0..Len(t) /\ p \in Nat /\ p >= 1 /\ p + 1 = a /\ p <= n
  BY <1>4
<1>7. x \in Seq(Characters) /\ Len(x) = p /\ \A i \in 1..p : x[i] = t[i]
  BY <1>6, FrontTyped
<1>8. /\ f \in Fills /\ f \in Seq(Characters) /\ f[Len(f)] = "quote"
      /\ Len(f) = IF a = e THEN 1 ELSE IF a = e + 2 THEN 3 ELSE 2
      /\ a = e + 1 => f[1] = "n"
      /\ a = e + 2 => f[1] = "0" /\ f[2] = "0"
      /\ a = e + 3 => f[1] = "0"
  BY <1>4, <1>5, FillTyped
<1> DEFINE q == Len(f)
<1> HIDE DEF x, f
<1>9. q \in 1..3 /\ q \in 1..q
  BY <1>4, <1>5, <1>8
<1>10. /\ w \in Seq(Characters) /\ Len(w) = p + q
       /\ \A i \in 1..p : w[i] = x[i]
       /\ \A i \in 1..q : w[p + i] = f[i]
  <2>1. x \in Seq(Characters) /\ f \in Seq(Characters)
    BY <1>7, <1>8
  <2>2. /\ x \o f \in Seq(Characters) /\ Len(x \o f) = Len(x) + Len(f)
        /\ \A k \in 1..Len(x) : (x \o f)[k] = x[k]
        /\ \A k \in 1..Len(f) : (x \o f)[Len(x) + k] = f[k]
    BY ONLY <2>1, JoinedAt
  <2>3. Len(x) = p /\ Len(f) = q
    BY <1>7
  <2> QED
    BY <2>2, <2>3, Zenon DEF w
<1> HIDE DEF w, q, p
<1>11. /\ \A i \in 1..p : w[i] = t[i]
       /\ w[p + q] = "quote" /\ p + q >= 2 /\ w[1] = "quote"
  <2>1. 1 \in 1..p /\ p + q >= 2
    BY <1>6, <1>9
  <2>2. f[q] = "quote"
    BY <1>8 DEF q
  <2> QED
    BY <1>7, <1>9, <1>10, <2>1, <2>2
<1>12. /\ b \in Seq(Characters) /\ Len(b) = (p + q) - 2
       /\ \A i \in 1..((p + q) - 2) : b[i] = w[i + 1]
  BY <1>10, <1>11, StringParts
<1> HIDE DEF b
<1>13. ASSUME NEW k \in Nat, k >= 1, k <= p - 1, k <= (p + q) - 2 PROVE At(b, k) = At(t, k + 1)
  <2>1. k \in 1..Len(b) /\ k \in 1..((p + q) - 2) /\ k + 1 \in 1..p /\ k + 1 \in 1..n /\ k + 1 \in Nat
    <3>1. Len(b) = (p + q) - 2
      BY <1>12
    <3>2. p \in Nat /\ q \in Nat /\ n \in Nat /\ p <= n
      BY <1>1, <1>6, <1>9
    <3> HIDE DEF n
    <3> QED
      BY <1>13, <3>1, <3>2
  <2>2. At(b, k) = b[k] /\ At(t, k + 1) = t[k + 1]
    BY <1>12, <2>1, AtEnd
  <2> QED
    BY <1>11, <1>12, <2>1, <2>2
<1>14. ASSUME NEW k \in Nat, k >= 1, k <= q - 1 PROVE At(b, (p - 1) + k) = f[k]
  <2> DEFINE y == (p - 1) + k
  <2>1. y \in 1..Len(b) /\ y \in 1..((p + q) - 2) /\ y + 1 = p + k /\ k \in 1..q /\ y \in Nat
    BY <1>6, <1>9, <1>12, <1>14
  <2> HIDE DEF y
  <2>2. At(b, y) = b[y]
    BY <1>12, <2>1, AtEnd
  <2>3. b[y] = w[p + k]
    BY <1>12, <2>1
  <2>4. w[p + k] = f[k]
    BY <1>10, <2>1
  <2> QED
    BY <2>2, <2>3, <2>4 DEF y
<1>15. \A k \in Nat : k >= 2 - 1 /\ k <= e - 2 => At(b, k) = At(t, k + 1)
  <2> SUFFICES ASSUME NEW k \in Nat, k >= 2 - 1, k <= e - 2 PROVE At(b, k) = At(t, k + 1)
    OBVIOUS
  <2>1. k >= 1 /\ k <= p - 1 /\ k <= (p + q) - 2
    BY <1>4, <1>5, <1>6, <1>9
  <2> QED
    BY <1>13, <2>1
<1>16. Cut(b)[e - 1]
  <2> DEFINE k == e - 1
  <2>1. k \in Nat /\ k >= 1 /\ k + 1 = e /\ k + 2 = e + 1 /\ k + 3 = e + 2 /\ (k + 1) + 1 = e + 1
        /\ (k + 2) + 1 = e + 2 /\ (k + 2) + 1 = k + 3
    BY <1>4
  <2> HIDE DEF k
  <2>2. CASE a = e
    <3>1. k > Len(b)
      BY <1>4, <1>6, <1>8, <1>12, <2>1, <2>2 DEF q
    <3> QED
      BY <1>12, <2>1, <3>1, EndsWithSpelling DEF k
  <2>3. CASE a = e + 1
    <3>1. At(t, e) = "\\"
      BY <1>4, <1>5, <2>3 DEF Stops
    <3>2. q = 2
      BY <1>4, <1>8, <2>3 DEF q
    <3>3. k <= p - 1 /\ k <= (p + q) - 2 /\ (p - 1) + 1 = k + 1 /\ k + 2 > Len(b)
      BY <1>4, <1>6, <1>12, <2>1, <2>3, <3>2
    <3>4. At(b, k) = "\\"
      BY <1>13, <2>1, <3>1, <3>3
    <3>5. At(b, (p - 1) + 1) = f[1]
      BY <1>14, <3>2
    <3>6. At(b, k + 1) \in DOMAIN Short
      BY <1>8, <2>3, <3>3, <3>5, ShortListed
    <3> QED
      BY <1>12, <2>1, <3>3, <3>4, <3>6, EndsWithSpelling DEF k
  <2>4. CASE a = e + 2
    <3>1. At(t, e) = "\\" /\ At(t, e + 1) = "u"
      BY <1>4, <1>5, <2>4 DEF Stops
    <3>2. q = 3
      BY <1>4, <1>8, <2>4 DEF q
    <3>3. /\ k <= p - 1 /\ k <= (p + q) - 2 /\ k + 1 <= p - 1 /\ k + 1 <= (p + q) - 2
          /\ (p - 1) + 1 = k + 2 /\ (p - 1) + 2 = k + 3 /\ k + 4 > Len(b)
      BY <1>4, <1>6, <1>12, <2>1, <2>4, <3>2
    <3>4. At(b, k) = "\\" /\ At(b, k + 1) = "u"
      BY <1>13, <2>1, <3>1, <3>3
    <3>5. At(b, (p - 1) + 1) = f[1] /\ At(b, (p - 1) + 2) = f[2]
      BY <1>14, <3>2
    <3>6. At(b, k + 2) = "0" /\ At(b, (k + 2) + 1) = "0"
      BY <1>8, <2>1, <2>4, <3>3, <3>5
    <3>7. HexAhead(b, k + 2)
      BY <3>6, DigitsListed DEF HexAhead
    <3> QED
      BY <1>12, <2>1, <3>3, <3>4, <3>7, EndsWithSpelling DEF k
  <2>5. CASE a = e + 3
    <3>1. At(t, e) = "\\" /\ At(t, e + 1) = "u" /\ At(t, e + 2) \in DOMAIN HexVal
      BY <1>4, <1>5, <2>5 DEF Stops
    <3>2. q = 2
      BY <1>4, <1>8, <2>5 DEF q
    <3>3. /\ k <= p - 1 /\ k <= (p + q) - 2 /\ k + 1 <= p - 1 /\ k + 1 <= (p + q) - 2
          /\ k + 2 <= p - 1 /\ k + 2 <= (p + q) - 2
          /\ (p - 1) + 1 = k + 3 /\ k + 4 > Len(b)
      BY <1>4, <1>6, <1>12, <2>1, <2>5, <3>2
    <3>4. At(b, k) = "\\" /\ At(b, k + 1) = "u" /\ At(b, k + 2) \in DOMAIN HexVal
      BY <1>13, <2>1, <3>1, <3>3
    <3>5. At(b, (p - 1) + 1) = f[1]
      BY <1>14, <3>2
    <3>6. At(b, (k + 2) + 1) = "0"
      BY <1>8, <2>1, <2>5, <3>3, <3>5
    <3>7. HexAhead(b, k + 2)
      BY <3>4, <3>6, DigitsListed DEF HexAhead
    <3> QED
      BY <1>12, <2>1, <3>3, <3>4, <3>7, EndsWithSpelling DEF k
  <2> QED
    BY <1>5, <2>2, <2>3, <2>4, <2>5
<1>17. Cut(b)[1]
  <2>1. Cut(b)[2 - 1]
    BY <1>3, <1>12, <1>15, <1>16 DEF BreaksAt
  <2>2. 2 - 1 = 1
    OBVIOUS
  <2> QED
    BY <2>1, <2>2
<1>18. IsString(w)
  BY <1>10, <1>11, <1>17, BodyIsCut, Zenon DEF IsString, b
<1>19. \E fill \in Fills : IsValue(x \o fill)
  BY <1>8, <1>18, Zenon DEF IsValue, w
<1> QED
  BY <1>19, Zenon DEF BeginsSomeValue, x, a

-----------------------------------------------------------------------------
(* Where the MCP reader stops *)

\* Where there is no spelling, or half a pair, the reader stops.
LEMMA ReadStops ==
  ASSUME NEW t \in Seq(Characters), NEW i \in Nat,
         \/ ~SpellingAhead(t, i) /\ At(t, i) # "quote"
         \/ /\ At(t, i) = "\\" /\ At(t, i + 1) = "u" /\ HexAhead(t, i + 2)
            /\ UnitAhead(t, i) \in Surrogates /\ ~PairAhead(t, i)
  PROVE  ~Reading(t)[i].ok
<1> DEFINE e == ParseEscape(t, i + 1)
           r == Reading(t)[i]
<1>1. r = ReadCase(t, Reading(t), i)
  BY ReadUnfolds
<1>2. /\ Plain \cap (Control \cup {"quote", "\\", "end"}) = {}
      /\ "quote" \notin Control /\ "\\" \notin Control
      /\ "u" \notin DOMAIN Short /\ "end" \notin DOMAIN Short
      /\ At(t, i) \in Plain \cup Control \cup {"quote", "\\", "end"}
  BY PlaceKinds
<1>3. r = CASE At(t, i) = "end" -> Unread(i)
            [] At(t, i) = "quote" -> Read(i + 1, <<>>)
            [] At(t, i) = "\\" -> IF e.ok THEN Before(e.value, Reading(t)[e.at]) ELSE e
            [] At(t, i) \in Control -> Unread(i)
            [] OTHER -> Before(t[i], Reading(t)[i + 1])
  BY <1>1, Zenon DEF ReadCase
<1>4. "quote" # "end" /\ "\\" # "end" /\ "\\" # "quote" /\ "u" # "end"
  OBVIOUS
<1> HIDE DEF r
<1>5. \A a : Unread(a).ok = FALSE
  BY ReadFields
<1>6. CASE At(t, i) = "end"
  <2>1. r = Unread(i)
    BY <1>3, <1>4, <1>6, Zenon
  <2> QED
    BY <1>5, <2>1, Zenon DEF r
<1>7. CASE At(t, i) \in Control
  <2>1. r = Unread(i)
    BY <1>2, <1>3, <1>4, <1>6, <1>7, Zenon
  <2> QED
    BY <1>5, <2>1, Zenon DEF r
<1>8. ASSUME At(t, i) = "\\", NEW a, e = Unread(a) PROVE ~Reading(t)[i].ok
  <2>1. e.ok = FALSE
    BY <1>5, <1>8, Zenon
  <2>2. r = IF e.ok THEN Before(e.value, Reading(t)[e.at]) ELSE e
    <3>1. At(t, i) # "end" /\ At(t, i) # "quote" /\ At(t, i) \notin Control
      BY <1>2, <1>4, <1>8, Zenon
    <3> QED
      BY <1>3, <1>8, <3>1, Zenon
  <2> HIDE DEF e
  <2>3. r = e
    BY <2>1, <2>2, Zenon
  <2> QED
    BY <2>1, <2>3, Zenon DEF r
<1>9. CASE At(t, i) = "\\" /\ At(t, i + 1) \notin DOMAIN Short \cup {"u"}
  <2>1. \/ e = Unread(i + 1) \/ e = Unread((i + 1) + 1)
    BY <1>9, Zenon DEF ParseEscape
  <2> HIDE DEF e
  <2> QED
    BY <1>8, <1>9, <2>1
<1>10. CASE At(t, i) = "\\" /\ At(t, i + 1) = "u" /\ ~HexAhead(t, i + 2)
  <2>1. e = ParseUnicodeEscape(t, i + 2)
    BY <1>10, EscapeRead
  <2>2. i + 2 \in Nat
    OBVIOUS
  <2>3. PICK a \in Nat : HexAt(t, i + 2) = Unread(a)
    BY <1>10, <2>2, HexAtIs
  <2>4. ParseUnicodeEscape(t, i + 2) = UnitRead(t, HexAt(t, i + 2))
    BY UnicodeIsRead, Zenon
  <2>5. UnitRead(t, Unread(a)) = Unread(a)
    <3>1. Unread(a).ok = FALSE
      BY <1>5, Zenon
    <3> DEFINE h == Unread(a)
    <3> HIDE DEF h
    <3>2. h.ok = FALSE
      BY <3>1, Zenon DEF h
    <3>3. UnitRead(t, h) = h
      BY <3>2, Zenon DEF UnitRead
    <3> QED
      BY <3>3, Zenon DEF h
  <2>6. e = Unread(a)
    BY <2>1, <2>3, <2>4, <2>5, Zenon
  <2> HIDE DEF e
  <2> QED
    BY <1>8, <1>10, <2>6
<1>11. CASE /\ At(t, i) = "\\" /\ At(t, i + 1) = "u" /\ HexAhead(t, i + 2)
            /\ UnitAhead(t, i) \in Surrogates /\ ~PairAhead(t, i)
  <2>1. e = ParseUnicodeEscape(t, i + 2)
    BY <1>11, EscapeRead
  <2>2. PICK a \in Nat : ParseUnicodeEscape(t, i + 2) = Unread(a)
    BY <1>11, UnicodeRead
  <2>3. e = Unread(a)
    BY <2>1, <2>2, Zenon
  <2> HIDE DEF e
  <2> QED
    BY <1>8, <1>11, <2>3
<1>12. CASE ~SpellingAhead(t, i) /\ At(t, i) # "quote"
  <2>1. At(t, i) \notin Plain
    BY <1>12 DEF SpellingAhead
  <2>2. CASE At(t, i) = "\\"
    <3>1. At(t, i + 1) \notin DOMAIN Short /\ ~(At(t, i + 1) = "u" /\ HexAhead(t, i + 2))
      BY <1>12, <2>2 DEF SpellingAhead
    <3> QED
      BY <1>9, <1>10, <2>2, <3>1
  <2> QED
    BY <1>2, <1>6, <1>7, <1>12, <2>1, <2>2
<1> QED
  BY <1>11, <1>12

\* What the reader goes on with, at a place where it does not stop.
LEMMA ReadWays ==
  ASSUME NEW t \in Seq(Characters), NEW i \in Nat, i >= 1
  PROVE  \/ ~Reading(t)[i].ok
         \/ At(t, i) = "quote" /\ Reading(t)[i] = Read(i + 1, <<>>)
         \/ \E c \in Characters, j \in (i + 1)..(Len(t) + 1) :
              /\ Scan(t)[i] = Scan(t)[j]
              /\ Reading(t)[i] = Before(c, Reading(t)[j])
<1> DEFINE Goes(c, j) == Scan(t)[i] = Scan(t)[j] /\ Reading(t)[i] = Before(c, Reading(t)[j])
<1>1. Len(t) \in Nat
  BY LenProperties
<1>2. ASSUME SpellingAhead(t, i)
      PROVE  /\ Scan(t)[i] = Scan(t)[PastSpelling(t, i)]
             /\ PastSpelling(t, i) \in (i + 1)..(Len(t) + 1)
  BY <1>2, ScanSteps, ScanCases, PastSpellingAhead
<1>3. CASE At(t, i) \in Plain
  <2>1. SpellingAhead(t, i) /\ PastSpelling(t, i) = i + 1
    BY <1>3, PlainOnes DEF SpellingAhead, PastSpelling
  <2>2. Goes(At(t, i), i + 1)
    BY <1>2, <1>3, <2>1, ReadSteps
  <2>3. At(t, i) \in Characters /\ i + 1 \in (i + 1)..(Len(t) + 1)
    BY <1>2, <1>3, <2>1, PlainOnes
  <2> QED
    BY <2>2, <2>3, Zenon
<1>4. CASE At(t, i) = "\\" /\ At(t, i + 1) \in DOMAIN Short
  <2>1. SpellingAhead(t, i) /\ PastSpelling(t, i) = i + 2
    BY <1>4, PlaceKinds DEF SpellingAhead, PastSpelling
  <2>2. Goes(Short[At(t, i + 1)], i + 2)
    BY <1>2, <1>4, <2>1, ReadSteps
  <2>3. Short[At(t, i + 1)] \in Characters /\ i + 2 \in (i + 1)..(Len(t) + 1)
    BY <1>2, <1>4, <2>1, PlainOnes
  <2> QED
    BY <2>2, <2>3, Zenon
<1>5. CASE At(t, i) = "\\" /\ At(t, i + 1) = "u" /\ HexAhead(t, i + 2)
  <2>1. SpellingAhead(t, i) /\ PastSpelling(t, i) = i + 4
    BY <1>5 DEF SpellingAhead, PastSpelling
  <2>2. UnitAhead(t, i) \in 0..24
    BY <1>5, UnitTyped
  <2>3. CASE UnitAhead(t, i) \in Scalars
    <3>1. Goes(CharOf(UnitAhead(t, i)), i + 4)
      BY <1>2, <1>5, <2>1, <2>3, ReadSteps
    <3>2. CharOf(UnitAhead(t, i)) \in Characters /\ i + 4 \in (i + 1)..(Len(t) + 1)
      BY <1>2, <2>1, <2>3, CodeUnitsBasic
    <3> QED
      BY <3>1, <3>2, Zenon
  <2>4. CASE PairAhead(t, i)
    <3>1. /\ At(t, i + 4) = "\\" /\ At(t, i + 5) = "u" /\ HexAhead(t, i + 6)
          /\ Joined(UnitAhead(t, i), LowAhead(t, i)) \in Characters
      BY <2>4, PairTyped
    <3>2. i + 4 \in Nat /\ (i + 4) + 1 = i + 5 /\ (i + 4) + 2 = i + 6 /\ (i + 4) + 4 = i + 8
      OBVIOUS
    <3> DEFINE k == i + 4
    <3>3. k \in Nat /\ At(t, k) = "\\" /\ At(t, k + 1) = "u" /\ HexAhead(t, k + 2) /\ k + 4 = i + 8
      BY <3>1, <3>2
    <3> HIDE DEF k
    <3>4. SpellingAhead(t, k) /\ PastSpelling(t, k) = k + 4
      BY <3>3 DEF SpellingAhead, PastSpelling
    <3>5. Scan(t)[k] = Scan(t)[k + 4] /\ k + 4 \in (k + 1)..(Len(t) + 1)
      BY <3>3, <3>4, ScanSteps, ScanCases, PastSpellingAhead
    <3>6. Scan(t)[i] = Scan(t)[i + 8]
      BY <1>2, <2>1, <3>3, <3>5 DEF k
    <3>7. i + 8 \in (i + 1)..(Len(t) + 1)
      BY <1>1, <3>3, <3>5 DEF k
    <3>8. Reading(t)[i] = Before(Joined(UnitAhead(t, i), LowAhead(t, i)), Reading(t)[i + 8])
      BY <1>5, <2>4, ReadSteps
    <3>9. Goes(Joined(UnitAhead(t, i), LowAhead(t, i)), i + 8)
      BY <3>6, <3>8
    <3> QED
      BY <3>1, <3>7, <3>9, Zenon
  <2>5. CASE UnitAhead(t, i) \notin Scalars /\ ~PairAhead(t, i)
    <3>1. UnitAhead(t, i) \in Surrogates
      BY <2>2, <2>5 DEF Scalars
    <3> QED
      BY <1>5, <2>5, <3>1, ReadStops
  <2> QED
    BY <2>3, <2>4, <2>5
<1>6. CASE At(t, i) = "quote"
  BY <1>6, ReadSteps
<1>7. CASE ~SpellingAhead(t, i) /\ At(t, i) # "quote"
  BY <1>7, ReadStops
<1> QED
  BY <1>3, <1>4, <1>5, <1>6, <1>7 DEF SpellingAhead

\* What the reader takes, the scanner takes, and to the same place.
LEMMA ReaderScans ==
  ASSUME NEW t \in Seq(Characters), NEW i \in 1..(Len(t) + 1), Reading(t)[i].ok
  PROVE  Scan(t)[i].ok /\ Scan(t)[i].at = Reading(t)[i].at
<1> DEFINE n == Len(t)
           Same(k) == Scan(t)[k].ok /\ Scan(t)[k].at = Reading(t)[k].at
           P == {k \in Nat : Reading(t)[k].ok => Same(k)}
<1>1. n \in Nat /\ n + 1 \in Nat
  BY LenProperties
<1>2. ASSUME NEW k \in 1..(n + 1), \A j \in (k + 1)..(n + 1) : j \in P PROVE k \in P
  <2> SUFFICES ASSUME Reading(t)[k].ok PROVE Same(k)
    BY <1>1
  <2>1. k \in Nat /\ k >= 1
    BY <1>1
  <2>2. CASE At(t, k) = "quote" /\ Reading(t)[k] = Read(k + 1, <<>>)
    <3>0. Scan(t)[k] = ScanCase(t, Scan(t), k)
      BY <2>1, ScanSteps
    <3>1. Scan(t)[k] = Accepted(k + 1)
      BY <2>1, <2>2, <3>0, ScanCases
    <3>2. Accepted(k + 1).ok = TRUE /\ Accepted(k + 1).at = k + 1
      BY JudgedFields
    <3>3. Read(k + 1, <<>>).at = k + 1
      BY ReadFields
    <3> QED
      BY <2>2, <3>1, <3>2, <3>3, Zenon
  <2>3. CASE \E c \in Characters, j \in (k + 1)..(n + 1) :
               /\ Scan(t)[k] = Scan(t)[j]
               /\ Reading(t)[k] = Before(c, Reading(t)[j])
    <3>1. PICK c \in Characters, j \in (k + 1)..(n + 1) :
                 /\ Scan(t)[k] = Scan(t)[j]
                 /\ Reading(t)[k] = Before(c, Reading(t)[j])
      BY <2>3
    <3> DEFINE rest == Reading(t)[j]
    <3>2. j \in P
      BY <1>2
    <3>3. Before(c, rest).ok
      BY <3>1, Zenon
    <3> HIDE DEF rest
    <3>4. rest.ok /\ Before(c, rest) = Read(rest.at, <<c>> \o rest.value)
      BY <3>3, Zenon DEF Before
    <3>5. Reading(t)[k].at = rest.at
      <4>1. Reading(t)[k] = Read(rest.at, <<c>> \o rest.value)
        BY <3>1, <3>4, Zenon DEF rest
      <4>2. \A a, v : Read(a, v).at = a
        BY ReadFields
      <4> QED
        BY <4>1, <4>2, Zenon
    <3>6. Same(j)
      BY <3>2, <3>4, Zenon DEF rest
    <3> QED
      BY <3>1, <3>5, <3>6, Zenon DEF rest
  <2> QED
    BY <2>1, <2>2, <2>3, ReadWays
<1>3. \A k \in 1..(n + 1) : k \in P
  <2> HIDE DEF P, n
  <2> QED
    BY <1>1, <1>2, Backwards
<1> QED
  BY <1>3

\* Half a pair in a body is half a pair where it is quoted.
LEMMA HalfQuoted ==
  ASSUME NEW t \in Seq(Characters), NEW lexeme, Quoted(lexeme, t), NEW i \in 1..Len(t), Cut(t)[i],
         At(t, i) = "\\", At(t, i + 1) = "u", HexAhead(t, i + 2),
         UnitAhead(t, i) \in Surrogates, ~PairAhead(t, i)
  PROVE  ~Reading(lexeme)[i + 1].ok
<1> DEFINE k == i + 1
           j == i + 4
<1>1. Len(t) \in Nat /\ i \in Nat /\ i >= 1 /\ i + 1 \in Nat /\ i + 4 \in Nat /\ i + 4 >= 1
  BY LenProperties
<1>2. SpellingAhead(t, i) /\ PastSpelling(t, i) = i + 4
  BY DEF SpellingAhead, PastSpelling
<1>3. Cut(t)[i + 4] /\ i + 4 \in (i + 1)..(Len(t) + 1)
  BY <1>1, <1>2, CutSteps, PastSpellingAhead
<1>4. lexeme \in Seq(Characters) /\ At(lexeme, Len(t) + 2) = "quote"
  BY DEF Quoted
<1>5. Alike(lexeme, i + 1, t, i)
  BY <1>1, <1>2, QuotedAlike
<1>6. /\ At(lexeme, k) = "\\" /\ At(lexeme, k + 1) = "u" /\ HexAhead(lexeme, k + 2)
      /\ UnitAhead(lexeme, k) = UnitAhead(t, i)
  BY <1>1, <1>2, <1>4, <1>5, SameSpelling
<1>7. ~PairAhead(lexeme, k)
  <2> SUFFICES ASSUME PairAhead(lexeme, k) PROVE FALSE
    OBVIOUS
  <2>1. /\ At(lexeme, k + 4) = "\\" /\ At(lexeme, k + 5) = "u" /\ LowAhead(lexeme, k) \in {22, 23}
        /\ UnitAhead(lexeme, k) \in {20, 21}
    BY <1>1, PairTyped
  <2>2. k + 4 = j + 1 /\ k + 5 = (j + 1) + 1 /\ k + 6 = (j + 1) + 2 /\ i + 6 = j + 2 /\ i + 5 = j + 1
    BY <1>1
  <2>3. /\ At(lexeme, j + 1) = "\\" /\ At(lexeme, (j + 1) + 1) = "u"
        /\ UnitAhead(lexeme, j + 1) \in {22, 23}
    BY <2>1, <2>2 DEF LowAhead, UnitAhead
  <2>4. j \in Nat /\ j >= 1 /\ Cut(t)[j] /\ j \in 1..(Len(t) + 1)
    BY <1>1, <1>3
  <2>5. UnitAhead(t, j) = LowAhead(t, i) /\ At(t, i + 4) = At(t, j) /\ At(t, i + 5) = At(t, j + 1)
    BY <2>2 DEF UnitAhead, LowAhead
  <2> HIDE DEF j, k
  <2>6. CASE j = Len(t) + 1
    <3>1. j + 1 = Len(t) + 2
      BY <1>1, <2>6
    <3>2. "quote" # "\\"
      OBVIOUS
    <3> QED
      BY <1>4, <2>3, <3>1, <3>2
  <2>7. CASE j <= Len(t)
    <3>1. SpellingAhead(t, j)
      BY <2>4, <2>7, CutSteps
    <3>2. Alike(lexeme, j + 1, t, j)
      BY <2>4, <3>1, QuotedAlike
    <3>3. j + 1 \in Nat
      BY <2>4
    <3>4. /\ At(lexeme, j + 1) = At(t, j)
          /\ At(t, j) = "\\" => At(lexeme, (j + 1) + 1) = At(t, j + 1)
          /\ At(t, j) = "\\" /\ At(t, j + 1) = "u" =>
               UnitAhead(lexeme, j + 1) = UnitAhead(t, j)
      BY <1>4, <2>4, <3>1, <3>2, <3>3, SameSpelling
    <3>5. At(t, j) = "\\" /\ At(t, j + 1) = "u" /\ UnitAhead(t, j) \in {22, 23}
      BY <2>3, <3>4
    <3>6. UnitAhead(t, i) \in {20, 21}
      BY <1>6, <2>1
    <3>7. PairAhead(t, i)
      BY <1>1, <2>5, <3>5, <3>6, PairTyped
    <3> QED
      BY <3>7
  <2> QED
    BY <1>1, <2>4, <2>6, <2>7
<1>8. UnitAhead(lexeme, k) \in Surrogates
  BY <1>6
<1>9. k \in Nat
  BY <1>1
<1> HIDE DEF k
<1>10. ~Reading(lexeme)[k].ok
  BY <1>4, <1>6, <1>7, <1>8, <1>9, ReadStops
<1> QED
  BY <1>10 DEF k

\* The reader refuses a string with half a pair.
LEMMA LoneUnread ==
  ASSUME NEW t \in Seq(Characters), NEW lexeme, Quoted(lexeme, t),
         NEW i \in 1..(Len(t) + 1), Cut(t)[i], Lone(t)[i]
  PROVE  ~Reading(lexeme)[i + 1].ok
<1> DEFINE n == Len(t)
           P == {k \in Nat : Cut(t)[k] /\ Lone(t)[k] => ~Reading(lexeme)[k + 1].ok}
<1>1. n \in Nat /\ n + 1 \in Nat
  BY LenProperties
<1>2. ASSUME NEW k \in 1..(n + 1), \A j \in (k + 1)..(n + 1) : j \in P PROVE k \in P
  <2> SUFFICES ASSUME Cut(t)[k], Lone(t)[k] PROVE ~Reading(lexeme)[k + 1].ok
    BY <1>1
  <2>1. k \in Nat /\ k >= 1
    BY <1>1
  <2>2. CASE k = n + 1
    <3>1. At(t, k) = "end"
      <4>1. k \notin 1..Len(t)
        BY <1>1, <2>2
      <4> QED
        BY <2>1, <4>1, AtEnd
    <3>2. Lone(t)[k] = FALSE
      BY <2>1, <3>1, LoneSteps
    <3> QED
      BY <3>2
  <2>3. ASSUME NEW c, NEW j, Spells(lexeme, t, k, j, c) PROVE ~Reading(lexeme)[k + 1].ok
    <3>1. /\ j \in (k + 1)..(n + 1) /\ Cut(t)[j] /\ Lone(t)[j]
          /\ Reading(lexeme)[k + 1] = Before(c, Reading(lexeme)[j + 1])
      BY <2>3, Zenon DEF Spells
    <3>2. ~Reading(lexeme)[j + 1].ok
      BY <1>2, <3>1
    <3>3. Before(c, Reading(lexeme)[j + 1]) = Reading(lexeme)[j + 1]
      BY <3>2, Zenon DEF Before
    <3> QED
      BY <3>1, <3>2, <3>3, Zenon
  <2>4. CASE k \in 1..n
    <3>1. SpellingAhead(t, k)
      BY <2>1, <2>4, CutSteps
    <3>2. CASE At(t, k) \in Plain
      BY <2>1, <2>3, <3>2, PlainStep
    <3>3. CASE At(t, k) = "\\" /\ At(t, k + 1) \in DOMAIN Short
      BY <2>1, <2>3, <3>3, ShortStep
    <3>4. CASE At(t, k) = "\\" /\ At(t, k + 1) = "u" /\ HexAhead(t, k + 2)
      <4>1. UnitAhead(t, k) \in 0..24
        BY <2>1, <3>4, UnitTyped
      <4>2. CASE UnitAhead(t, k) \in Scalars
        BY <2>1, <2>3, <3>4, <4>2, ScalarStep
      <4>3. CASE PairAhead(t, k)
        BY <2>1, <2>3, <3>4, <4>3, PairStep
      <4>4. CASE UnitAhead(t, k) \notin Scalars /\ ~PairAhead(t, k)
        <5>1. UnitAhead(t, k) \in Surrogates
          BY <4>1, <4>4 DEF Scalars
        <5> QED
          BY <2>4, <3>4, <4>4, <5>1, HalfQuoted
      <4> QED
        BY <4>2, <4>3, <4>4
    <3> QED
      BY <3>1, <3>2, <3>3, <3>4 DEF SpellingAhead
  <2> QED
    BY <1>1, <2>2, <2>4
<1>3. \A k \in 1..(n + 1) : k \in P
  <2> HIDE DEF P, n
  <2> QED
    BY <1>1, <1>2, Backwards
<1> QED
  BY <1>3

\* A number begins with its sign or a digit.

-----------------------------------------------------------------------------
(* Values by their first character *)

LEMMA NumberBegins ==
  ASSUME NEW S, NEW t \in Seq(S), IsNumber(t)
  PROVE  t # <<>> /\ (t[1] = "-" \/ t[1] \in Digits)
<1>1. PICK a \in 0..1, b \in 1..Len(t) :
             (a = 1 => t[1] = "-") /\ AllDigits(SubSeq(t, a + 1, b))
  BY Zenon DEF IsNumber
<1>2. Len(t) \in Nat /\ b \in 0..Len(t) /\ 1 \in 1..b /\ b >= 1
  BY <1>1, LenProperties
<1>3. t # <<>>
  BY <1>2, EmptySeq
<1>4. CASE a = 0
  <2> DEFINE x == SubSeq(t, 1, b)
  <2>1. x \in Seq(S) /\ Len(x) = b /\ x[1] = t[1]
    BY <1>2, FrontTyped
  <2>2. ToSet(x) \subseteq Digits
    <3>1. a + 1 = 1
      BY <1>4
    <3> QED
      BY <1>1, <3>1 DEF AllDigits
  <2> HIDE DEF x
  <2>3. 1 \in DOMAIN x
    BY <1>2, <2>1
  <2>4. x[1] \in ToSet(x)
    BY <2>3, Zenon DEF ToSet
  <2> QED
    BY <1>3, <2>1, <2>2, <2>4
<1>5. CASE a = 1
  BY <1>1, <1>3, <1>5
<1> QED
  BY <1>1, <1>4, <1>5

\* What a value is shows at its first character.
LEMMA FirstTells ==
  ASSUME NEW S, NEW t \in Seq(S), t # <<>>
  PROVE  /\ t[1] = "quote" => (IsValue(t) <=> IsString(t))
         /\ t[1] = "n" => (IsValue(t) <=> t = Null)
         /\ t[1] \notin {"quote", "n"} => (IsValue(t) <=> IsNumber(t))
<1>1. "quote" \notin Digits \cup {"-"} /\ "n" \notin Digits \cup {"-"} /\ "quote" # "n"
  BY DEF Digits
<1>2. IsNumber(t) => t[1] \in Digits \cup {"-"}
  BY NumberBegins
<1>3. IsString(t) => t[1] = "quote"
  BY DEF IsString
<1>4. t = Null => t[1] = "n"
  BY DEF Null
<1> QED
  BY <1>1, <1>2, <1>3, <1>4 DEF IsValue

\* A prefix, and a prefix filled up, share it with the text.
LEMMA PrefixShares ==
  ASSUME NEW S, NEW t \in Seq(S), Characters \subseteq S, NEW k \in 1..Len(t)
  PROVE  LET x == SubSeq(t, 1, k)
         IN /\ x \in Seq(S) /\ Len(x) = k /\ Shares(x, t, k) /\ x # <<>> /\ x[1] = t[1]
            /\ \A fill \in Fills :
                 x \o fill \in Seq(S) /\ Shares(x \o fill, t, k) /\ x \o fill # <<>>
                 /\ (x \o fill)[1] = t[1]
<1> DEFINE x == SubSeq(t, 1, k)
<1>1. Len(t) \in Nat /\ k \in 0..Len(t) /\ k \in Nat /\ k >= 1 /\ 1 \in 1..k
  BY LenProperties
<1>2. x \in Seq(S) /\ Len(x) = k /\ \A i \in 1..k : x[i] = t[i]
  BY <1>1, FrontTyped
<1> HIDE DEF x
<1>3. Shares(x, t, k) /\ x # <<>> /\ x[1] = t[1]
  <2>1. k \in 1..Len(x) /\ k \in 1..Len(t)
    BY <1>1, <1>2
  <2> QED
    BY <1>1, <1>2, <2>1, EmptySeq DEF Shares
<1>4. ASSUME NEW fill \in Fills
      PROVE  /\ x \o fill \in Seq(S) /\ Shares(x \o fill, t, k) /\ x \o fill # <<>>
             /\ (x \o fill)[1] = t[1]
  <2>1. fill \in Seq(S)
    <3>1. {"1", "quote", "n", "u", "0"} \subseteq S
      BY CharactersListed DEF BasicNames
    <3>2. /\ <<>> \in Seq(S)
          /\ \A c1 \in S : <<c1>> \in Seq(S)
          /\ \A c1, c2 \in S : <<c1, c2>> \in Seq(S)
          /\ \A c1, c2, c3 \in S : <<c1, c2, c3>> \in Seq(S)
          /\ \A c1, c2, c3, c4 \in S : <<c1, c2, c3, c4>> \in Seq(S)
      OBVIOUS
    <3>3. "1" \in S /\ "quote" \in S /\ "n" \in S /\ "u" \in S /\ "0" \in S
      BY <3>1
    <3>4. \/ fill = <<>> \/ fill = <<"1">> \/ fill = <<"quote">> \/ fill = <<"n", "quote">>
          \/ fill = <<"u", "0", "0", "quote">> \/ fill = <<"0", "quote">>
          \/ fill = <<"0", "0", "quote">>
      BY <1>4, FillsListed, Zenon
    <3> QED
      BY <3>2, <3>3, <3>4, Zenon
  <2> DEFINE w == x \o fill
             m == Len(fill)
  <2>2. w \in Seq(S) /\ Len(w) = Len(x) + m /\ \A i \in 1..Len(x) : w[i] = x[i]
    <3>1. x \in Seq(S) /\ fill \in Seq(S)
      BY <1>2, <2>1
    <3> QED
      BY ONLY <3>1, JoinedAt
  <2>3. m \in Nat
    BY <2>1, LenProperties
  <2> HIDE DEF w, m
  <2>4. Len(w) = k + m /\ \A i \in 1..k : w[i] = t[i]
    BY <1>2, <2>2
  <2>5. k \in 1..Len(w) /\ k \in 1..Len(t) /\ Len(w) # 0
    BY <1>1, <2>3, <2>4
  <2>6. Shares(w, t, k) /\ w # <<>> /\ w[1] = t[1]
    BY <1>1, <2>2, <2>4, <2>5, EmptySeq DEF Shares
  <2> QED
    BY <2>2, <2>6 DEF w
<1>5. /\ x \in Seq(S) /\ Len(x) = k /\ Shares(x, t, k) /\ x # <<>> /\ x[1] = t[1]
      /\ \A fill \in Fills :
           x \o fill \in Seq(S) /\ Shares(x \o fill, t, k) /\ x \o fill # <<>>
           /\ (x \o fill)[1] = t[1]
  BY <1>2, <1>3, <1>4
<1> QED
  BY <1>5, Zenon DEF x

-----------------------------------------------------------------------------
(* The two readers on a string *)

LongestAt(at) == IsValue(Prefix(at - 1)) /\ \A k \in at..Len(text) : ~IsValue(Prefix(k))

OffendingAt(at) ==
  /\ BeginsSomeValue(Prefix(at - 1)) \/ at = 1
  /\ \/ at = Len(text) + 1 /\ ~IsValue(text)
     \/ at <= Len(text) /\ ~BeginsSomeValue(Prefix(at))
     \/ ~IsText /\ at < Len(text) /\ text[at] = "0" /\ ~BeginsSomeValue(Prefix(at + 1))
     \/ Typed = "n" /\ at = 1

AgreeOn(scan, value, lexeme) ==
  /\ IF scan.ok THEN LongestAt(scan.at) ELSE OffendingAt(scan.at)
  /\ value.ok => scan.ok /\ value.at = scan.at
  /\ scan.ok /\ ~value.ok =>
       IF IsText THEN HasLone(Meaning(lexeme))
       ELSE /\ Typed # "n" /\ value.at = scan.at
            /\ Overflows(Denoted(text, 1, NumberMarks(text, 1)))
  /\ value.ok /\ IsText => UnitsOf(value.value) = Meaning(lexeme)

LEMMA AgreedOn ==
  ScannersAgree <=> AgreeOn(ScanValue(text), ParseValue(text), Prefix(ScanValue(text).at - 1))
BY Zenon DEF ScannersAgree, AgreeOn, LongestAt, OffendingAt, UnitsOf

\* What the text begins with, as a lexeme and filled up.
LEMMA TextPrefixes ==
  ASSUME Typing
  PROVE  LET S == Characters \cup NumberChars \cup ToSet(Null)
         IN /\ text \in Seq(S) /\ Len(text) \in Nat /\ Len(text) >= 1
            /\ \A k \in 1..Len(text) :
                 /\ Prefix(k) \in Seq(S) /\ Len(Prefix(k)) = k /\ Shares(Prefix(k), text, k)
                 /\ Prefix(k) # <<>> /\ Prefix(k)[1] = Typed
                 /\ \A fill \in Fills :
                      /\ Prefix(k) \o fill \in Seq(S) /\ Shares(Prefix(k) \o fill, text, k)
                      /\ Prefix(k) \o fill # <<>> /\ (Prefix(k) \o fill)[1] = Typed
            /\ Prefix(Len(text)) = text
<1> DEFINE S == Characters \cup NumberChars \cup ToSet(Null)
           n == Len(text)
<1>1. text \in Seq(S) /\ Characters \subseteq S /\ n \in Nat /\ n >= 1
  BY LenProperties, EmptySeq DEF Typing
<1> HIDE DEF S
<1>2. ASSUME NEW k \in 1..n
      PROVE  /\ Prefix(k) \in Seq(S) /\ Len(Prefix(k)) = k /\ Shares(Prefix(k), text, k)
             /\ Prefix(k) # <<>> /\ Prefix(k)[1] = Typed
             /\ \A fill \in Fills :
                  /\ Prefix(k) \o fill \in Seq(S) /\ Shares(Prefix(k) \o fill, text, k)
                  /\ Prefix(k) \o fill # <<>> /\ (Prefix(k) \o fill)[1] = Typed
  <2>1. LET x == SubSeq(text, 1, k)
        IN /\ x \in Seq(S) /\ Len(x) = k /\ Shares(x, text, k) /\ x # <<>> /\ x[1] = text[1]
           /\ \A fill \in Fills :
                x \o fill \in Seq(S) /\ Shares(x \o fill, text, k) /\ x \o fill # <<>>
                /\ (x \o fill)[1] = text[1]
    BY <1>1, <1>2, PrefixShares
  <2> QED
    BY <2>1, Zenon DEF Prefix, Typed
<1>3. Prefix(n) = text
  <2> DEFINE x == Prefix(n)
  <2>1. n \in 1..n
    BY <1>1
  <2>2. x \in Seq(S) /\ Len(x) = n /\ Shares(x, text, n)
    BY <1>2, <2>1
  <2> HIDE DEF x, n
  <2>3. \A i \in 1..n : x[i] = text[i]
    BY <2>2 DEF Shares
  <2>4. x = text
    BY <1>1, <2>2, <2>3, SeqEqual DEF n
  <2> QED
    BY <2>4 DEF x
<1> QED
  BY <1>1, <1>2, <1>3, Zenon DEF S

LEMMA StringsAgree ==
  ASSUME Typing, IsText
  PROVE  AgreeOn(ScanValue(text), ParseValue(text), Prefix(ScanValue(text).at - 1))
<1> DEFINE n == Len(text)
           scan == ScanValue(text)
           value == ParseValue(text)
           a == scan.at
           x == Prefix(a - 1)
           S == Characters
<1>1. text \in Seq(S) /\ text # <<>> /\ text[1] = "quote" /\ Typed = "quote"
  BY DEF Typing, IsText, Typed
<1>2. n \in Nat /\ n >= 1 /\ 2 \in 1..(n + 1)
  BY <1>1, LenProperties, EmptySeq
<1>3. scan = Scan(text)[2] /\ value = Reading(text)[2]
  <2>1. ScanValue(text) = ScanString(text, 1) /\ ParseValue(text) = ParseString(text, 1)
    BY <1>1, Zenon DEF ScanValue, ParseValue
  <2>2. 1 + 1 = 2
    OBVIOUS
  <2> QED
    BY <2>1, <2>2, ScanIsScan, StringIsReading, Zenon
<1>4. a \in 2..(n + 1)
  BY <1>2, <1>1, <1>3, ScanTo
<1>5. scan.ok \in BOOLEAN
  BY <1>2, <1>1, <1>3, ScanTo, Zenon
<1>6. ASSUME NEW w \in Seq(S), NEW p, Shares(w, text, p), w # <<>>, w[1] = "quote", IsValue(w)
      PROVE  Expected(scan, w, p)
  <2>1. IsString(w)
    BY <1>6, FirstTells
  <2> QED
    BY <1>1, <1>3, <1>6, <2>1, StringForced
<1>7. \A k \in 1..n :
        /\ SubSeq(text, 1, k) \in Seq(S) /\ Len(SubSeq(text, 1, k)) = k
        /\ Shares(SubSeq(text, 1, k), text, k)
        /\ SubSeq(text, 1, k) # <<>> /\ SubSeq(text, 1, k)[1] = "quote"
        /\ \A fill \in Fills :
             /\ SubSeq(text, 1, k) \o fill \in Seq(S) /\ Shares(SubSeq(text, 1, k) \o fill, text, k)
             /\ SubSeq(text, 1, k) \o fill # <<>> /\ (SubSeq(text, 1, k) \o fill)[1] = "quote"
  <2> SUFFICES ASSUME NEW k \in 1..n
               PROVE  LET y == SubSeq(text, 1, k)
                      IN /\ y \in Seq(S) /\ Len(y) = k /\ Shares(y, text, k) /\ y # <<>>
                         /\ y[1] = "quote"
                         /\ \A fill \in Fills :
                              y \o fill \in Seq(S) /\ Shares(y \o fill, text, k)
                              /\ y \o fill # <<>> /\ (y \o fill)[1] = "quote"
    BY Zenon
  <2>1. LET y == SubSeq(text, 1, k)
        IN /\ y \in Seq(S) /\ Len(y) = k /\ Shares(y, text, k) /\ y # <<>> /\ y[1] = text[1]
           /\ \A fill \in Fills :
                y \o fill \in Seq(S) /\ Shares(y \o fill, text, k) /\ y \o fill # <<>>
                /\ (y \o fill)[1] = text[1]
    BY <1>1, PrefixShares
  <2> QED
    BY <1>1, <2>1, Zenon
<1>8. \A k \in 1..n : Prefix(k) = SubSeq(text, 1, k)
  BY Zenon DEF Prefix
<1>9. Prefix(n) = text
  BY TextPrefixes
<1> HIDE DEF scan, value, S
<1>10. a \in Nat /\ a >= 2 /\ a <= n + 1
  BY <1>2, <1>4
<1> HIDE DEF n, a
<1>11. ASSUME scan.ok PROVE LongestAt(a)
  <2>1. IsValue(x)
    BY <1>11, LexemeIsString, Zenon DEF IsValue, scan, a
  <2>2. ASSUME NEW k \in a..Len(text), IsValue(Prefix(k)) PROVE FALSE
    <3> DEFINE w == Prefix(k)
    <3>1. k \in 1..n /\ k >= a /\ k \in Nat
      BY <1>2, <1>10 DEF n
    <3>2. w \in Seq(S) /\ Len(w) = k /\ Shares(w, text, k) /\ w # <<>> /\ w[1] = "quote"
      BY <1>7, <1>8, <3>1, Zenon
    <3>3. Expected(scan, w, k)
      BY <1>6, <2>2, <3>2
    <3>4. a > k
      BY <3>2, <3>3, Zenon DEF Expected, a
    <3> QED
      BY <1>10, <3>1, <3>4
  <2> QED
    BY <2>1, <2>2, Zenon DEF LongestAt
<1>12. ASSUME ~scan.ok PROVE OffendingAt(a)
  <2>1. BeginsSomeValue(Prefix(a - 1))
    <3>1. BeginsSomeValue(SubSeq(text, 1, Scan(text)[2].at - 1))
      <4>1. ~Scan(text)[2].ok
        BY <1>3, <1>12, Zenon
      <4> QED
        BY <1>1, <4>1, StringGoesOn DEF S
    <3> QED
      BY <1>3, <3>1, Zenon DEF Prefix, a
  <2>2. CASE a = n + 1
    <3>1. ASSUME IsValue(text) PROVE FALSE
      <4>1. n \in 1..n
        BY <1>2
      <4>2. Shares(text, text, n)
        BY <1>7, <1>8, <1>9, <4>1, Zenon
      <4>3. Expected(scan, text, n)
        BY <1>1, <1>6, <3>1, <4>2
      <4> QED
        BY <1>12, <4>3, Zenon DEF Expected, n
    <3> QED
      BY <2>1, <2>2, <3>1, Zenon DEF OffendingAt, n
  <2>3. CASE a <= n
    <3>1. ASSUME NEW fill \in Fills, IsValue(Prefix(a) \o fill) PROVE FALSE
      <4> DEFINE w == Prefix(a) \o fill
      <4>1. a \in 1..n
        BY <1>2, <1>10, <2>3
      <4>2. w \in Seq(S) /\ Shares(w, text, a) /\ w # <<>> /\ w[1] = "quote"
        BY <1>7, <1>8, <4>1, Zenon
      <4>3. Expected(scan, w, a)
        BY <1>6, <3>1, <4>2
      <4>4. a > a
        BY <1>12, <4>3, Zenon DEF Expected, a
      <4> QED
        BY <1>10, <4>4
    <3>2. ~BeginsSomeValue(Prefix(a))
      BY <3>1, Zenon DEF BeginsSomeValue
    <3> QED
      BY <2>1, <2>3, <3>2, Zenon DEF OffendingAt, n
  <2> QED
    BY <1>2, <1>10, <2>2, <2>3
<1>13. value.ok => scan.ok /\ value.at = scan.at
  <2>1. Reading(text)[2].ok => Scan(text)[2].ok /\ Scan(text)[2].at = Reading(text)[2].at
    BY <1>1, <1>2, ReaderScans DEF S, n
  <2> QED
    BY <1>3, <2>1, Zenon
<1>14. ASSUME scan.ok
       PROVE  /\ ~value.ok => HasLone(Meaning(x))
              /\ value.ok => UnitsOf(value.value) = Meaning(x)
  <2> DEFINE b == Inner(x)
  <2>1. x \in Seq(S) /\ IsString(x)
    BY <1>14, LexemeIsString, Zenon DEF scan, a, S
  <2>2. Len(x) >= 2 /\ x[Len(x)] = "quote"
    BY <2>1 DEF IsString
  <2>3. /\ a - 1 \in 1..n /\ x = SubSeq(text, 1, a - 1)
    BY <1>2, <1>8, <1>10
  <2>4. Len(x) = a - 1 /\ Shares(x, text, a - 1)
    BY <1>7, <2>3, Zenon
  <2> HIDE DEF x
  <2>5. b \in Seq(S) /\ Len(b) = Len(x) - 2 /\ Quoted(x, b)
    BY <2>1, <2>2, StringParts DEF S
  <2>6. Cut(b)[1]
    BY <2>1, BodyIsCut, Zenon DEF IsString
  <2> HIDE DEF b
  <2>7. \A k \in 1..(a - 1) : At(x, k) = x[k] /\ At(text, k) = x[k]
    BY <1>1, <2>1, <2>4, SharedAt
  <2>8. Quoted(text, b)
    <3>1. At(text, Len(b) + 2) = "quote"
      <4>1. Len(b) + 2 = a - 1 /\ a - 1 \in 1..(a - 1)
        BY <1>10, <2>3, <2>4, <2>5
      <4>2. At(x, a - 1) = "quote"
        BY <2>5, <4>1 DEF Quoted
      <4> QED
        BY <2>7, <4>1, <4>2
    <3>2. ASSUME NEW i \in Nat, i >= 1, At(b, i) # "end" PROVE At(text, i + 1) = At(b, i)
      <4>1. i \in 1..Len(b)
        BY <2>5, <3>2, AtEnd DEF S
      <4>2. i + 1 \in 1..(a - 1)
        BY <1>10, <2>4, <2>5, <4>1
      <4>3. At(x, i + 1) = At(b, i)
        BY <2>5, <3>2 DEF Quoted
      <4> QED
        BY <2>7, <4>2, <4>3
    <3> QED
      BY <1>1, <3>1, <3>2 DEF Quoted, S
  <2>9. 1 \in 1..(Len(b) + 1) /\ 1 + 1 = 2
    BY <2>4, <2>2, <2>5
  <2>10. Agreed(text, b, 1)
    BY <2>5, <2>6, <2>8, <2>9, BodyAgreed DEF S
  <2>11. Meaning(x) = Mean(b)[1]
    BY MeaningIsMean, Zenon DEF b
  <2>12. CASE Lone(b)[1]
    <3>1. ~Reading(text)[1 + 1].ok
      BY <2>5, <2>6, <2>8, <2>9, <2>12, LoneUnread DEF S
    <3>2. HasLone(Mean(b)[1])
      BY <2>10, <2>12, Zenon DEF Agreed
    <3> QED
      BY <1>3, <2>9, <2>11, <3>1, <3>2
  <2>13. CASE ~Lone(b)[1]
    <3>1. PICK v \in Seq(Characters) : Respelt(text, b, 1, v)
      BY <2>10, <2>13, Zenon DEF Agreed
    <3>2. Reading(text)[1 + 1] = Read(Len(b) + 3, v) /\ Mean(b)[1] = UnitsOf(v)
      BY <3>1, Zenon DEF Respelt
    <3>3. value = Read(Len(b) + 3, v)
      BY <1>3, <2>9, <3>2
    <3>4. value.ok = TRUE /\ value.value = v
      <4> DEFINE y == Len(b) + 3
      <4>1. value = Read(y, v)
        BY <3>3
      <4> HIDE DEF y
      <4>2. Read(y, v).ok = TRUE /\ Read(y, v).value = v
        BY DEF Read
      <4> QED
        BY <4>1, <4>2, Zenon
    <3> QED
      BY <2>11, <3>2, <3>4, Zenon
  <2> QED
    BY <2>12, <2>13
<1>15. AgreeOn(scan, value, Prefix(scan.at - 1))
  <2>1. scan.ok => LongestAt(scan.at)
    BY <1>11, Zenon DEF a
  <2>2. ~scan.ok => OffendingAt(scan.at)
    BY <1>12, Zenon DEF a
  <2>3. scan.ok /\ ~value.ok => HasLone(Meaning(Prefix(scan.at - 1)))
    BY <1>14, Zenon DEF a
  <2>4. value.ok => UnitsOf(value.value) = Meaning(Prefix(scan.at - 1))
    BY <1>13, <1>14, Zenon DEF a
  <2> QED
    BY <1>13, <2>1, <2>2, <2>3, <2>4, Zenon DEF AgreeOn
<1> QED
  BY <1>15, Zenon DEF scan, value

-----------------------------------------------------------------------------
(* The parts of a number by their places: its first digit at f, what comes  *)
(* after its integer at i, and after its fraction at r.                     *)

DigitsIn(w, x, y) == \A k \in x..y : w[k] \in Digits

IntShape(w, f, i) ==
  /\ f \in {1, 2} /\ (f = 2 => w[1] = "-")
  /\ f < i /\ DigitsIn(w, f, i - 1) /\ (w[f] = "0" => i = f + 1)

FracShape(w, i, r) == r = i \/ (w[i] = "." /\ i + 2 <= r /\ DigitsIn(w, i + 1, r - 1))

ExpShape(w, r) ==
  \/ r = Len(w) + 1
  \/ w[r] \in {"e", "E"} /\ r + 1 <= Len(w) /\ DigitsIn(w, r + 1, Len(w))
  \/ /\ w[r] \in {"e", "E"} /\ w[r + 1] \in {"+", "-"} /\ r + 2 <= Len(w)
     /\ DigitsIn(w, r + 2, Len(w))

Shape(w, f, i, r) ==
  /\ i \in 2..(Len(w) + 1) /\ r \in i..(Len(w) + 1)
  /\ IntShape(w, f, i) /\ FracShape(w, i, r) /\ ExpShape(w, r)

LEMMA SliceAt ==
  ASSUME NEW S, NEW w \in Seq(S), NEW x \in 1..(Len(w) + 1), NEW y \in (x - 1)..Len(w)
  PROVE  /\ SubSeq(w, x, y) \in Seq(S) /\ Len(SubSeq(w, x, y)) = (y - x) + 1
         /\ \A k \in 1..((y - x) + 1) : SubSeq(w, x, y)[k] = w[(x + k) - 1]
<1> DEFINE s == SubSeq(w, x, y)
<1>1. Len(w) \in Nat /\ x \in Int /\ y \in Int /\ y >= x - 1 /\ y <= Len(w) /\ x >= 1
  BY LenProperties
<1>2. \A k \in x..y : w[k] \in S
  BY <1>1
<1>3. /\ s \in Seq(S) /\ Len(s) = IF x <= y THEN y - x + 1 ELSE 0
      /\ \A k \in 1..(y - x + 1) : s[k] = w[x + k - 1]
  BY <1>1, <1>2, SubSeqProperties
<1> HIDE DEF s
<1>4. Len(s) = (y - x) + 1
  BY <1>1, <1>3
<1>5. s \in Seq(S) /\ Len(s) = (y - x) + 1 /\ \A k \in 1..((y - x) + 1) : s[k] = w[(x + k) - 1]
  BY <1>3, <1>4
<1> QED
  BY <1>5 DEF s

LEMMA DigitsSliced ==
  ASSUME NEW S, NEW w \in Seq(S), NEW x \in 1..(Len(w) + 1), NEW y \in (x - 1)..Len(w)
  PROVE  AllDigits(SubSeq(w, x, y)) <=> x <= y /\ DigitsIn(w, x, y)
<1> DEFINE s == SubSeq(w, x, y)
           m == (y - x) + 1
<1>1. Len(w) \in Nat /\ x \in Int /\ y \in Int /\ y >= x - 1 /\ y <= Len(w) /\ x >= 1
  BY LenProperties
<1>2. s \in Seq(S) /\ Len(s) = m /\ \A k \in 1..m : s[k] = w[(x + k) - 1]
  BY SliceAt
<1> HIDE DEF s
<1>3. m \in Nat /\ (x <= y <=> m # 0)
  BY <1>1
<1>4. s # <<>> <=> x <= y
  BY <1>2, <1>3, EmptySeq
<1>5. DOMAIN s = 1..m
  BY <1>2
<1>6. ASSUME DigitsIn(w, x, y), NEW k \in 1..m PROVE s[k] \in Digits
  <2>1. (x + k) - 1 \in x..y
    BY <1>1
  <2> QED
    BY <1>2, <1>6, <2>1 DEF DigitsIn
<1>7. ASSUME \A k \in 1..m : s[k] \in Digits, NEW k \in x..y PROVE w[k] \in Digits
  <2> DEFINE j == (k - x) + 1
  <2>1. j \in 1..m /\ (x + j) - 1 = k
    BY <1>1
  <2> HIDE DEF j
  <2>2. s[j] = w[k]
    BY <1>2, <2>1
  <2> QED
    BY <1>7, <2>1, <2>2
<1>8. ToSet(s) \subseteq Digits <=> \A k \in 1..m : s[k] \in Digits
  BY <1>5, Zenon DEF ToSet
<1>9. AllDigits(s) <=> x <= y /\ DigitsIn(w, x, y)
  <2>1. ToSet(s) \subseteq Digits <=> DigitsIn(w, x, y)
    BY <1>6, <1>7, <1>8, Zenon DEF DigitsIn
  <2> QED
    BY <1>4, <2>1, Zenon DEF AllDigits
<1> QED
  BY <1>9 DEF s

LEMMA SliceOfSlice ==
  ASSUME NEW S, NEW w \in Seq(S), NEW x \in 1..(Len(w) + 1), NEW y \in (x - 1)..Len(w)
  PROVE  LET s == SubSeq(w, x, y)
         IN /\ s = <<>> <=> y < x
            /\ x <= y => s[1] = w[x] /\ Tail(s) = SubSeq(w, x + 1, y)
            /\ x < y => s[2] = w[x + 1] /\ SubSeq(s, 3, Len(s)) = SubSeq(w, x + 2, y)
            /\ Len(s) > 1 <=> x < y
<1> DEFINE s == SubSeq(w, x, y)
           m == (y - x) + 1
<1>1. Len(w) \in Nat /\ x \in Int /\ y \in Int /\ y >= x - 1 /\ y <= Len(w) /\ x >= 1
  BY LenProperties
<1>2. s \in Seq(S) /\ Len(s) = m /\ \A k \in 1..m : s[k] = w[(x + k) - 1]
  BY SliceAt
<1> HIDE DEF s
<1>3. m \in Nat /\ (m = 0 <=> y < x) /\ (m > 1 <=> x < y)
  BY <1>1
<1>4. (s = <<>> <=> y < x) /\ (Len(s) > 1 <=> x < y)
  BY <1>2, <1>3, EmptySeq
<1>5. ASSUME NEW d \in {1, 2}, x + d <= y + 1, NEW q \in Seq(S), Len(q) = m - d,
             \A k \in 1..(m - d) : q[k] = s[k + d]
      PROVE  q = SubSeq(w, x + d, y)
  <2> DEFINE v == SubSeq(w, x + d, y)
             z == x + d
  <2>1. z \in 1..(Len(w) + 1) /\ y \in (z - 1)..Len(w) /\ (y - z) + 1 = m - d
    BY <1>1, <1>5
  <2>2. v \in Seq(S) /\ Len(v) = (y - z) + 1 /\ \A k \in 1..((y - z) + 1) : v[k] = w[(z + k) - 1]
    <3> HIDE DEF z
    <3>1. /\ SubSeq(w, z, y) \in Seq(S) /\ Len(SubSeq(w, z, y)) = (y - z) + 1
          /\ \A k \in 1..((y - z) + 1) : SubSeq(w, z, y)[k] = w[(z + k) - 1]
      BY <2>1, SliceAt
    <3>2. v = SubSeq(w, z, y)
      BY DEF z
    <3> QED
      BY <3>1, <3>2
  <2> HIDE DEF v
  <2>3. \A k \in 1..(m - d) : q[k] = v[k]
    <3> TAKE k \in 1..(m - d)
    <3>1. k + d \in 1..m /\ (x + (k + d)) - 1 = (z + k) - 1 /\ k \in 1..((y - z) + 1)
      BY <1>1, <2>1
    <3>2. s[k + d] = w[(x + (k + d)) - 1]
      BY <1>2, <3>1
    <3>3. v[k] = w[(z + k) - 1]
      BY <2>2, <3>1
    <3> QED
      BY <1>5, <3>1, <3>2, <3>3
  <2>4. Len(v) = m - d
    BY <2>1, <2>2
  <2>5. q = v
    <3> HIDE DEF m
    <3>1. Len(q) = Len(v) /\ \A k \in 1..Len(q) : q[k] = v[k]
      BY <1>5, <2>3, <2>4
    <3> QED
      BY <1>5, <2>2, <3>1, SeqEqual
  <2> QED
    BY <2>5 DEF v
<1>6. ASSUME x <= y PROVE s[1] = w[x] /\ Tail(s) = SubSeq(w, x + 1, y)
  <2>1. 1 \in 1..m /\ (x + 1) - 1 = x /\ x + 1 <= y + 1
    BY <1>1, <1>6
  <2>2. s[1] = w[x]
    BY <1>2, <2>1
  <2> DEFINE q == Tail(s)
  <2>3. q \in Seq(S) /\ Len(q) = m - 1 /\ \A k \in 1..(m - 1) : q[k] = s[k + 1]
    <3>1. s # <<>>
      BY <1>1, <1>4, <1>6
    <3>2. q \in Seq(S) /\ Len(q) = Len(s) - 1 /\ \A k \in 1..Len(q) : q[k] = s[k + 1]
      BY <1>2, <3>1, HeadTailProperties, Zenon
    <3> HIDE DEF q, m
    <3> QED
      BY <1>2, <3>2
  <2> HIDE DEF q, m
  <2>4. q = SubSeq(w, x + 1, y)
    BY <1>5, <2>1, <2>3
  <2> QED
    BY <2>2, <2>4 DEF q
<1>7. ASSUME x < y PROVE s[2] = w[x + 1] /\ SubSeq(s, 3, Len(s)) = SubSeq(w, x + 2, y)
  <2>1. 2 \in 1..m /\ (x + 2) - 1 = x + 1 /\ x + 2 <= y + 1 /\ m >= 2
    BY <1>1, <1>7
  <2>2. s[2] = w[x + 1]
    BY <1>2, <2>1
  <2> DEFINE q == SubSeq(s, 3, m)
  <2>3. q \in Seq(S) /\ Len(q) = m - 2 /\ \A k \in 1..(m - 2) : q[k] = s[k + 2]
    <3> HIDE DEF m
    <3>1. 3 \in 1..(Len(s) + 1) /\ m \in (3 - 1)..Len(s)
      BY <1>2, <1>3, <2>1
    <3>2. /\ q \in Seq(S) /\ Len(q) = (m - 3) + 1
          /\ \A k \in 1..((m - 3) + 1) : q[k] = s[(3 + k) - 1]
      <4> DEFINE z == 3
      <4>1. s \in Seq(S) /\ z \in 1..(Len(s) + 1) /\ m \in (z - 1)..Len(s)
        BY <1>2, <3>1
      <4> HIDE DEF z
      <4>2. /\ SubSeq(s, z, m) \in Seq(S) /\ Len(SubSeq(s, z, m)) = (m - z) + 1
            /\ \A k \in 1..((m - z) + 1) : SubSeq(s, z, m)[k] = s[(z + k) - 1]
        BY ONLY <4>1, SliceAt
      <4> QED
        BY <4>2 DEF z
    <3> HIDE DEF q
    <3>3. (m - 3) + 1 = m - 2 /\ \A k \in 1..(m - 2) : (3 + k) - 1 = k + 2
      BY <1>3
    <3> QED
      BY <3>2, <3>3
  <2>4. Len(s) = m
    BY <1>2
  <2> HIDE DEF q, m
  <2>5. q = SubSeq(w, x + 2, y)
    BY <1>5, <2>1, <2>3
  <2> QED
    BY <2>2, <2>4, <2>5 DEF q
<1> QED
  BY <1>4, <1>6, <1>7, Zenon DEF s

\* What the grammar says of a number that is cut after a, b and c characters.
NumberParts(t, a, b, c) ==
  LET int  == SubSeq(t, a + 1, b)
      frac == SubSeq(t, b + 1, c)
      exp  == SubSeq(t, c + 1, Len(t))
  IN /\ a = 1 => t[1] = "-"
     /\ AllDigits(int) /\ (int[1] = "0" => Len(int) = 1)
     /\ frac = <<>> \/ (frac[1] = "." /\ AllDigits(Tail(frac)))
     /\ \/ exp = <<>>
        \/ exp[1] \in {"e", "E"} /\ AllDigits(Tail(exp))
        \/ /\ Len(exp) > 1 /\ exp[1] \in {"e", "E"} /\ exp[2] \in {"+", "-"}
           /\ AllDigits(SubSeq(exp, 3, Len(exp)))

LEMMA IntPart ==
  ASSUME NEW S, NEW w \in Seq(S), NEW f \in {1, 2}, NEW i \in 2..(Len(w) + 1)
  PROVE  LET int == SubSeq(w, f, i - 1)
         IN AllDigits(int) /\ (int[1] = "0" => Len(int) = 1)
              <=> f < i /\ DigitsIn(w, f, i - 1) /\ (w[f] = "0" => i = f + 1)
<1> DEFINE y == i - 1
           int == SubSeq(w, f, y)
<1>1. Len(w) \in Nat /\ f \in 1..(Len(w) + 1) /\ y \in (f - 1)..Len(w) /\ i = y + 1 /\ f \in Nat
  BY LenProperties
<1>2. (f < i <=> f <= y) /\ (i = f + 1 <=> y = f)
  BY <1>1
<1> HIDE DEF y
<1>3. AllDigits(int) <=> f <= y /\ DigitsIn(w, f, y)
  BY <1>1, DigitsSliced
<1>4. f <= y => int[1] = w[f]
  BY <1>1, SliceOfSlice
<1>5. Len(int) = (y - f) + 1
  BY <1>1, SliceAt
<1>6. Len(int) = 1 <=> y = f
  <2> HIDE DEF int
  <2> QED
    BY <1>1, <1>5
<1> HIDE DEF int
<1>7. AllDigits(int) /\ (int[1] = "0" => Len(int) = 1)
        <=> f < i /\ DigitsIn(w, f, y) /\ (w[f] = "0" => i = f + 1)
  BY <1>2, <1>3, <1>4, <1>6, Zenon
<1> QED
  BY <1>7, Zenon DEF int, y

LEMMA FracPart ==
  ASSUME NEW S, NEW w \in Seq(S), NEW i \in 2..(Len(w) + 1), NEW r \in i..(Len(w) + 1)
  PROVE  LET frac == SubSeq(w, i, r - 1)
         IN frac = <<>> \/ (frac[1] = "." /\ AllDigits(Tail(frac))) <=> FracShape(w, i, r)
<1> DEFINE y == r - 1
           frac == SubSeq(w, i, y)
<1>1. /\ Len(w) \in Nat /\ i \in 1..(Len(w) + 1) /\ y \in (i - 1)..Len(w) /\ r = y + 1
      /\ i \in Nat /\ y \in Int
  BY LenProperties
<1>2. (r = i <=> y < i) /\ (i + 2 <= r <=> i + 1 <= y)
  BY <1>1
<1> HIDE DEF y
<1>3. /\ frac = <<>> <=> y < i
      /\ i <= y => frac[1] = w[i] /\ Tail(frac) = SubSeq(w, i + 1, y)
  BY <1>1, SliceOfSlice
<1>4. i <= y => (AllDigits(SubSeq(w, i + 1, y)) <=> i + 1 <= y /\ DigitsIn(w, i + 1, y))
  <2> SUFFICES ASSUME i <= y
               PROVE  AllDigits(SubSeq(w, i + 1, y)) <=> i + 1 <= y /\ DigitsIn(w, i + 1, y)
    OBVIOUS
  <2> DEFINE x == i + 1
  <2>1. x \in 1..(Len(w) + 1) /\ y \in (x - 1)..Len(w)
    BY <1>1
  <2> HIDE DEF x
  <2>2. AllDigits(SubSeq(w, x, y)) <=> x <= y /\ DigitsIn(w, x, y)
    BY <2>1, DigitsSliced
  <2> QED
    BY <2>2 DEF x
<1>5. y < i \/ i <= y
  BY <1>1
<1>6. ~(y < i /\ i <= y) /\ (i + 1 <= y => i <= y)
  BY <1>1
<1> HIDE DEF frac
<1>7. frac = <<>> \/ (frac[1] = "." /\ AllDigits(Tail(frac)))
        <=> (y < i \/ (w[i] = "." /\ i + 1 <= y /\ DigitsIn(w, i + 1, y)))
  BY <1>3, <1>4, <1>5, <1>6, Zenon
<1> QED
  BY <1>2, <1>7, Zenon DEF FracShape, frac, y

LEMMA ExpPart ==
  ASSUME NEW S, NEW w \in Seq(S), NEW r \in 2..(Len(w) + 1)
  PROVE  LET exp == SubSeq(w, r, Len(w))
         IN \/ exp = <<>>
            \/ exp[1] \in {"e", "E"} /\ AllDigits(Tail(exp))
            \/ /\ Len(exp) > 1 /\ exp[1] \in {"e", "E"} /\ exp[2] \in {"+", "-"}
               /\ AllDigits(SubSeq(exp, 3, Len(exp)))
            <=> ExpShape(w, r)
<1> DEFINE y == Len(w)
           exp == SubSeq(w, r, y)
           E == {"e", "E"}
           P == {"+", "-"}
<1>1. /\ y \in Nat /\ r \in 1..(Len(w) + 1) /\ y \in (r - 1)..Len(w) /\ r \in Nat
  BY LenProperties
<1>2. /\ exp = <<>> <=> y < r
      /\ r <= y => exp[1] = w[r] /\ Tail(exp) = SubSeq(w, r + 1, y)
      /\ r < y => exp[2] = w[r + 1] /\ SubSeq(exp, 3, Len(exp)) = SubSeq(w, r + 2, y)
      /\ Len(exp) > 1 <=> r < y
  BY <1>1, SliceOfSlice
<1>3. ASSUME NEW x \in 1..(y + 1)
      PROVE  AllDigits(SubSeq(w, x, y)) <=> x <= y /\ DigitsIn(w, x, y)
  <2>1. x \in 1..(Len(w) + 1) /\ y \in (x - 1)..Len(w)
    BY <1>1
  <2> QED
    BY <2>1, DigitsSliced
<1> HIDE DEF exp, y, E, P
<1>4. r <= y => (AllDigits(SubSeq(w, r + 1, y)) <=> r + 1 <= y /\ DigitsIn(w, r + 1, y))
  <2> DEFINE x == r + 1
  <2>1. r <= y => x \in 1..(y + 1)
    BY <1>1
  <2> HIDE DEF x
  <2>2. r <= y => (AllDigits(SubSeq(w, x, y)) <=> x <= y /\ DigitsIn(w, x, y))
    BY <1>3, <2>1, Zenon
  <2> QED
    BY <2>2, Zenon DEF x
<1>5. r < y => (AllDigits(SubSeq(w, r + 2, y)) <=> r + 2 <= y /\ DigitsIn(w, r + 2, y))
  <2> DEFINE x == r + 2
  <2>1. r < y => x \in 1..(y + 1)
    BY <1>1
  <2> HIDE DEF x
  <2>2. r < y => (AllDigits(SubSeq(w, x, y)) <=> x <= y /\ DigitsIn(w, x, y))
    BY <1>3, <2>1, Zenon
  <2> QED
    BY <2>2, Zenon DEF x
<1>6. /\ (y < r <=> r = y + 1) /\ (y < r \/ r <= y) /\ ~(y < r /\ r <= y)
      /\ (r + 1 <= y => r <= y) /\ (r + 2 <= y => r < y) /\ (r < y => r <= y)
  <2> SUFFICES y \in (r - 1)..y
    BY <1>1
  <2> QED
    BY <1>1 DEF y
<1>7. \/ exp = <<>>
      \/ exp[1] \in E /\ AllDigits(Tail(exp))
      \/ /\ Len(exp) > 1 /\ exp[1] \in E /\ exp[2] \in P
         /\ AllDigits(SubSeq(exp, 3, Len(exp)))
      <=> \/ r = y + 1
          \/ w[r] \in E /\ r + 1 <= y /\ DigitsIn(w, r + 1, y)
          \/ w[r] \in E /\ w[r + 1] \in P /\ r + 2 <= y /\ DigitsIn(w, r + 2, y)
  <2>1. CASE y < r
    BY <1>2, <1>6, <2>1, Zenon
  <2>2. CASE r <= y
    <3>1. exp # <<>> /\ r # y + 1 /\ exp[1] = w[r]
      BY <1>2, <1>6, <2>2, Zenon
    <3>2. exp[1] \in E /\ AllDigits(Tail(exp)) <=> w[r] \in E /\ r + 1 <= y /\ DigitsIn(w, r + 1, y)
      BY <1>2, <1>4, <2>2, Zenon
    <3>3. /\ Len(exp) > 1 /\ exp[1] \in E /\ exp[2] \in P
          /\ AllDigits(SubSeq(exp, 3, Len(exp)))
          <=> w[r] \in E /\ w[r + 1] \in P /\ r + 2 <= y /\ DigitsIn(w, r + 2, y)
      <4>1. CASE r < y
        BY <1>2, <1>5, <3>1, <4>1, Zenon
      <4>2. CASE ~(r < y)
        BY <1>2, <1>6, <4>2, Zenon
      <4> QED
        BY <4>1, <4>2
    <3> QED
      BY <3>1, <3>2, <3>3, Zenon
  <2> QED
    BY <1>6, <2>1, <2>2
<1> QED
  BY <1>7, Zenon DEF ExpShape, exp, y, E, P

LEMMA PartsShaped ==
  ASSUME NEW S, NEW w \in Seq(S), NEW a \in 0..1, NEW b \in 1..Len(w), NEW c \in b..Len(w)
  PROVE  NumberParts(w, a, b, c) <=> Shape(w, a + 1, b + 1, c + 1)
<1> DEFINE f == a + 1
           i == b + 1
           r == c + 1
<1>1. Len(w) \in Nat
  BY LenProperties
<1>2. /\ f \in {1, 2} /\ i \in 2..(Len(w) + 1) /\ r \in i..(Len(w) + 1) /\ r \in 2..(Len(w) + 1)
      /\ i - 1 = b /\ r - 1 = c /\ (f = 2 <=> a = 1)
  BY <1>1
<1> HIDE DEF f, i, r
<1>3. LET int == SubSeq(w, f, i - 1)
      IN AllDigits(int) /\ (int[1] = "0" => Len(int) = 1)
           <=> f < i /\ DigitsIn(w, f, i - 1) /\ (w[f] = "0" => i = f + 1)
  BY <1>2, IntPart
<1>4. LET frac == SubSeq(w, i, r - 1)
      IN frac = <<>> \/ (frac[1] = "." /\ AllDigits(Tail(frac))) <=> FracShape(w, i, r)
  BY <1>2, FracPart
<1>5. LET exp == SubSeq(w, r, Len(w))
      IN \/ exp = <<>>
         \/ exp[1] \in {"e", "E"} /\ AllDigits(Tail(exp))
         \/ /\ Len(exp) > 1 /\ exp[1] \in {"e", "E"} /\ exp[2] \in {"+", "-"}
            /\ AllDigits(SubSeq(exp, 3, Len(exp)))
         <=> ExpShape(w, r)
  BY <1>2, ExpPart
<1>6. NumberParts(w, a, b, c) <=>
        LET int  == SubSeq(w, f, b)
            frac == SubSeq(w, i, c)
            exp  == SubSeq(w, r, Len(w))
        IN /\ a = 1 => w[1] = "-"
           /\ AllDigits(int) /\ (int[1] = "0" => Len(int) = 1)
           /\ frac = <<>> \/ (frac[1] = "." /\ AllDigits(Tail(frac)))
           /\ \/ exp = <<>>
              \/ exp[1] \in {"e", "E"} /\ AllDigits(Tail(exp))
              \/ /\ Len(exp) > 1 /\ exp[1] \in {"e", "E"} /\ exp[2] \in {"+", "-"}
                 /\ AllDigits(SubSeq(exp, 3, Len(exp)))
  BY Zenon DEF NumberParts, f, i, r
<1>7. NumberParts(w, a, b, c) <=> Shape(w, f, i, r)
  BY <1>2, <1>3, <1>4, <1>5, <1>6, Zenon DEF Shape, IntShape
<1> QED
  BY <1>7 DEF f, i, r

\* A number is what has such parts.
LEMMA NumberShaped ==
  ASSUME NEW S, NEW w \in Seq(S)
  PROVE  IsNumber(w) <=> \E f \in {1, 2}, i \in Nat, r \in Nat : Shape(w, f, i, r)
<1>1. Len(w) \in Nat
  BY LenProperties
<1>2. IsNumber(w) <=> \E a \in 0..1, b \in 1..Len(w) : \E c \in b..Len(w) : NumberParts(w, a, b, c)
  BY Zenon DEF IsNumber, NumberParts
<1>3. ASSUME NEW a \in 0..1, NEW b \in 1..Len(w), NEW c \in b..Len(w), NumberParts(w, a, b, c)
      PROVE  \E f \in {1, 2}, i \in Nat, r \in Nat : Shape(w, f, i, r)
  <2>1. Shape(w, a + 1, b + 1, c + 1)
    BY <1>3, PartsShaped
  <2>2. a + 1 \in {1, 2} /\ b + 1 \in Nat /\ c + 1 \in Nat
    BY <1>1
  <2> QED
    BY <2>1, <2>2, Zenon
<1>4. ASSUME NEW f \in {1, 2}, NEW i \in Nat, NEW r \in Nat, Shape(w, f, i, r)
      PROVE  \E a \in 0..1, b \in 1..Len(w) : \E c \in b..Len(w) : NumberParts(w, a, b, c)
  <2> DEFINE a == f - 1
             b == i - 1
             c == r - 1
  <2>1. i \in 2..(Len(w) + 1) /\ r \in i..(Len(w) + 1)
    BY <1>4 DEF Shape
  <2>2. /\ a \in 0..1 /\ b \in 1..Len(w) /\ c \in b..Len(w)
        /\ a + 1 = f /\ b + 1 = i /\ c + 1 = r
    BY <1>1, <2>1
  <2> HIDE DEF a, b, c
  <2>3. NumberParts(w, a, b, c) <=> Shape(w, a + 1, b + 1, c + 1)
    BY <2>2, PartsShaped
  <2>4. NumberParts(w, a, b, c)
    BY <1>4, <2>2, <2>3
  <2> QED
    BY <2>2, <2>4, Zenon
<1> QED
  BY <1>2, <1>3, <1>4, Zenon

-----------------------------------------------------------------------------
(* What a number forces on a text that begins as it does *)

\* Digits that end in w end there in t, if it goes as far; if not, they go on as far as it.
LEMMA DigitsForced ==
  ASSUME NEW S, NEW w \in Seq(S), NEW t \in Seq(S), NEW p, Shares(w, t, p),
         NEW x \in 1..(p + 1), NEW y \in x..(Len(w) + 1),
         DigitsIn(w, x, y - 1), At(w, y) \notin Digits
  PROVE  /\ y <= p => DigitsEnd(t, x) = y
         /\ y > p => DigitsEnd(t, x) > p
<1> DEFINE e == DigitsEnd(t, x)
<1>1. Len(w) \in Nat /\ Len(t) \in Nat /\ p \in 1..Len(w) /\ p \in 1..Len(t)
  BY LenProperties DEF Shares
<1>2. x \in 1..(Len(t) + 1) /\ x \in Nat /\ y \in Nat /\ p \in Nat /\ x >= 1 /\ y >= x
  BY <1>1
<1>3. e \in x..(Len(t) + 1) /\ At(t, e) \notin Digits /\ \A k \in x..(e - 1) : At(t, k) \in Digits
  BY <1>2, DigitsEndKnown
<1> HIDE DEF e
<1>4. e \in Nat /\ e >= x
  BY <1>2, <1>3
<1>5. \A k \in 1..p : At(w, k) = w[k] /\ At(t, k) = w[k]
  BY SharedAt
<1>6. ASSUME NEW k \in x..(y - 1), k <= p PROVE e # k
  <2>1. k \in 1..p
    BY <1>2, <1>6
  <2>2. At(t, k) \in Digits
    BY <1>5, <1>6, <2>1 DEF DigitsIn
  <2> QED
    BY <1>3, <2>2
<1>7. CASE y <= p
  <2>1. e >= y
    BY <1>2, <1>4, <1>6, <1>7
  <2>2. ASSUME e > y PROVE FALSE
    <3>1. y \in x..(e - 1) /\ y \in 1..p
      BY <1>2, <1>4, <1>7, <2>2
    <3>2. At(t, y) \in Digits /\ At(t, y) = At(w, y)
      BY <1>3, <1>5, <3>1
    <3> QED
      BY <3>2
  <2>3. e = y
    BY <1>2, <1>4, <2>1, <2>2
  <2> QED
    BY <1>2, <1>7, <2>3 DEF e
<1>8. CASE y > p
  <2>1. e > p
    BY <1>2, <1>4, <1>6, <1>8
  <2> QED
    BY <1>2, <1>8, <2>1 DEF e
<1> QED
  BY <1>2, <1>7, <1>8

\* What ends the digits of a part is no digit.
LEMMA PartsEnd ==
  ASSUME NEW S, NEW w \in Seq(S), NEW f, NEW i, NEW r, Shape(w, f, i, r)
  PROVE  At(w, i) \notin Digits /\ At(w, r) \notin Digits
<1>1. Len(w) \in Nat /\ i \in 2..(Len(w) + 1) /\ r \in i..(Len(w) + 1)
  BY LenProperties DEF Shape
<1>2. "." \notin Digits /\ "e" \notin Digits /\ "E" \notin Digits /\ "end" \notin Digits
  BY DEF Digits
<1>3. ASSUME NEW j \in 2..(Len(w) + 1) PROVE (j = Len(w) + 1 /\ At(w, j) = "end") \/ At(w, j) = w[j]
  <2>1. j \in Nat /\ j >= 1
    BY <1>1
  <2>2. j \notin 1..Len(w) => j = Len(w) + 1
    BY <1>1
  <2> QED
    BY <2>1, <2>2, AtPlaces
<1>4. r \in 2..(Len(w) + 1)
  BY <1>1
<1>5. At(w, r) \notin Digits
  <2>1. r = Len(w) + 1 \/ w[r] \in {"e", "E"}
    BY DEF Shape, ExpShape
  <2>2. CASE r = Len(w) + 1
    <3>1. r \in Nat /\ r >= 1 /\ r \notin 1..Len(w)
      BY <1>1, <2>2
    <3>2. At(w, r) = "end"
      BY <3>1, AtPlaces
    <3> QED
      BY <1>2, <3>2
  <2>3. CASE w[r] \in {"e", "E"}
    <3>1. At(w, r) = "end" \/ At(w, r) = w[r]
      BY <1>3, <1>4
    <3> QED
      BY <1>2, <2>3, <3>1
  <2> QED
    BY <2>1, <2>2, <2>3
<1>6. At(w, i) \notin Digits
  <2>1. r = i \/ w[i] = "."
    BY DEF Shape, FracShape
  <2>2. CASE w[i] = "."
    <3>1. At(w, i) = "end" \/ At(w, i) = w[i]
      BY <1>1, <1>3
    <3> QED
      BY <1>2, <2>2, <3>1
  <2> QED
    BY <1>5, <2>1, <2>2
<1> QED
  BY <1>5, <1>6

\* The marks of a text go with the parts of a number that begins as it does, as far as
\* they share it, and no further than its own parts.
LEMMA NumberForced ==
  ASSUME NEW S, NEW w \in Seq(S), NEW t \in Seq(S), NEW p, Shares(w, t, p),
         NEW g, NEW j, NEW s, Shape(w, g, j, s),
         NEW f, NEW i, NEW r, NEW q, NEW e, MarksOf(t, f, i, r, q, e)
  PROVE  /\ f = g /\ e > p
         /\ i = f => p < f /\ p # Len(w)
         /\ At(t, f) = "0" /\ At(t, i) \in Digits => p <= f
         /\ At(t, i) = "." /\ r = i + 1 => p < r /\ (p = Len(w) => p # Len(t))
         /\ At(t, r) \in {"e", "E"} /\ e = q /\ p = Len(w) => p # Len(t)
<1> DEFINE n == Len(t)
           m == Len(w)
<1>1. n \in Nat /\ m \in Nat /\ p \in Nat /\ p >= 1 /\ p <= m /\ p <= n /\ p \in 1..m /\ p \in 1..n
  BY LenProperties DEF Shares
<1>2. /\ g \in {1, 2} /\ (g = 2 => w[1] = "-") /\ g < j /\ DigitsIn(w, g, j - 1)
      /\ (w[g] = "0" => j = g + 1) /\ j \in 2..(m + 1) /\ s \in j..(m + 1)
  BY DEF Shape, IntShape
<1>3. FracShape(w, j, s) /\ ExpShape(w, s) /\ At(w, j) \notin Digits /\ At(w, s) \notin Digits
  BY PartsEnd DEF Shape
<1>4. /\ f = IF At(t, 1) = "-" THEN 2 ELSE 1
      /\ i \in f..(n + 1) /\ i = IF At(t, f) = "0" THEN f + 1 ELSE DigitsEnd(t, f)
      /\ r \in i..(n + 1) /\ r = IF At(t, i) = "." THEN DigitsEnd(t, i + 1) ELSE i
      /\ q \in r..(n + 1)
      /\ q = IF At(t, r) \notin {"e", "E"} THEN r
             ELSE IF At(t, r + 1) \in {"+", "-"} THEN r + 2 ELSE r + 1
      /\ e \in q..(n + 1) /\ e = DigitsEnd(t, q)
  BY Zenon DEF MarksOf
<1>5. \A k \in 1..p : At(w, k) = w[k] /\ At(t, k) = w[k]
  BY SharedAt
<1>6. j \in Nat /\ s \in Nat /\ j <= s /\ s <= m + 1 /\ j >= 2
  <2>1. j \in 2..(m + 1) /\ s \in j..(m + 1)
    BY <1>2
  <2> HIDE DEF m
  <2>2. m \in Nat
    BY <1>1
  <2> QED
    BY <2>1, <2>2
<1>7. "-" \notin Digits /\ "." \notin {"e", "E"} /\ "." # "end" /\ "end" \notin {"e", "E"}
      /\ "end" \notin Digits
  BY DEF Digits
<1>8. f = g /\ f \in {1, 2}
  <2>1. 1 \in 1..p
    BY <1>1
  <2>2. At(t, 1) = w[1]
    BY <1>5, <2>1
  <2>3. g = 1 => w[1] \in Digits
    <3>1. g = 1 => 1 \in g..(j - 1)
      BY <1>6
    <3> QED
      BY <1>2, <3>1 DEF DigitsIn
  <2> QED
    BY <1>2, <1>4, <1>7, <2>2, <2>3
<1>9. /\ i \in Nat /\ r \in Nat /\ q \in Nat /\ e \in Nat /\ f \in Nat /\ f >= 1
      /\ f <= i /\ i <= r /\ r <= q /\ q <= e /\ e <= n + 1 /\ r <= n + 1 /\ i <= n + 1
  <2>1. /\ i \in f..(n + 1) /\ r \in i..(n + 1) /\ q \in r..(n + 1) /\ e \in q..(n + 1)
    BY <1>4, Zenon
  <2>2. n \in Nat
    BY <1>1
  <2> HIDE DEF n
  <2>3. f \in Nat /\ f >= 1
    BY <1>8
  <2>4. i \in Nat /\ f <= i /\ i <= n + 1
    BY <2>1, <2>2, <2>3
  <2>5. r \in Nat /\ i <= r /\ r <= n + 1
    BY <2>1, <2>2, <2>4
  <2>6. q \in Nat /\ r <= q
    BY <2>1, <2>2, <2>5
  <2>7. e \in Nat /\ q <= e /\ e <= n + 1
    BY <2>1, <2>2, <2>6
  <2> QED
    BY <2>3, <2>4, <2>5, <2>6, <2>7
<1>10. ASSUME NEW k \in Nat, k > n PROVE At(t, k) = "end"
  <2>1. k \notin 1..Len(t) /\ k >= 1
    BY <1>1, <1>10
  <2> QED
    BY <2>1, AtPlaces
<1> HIDE DEF n, m
<1>11. (j <= p => i = j) /\ (j > p => i > p)
  <2>1. CASE f > p
    BY <1>1, <1>2, <1>6, <1>8, <1>9, <2>1
  <2>2. CASE f <= p
    <3>1. f \in 1..p
      BY <1>1, <1>9, <2>2
    <3>2. At(t, f) = w[f]
      BY <1>5, <3>1
    <3>3. CASE w[f] = "0"
      <4>1. i = j
        BY <1>2, <1>4, <1>8, <3>2, <3>3
      <4> QED
        BY <4>1
    <3>4. CASE w[f] # "0"
      <4>1. i = DigitsEnd(t, f)
        BY <1>4, <3>2, <3>4
      <4>2. f \in 1..(p + 1) /\ j \in f..(Len(w) + 1) /\ DigitsIn(w, f, j - 1)
        BY <1>1, <1>2, <1>6, <1>8, <1>9, <2>2 DEF m
      <4>3. (j <= p => DigitsEnd(t, f) = j) /\ (j > p => DigitsEnd(t, f) > p)
        BY <1>3, <4>2, DigitsForced
      <4> QED
        BY <4>1, <4>3
    <3> QED
      BY <3>3, <3>4
  <2> QED
    BY <1>1, <1>9, <2>1, <2>2
<1>12. ASSUME j <= p
       PROVE  /\ (s <= p => r = s) /\ (s > p => r > p)
              /\ At(t, i) = "." => w[j] = "." /\ j + 2 <= s
              /\ At(t, j) = w[j]
  <2>1. i = j /\ j \in 1..p
    BY <1>1, <1>6, <1>11, <1>12
  <2>2. At(t, j) = w[j]
    BY <1>5, <2>1
  <2>3. CASE w[j] = "."
    <3>1. s # j
      <4>1. s = j => w[s] \in {"e", "E"}
        <5>1. s = j => s # Len(w) + 1
          BY <1>1, <1>6, <2>1 DEF m
        <5> QED
          BY <1>3, <5>1 DEF ExpShape
      <4> QED
        BY <1>7, <2>3, <4>1
    <3>2. j + 2 <= s /\ DigitsIn(w, j + 1, s - 1)
      BY <1>3, <3>1 DEF FracShape
    <3> DEFINE x == j + 1
    <3>3. x \in 1..(p + 1) /\ s \in x..(Len(w) + 1)
      BY <1>1, <1>6, <1>12, <3>2 DEF m
    <3> HIDE DEF x
    <3>4. DigitsIn(w, x, s - 1)
      BY <3>2 DEF x
    <3>5. (s <= p => DigitsEnd(t, x) = s) /\ (s > p => DigitsEnd(t, x) > p)
      BY <1>3, <3>3, <3>4, DigitsForced
    <3>6. r = DigitsEnd(t, x)
      BY <1>4, <2>1, <2>2, <2>3 DEF x
    <3> QED
      BY <2>2, <2>3, <3>2, <3>5, <3>6
  <2>4. CASE w[j] # "."
    <3>1. s = j
      BY <1>3, <2>4 DEF FracShape
    <3>2. r = i
      BY <1>4, <2>1, <2>2, <2>4
    <3> QED
      BY <2>1, <2>2, <2>4, <3>1, <3>2
  <2> QED
    BY <2>3, <2>4
<1>13. ASSUME j <= p, s <= p PROVE e > p /\ (p = m => e # q)
  <2>1. r = s /\ s \in 1..p
    BY <1>1, <1>6, <1>12, <1>13
  <2>2. At(t, s) = w[s] /\ w[s] \in {"e", "E"}
    <3>1. s # Len(w) + 1
      BY <1>1, <1>13 DEF m
    <3> QED
      BY <1>3, <1>5, <2>1, <3>1 DEF ExpShape
  <2>3. q = IF At(t, s + 1) \in {"+", "-"} THEN s + 2 ELSE s + 1
    BY <1>4, <2>1, <2>2
  <2>4. s + 1 <= m
    BY <1>1, <1>3, <1>6, <1>13 DEF ExpShape, m
  <2>5. CASE s = p
    <3>1. q > p
      BY <1>6, <2>3, <2>5
    <3> QED
      BY <1>1, <1>9, <2>4, <2>5, <3>1
  <2>6. CASE s < p
    <3>1. s + 1 \in 1..p
      BY <1>1, <1>6, <2>6
    <3>2. At(t, s + 1) = w[s + 1]
      BY <1>5, <3>1
    <3>3. q <= m /\ DigitsIn(w, q, m)
      <4>1. CASE w[s + 1] \in {"+", "-"}
        <5>1. q = s + 2
          BY <2>3, <3>2, <4>1
        <5>2. ~DigitsIn(w, s + 1, m)
          <6>1. s + 1 \in (s + 1)..m /\ w[s + 1] \notin Digits
            BY <1>6, <1>1, <2>4, <4>1 DEF Digits
          <6> QED
            BY <6>1 DEF DigitsIn
        <5>3. s # m + 1
          BY <1>1, <1>6, <2>4
        <5> QED
          BY <1>3, <5>1, <5>2, <5>3, Zenon DEF ExpShape, m
      <4>2. CASE w[s + 1] \notin {"+", "-"}
        <5>1. q = s + 1
          BY <2>3, <3>2, <4>2
        <5>2. s # m + 1
          BY <1>1, <1>6, <2>4
        <5> QED
          BY <1>3, <4>2, <5>1, <5>2, Zenon DEF ExpShape, m
      <4> QED
        BY <4>1, <4>2
    <3> DEFINE y == m + 1
    <3>4. q \in 1..(p + 1) /\ y \in q..(Len(w) + 1) /\ y - 1 = m /\ y > p
      BY <1>1, <1>6, <1>9, <2>3, <2>6, <3>3 DEF m
    <3>5. At(w, y) \notin Digits
      <4>1. y \in Nat /\ y >= 1 /\ y \notin 1..Len(w)
        BY <1>1 DEF m
      <4> QED
        BY <1>7, <4>1, AtPlaces
    <3> HIDE DEF y
    <3>6. DigitsIn(w, q, y - 1)
      BY <3>3, <3>4
    <3>7. DigitsEnd(t, q) > p
      BY <3>4, <3>5, <3>6, DigitsForced
    <3>8. e > p
      BY <1>4, <3>7
    <3> QED
      BY <1>1, <1>9, <3>3, <3>8
  <2> QED
    BY <1>1, <1>6, <1>13, <2>5, <2>6
<1>14. e > p
  <2>1. j > p => i > p
    BY <1>11
  <2>2. j <= p /\ s > p => r > p
    BY <1>12
  <2> QED
    BY <1>1, <1>6, <1>9, <1>13, <2>1, <2>2
<1>15. ASSUME i = f PROVE p < f /\ p # m
  <2>1. j > p
    BY <1>1, <1>2, <1>6, <1>8, <1>9, <1>11, <1>15
  <2>2. f > p
    BY <1>11, <1>15, <2>1
  <2> QED
    BY <1>1, <1>2, <1>6, <1>8, <1>9, <2>2
<1>16. ASSUME At(t, f) = "0", At(t, i) \in Digits PROVE p <= f
  <2> SUFFICES ASSUME p > f PROVE FALSE
    BY <1>1, <1>9
  <2>1. f \in 1..p /\ f + 1 \in 1..p
    BY <1>1, <1>9
  <2>2. w[f] = "0" /\ j = f + 1 /\ i = f + 1
    BY <1>2, <1>4, <1>5, <1>8, <1>16, <2>1
  <2>3. At(t, i) = At(w, j)
    BY <1>5, <2>1, <2>2
  <2> QED
    BY <1>3, <1>16, <2>3
<1>17. ASSUME At(t, i) = ".", r = i + 1 PROVE p < r /\ (p = m => p # n)
  <2>1. i <= n
    BY <1>1, <1>7, <1>9, <1>10, <1>17
  <2>2. CASE j > p
    <3>1. i > p
      BY <1>11, <2>2
    <3> QED
      BY <1>1, <1>9, <1>17, <2>1, <3>1
  <2>3. CASE j <= p
    <3>1. i = j /\ j + 2 <= s
      BY <1>11, <1>12, <1>17, <2>3
    <3>2. s > p /\ r > p
      BY <1>1, <1>6, <1>12, <1>17, <2>3, <3>1
    <3> QED
      BY <1>1, <1>6, <1>9, <1>17, <3>1, <3>2
  <2> QED
    BY <1>1, <1>6, <2>2, <2>3
<1>18. ASSUME At(t, r) \in {"e", "E"}, e = q, p = m PROVE p # n
  <2>1. r <= n
    BY <1>1, <1>7, <1>9, <1>10, <1>18
  <2>2. CASE j > p
    <3>1. i > p
      BY <1>11, <2>2
    <3> QED
      BY <1>1, <1>9, <2>1, <3>1
  <2>3. CASE j <= p /\ s > p
    <3>1. r > p
      BY <1>12, <2>3
    <3> QED
      BY <1>1, <1>9, <2>1, <3>1
  <2>4. CASE j <= p /\ s <= p
    BY <1>13, <1>18, <2>4
  <2> QED
    BY <1>1, <1>6, <2>2, <2>3, <2>4
<1> QED
  BY <1>8, <1>14, <1>15, <1>16, <1>17, <1>18 DEF n, m

-----------------------------------------------------------------------------
(* What a text that is read as a number is part of *)

\* The parts a text is read by are parts of whatever begins as it does.
LEMMA PartsGiven ==
  ASSUME NEW S, NEW w \in Seq(S), NEW t \in Seq(S), NEW p, Shares(w, t, p),
         NEW f, NEW i, NEW r, NEW q, NEW e, MarksOf(t, f, i, r, q, e), i # f
  PROVE  /\ i <= p + 1 => i \in 2..(Len(w) + 1) /\ IntShape(w, f, i)
         /\ r <= p + 1 /\ ~(At(t, i) = "." /\ r = i + 1) =>
              r \in i..(Len(w) + 1) /\ FracShape(w, i, r)
<1>1. Len(w) \in Nat /\ Len(t) \in Nat /\ p \in 1..Len(w) /\ p \in 1..Len(t)
  BY LenProperties DEF Shares
<1>2. /\ f = IF At(t, 1) = "-" THEN 2 ELSE 1
      /\ i \in f..(Len(t) + 1) /\ i = IF At(t, f) = "0" THEN f + 1 ELSE DigitsEnd(t, f)
      /\ r \in i..(Len(t) + 1) /\ r = IF At(t, i) = "." THEN DigitsEnd(t, i + 1) ELSE i
  BY Zenon DEF MarksOf
<1>3. \A k \in 1..p : At(t, k) = w[k]
  BY SharedAt
<1>4. p \in Nat /\ p >= 1 /\ p <= Len(w) /\ p <= Len(t)
  BY <1>1
<1>5. f \in {1, 2} /\ f \in Nat
  BY <1>2
<1>6. i \in Nat /\ f < i /\ i <= Len(t) + 1
  BY <1>1, <1>2, <1>5
<1>7. r \in Nat /\ i <= r /\ r <= Len(t) + 1
  <2>1. r \in i..(Len(t) + 1)
    BY <1>2, Zenon
  <2> QED
    BY <1>1, <1>6, <2>1
<1>8. ASSUME i <= p + 1 PROVE i \in 2..(Len(w) + 1) /\ IntShape(w, f, i)
  <2>1. f \in 1..p /\ 1 \in 1..p
    BY <1>4, <1>5, <1>6, <1>8
  <2>2. w[f] = "0" => i = f + 1
    BY <1>2, <1>3, <2>1
  <2>3. f = 2 => w[1] = "-"
    BY <1>2, <1>3, <2>1
  <2>4. ASSUME NEW k \in f..(i - 1) PROVE At(t, k) \in Digits
    <3>1. CASE At(t, f) = "0"
      <4>1. k = f
        BY <1>2, <1>5, <3>1
      <4> QED
        BY <3>1, <4>1 DEF Digits
    <3>2. CASE At(t, f) # "0"
      <4>1. i = DigitsEnd(t, f)
        BY <1>2, <3>2
      <4>2. f \in 1..(Len(t) + 1)
        BY <1>4, <2>1
      <4>3. \A x \in f..(i - 1) : At(t, x) \in Digits
        BY <4>1, <4>2, DigitsEndKnown
      <4> QED
        BY <4>3
    <3> QED
      BY <3>1, <3>2
  <2>5. ASSUME NEW k \in f..(i - 1) PROVE w[k] \in Digits
    <3>1. k \in 1..p
      BY <1>4, <1>5, <1>6, <1>8
    <3> QED
      BY <1>3, <2>4, <3>1
  <2>6. i \in 2..(Len(w) + 1)
    BY <1>4, <1>1, <1>5, <1>6, <1>8
  <2> QED
    BY <1>5, <1>6, <2>2, <2>3, <2>5, <2>6, Zenon DEF IntShape, DigitsIn
<1>9. ASSUME r <= p + 1, ~(At(t, i) = "." /\ r = i + 1)
      PROVE  r \in i..(Len(w) + 1) /\ FracShape(w, i, r)
  <2>1. r \in i..(Len(w) + 1)
    BY <1>1, <1>4, <1>6, <1>7, <1>9
  <2>2. CASE At(t, i) # "."
    <3>1. r = i
      BY <1>2, <2>2
    <3> QED
      BY <2>1, <3>1 DEF FracShape
  <2>3. CASE At(t, i) = "."
    <3> DEFINE x == i + 1
    <3>1. r = DigitsEnd(t, x)
      BY <1>2, <2>3
    <3>2. i <= Len(t)
      <4>1. i > Len(t) => At(t, i) = "end"
        <5>1. i > Len(t) => i \notin 1..Len(t) /\ i >= 1
          BY <1>1, <1>5, <1>6
        <5> QED
          BY <1>6, <5>1, AtPlaces
      <4> QED
        BY <1>1, <1>6, <2>3, <4>1
    <3>3. x \in 1..(Len(t) + 1) /\ x \in Nat /\ x > i
      BY <1>1, <1>6, <3>2
    <3> HIDE DEF x
    <3>4. r \in x..(Len(t) + 1) /\ \A k \in x..(r - 1) : At(t, k) \in Digits
      BY <3>1, <3>3, DigitsEndKnown
    <3>5. i + 2 <= r
      BY <1>1, <1>6, <1>7, <1>9, <2>3, <3>4 DEF x
    <3>6. i \in 1..p
      BY <1>4, <1>5, <1>6, <1>7, <1>9, <3>5
    <3>7. w[i] = "."
      BY <1>3, <2>3, <3>6
    <3>8. ASSUME NEW k \in x..(r - 1) PROVE w[k] \in Digits
      <4>1. k \in 1..p
        BY <1>4, <1>7, <1>9, <3>3
      <4> QED
        BY <1>3, <3>4, <4>1
    <3> QED
      BY <2>1, <3>5, <3>7, <3>8, Zenon DEF FracShape, DigitsIn, x
  <2> QED
    BY <2>2, <2>3
<1> QED
  BY <1>8, <1>9, Zenon

\* A text read to an end is a number there.
LEMMA NumberTaken ==
  ASSUME NEW S, NEW t \in Seq(S), t # <<>>,
         NEW f, NEW i, NEW r, NEW q, NEW e, MarksOf(t, f, i, r, q, e),
         i # f, ~(At(t, f) = "0" /\ At(t, i) \in Digits), ~(At(t, i) = "." /\ r = i + 1),
         ~(At(t, r) \in {"e", "E"} /\ e = q)
  PROVE  e > 1 /\ IsNumber(SubSeq(t, 1, e - 1))
<1> DEFINE p == e - 1
           w == SubSeq(t, 1, p)
<1>1. /\ Len(t) \in Nat /\ Len(t) >= 1
      /\ f \in Nat /\ i \in Nat /\ r \in Nat /\ q \in Nat /\ e \in Nat
      /\ f \in {1, 2} /\ f <= i /\ i <= r /\ r <= q /\ q <= e /\ e <= Len(t) + 1
  BY MarksOrdered
<1>2. p \in 0..Len(t) /\ p >= 1 /\ p \in Nat /\ p + 1 = e
  BY <1>1
<1> HIDE DEF p
<1>3. w \in Seq(S) /\ Len(w) = p /\ \A k \in 1..p : w[k] = t[k]
  BY <1>2, FrontTyped
<1> HIDE DEF w
<1>4. Shares(w, t, p)
  <2>1. p \in 1..Len(w) /\ p \in 1..Len(t)
    BY <1>2, <1>3
  <2> QED
    BY <1>3, <2>1 DEF Shares
<1>5. /\ i <= p + 1 => i \in 2..(Len(w) + 1) /\ IntShape(w, f, i)
      /\ r <= p + 1 /\ ~(At(t, i) = "." /\ r = i + 1) =>
           r \in i..(Len(w) + 1) /\ FracShape(w, i, r)
  BY <1>3, <1>4, PartsGiven
<1>6. \A k \in 1..p : At(t, k) = w[k]
  BY <1>3, <1>4, SharedAt
<1>7. /\ i = IF At(t, f) = "0" THEN f + 1 ELSE DigitsEnd(t, f)
      /\ r = IF At(t, i) = "." THEN DigitsEnd(t, i + 1) ELSE i
      /\ q = IF At(t, r) \notin {"e", "E"} THEN r
             ELSE IF At(t, r + 1) \in {"+", "-"} THEN r + 2 ELSE r + 1
      /\ e = DigitsEnd(t, q)
  BY Zenon DEF MarksOf
<1>8. e \in q..(Len(t) + 1) /\ At(t, e) \notin Digits /\ \A k \in q..(e - 1) : At(t, k) \in Digits
  <2>1. q \in 1..(Len(t) + 1)
    BY <1>1
  <2> QED
    BY <1>7, <2>1, DigitsEndKnown
<1>9. At(t, r) \notin Digits
  <2>1. At(t, i) \notin Digits
    <3>1. CASE At(t, f) = "0"
      BY <3>1
    <3>2. CASE At(t, f) # "0"
      <4>1. i = DigitsEnd(t, f) /\ f \in 1..(Len(t) + 1)
        BY <1>1, <1>7, <3>2
      <4> QED
        BY <4>1, DigitsEndKnown
    <3> QED
      BY <3>1, <3>2
  <2>2. CASE At(t, i) = "."
    <3> DEFINE x == i + 1
    <3>1. i <= Len(t)
      <4>1. i > Len(t) => At(t, i) = "end"
        <5>1. i > Len(t) => i \notin 1..Len(t) /\ i >= 1
          BY <1>1
        <5> QED
          BY <1>1, <5>1, AtPlaces
      <4> QED
        BY <1>1, <2>2, <4>1
    <3>2. x \in 1..(Len(t) + 1) /\ r = DigitsEnd(t, x)
      BY <1>1, <1>7, <2>2, <3>1
    <3> HIDE DEF x
    <3> QED
      BY <3>2, DigitsEndKnown
  <2>3. CASE At(t, i) # "."
    BY <1>7, <2>1, <2>3
  <2> QED
    BY <2>2, <2>3
<1>10. ExpShape(w, r)
  <2>1. CASE At(t, r) \notin {"e", "E"}
    <3>1. q = r
      BY <1>7, <2>1
    <3>2. ASSUME e # r PROVE FALSE
      <4>1. r \in q..(e - 1)
        BY <1>1, <3>1, <3>2
      <4>2. At(t, r) \in Digits
        BY <1>8, <4>1
      <4> QED
        BY <1>9, <4>2
    <3>3. r = Len(w) + 1
      BY <1>2, <1>3, <3>2
    <3> QED
      BY <3>3 DEF ExpShape
  <2>2. CASE At(t, r) \in {"e", "E"}
    <3>1. q < e /\ (q = r + 1 \/ (q = r + 2 /\ At(t, r + 1) \in {"+", "-"}))
      BY <1>1, <1>7, <2>2
    <3>2. w[r] \in {"e", "E"} /\ (q = r + 2 => w[r + 1] \in {"+", "-"})
      <4>1. r \in 1..p /\ (q = r + 2 => r + 1 \in 1..p)
        BY <1>1, <1>2, <3>1
      <4>2. At(t, r) = w[r] /\ (q = r + 2 => At(t, r + 1) = w[r + 1])
        BY <1>6, <4>1
      <4>3. q = r + 2 => At(t, r + 1) \in {"+", "-"}
        BY <1>1, <3>1
      <4> QED
        BY <2>2, <4>2, <4>3
    <3>3. q <= Len(w)
      BY <1>1, <1>2, <1>3, <3>1
    <3>4. ASSUME NEW k \in q..Len(w) PROVE w[k] \in Digits
      <4>1. k \in q..(e - 1) /\ k \in 1..p
        BY <1>1, <1>2, <1>3
      <4> QED
        BY <1>6, <1>8, <4>1
    <3>5. DigitsIn(w, q, Len(w))
      BY <3>4, Zenon DEF DigitsIn
    <3> QED
      BY <3>1, <3>2, <3>3, <3>5, Zenon DEF ExpShape
  <2> QED
    BY <2>1, <2>2
<1>11. Shape(w, f, i, r)
  <2>1. i <= p + 1 /\ r <= p + 1
    BY <1>1, <1>2
  <2> QED
    BY <1>5, <1>10, <2>1, Zenon DEF Shape
<1>12. IsNumber(w)
  BY <1>1, <1>3, <1>11, NumberShaped
<1>13. e > 1
  BY <1>1, <1>2
<1> QED
  BY <1>12, <1>13 DEF w, p

\* What a text begins with, and a digit after it.
LEMMA DigitAfter ==
  ASSUME NEW S, NEW t \in Seq(S), NEW p \in 1..Len(t), NEW y \in Seq(S), Len(y) = 1
  PROVE  LET w == SubSeq(t, 1, p) \o y
         IN /\ w \in Seq(S) /\ Len(w) = p + 1 /\ Shares(w, t, p) /\ w[p + 1] = y[1]
            /\ \A k \in 1..p : At(t, k) = w[k]
<1> DEFINE x == SubSeq(t, 1, p)
           w == x \o y
<1>1. Len(t) \in Nat /\ p \in Nat /\ p >= 1 /\ p \in 0..Len(t)
  BY LenProperties
<1>2. x \in Seq(S) /\ Len(x) = p /\ \A k \in 1..p : x[k] = t[k]
  BY <1>1, FrontTyped
<1> HIDE DEF x
<1>3. /\ x \o y \in Seq(S) /\ Len(x \o y) = Len(x) + Len(y)
      /\ \A k \in 1..Len(x) : (x \o y)[k] = x[k]
      /\ \A k \in 1..Len(y) : (x \o y)[Len(x) + k] = y[k]
  <2>1. x \in Seq(S) /\ y \in Seq(S)
    BY <1>2
  <2> QED
    BY ONLY <2>1, JoinedAt
<1> HIDE DEF w
<1>4. w \in Seq(S) /\ Len(w) = p + 1 /\ \A k \in 1..p : w[k] = t[k]
  BY <1>2, <1>3 DEF w
<1>5. w[p + 1] = y[1]
  <2>1. 1 \in 1..Len(y)
    OBVIOUS
  <2>2. (x \o y)[Len(x) + 1] = y[1]
    BY <1>3, <2>1
  <2> QED
    BY <1>2, <2>2 DEF w
<1>6. Shares(w, t, p)
  <2>1. p \in 1..Len(w) /\ p \in 1..Len(t)
    BY <1>1, <1>4
  <2> QED
    BY <1>4, <2>1 DEF Shares
<1>7. \A k \in 1..p : At(t, k) = w[k]
  BY <1>4, <1>6, SharedAt
<1> QED
  BY <1>4, <1>5, <1>6, <1>7 DEF w, x

\* A minus, a point or a mark that lacks its digits is part of some number.
LEMMA NumberGoesOn ==
  ASSUME NEW S, "1" \in S, NEW t \in Seq(S), t # <<>>,
         NEW f, NEW i, NEW r, NEW q, NEW e, MarksOf(t, f, i, r, q, e)
  PROVE  /\ f = 2 => IsNumber(SubSeq(t, 1, 1) \o <<"1">>)
         /\ i # f /\ At(t, i) = "." /\ r = i + 1 =>
              r > 1 /\ IsNumber(SubSeq(t, 1, r - 1) \o <<"1">>)
         /\ i # f /\ ~(At(t, i) = "." /\ r = i + 1) /\ At(t, r) \in {"e", "E"} /\ e = q =>
              e > 1 /\ IsNumber(SubSeq(t, 1, e - 1) \o <<"1">>)
<1> DEFINE one == <<"1">>
<1>0. one \in Seq(S) /\ Len(one) = 1 /\ one[1] = "1"
  OBVIOUS
<1> HIDE DEF one
<1>1. /\ Len(t) \in Nat /\ Len(t) >= 1
      /\ f \in Nat /\ i \in Nat /\ r \in Nat /\ q \in Nat /\ e \in Nat
      /\ f \in {1, 2} /\ f <= i /\ i <= r /\ r <= q /\ q <= e /\ e <= Len(t) + 1
  BY MarksOrdered
<1>2. /\ f = IF At(t, 1) = "-" THEN 2 ELSE 1
      /\ q = IF At(t, r) \notin {"e", "E"} THEN r
             ELSE IF At(t, r + 1) \in {"+", "-"} THEN r + 2 ELSE r + 1
  BY Zenon DEF MarksOf
<1>3. "1" \in Digits /\ "1" # "0"
  BY DEF Digits
<1>4. ASSUME f = 2 PROVE IsNumber(SubSeq(t, 1, 1) \o one)
  <2> DEFINE w == SubSeq(t, 1, 1) \o one
  <2>1. 1 \in 1..Len(t) /\ 1 + 1 = 2 /\ 1 \in 1..1
    BY <1>1
  <2>2. w \in Seq(S) /\ Len(w) = 1 + 1 /\ w[1 + 1] = "1" /\ At(t, 1) = w[1]
    <3>1. /\ w \in Seq(S) /\ Len(w) = 1 + 1 /\ Shares(w, t, 1) /\ w[1 + 1] = one[1]
          /\ \A k \in 1..1 : At(t, k) = w[k]
      BY <1>0, <2>1, DigitAfter
    <3> HIDE DEF w
    <3> QED
      BY <1>0, <2>1, <3>1
  <2> HIDE DEF w
  <2>3. Len(w) = 2 /\ w[2] = "1" /\ w[1] = "-"
    BY <1>2, <1>4, <2>1, <2>2
  <2>4. IntShape(w, 2, 3)
    <3>1. \A k \in 2..2 : w[k] \in Digits
      BY <1>3, <2>3
    <3>2. 3 - 1 = 2 /\ 2 < 3
      OBVIOUS
    <3> QED
      BY <1>3, <2>3, <3>1, <3>2 DEF IntShape, DigitsIn
  <2>5. FracShape(w, 3, 3) /\ ExpShape(w, 3)
    BY <2>3 DEF FracShape, ExpShape
  <2>6. Shape(w, 2, 3, 3)
    BY <2>3, <2>4, <2>5 DEF Shape
  <2> QED
    BY <2>2, <2>6, NumberShaped DEF w
<1>5. ASSUME i # f, At(t, i) = ".", r = i + 1
      PROVE  r > 1 /\ IsNumber(SubSeq(t, 1, r - 1) \o one)
  <2> DEFINE w == SubSeq(t, 1, i) \o one
  <2>1. i <= Len(t)
    <3>1. i > Len(t) => At(t, i) = "end"
      <4>1. i > Len(t) => i \notin 1..Len(t) /\ i >= 1
        BY <1>1
      <4> QED
        BY <1>1, <4>1, AtPlaces
    <3> QED
      BY <1>1, <1>5, <3>1
  <2>2. i \in 1..Len(t) /\ i \in 1..i /\ i <= i + 1
    BY <1>1, <2>1
  <2>3. w \in Seq(S) /\ Len(w) = i + 1 /\ Shares(w, t, i) /\ w[i + 1] = "1" /\ At(t, i) = w[i]
    <3>1. /\ w \in Seq(S) /\ Len(w) = i + 1 /\ Shares(w, t, i) /\ w[i + 1] = one[1]
          /\ \A k \in 1..i : At(t, k) = w[k]
      BY <1>0, <2>2, DigitAfter
    <3> HIDE DEF w
    <3> QED
      BY <1>0, <2>2, <3>1
  <2> HIDE DEF w
  <2>4. i \in 2..(Len(w) + 1) /\ IntShape(w, f, i)
    BY <1>5, <2>2, <2>3, PartsGiven
  <2> DEFINE z == i + 2
  <2>5. z \in Nat /\ z \in i..(Len(w) + 1) /\ z = Len(w) + 1 /\ i + 2 <= z /\ z - 1 = i + 1
    BY <1>1, <2>3
  <2>6. \A k \in (i + 1)..(z - 1) : w[k] \in Digits
    BY <1>1, <1>3, <2>3, <2>5
  <2> HIDE DEF z
  <2>7. FracShape(w, i, z) /\ ExpShape(w, z)
    BY <1>5, <2>3, <2>5, <2>6, Zenon DEF FracShape, ExpShape, DigitsIn
  <2>8. Shape(w, f, i, z)
    BY <2>4, <2>5, <2>7, Zenon DEF Shape
  <2>9. IsNumber(w)
    BY <1>1, <2>3, <2>5, <2>8, NumberShaped
  <2>10. r - 1 = i /\ r > 1
    BY <1>1, <1>5
  <2> QED
    BY <2>9, <2>10 DEF w
<1>6. ASSUME i # f, ~(At(t, i) = "." /\ r = i + 1), At(t, r) \in {"e", "E"}, e = q
      PROVE  e > 1 /\ IsNumber(SubSeq(t, 1, e - 1) \o one)
  <2> DEFINE p == e - 1
             w == SubSeq(t, 1, p) \o one
  <2>1. q = r + 1 \/ (q = r + 2 /\ At(t, r + 1) \in {"+", "-"})
    BY <1>2, <1>6
  <2>2. /\ p \in 1..Len(t) /\ p \in Nat /\ p + 1 = e /\ r \in 1..p /\ (q = r + 2 => r + 1 \in 1..p)
        /\ i <= p + 1 /\ r <= p + 1
    BY <1>1, <1>6, <2>1
  <2> HIDE DEF p
  <2>3. /\ w \in Seq(S) /\ Len(w) = p + 1 /\ Shares(w, t, p) /\ w[p + 1] = "1"
        /\ \A k \in 1..p : At(t, k) = w[k]
    <3>1. /\ w \in Seq(S) /\ Len(w) = p + 1 /\ Shares(w, t, p) /\ w[p + 1] = one[1]
          /\ \A k \in 1..p : At(t, k) = w[k]
      BY <1>0, <2>2, DigitAfter
    <3> HIDE DEF w
    <3> QED
      BY <1>0, <3>1
  <2> HIDE DEF w
  <2>4. /\ i \in 2..(Len(w) + 1) /\ IntShape(w, f, i)
        /\ r \in i..(Len(w) + 1) /\ FracShape(w, i, r)
    BY <1>6, <2>2, <2>3, PartsGiven
  <2>5. w[r] \in {"e", "E"} /\ (q = r + 2 => w[r + 1] \in {"+", "-"})
    <3>1. At(t, r) = w[r] /\ (q = r + 2 => At(t, r + 1) = w[r + 1])
      BY <2>2, <2>3
    <3>2. q = r + 2 => At(t, r + 1) \in {"+", "-"}
      BY <1>1, <2>1
    <3> QED
      BY <1>6, <3>1, <3>2
  <2>6. q = Len(w) /\ \A k \in q..Len(w) : w[k] \in Digits
    BY <1>1, <1>3, <1>6, <2>2, <2>3
  <2>7. q <= Len(w) /\ DigitsIn(w, q, Len(w))
    BY <1>1, <2>6 DEF DigitsIn
  <2>8. ExpShape(w, r)
    BY <2>1, <2>5, <2>7, Zenon DEF ExpShape
  <2>9. Shape(w, f, i, r)
    BY <2>4, <2>8, Zenon DEF Shape
  <2>10. IsNumber(w)
    BY <1>1, <2>3, <2>9, NumberShaped
  <2>11. e > 1
    BY <1>1, <2>2
  <2> QED
    BY <2>10, <2>11 DEF w, p
<1> QED
  BY <1>4, <1>5, <1>6, Zenon DEF one

-----------------------------------------------------------------------------
(* The two readers on a number *)

\* A text both refuse.
LEMMA RefusedAgree ==
  ASSUME NEW a, NEW b, NEW lexeme, OffendingAt(a)
  PROVE  AgreeOn(Refused(a), Unread(b), lexeme)
<1>1. ~Refused(a).ok /\ Refused(a).at = a
  BY JudgedFields
<1>2. Unread(b).ok = FALSE
  BY DEF Unread
<1> QED
  BY <1>1, <1>2, Zenon DEF AgreeOn

\* A number, a point or a mark and a digit after it: a value begins so.
LEMMA BeginsWithDigit ==
  ASSUME NEW k, IsNumber(SubSeq(text, 1, k) \o <<"1">>)
  PROVE  BeginsSomeValue(Prefix(k))
<1>1. <<"1">> \in Fills
  BY FillsListed
<1>2. IsValue(Prefix(k) \o <<"1">>)
  BY Zenon DEF IsValue, Prefix
<1> QED
  BY <1>1, <1>2, Zenon DEF BeginsSomeValue

\* What parse_number makes of a number that is whole.
LEMMA NumberParsed ==
  ASSUME NEW m, m.int # m.first, ~LeadingZero(text, m), ~FractionMissing(text, m),
         ~ExponentMissing(text, m), m = NumberMarks(text, 1)
  PROVE  \/ /\ Overflows(Denoted(text, 1, m))
            /\ ParseNumber(text, 1) = Unread(m.exp)
         \/ \E type, v : ParseNumber(text, 1) = Number(m.exp, type, v)
<1> DEFINE d == Denoted(text, 1, m)
<1>1. ParseNumber(text, 1) =
        IF IsFloat(m) \/ Magnitude(d) > IntDigits THEN FiniteFloat(m.exp, d)
        ELSE Number(m.exp, "int", IF d.digits = <<>> THEN Zero(FALSE) ELSE d)
  BY Zenon DEF ParseNumber
<1> HIDE DEF d
<1>2. \/ Overflows(d) /\ FiniteFloat(m.exp, d) = Unread(m.exp)
      \/ \E type, v : FiniteFloat(m.exp, d) = Number(m.exp, type, v)
  BY Zenon DEF FiniteFloat
<1> QED
  BY <1>1, <1>2, Zenon DEF d

LEMMA NumbersAgree ==
  ASSUME Typing, Typed \notin {"quote", "n"}
  PROVE  AgreeOn(ScanValue(text), ParseValue(text), Prefix(ScanValue(text).at - 1))
<1> DEFINE n == Len(text)
           scan == ScanValue(text)
           value == ParseValue(text)
           lexeme == Prefix(scan.at - 1)
           m == NumberMarks(text, 1)
           f == m.first
           i == m.int
           r == m.frac
           q == m.mark
           e == m.exp
           S == Characters \cup NumberChars \cup ToSet(Null)
<1>1. /\ text \in Seq(S) /\ n \in Nat /\ n >= 1
      /\ \A k \in 1..n :
           /\ Prefix(k) \in Seq(S) /\ Len(Prefix(k)) = k /\ Shares(Prefix(k), text, k)
           /\ Prefix(k) # <<>> /\ Prefix(k)[1] = Typed
           /\ \A fill \in Fills :
                /\ Prefix(k) \o fill \in Seq(S) /\ Shares(Prefix(k) \o fill, text, k)
                /\ Prefix(k) \o fill # <<>> /\ (Prefix(k) \o fill)[1] = Typed
      /\ Prefix(n) = text
  BY TextPrefixes, Zenon
<1>2. "1" \in S
  BY CharactersListed DEF BasicNames
<1> HIDE DEF S
<1>3. text # <<>> /\ ~IsText /\ Typed # "n"
  BY Zenon DEF Typing, IsText
<1>4. ScanValue(text) = ScanNumber(text, 1) /\ ParseValue(text) = ParseNumber(text, 1)
  BY Zenon DEF ScanValue, ParseValue, Typed
<1>5. MarksOf(text, f, i, r, q, e)
  BY <1>1, <1>3, MarksKnown
<1> DEFINE LZ == At(text, f) = "0" /\ At(text, i) \in Digits
           FM == At(text, i) = "." /\ r = i + 1
           EM == At(text, r) \in {"e", "E"} /\ e = q
<1>6. /\ LeadingZero(text, m) <=> LZ
      /\ FractionMissing(text, m) <=> FM
      /\ ExponentMissing(text, m) <=> EM
  BY Zenon DEF LeadingZero, FractionMissing, ExponentMissing
<1>7. scan = IF i = f \/ LZ THEN Refused(f)
             ELSE IF FM THEN Refused(r)
             ELSE IF EM THEN Refused(e)
             ELSE Accepted(e)
  BY <1>4, <1>6, Zenon DEF ScanNumber
<1>8. /\ i = f => value = Unread(f)
      /\ i # f /\ LZ => value = Unread(i)
      /\ i # f /\ ~LZ /\ FM => value = Unread(r)
      /\ i # f /\ ~LZ /\ ~FM /\ EM => value = Unread(e)
      /\ i # f /\ ~LZ /\ ~FM /\ ~EM =>
           \/ Overflows(Denoted(text, 1, m)) /\ value = Unread(e)
           \/ \E type, v : value = Number(e, type, v)
  <2>1. /\ i = f => ParseNumber(text, 1) = Unread(f)
        /\ i # f /\ LeadingZero(text, m) => ParseNumber(text, 1) = Unread(i)
        /\ i # f /\ ~LeadingZero(text, m) /\ FractionMissing(text, m) =>
             ParseNumber(text, 1) = Unread(r)
        /\ i # f /\ ~LeadingZero(text, m) /\ ~FractionMissing(text, m) /\ ExponentMissing(text, m) =>
             ParseNumber(text, 1) = Unread(e)
    BY Zenon DEF ParseNumber
  <2>2. i # f /\ ~LeadingZero(text, m) /\ ~FractionMissing(text, m) /\ ~ExponentMissing(text, m) =>
           \/ Overflows(Denoted(text, 1, m)) /\ ParseNumber(text, 1) = Unread(e)
           \/ \E type, v : ParseNumber(text, 1) = Number(e, type, v)
    BY NumberParsed, Zenon
  <2> HIDE DEF LZ, FM, EM
  <2> QED
    BY <1>4, <1>6, <2>1, <2>2, Zenon
<1> HIDE DEF f, i, r, q, e, scan, value, m
<1>9. /\ f \in Nat /\ i \in Nat /\ r \in Nat /\ q \in Nat /\ e \in Nat
      /\ f \in {1, 2} /\ f <= i /\ i <= r /\ r <= q /\ q <= e /\ e <= n + 1
  BY <1>1, <1>3, <1>5, MarksOrdered
<1>10. ASSUME NEW w \in Seq(S), NEW p, Shares(w, text, p), w # <<>>, w[1] = Typed, IsValue(w)
       PROVE  /\ e > p
              /\ i = f => p < f /\ p # Len(w)
              /\ LZ => p <= f
              /\ FM => p < r /\ (p = Len(w) => p # n)
              /\ EM /\ p = Len(w) => p # n
  <2>1. IsNumber(w)
    BY <1>10, FirstTells
  <2>2. PICK g \in {1, 2}, j \in Nat, s \in Nat : Shape(w, g, j, s)
    BY <1>10, <2>1, NumberShaped
  <2> QED
    BY <1>1, <1>5, <1>10, <2>2, NumberForced
<1> HIDE DEF LZ, FM, EM
<1>11. ASSUME NEW a \in 1..n,
              \A w \in Seq(S) : Shares(w, text, a) /\ w # <<>> /\ w[1] = Typed => ~IsValue(w)
       PROVE  ~BeginsSomeValue(Prefix(a))
  <2>1. ASSUME NEW fill \in Fills PROVE ~IsValue(Prefix(a) \o fill)
    BY <1>1, <1>11, <2>1, Zenon
  <2> QED
    BY <2>1, Zenon DEF BeginsSomeValue
<1>12. n \in 1..n /\ Shares(text, text, n) /\ text[1] = Typed
  <2>1. n \in 1..n
    BY <1>1
  <2> QED
    BY <1>1, <2>1, Zenon
<1>13. \A k \in Nat : Prefix(k) = SubSeq(text, 1, k)
  BY Zenon DEF Prefix
<1>14. /\ f = 2 => IsNumber(SubSeq(text, 1, 1) \o <<"1">>)
       /\ i # f /\ FM => r > 1 /\ IsNumber(SubSeq(text, 1, r - 1) \o <<"1">>)
       /\ i # f /\ ~FM /\ EM => e > 1 /\ IsNumber(SubSeq(text, 1, e - 1) \o <<"1">>)
  BY <1>1, <1>2, <1>3, <1>5, NumberGoesOn DEF FM, EM
<1>15. BeginsSomeValue(Prefix(f - 1)) \/ f = 1
  <2>1. f = 2 => f - 1 = 1
    OBVIOUS
  <2> QED
    BY <1>9, <1>14, <2>1, BeginsWithDigit
<1>16. ASSUME i = f PROVE AgreeOn(scan, value, lexeme)
  <2>1. scan = Refused(f) /\ value = Unread(f)
    BY <1>7, <1>8, <1>16, Zenon
  <2>2. ASSUME f <= n PROVE OffendingAt(f)
    <3>1. f \in 1..n
      BY <1>9, <2>2
    <3>2. ASSUME NEW w \in Seq(S), Shares(w, text, f), w # <<>>, w[1] = Typed, IsValue(w)
          PROVE  FALSE
      <4>1. f < f
        BY <1>10, <1>16, <3>2
      <4> QED
        BY <1>9, <4>1
    <3>3. ~BeginsSomeValue(Prefix(f))
      BY <1>11, <3>1, <3>2
    <3> QED
      BY <1>15, <2>2, <3>3, Zenon DEF OffendingAt, n
  <2>3. ASSUME f = n + 1 PROVE OffendingAt(f)
    <3>1. ~IsValue(text)
      BY <1>1, <1>3, <1>10, <1>12, <1>16
    <3> QED
      BY <1>15, <2>3, <3>1, Zenon DEF OffendingAt, n
  <2>4. f <= n \/ f = n + 1
    BY <1>1, <1>9
  <2>5. OffendingAt(f)
    BY <2>2, <2>3, <2>4
  <2> QED
    BY <2>1, <2>5, RefusedAgree, Zenon
<1>17. ASSUME i # f, LZ PROVE AgreeOn(scan, value, lexeme)
  <2>1. scan = Refused(f) /\ value = Unread(i)
    BY <1>7, <1>8, <1>17, Zenon
  <2>2. At(text, f) = "0" /\ At(text, i) \in Digits /\ i = f + 1
    BY <1>5, <1>17, Zenon DEF LZ, MarksOf
  <2>3. ASSUME NEW k \in Nat, k >= 1, At(text, k) # "end" PROVE k \in 1..n /\ At(text, k) = text[k]
    BY <1>1, <2>3, AtPlaces
  <2>4. "0" # "end" /\ "end" \notin Digits
    BY DEF Digits
  <2>5. text[f] = "0" /\ i \in 1..n
    BY <1>9, <2>2, <2>3, <2>4
  <2>6. f < n
    BY <1>1, <1>9, <2>2, <2>5
  <2>7. ASSUME NEW w \in Seq(S), Shares(w, text, i), w # <<>>, w[1] = Typed, IsValue(w)
        PROVE  FALSE
    <3>1. i <= f
      BY <1>10, <1>17, <2>7
    <3> QED
      BY <1>9, <2>2, <3>1
  <2>8. ~BeginsSomeValue(Prefix(i))
    BY <1>11, <2>5, <2>7
  <2>9. OffendingAt(f)
    BY <1>3, <1>15, <2>2, <2>5, <2>6, <2>8, Zenon DEF OffendingAt, n
  <2> QED
    BY <2>1, <2>9, RefusedAgree, Zenon
<1>18. ASSUME i # f, ~LZ, FM PROVE AgreeOn(scan, value, lexeme)
  <2>1. scan = Refused(r) /\ value = Unread(r)
    BY <1>7, <1>8, <1>18, Zenon
  <2>2. r - 1 \in Nat /\ r > 1
    BY <1>9, <1>14, <1>18
  <2>3. BeginsSomeValue(Prefix(r - 1))
    BY <1>14, <1>18, BeginsWithDigit, Zenon
  <2>4. ASSUME r <= n PROVE OffendingAt(r)
    <3>1. r \in 1..n
      BY <1>9, <2>2, <2>4
    <3>2. ASSUME NEW w \in Seq(S), Shares(w, text, r), w # <<>>, w[1] = Typed, IsValue(w)
          PROVE  FALSE
      <4>1. r < r
        BY <1>10, <1>18, <3>2
      <4> QED
        BY <1>9, <4>1
    <3>3. ~BeginsSomeValue(Prefix(r))
      BY <1>11, <3>1, <3>2
    <3> QED
      BY <2>3, <2>4, <3>3, Zenon DEF OffendingAt, n
  <2>5. ASSUME r = n + 1 PROVE OffendingAt(r)
    <3>1. ~IsValue(text)
      BY <1>1, <1>3, <1>10, <1>12, <1>18
    <3> QED
      BY <2>3, <2>5, <3>1, Zenon DEF OffendingAt, n
  <2>6. r <= n \/ r = n + 1
    BY <1>1, <1>9
  <2>7. OffendingAt(r)
    BY <2>4, <2>5, <2>6
  <2> QED
    BY <2>1, <2>7, RefusedAgree, Zenon
<1>19. ASSUME i # f, ~LZ, ~FM, EM PROVE AgreeOn(scan, value, lexeme)
  <2>1. scan = Refused(e) /\ value = Unread(e)
    BY <1>7, <1>8, <1>19, Zenon
  <2>2. e - 1 \in Nat /\ e > 1
    BY <1>9, <1>14, <1>19
  <2>3. BeginsSomeValue(Prefix(e - 1))
    BY <1>14, <1>19, BeginsWithDigit, Zenon
  <2>4. ASSUME e <= n PROVE OffendingAt(e)
    <3>1. e \in 1..n
      BY <1>9, <2>2, <2>4
    <3>2. ASSUME NEW w \in Seq(S), Shares(w, text, e), w # <<>>, w[1] = Typed, IsValue(w)
          PROVE  FALSE
      <4>1. e > e
        BY <1>10, <3>2
      <4> QED
        BY <1>9, <4>1
    <3>3. ~BeginsSomeValue(Prefix(e))
      BY <1>11, <3>1, <3>2
    <3> QED
      BY <2>3, <2>4, <3>3, Zenon DEF OffendingAt, n
  <2>5. ASSUME e = n + 1 PROVE OffendingAt(e)
    <3>1. ~IsValue(text)
      BY <1>1, <1>3, <1>10, <1>12, <1>19
    <3> QED
      BY <2>3, <2>5, <3>1, Zenon DEF OffendingAt, n
  <2>6. e <= n \/ e = n + 1
    BY <1>1, <1>9
  <2>7. OffendingAt(e)
    BY <2>4, <2>5, <2>6
  <2> QED
    BY <2>1, <2>7, RefusedAgree, Zenon
<1>20. ASSUME i # f, ~LZ, ~FM, ~EM PROVE AgreeOn(scan, value, lexeme)
  <2>1. scan = Accepted(e)
    BY <1>7, <1>20, Zenon
  <2>2. scan.ok /\ scan.at = e
    BY <2>1, JudgedFields, Zenon
  <2>3. e - 1 \in Nat /\ e > 1 /\ IsNumber(SubSeq(text, 1, e - 1))
    <3>1. e > 1 /\ IsNumber(SubSeq(text, 1, e - 1))
      BY <1>1, <1>3, <1>5, <1>20, NumberTaken DEF LZ, FM, EM
    <3> QED
      BY <1>9, <3>1
  <2>4. LongestAt(e)
    <3>1. IsValue(Prefix(e - 1))
      BY <2>3, Zenon DEF IsValue, Prefix
    <3>2. ASSUME NEW k \in e..Len(text), IsValue(Prefix(k)) PROVE FALSE
      <4>1. k \in 1..n /\ k \in Nat /\ k >= e
        BY <1>1, <1>9, <2>3 DEF n
      <4>2. e > k
        BY <1>1, <1>10, <3>2, <4>1
      <4> QED
        BY <1>9, <4>1, <4>2
    <3> QED
      BY <3>1, <3>2, Zenon DEF LongestAt
  <2>5. CASE Overflows(Denoted(text, 1, m)) /\ value = Unread(e)
    <3>1. value.ok = FALSE /\ value.at = e
      BY <2>5 DEF Unread
    <3> QED
      BY <1>3, <2>2, <2>4, <2>5, <3>1, Zenon DEF AgreeOn, m
  <2>6. CASE \E type, v : value = Number(e, type, v)
    <3>1. value.ok = TRUE /\ value.at = e
      BY <2>6 DEF Number
    <3> QED
      BY <1>3, <2>2, <2>4, <3>1, Zenon DEF AgreeOn
  <2> QED
    BY <1>8, <1>20, <2>5, <2>6, Zenon
<1>21. AgreeOn(scan, value, lexeme)
  BY <1>16, <1>17, <1>18, <1>19, <1>20, Zenon
<1> QED
  BY <1>21, Zenon DEF scan, value

-----------------------------------------------------------------------------
(* The two readers on a literal *)

LEMMA LiteralAgrees ==
  ASSUME Typing, Typed = "n"
  PROVE  AgreeOn(ScanValue(text), ParseValue(text), Prefix(ScanValue(text).at - 1))
<1> DEFINE n == Len(text)
           scan == ScanValue(text)
           value == ParseValue(text)
           lexeme == Prefix(scan.at - 1)
           S == Characters \cup NumberChars \cup ToSet(Null)
<1>1. /\ text \in Seq(S) /\ n \in Nat /\ n >= 1
      /\ \A k \in 1..n :
           Prefix(k) \in Seq(S) /\ Len(Prefix(k)) = k /\ Prefix(k) # <<>> /\ Prefix(k)[1] = Typed
  BY TextPrefixes, Zenon
<1> HIDE DEF S
<1>2. ~IsText /\ "n" # "quote"
  BY DEF IsText
<1>3. ScanValue(text) = ScanLiteral(text) /\ ParseValue(text) = ExpectLiteral(text)
  BY <1>2, Zenon DEF ScanValue, ParseValue, Typed
<1>4. ASSUME NEW k \in 1..n PROVE IsValue(Prefix(k)) <=> Prefix(k) = Null
  BY <1>1, <1>4, FirstTells
<1>5. CASE ~IsPrefix(Null, text)
  <2> DEFINE b == Min({k \in DOMAIN Null : At(text, k) # Null[k]})
  <2>1. scan = Refused(1) /\ value = Unread(b)
    BY <1>3, <1>5, Zenon DEF ScanLiteral, ExpectLiteral
  <2> HIDE DEF scan, value, b
  <2>2. OffendingAt(1)
    BY Zenon DEF OffendingAt
  <2> QED
    BY <2>1, <2>2, RefusedAgree, Zenon DEF scan, value
<1>6. CASE IsPrefix(Null, text)
  <2>1. scan = Accepted(5) /\ value = Read(5, <<>>)
    BY <1>3, <1>6, Zenon DEF ScanLiteral, ExpectLiteral
  <2>2. Len(Null) = 4 /\ Null \in Seq({"n", "u", "l"})
    BY DEF Null
  <2>3. 4 <= n /\ Prefix(4) = SubSeq(Null, 1, 4)
    BY <1>6, <2>2 DEF IsPrefix, Prefix
  <2>4. SubSeq(Null, 1, 4) = Null
    <3>1. 4 \in 0..Len(Null)
      BY <2>2
    <3> DEFINE x == SubSeq(Null, 1, 4)
    <3>2. /\ x \in Seq({"n", "u", "l"}) /\ Len(x) = 4
          /\ \A k \in 1..4 : x[k] = Null[k]
      BY <2>2, <3>1, FrontTyped
    <3> HIDE DEF x
    <3>3. x = Null
      BY <2>2, <3>2, SeqEqual
    <3> QED
      BY <3>3 DEF x
  <2> HIDE DEF scan, value
  <2>5. scan.ok /\ scan.at = 5
    BY <2>1, JudgedFields, Zenon
  <2>6. value.ok /\ value.at = 5
    BY <2>1 DEF Read
  <2>7. LongestAt(5)
    <3>1. IsValue(Prefix(5 - 1))
      <4>1. 4 \in 1..n /\ 5 - 1 = 4
        BY <1>1, <2>3
      <4>2. Prefix(4) = Null
        BY <2>3, <2>4, Zenon
      <4>3. IsValue(Prefix(4))
        BY <1>4, <4>1, <4>2
      <4> QED
        BY <4>1, <4>3
    <3>2. ASSUME NEW k \in 5..Len(text), IsValue(Prefix(k)) PROVE FALSE
      <4>1. k \in 1..n /\ k # 4
        BY <1>1
      <4>2. Prefix(k) = Null /\ Len(Prefix(k)) = k
        BY <1>1, <1>4, <3>2, <4>1
      <4> QED
        BY <2>2, <4>1, <4>2
    <3> QED
      BY <3>1, <3>2, Zenon DEF LongestAt
  <2> QED
    BY <1>2, <2>5, <2>6, <2>7, Zenon DEF AgreeOn, scan, value
<1> QED
  BY <1>5, <1>6

-----------------------------------------------------------------------------
(* The two readers on every text *)

LEMMA TextsScanAlike == Typing => ScannersAgree
BY AgreedOn, StringsAgree, NumbersAgree, LiteralAgrees, Zenon DEF IsText

\* The tape scans the longest lexeme of RFC 8259 there is and rejects at the byte where none
\* goes on, but for a leading zero and a literal (tape.rs:171-188); the MCP reader takes the
\* same text for the same lexeme, less half a pair and a number that overflows, and reads out
\* of it what it means (json.rs:353-361): for texts of any length.
THEOREM TheScannersAgree == Spec => []ScannersAgree
<1>1. Spec => []Typing
  BY InitTyping, NextTyping, PTL DEF Spec
<1>2. Typing => ScannersAgree
  BY TextsScanAlike
<1> QED
  BY <1>1, <1>2, PTL

=============================================================================
