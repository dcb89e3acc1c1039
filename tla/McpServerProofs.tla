-------------------------- MODULE McpServerProofs --------------------------
(***************************************************************************)
(* The MCP server, for any messages, batches, widths and limits: its types,  *)
(* the width of its frames and the single handshake of a connection.         *)
(*                                                                           *)
(* Then the loop of stdio.rs, which uses the server as it is meant to be     *)
(* used: every session, over pipes of any size, with any client and any      *)
(* failing stream, is a behaviour of McpServer, so what is proved of the     *)
(* server holds of the replies a client reads; the two refusals the loop     *)
(* writes itself are none of the server's and no limit applies to them.      *)
(*                                                                           *)
(* Last, the reader of the lines, which stands below both.                   *)
(***************************************************************************)
EXTENDS StdioSession, LineReader, SequenceTheorems, FiniteSetTheorems, WellFoundedInduction, TLAPS

-----------------------------------------------------------------------------
(* The server *)

Bodies == Codes \cup Results \cup Tool \cup {"oversize"}

\* The frame that grows leaves a byte for its bracket, within the limit.
Budget == phase = "handling" /\ answers # <<>> => frame + 1 <= max

ServerInv == ServerTypeOK /\ Budget /\ FramesFit

----------------------------------------------------------------------------
(* Recursion.                                                               *)

\* Induction, as a fact about sets of numbers.
LEMMA EveryNumber ==
  ASSUME NEW S, 0 \in S, \A n \in Nat : n \in S => n + 1 \in S
  PROVE  Nat \subseteq S
<1> DEFINE below == OpToRel(<, Nat)
           T == Nat \ S
<1>1. IsWellFoundedOn(below, Nat)
  BY NatLessThanWellFounded
<1>2. \A j \in Nat, k \in Nat : j < k => <<j, k>> \in below
  BY DEF OpToRel
<1> HIDE DEF below
<1>3. ASSUME T # {} PROVE FALSE
  <2>1. PICK k \in T : \A j \in T : ~ (<<j, k>> \in below)
    BY <1>1, <1>3, WFMin
  <2>2. k \in Nat /\ k # 0
    OBVIOUS
  <2>3. k - 1 \in Nat /\ k - 1 < k /\ (k - 1) + 1 = k
    BY <2>2
  <2>4. k - 1 \in T
    BY <2>3
  <2> QED
    BY <1>2, <2>1, <2>2, <2>3, <2>4
<1> QED
  BY <1>3

\* f starts with base, and its k-th value is what next makes of the one before.
Unrolls(f, n, base, next) ==
  f[0] = base /\ \A k \in 0..n : k # 0 => f[k] = next[k][f[k - 1]]

\* Recursion over numbers, with its steps given as a function.
LEMMA ByRecursion ==
  ASSUME NEW A, NEW base \in A, NEW next \in [Nat -> [A -> A]], NEW n \in Nat
  PROVE  \E f \in [0..n -> A] : Unrolls(f, n, base, next)
<1> DEFINE Good(f, m) == Unrolls(f, m, base, next)
           S == {m \in Nat : \E f \in [0..m -> A] : Good(f, m)}
<1>1. 0 \in S
  <2> DEFINE g == [k \in 0..0 |-> base]
  <2>1. g \in [0..0 -> A] /\ Good(g, 0)
    BY DEF Unrolls
  <2> HIDE DEF g, Good
  <2> QED
    BY <2>1
<1>2. ASSUME NEW m \in Nat, m \in S PROVE m + 1 \in S
  <2>1. PICK f \in [0..m -> A] : Good(f, m)
    BY <1>2
  <2> DEFINE x == next[m + 1][f[m]]
             g == [k \in 0..m + 1 |-> IF k = m + 1 THEN x ELSE f[k]]
  <2>2. x \in A
    <3>1. m + 1 \in Nat /\ f[m] \in A
      BY <2>1
    <3>2. next[m + 1] \in [A -> A]
      BY <3>1
    <3> QED
      BY <3>1, <3>2
  <2> HIDE DEF x
  <2>3. g \in [0..m + 1 -> A] /\ g[m + 1] = x /\ \A k \in 0..m : g[k] = f[k]
    BY <2>2
  <2> HIDE DEF g
  <2> USE DEF x
  <2>4. ASSUME NEW k \in 0..m + 1, k # 0 PROVE g[k] = next[k][g[k - 1]]
    <3>1. CASE k = m + 1
      <4>1. k - 1 = m /\ m \in 0..m
        BY <3>1
      <4> QED
        BY <2>3, <3>1, <4>1
    <3>2. CASE k \in 0..m
      <4>1. k - 1 \in 0..m
        BY <2>4, <3>2
      <4>2. f[k] = next[k][f[k - 1]]
        BY <2>1, <2>4, <3>2 DEF Unrolls
      <4> QED
        BY <2>3, <3>2, <4>1, <4>2
    <3> QED
      BY <3>1, <3>2
  <2>5. Good(g, m + 1)
    BY <2>1, <2>3, <2>4 DEF Unrolls
  <2> HIDE DEF Good
  <2>6. \E h \in [0..m + 1 -> A] : Good(h, m + 1)
    BY <2>3, <2>5
  <2>7. m + 1 \in Nat
    OBVIOUS
  <2> QED
    BY <2>6, <2>7
<1> HIDE DEF S
<1>3. Nat \subseteq S
  BY <1>1, <1>2, EveryNumber
<1> QED
  BY <1>3 DEF S

----------------------------------------------------------------------------
(* Picked members, and the places of an array.                              *)

LEMMA PickedExists ==
  ASSUME NEW A, NEW s \in Seq(A), NEW places
  PROVE  \E f : f = [n \in 0..Len(s) |->
                       IF n = 0 THEN <<>>
                       ELSE IF n \in places THEN Append(f[n - 1], s[n]) ELSE f[n - 1]]
<1> DEFINE next == [k \in Nat |-> [p \in Seq(A) |->
                      IF k \in places /\ k \in 1..Len(s) THEN Append(p, s[k]) ELSE p]]
<1>1. next \in [Nat -> [Seq(A) -> Seq(A)]]
  OBVIOUS
<1>2. \A k \in 1..Len(s), p \in Seq(A) :
         next[k][p] = IF k \in places THEN Append(p, s[k]) ELSE p
  OBVIOUS
<1> HIDE DEF next
<1>3. PICK f \in [0..Len(s) -> Seq(A)] :
         f[0] = <<>> /\ \A k \in 0..Len(s) : k # 0 => f[k] = next[k][f[k - 1]]
  <2>1. <<>> \in Seq(A) /\ Len(s) \in Nat
    BY LenProperties
  <2> DEFINE B == Seq(A)
             base == <<>>
  <2>2. base \in B /\ next \in [Nat -> [B -> B]]
    BY <1>1, <2>1
  <2> HIDE DEF B, base
  <2>3. \E f \in [0..Len(s) -> B] : Unrolls(f, Len(s), base, next)
    BY <2>1, <2>2, ByRecursion, Zenon
  <2> QED
    BY <2>1, <2>3 DEF B, base, Unrolls
<1>4. ASSUME NEW n \in 0..Len(s)
      PROVE f[n] = IF n = 0 THEN <<>>
               ELSE IF n \in places THEN Append(f[n - 1], s[n]) ELSE f[n - 1]
  <2>1. CASE n = 0
    BY <1>3, <2>1
  <2>2. CASE n # 0
    <3>1. n \in 1..Len(s) /\ n - 1 \in 0..Len(s)
      BY <2>2, LenProperties
    <3> QED
      BY <1>2, <1>3, <2>2, <3>1
  <2> QED
    BY <2>1, <2>2
<1>5. f = [n \in 0..Len(s) |->
                       IF n = 0 THEN <<>>
                       ELSE IF n \in places THEN Append(f[n - 1], s[n]) ELSE f[n - 1]]
  BY <1>4
<1> QED
  BY <1>5, Zenon

\* Where the picking stands after each element.
LEMMA PickedStepwise ==
  ASSUME NEW A, NEW s \in Seq(A), NEW places
  PROVE  /\ PickedUpTo(s, places)[0] = <<>>
         /\ \A n \in 1..Len(s) :
              PickedUpTo(s, places)[n] = IF n \in places
                                         THEN Append(PickedUpTo(s, places)[n - 1], s[n])
                                         ELSE PickedUpTo(s, places)[n - 1]
         /\ \A n \in 0..Len(s) : PickedUpTo(s, places)[n] \in Seq(A)
<1> DEFINE u == PickedUpTo(s, places)
<1>0. Len(s) \in Nat
  BY LenProperties
<1>1. u = [n \in 0..Len(s) |->
                       IF n = 0 THEN <<>>
                       ELSE IF n \in places THEN Append(u[n - 1], s[n]) ELSE u[n - 1]]
  <2>1. \E f : f = [n \in 0..Len(s) |->
                       IF n = 0 THEN <<>>
                       ELSE IF n \in places THEN Append(f[n - 1], s[n]) ELSE f[n - 1]]
    BY PickedExists, Zenon
  <2> QED
    BY <2>1, Zenon DEF PickedUpTo
<1> HIDE DEF u
<1>2. \A n \in 0..Len(s) : u[n] = IF n = 0 THEN <<>>
                       ELSE IF n \in places THEN Append(u[n - 1], s[n]) ELSE u[n - 1]
  BY <1>1
<1>3. u[0] = <<>>
  BY <1>0, <1>2
<1>4. \A n \in 1..Len(s) : u[n] = IF n \in places THEN Append(u[n - 1], s[n]) ELSE u[n - 1]
  <2> TAKE n \in 1..Len(s)
  <2>1. n \in 0..Len(s) /\ n # 0
    BY <1>0
  <2> QED
    BY <1>2, <2>1
<1> DEFINE S == {n \in Nat : n <= Len(s) => u[n] \in Seq(A)}
<1>5. 0 \in S
  <2>1. <<>> \in Seq(A)
    OBVIOUS
  <2> QED
    BY <1>3, <2>1
<1>6. ASSUME NEW n \in Nat, n \in S PROVE n + 1 \in S
  <2>1. CASE n + 1 <= Len(s)
    <3>1. n + 1 \in 1..Len(s) /\ (n + 1) - 1 = n /\ n <= Len(s)
      BY <2>1, <1>0
    <3>2. u[n] \in Seq(A) /\ s[n + 1] \in A
      BY <1>6, <3>1
    <3>3. u[n + 1] = IF n + 1 \in places THEN Append(u[n], s[n + 1]) ELSE u[n]
      BY <1>4, <3>1
    <3>4. u[n + 1] \in Seq(A)
      BY <3>2, <3>3
    <3> QED
      BY <3>4
  <2> QED
    BY <2>1
<1>7. Nat \subseteq S
  <2> HIDE DEF S
  <2> QED
    BY <1>5, <1>6, EveryNumber
<1>8. \A n \in 0..Len(s) : u[n] \in Seq(A)
  BY <1>0, <1>7
<1> QED
  BY <1>3, <1>4, <1>8 DEF u

\* What is picked of the first elements begins what is picked of more of them.
LEMMA PickedBegins ==
  ASSUME NEW A, NEW s \in Seq(A), NEW places, NEW n \in 0..Len(s)
  PROVE  /\ Len(PickedUpTo(s, places)[n]) <= Len(Picked(s, places))
         /\ \A i \in 1..Len(PickedUpTo(s, places)[n]) :
              PickedUpTo(s, places)[n][i] = Picked(s, places)[i]
<1> DEFINE u == PickedUpTo(s, places)
           Begins(p, q) == Len(p) <= Len(q) /\ \A i \in 1..Len(p) : p[i] = q[i]
           S == {k \in Nat : n + k <= Len(s) => Begins(u[n], u[n + k])}
<1>1. /\ Len(s) \in Nat
      /\ \A k \in 1..Len(s) : u[k] = IF k \in places THEN Append(u[k - 1], s[k]) ELSE u[k - 1]
      /\ \A k \in 0..Len(s) : u[k] \in Seq(A)
  BY PickedStepwise, LenProperties
<1> HIDE DEF u
<1>2. 0 \in S
  <2>1. n + 0 = n /\ u[n] \in Seq(A)
    BY <1>1
  <2>2. Begins(u[n], u[n])
    BY <2>1, LenProperties
  <2> QED
    BY <2>1, <2>2
<1>3. ASSUME NEW k \in Nat, k \in S PROVE k + 1 \in S
  <2>1. CASE n + (k + 1) <= Len(s)
    <3>1. /\ n + k \in 0..Len(s) /\ n + (k + 1) \in 1..Len(s) /\ n + (k + 1) - 1 = n + k
          /\ n \in 0..Len(s)
      BY <1>1, <2>1
    <3> DEFINE p == u[n]
               q == u[n + k]
               x == s[n + (k + 1)]
    <3>2. p \in Seq(A) /\ q \in Seq(A) /\ x \in A
      BY <1>1, <3>1
    <3>3. Begins(p, q)
      BY <1>1, <1>3, <3>1
    <3>4. u[n + (k + 1)] = Append(q, x) \/ u[n + (k + 1)] = q
      <4> DEFINE j == n + (k + 1)
      <4>1. j \in 1..Len(s) /\ j - 1 = n + k
        BY <3>1
      <4> HIDE DEF j
      <4>2. u[j] = Append(u[j - 1], s[j]) \/ u[j] = u[j - 1]
        BY <1>1, <4>1
      <4>3. u[j - 1] = q
        BY <4>1
      <4>4. u[j] = Append(q, s[j]) \/ u[j] = q
        BY <4>2, <4>3
      <4> QED
        BY <4>4 DEF j
    <3> HIDE DEF p, q, x
    <3>5. Begins(p, Append(q, x))
      BY <3>2, <3>3, AppendProperties, LenProperties
    <3>6. Begins(p, u[n + (k + 1)])
      BY <3>3, <3>4, <3>5
    <3> QED
      BY <3>6 DEF p
  <2> QED
    BY <2>1
<1>4. Nat \subseteq S
  <2> HIDE DEF S
  <2> QED
    BY <1>2, <1>3, EveryNumber
<1>5. Len(s) - n \in Nat /\ n + (Len(s) - n) = Len(s)
  BY <1>1
<1>6. Begins(u[n], u[Len(s)])
  <2> DEFINE d == Len(s) - n
  <2>1. d \in Nat /\ n + d = Len(s)
    BY <1>5
  <2>2. Len(s) <= Len(s)
    BY <1>1
  <2> HIDE DEF d, Begins
  <2>3. d \in S
    BY <1>4, <2>1
  <2>4. Begins(u[n], u[n + d])
    BY <2>1, <2>2, <2>3, Zenon
  <2> QED
    BY <2>1, <2>4, Zenon
<1> QED
  BY <1>6 DEF Picked, u

\* One element more leaves what was picked of those before it as it was.
LEMMA PickedGrows ==
  ASSUME NEW A, NEW s \in Seq(A), NEW x \in A, NEW some, NEW more,
         \A k \in 1..Len(s) : k \in more <=> k \in some
  PROVE  \A n \in 0..Len(s) : PickedUpTo(Append(s, x), more)[n] = PickedUpTo(s, some)[n]
<1> DEFINE t == Append(s, x)
           S == {n \in Nat : n <= Len(s) => PickedUpTo(t, more)[n] = PickedUpTo(s, some)[n]}
<1>1. /\ t \in Seq(A) /\ Len(t) = Len(s) + 1 /\ Len(s) \in Nat
      /\ \A k \in 1..Len(s) : t[k] = s[k]
  BY AppendProperties, LenProperties
<1> HIDE DEF t
<1>2. 0 \in S
  BY <1>1, PickedStepwise
<1>3. ASSUME NEW n \in Nat, n \in S PROVE n + 1 \in S
  <2>1. CASE n + 1 <= Len(s)
    <3>1. /\ n + 1 \in 1..Len(s) /\ n + 1 \in 1..Len(t)
          /\ (n + 1) - 1 = n /\ n <= Len(s)
      BY <1>1, <2>1
    <3> DEFINE v == PickedUpTo(t, more)
               u == PickedUpTo(s, some)
    <3>2. v[n + 1] = IF n + 1 \in more THEN Append(v[n], t[n + 1]) ELSE v[n]
      <4>1. \A j \in 1..Len(t) : v[j] = IF j \in more THEN Append(v[j - 1], t[j]) ELSE v[j - 1]
        BY <1>1, PickedStepwise
      <4> HIDE DEF v
      <4> QED
        BY <3>1, <4>1
    <3>3. u[n + 1] = IF n + 1 \in some THEN Append(u[n], s[n + 1]) ELSE u[n]
      <4>1. \A j \in 1..Len(s) : u[j] = IF j \in some THEN Append(u[j - 1], s[j]) ELSE u[j - 1]
        BY PickedStepwise
      <4> HIDE DEF u
      <4> QED
        BY <3>1, <4>1
    <3> QED
      BY <1>1, <1>3, <3>1, <3>2, <3>3
  <2> QED
    BY <2>1
<1>4. Nat \subseteq S
  <2> HIDE DEF S
  <2> QED
    BY <1>2, <1>3, EveryNumber
<1> QED
  BY <1>1, <1>4 DEF t

\* What an array has taken after each of its answers.
LEMMA TakenStepwise ==
  ASSUME NEW given \in Seq(AnswerRecord)
  PROVE  /\ Taken(given)[0] = 1
         /\ \A n \in 1..Len(given) : Taken(given)[n] = Taken(given)[n - 1] + given[n].width + 1
         /\ \A n \in 0..Len(given) : Taken(given)[n] \in Nat
<1> DEFINE taken == Taken(given)
           wide == [k \in Nat |-> [p \in Nat |->
                      IF k \in 1..Len(given) THEN p + given[k].width + 1 ELSE p]]
<1>0. Len(given) \in Nat /\ \A k \in 1..Len(given) : given[k].width \in Nat
  <2>1. \A a \in AnswerRecord : a.width \in Nat
    BY DEF AnswerRecord
  <2>2. \A k \in 1..Len(given) : given[k] \in AnswerRecord
    OBVIOUS
  <2> QED
    BY <2>1, <2>2, LenProperties
<1>1. wide \in [Nat -> [Nat -> Nat]]
  BY <1>0
<1>2. \A k \in 1..Len(given), p \in Nat : wide[k][p] = p + given[k].width + 1
  BY <1>0
<1> HIDE DEF wide
<1>3. PICK f \in [0..Len(given) -> Nat] : Unrolls(f, Len(given), 1, wide)
  <2>1. 1 \in Nat
    OBVIOUS
  <2> QED
    BY <1>0, <1>1, <2>1, ByRecursion, Zenon
<1>4. ASSUME NEW n \in 0..Len(given)
      PROVE  f[n] = IF n = 0 THEN 1 ELSE f[n - 1] + given[n].width + 1
  <2>1. CASE n = 0
    BY <1>3, <2>1 DEF Unrolls
  <2>2. CASE n # 0
    <3>1. n \in 1..Len(given) /\ n - 1 \in 0..Len(given)
      BY <1>0, <2>2
    <3>2. f[n] = wide[n][f[n - 1]] /\ f[n - 1] \in Nat
      BY <1>3, <2>2, <3>1 DEF Unrolls
    <3> QED
      BY <1>2, <2>2, <3>1, <3>2
  <2> QED
    BY <2>1, <2>2
<1>5. f = [n \in 0..Len(given) |-> IF n = 0 THEN 1 ELSE f[n - 1] + given[n].width + 1]
  BY <1>4
<1>6. taken = [n \in 0..Len(given) |-> IF n = 0 THEN 1 ELSE taken[n - 1] + given[n].width + 1]
  BY <1>5, Zenon DEF Taken
<1> HIDE DEF taken
<1>7. taken[0] = 1 /\ \A n \in 1..Len(given) : taken[n] = taken[n - 1] + given[n].width + 1
  <2>1. taken[0] = 1
    BY <1>0, <1>6
  <2>2. ASSUME NEW n \in 1..Len(given) PROVE taken[n] = taken[n - 1] + given[n].width + 1
    <3>1. n \in 0..Len(given) /\ n # 0
      BY <1>0
    <3> QED
      BY <1>6, <3>1
  <2> QED
    BY <2>1, <2>2
<1> DEFINE S == {n \in Nat : n <= Len(given) => taken[n] \in Nat}
<1>8. ASSUME NEW n \in Nat, n \in S PROVE n + 1 \in S
  <2>1. CASE n + 1 <= Len(given)
    <3>1. n + 1 \in 1..Len(given) /\ (n + 1) - 1 = n /\ n <= Len(given)
      BY <1>0, <2>1
    <3>2. taken[n + 1] = taken[n] + given[n + 1].width + 1
      BY <1>7, <3>1
    <3> QED
      BY <1>0, <1>8, <3>1, <3>2
  <2> QED
    BY <2>1
<1>9. 0 \in S
  BY <1>7
<1>10. Nat \subseteq S
  <2> HIDE DEF S
  <2> QED
    BY <1>8, <1>9, EveryNumber
<1>11. \A n \in 0..Len(given) : taken[n] \in Nat
  BY <1>0, <1>10
<1> QED
  BY <1>7, <1>11 DEF taken

\* One answer more leaves the places of the others where they were.
LEMMA TakenGrows ==
  ASSUME NEW given \in Seq(AnswerRecord), NEW a \in AnswerRecord
  PROVE  /\ \A n \in 0..Len(given) : Taken(Append(given, a))[n] = Taken(given)[n]
         /\ Taken(Append(given, a))[Len(given) + 1] = Taken(given)[Len(given)] + a.width + 1
<1> DEFINE more == Append(given, a)
<1>1. /\ more \in Seq(AnswerRecord) /\ Len(more) = Len(given) + 1 /\ Len(given) \in Nat
      /\ more[Len(given) + 1] = a /\ \A k \in 1..Len(given) : more[k] = given[k]
  BY AppendProperties, LenProperties
<1> HIDE DEF more
<1> DEFINE S == {n \in Nat : n <= Len(given) => Taken(more)[n] = Taken(given)[n]}
<1>2. 0 \in S
  BY <1>1, TakenStepwise
<1>3. ASSUME NEW n \in Nat, n \in S PROVE n + 1 \in S
  <2>1. CASE n + 1 <= Len(given)
    <3>1. /\ n + 1 \in 1..Len(given) /\ n + 1 \in 1..Len(more)
          /\ (n + 1) - 1 = n /\ n <= Len(given)
      BY <1>1, <2>1
    <3>2. Taken(more)[n + 1] = Taken(more)[n] + more[n + 1].width + 1
      BY <1>1, <3>1, TakenStepwise
    <3>3. Taken(given)[n + 1] = Taken(given)[n] + given[n + 1].width + 1
      BY <3>1, TakenStepwise
    <3> QED
      BY <1>1, <1>3, <3>1, <3>2, <3>3
  <2> QED
    BY <2>1
<1>4. Nat \subseteq S
  <2> HIDE DEF S
  <2> QED
    BY <1>2, <1>3, EveryNumber
<1>5. \A n \in 0..Len(given) : Taken(more)[n] = Taken(given)[n]
  BY <1>1, <1>4
<1>6. Taken(more)[Len(given) + 1] = Taken(more)[Len(given)] + a.width + 1
  <2>1. Len(given) + 1 \in 1..Len(more) /\ (Len(given) + 1) - 1 = Len(given)
    BY <1>1
  <2>2. Taken(more)[Len(given) + 1] =
          Taken(more)[(Len(given) + 1) - 1] + more[Len(given) + 1].width + 1
    BY <1>1, <2>1, TakenStepwise
  <2> QED
    BY <1>1, <2>1, <2>2
<1>7. Len(given) \in 0..Len(given)
  BY <1>1
<1> QED
  BY <1>5, <1>6, <1>7 DEF more

----------------------------------------------------------------------------
(* Messages, answers and their widths.                                      *)

LEMMA LineItems ==
  ASSUME NEW l \in Line
  PROVE  /\ l.kind \in {"blank", "unparsable", "message", "batch"}
         /\ l.items \in Seq(Message)
         /\ l.kind = "message" => l.items[1] \in Message
<1>1. CASE l \in [kind : {"blank", "unparsable"}, items : {<<>>}]
  <2>1. l.kind \in {"blank", "unparsable"} /\ l.items = <<>>
    BY <1>1
  <2>2. <<>> \in Seq(Message)
    OBVIOUS
  <2> QED
    BY <2>1, <2>2
<1>2. CASE \E m \in Messages : l = [kind |-> "message", items |-> <<m>>]
  BY <1>2, ServerAssumption
<1>3. CASE \E b \in Batches : l = [kind |-> "batch", items |-> b]
  BY <1>3, ServerAssumption
<1> QED
  BY <1>1, <1>2, <1>3 DEF Line

LEMMA DigitsBounded ==
  ASSUME NEW n \in Nat
  PROVE  Digits(n) \in 1..8 /\ (n >= 95 => 93 + Digits(n) <= n)
<1>1. CASE n < 10
  <2>1. Digits(n) = 1
    BY <1>1 DEF Digits
  <2> QED
    BY <1>1, <2>1
<1>2. CASE n >= 10 /\ n < 100
  <2>1. Digits(n) = 2
    BY <1>2 DEF Digits
  <2> QED
    BY <1>2, <2>1
<1>3. CASE n >= 100 /\ n < 1000
  <2>1. Digits(n) = 3
    BY <1>3 DEF Digits
  <2> QED
    BY <1>3, <2>1
<1>4. CASE n >= 1000
  <2>1. Digits(n) \in 1..8
    BY <1>4 DEF Digits
  <2> QED
    BY <1>4, <2>1
<1> QED
  BY <1>1, <1>2, <1>3, <1>4

LEMMA WidthOfNumbers ==
  ASSUME NEW n \in Nat, NEW k \in Nat
  PROVE  /\ Digits(n) \in 1..8
         /\ OversizeBody(n) \in Nat \ {0} /\ OversizeMemberBody(k, n) \in Nat \ {0}
         /\ n >= 95 => OversizeBody(n) <= n
         /\ Minus(n, k) \in Nat
<1>1. Digits(n) \in 1..8 /\ (n >= 95 => 93 + Digits(n) <= n)
  BY DigitsBounded
<1>2. Digits(k) \in 1..8
  BY DigitsBounded
<1> QED
  BY <1>1, <1>2 DEF OversizeBody, OversizeMemberBody, Minus

LEMMA IdFields == \A id \in Ids \cup {NoId} : IdField(id) \in Nat
BY JsonRpcAssumption DEF IdField

LEMMA AnswersAreRecords ==
  ASSUME NEW id \in Ids \cup {NoId}, NEW what \in Bodies, NEW body \in Nat \ {0}
  PROVE  /\ Answer(id, what, body) \in AnswerRecord
         /\ Answer(id, what, body).id = id /\ Answer(id, what, body).what = what
         /\ Answer(id, what, body).width = body + IdField(id)
         /\ Answer(id, what, body).width # 0
<1>1. IdField(id) \in Nat
  BY IdFields
<1>2. body + IdField(id) \in Nat /\ body + IdField(id) # 0
  BY <1>1
<1> QED
  BY <1>2 DEF Answer, AnswerRecord, Bodies

LEMMA Refusals ==
  ASSUME NEW id \in Ids \cup {NoId}, NEW what \in Codes
  PROVE  /\ Answer(id, what, BodyWidth[what]) \in AnswerRecord
         /\ Answer(id, what, BodyWidth[what]).id = id
         /\ Answer(id, what, BodyWidth[what]).what = what
         /\ Answer(id, what, BodyWidth[what]).width # 0
<1> DEFINE body == BodyWidth[what]
<1>1. body \in Nat \ {0} /\ what \in Bodies
  BY WidthAssumption DEF Bodies
<1> HIDE DEF body
<1>2. /\ Answer(id, what, body) \in AnswerRecord
      /\ Answer(id, what, body).id = id /\ Answer(id, what, body).what = what
      /\ Answer(id, what, body).width # 0
  BY <1>1, AnswersAreRecords
<1> QED
  BY <1>2 DEF body

LEMMA IdsRead == \A m : ReadId(m) \in Ids \cup {NoId}
BY DEF ReadId

LEMMA DispatchedIsABody ==
  ASSUME NEW m \in Message, NEW h \in BOOLEAN, m.method # "unusable"
  PROVE  Dispatched(m, h) \in Codes \cup Results \cup Tool
<1>1. Called(m.call) \in Codes \cup Tool
  <2>1. m.call \in {"malformed", "succeeds", "fails"}
    BY DEF Message
  <2> QED
    BY <2>1 DEF Called, Codes, Tool
<1>2. CASE ~MetadataAccepted(m)
  BY <1>2 DEF Dispatched, Codes
<1>3. CASE MetadataAccepted(m)
  <2>1. m.method \in {"server/discover", "initialize", "ping", "tools/list",
                      "tools/call", "unknown"}
    BY DEF Message
  <2> QED
    BY <1>1, <1>3, <2>1 DEF Dispatched, Codes, Results
<1> QED
  BY <1>2, <1>3

\* The answer to a message is addressed to it, and has a width.
LEMMA RealAnswers ==
  ASSUME NEW m \in Message, NEW h \in BOOLEAN
  PROVE  /\ RealAnswer(m, h) \in AnswerRecord
         /\ RealAnswer(m, h).width # 0 /\ RealAnswer(m, h).id = ReadId(m)
         /\ RealAnswer(m, h).what =
              IF Decodable(m) THEN Dispatched(m, h) ELSE "invalid_request"
<1> DEFINE what == IF Decodable(m) THEN Dispatched(m, h) ELSE "invalid_request"
           body == IF what \in Tool THEN m.size ELSE BodyWidth[what]
<1>1. what \in Codes \cup Results \cup Tool
  BY DispatchedIsABody DEF Decodable, Codes
<1>2. body \in Nat \ {0}
  <2>1. m.size \in Nat \ {0}
    BY DEF Message
  <2> QED
    BY <1>1, <2>1, WidthAssumption
<1>3. RealAnswer(m, h) = Answer(ReadId(m), what, body)
  BY DEF RealAnswer
<1> HIDE DEF what, body
<1>4. /\ Answer(ReadId(m), what, body) \in AnswerRecord
      /\ Answer(ReadId(m), what, body).what = what
      /\ Answer(ReadId(m), what, body).id = ReadId(m)
      /\ Answer(ReadId(m), what, body).width # 0
  BY <1>1, <1>2, IdsRead, AnswersAreRecords DEF Bodies
<1> QED
  BY <1>3, <1>4 DEF what

\* Where an answer does not fit, a refusal takes its place; it fits if it keeps its id.
LEMMA Rendered ==
  ASSUME NEW a \in AnswerRecord, a.width # 0, NEW room \in Nat, NEW body \in Nat \ {0}
  PROVE  /\ RenderWithin(a, room, body) \in AnswerRecord
         /\ RenderWithin(a, room, body).width # 0
         /\ body <= room => RenderWithin(a, room, body).width <= room
<1>1. a.id \in Ids \cup {NoId} /\ a.width \in Nat
  BY DEF AnswerRecord
<1>2. IdField(a.id) \in Nat /\ IdField(NoId) = 0
  BY <1>1, IdFields DEF IdField
<1>3. /\ Answer(a.id, "oversize", body) \in AnswerRecord
      /\ Answer(a.id, "oversize", body).width = body + IdField(a.id)
      /\ Answer(a.id, "oversize", body).width # 0
  <2>1. "oversize" \in Bodies
    BY DEF Bodies
  <2> QED
    BY <1>1, <2>1, AnswersAreRecords
<1>4. /\ Answer(NoId, "oversize", body) \in AnswerRecord
      /\ Answer(NoId, "oversize", body).width = body
      /\ Answer(NoId, "oversize", body).width # 0
  BY <1>2, AnswersAreRecords DEF Bodies
<1>5. CASE a.width <= room
  BY <1>1, <1>5 DEF RenderWithin
<1>6. CASE a.width > room /\ body + IdField(a.id) <= room
  <2>1. RenderWithin(a, room, body) = Answer(a.id, "oversize", body)
    BY <1>1, <1>2, <1>6 DEF RenderWithin
  <2> QED
    BY <1>3, <1>6, <2>1
<1>7. CASE a.width > room /\ body + IdField(a.id) > room
  BY <1>1, <1>4, <1>7 DEF RenderWithin
<1> QED
  BY <1>1, <1>2, <1>5, <1>6, <1>7

\* What takes its place is addressed like it, or to nobody where that does not fit, and
\* is it or a refusal.
LEMMA RenderedFor ==
  ASSUME NEW a \in AnswerRecord, NEW room \in Nat, NEW body \in Nat \ {0}
  PROVE  /\ \/ RenderWithin(a, room, body).id = a.id
            \/ /\ RenderWithin(a, room, body).id = NoId
               /\ RenderWithin(a, room, body).what = "oversize"
               /\ body + IdField(a.id) > room
         /\ RenderWithin(a, room, body).what \in {a.what, "oversize"}
<1>1. a.id \in Ids \cup {NoId} /\ a.width \in Nat
  BY DEF AnswerRecord
<1>2. IdField(a.id) \in Nat
  BY <1>1, IdFields
<1>3. \A id : Answer(id, "oversize", body).id = id /\ Answer(id, "oversize", body).what = "oversize"
  BY DEF Answer
<1>4. \/ RenderWithin(a, room, body) = a
      \/ RenderWithin(a, room, body) = Answer(a.id, "oversize", body)
      \/ /\ RenderWithin(a, room, body) = Answer(NoId, "oversize", body)
         /\ body + IdField(a.id) > room
  <2>1. CASE a.width <= room
    BY <1>1, <2>1 DEF RenderWithin
  <2>2. CASE a.width > room /\ body + IdField(a.id) <= room
    BY <1>1, <1>2, <2>2 DEF RenderWithin
  <2>3. CASE a.width > room /\ body + IdField(a.id) > room
    BY <1>1, <1>2, <2>3 DEF RenderWithin
  <2> QED
    BY <1>1, <1>2, <2>1, <2>2, <2>3
<1> QED
  BY <1>3, <1>4

\* An answer on a line of its own respects the limit, from the documented floor on.
LEMMA Bounded ==
  ASSUME NEW a \in AnswerRecord, a.width # 0, max \in Nat
  PROVE  /\ Single(RenderBounded(a, max)) \in Reply
         /\ max >= 95 => Single(RenderBounded(a, max)).width <= max
<1>1. OversizeBody(max) \in Nat \ {0} /\ (max >= 95 => OversizeBody(max) <= max)
  BY WidthOfNumbers
<1>2. /\ RenderBounded(a, max) \in AnswerRecord
      /\ max >= 95 => RenderBounded(a, max).width <= max
  BY <1>1, Rendered DEF RenderBounded
<1>3. RenderBounded(a, max).width \in Nat
  BY <1>2 DEF AnswerRecord
<1>4. <<RenderBounded(a, max)>> \in Seq(AnswerRecord)
  BY <1>2
<1> QED
  BY <1>2, <1>3, <1>4 DEF Single, Reply

----------------------------------------------------------------------------
(* The steps of a line.                                                     *)

ConnectionOK ==
  /\ handshaked \in BOOLEAN
  /\ negotiated \in Legacy \cup {NoVersion}
  /\ handshaked <=> negotiated # NoVersion

\* A handshake is the answer to an initialize while there was none.
LEMMA FirstHandshake ==
  ASSUME NEW m \in Message, NEW h \in BOOLEAN, RealAnswer(m, h).what = "handshake"
  PROVE  Decodable(m) /\ ~h
<1>1. Decodable(m) /\ Dispatched(m, h) = "handshake"
  BY RealAnswers
<1>2. m.method \in {"server/discover", "initialize", "ping", "tools/list",
                    "tools/call", "unknown"}
  BY <1>1 DEF Message, Decodable
<1>3. Called(m.call) # "handshake"
  <2>1. m.call \in {"malformed", "succeeds", "fails"}
    BY DEF Message
  <2> QED
    BY <2>1 DEF Called
<1>4. MetadataAccepted(m)
  BY <1>1 DEF Dispatched
<1>5. m.method = "initialize"
  BY <1>1, <1>2, <1>3, <1>4 DEF Dispatched
<1>6. ~h
  BY <1>1, <1>4, <1>5 DEF Dispatched
<1> QED
  BY <1>1, <1>6

\* The connection is touched by the first handshake alone, and gets a served revision.
LEMMA Shaken ==
  ASSUME ServerTypeOK, NEW m \in Message, Shake(m) \/ UNCHANGED connection
  PROVE  ConnectionOK' /\ (handshaked => UNCHANGED connection)
<1>1. Agreed(m) \in Legacy
  BY JsonRpcAssumption DEF Agreed
<1>2. CASE UNCHANGED connection
  BY <1>2 DEF ServerTypeOK, ConnectionOK, connection
<1>3. CASE /\ RealAnswer(m, handshaked).what = "handshake"
           /\ handshaked' = TRUE /\ negotiated' = Agreed(m)
  <2>1. ~handshaked
    BY <1>3, FirstHandshake DEF ServerTypeOK
  <2> QED
    BY <1>1, <1>3, <2>1, ServerAssumption DEF ConnectionOK
<1> QED
  BY <1>2, <1>3 DEF Shake

\* A line that is finished with a frame within the limit, or none, keeps the invariant.
LEMMA FinishKeeps ==
  ASSUME ServerInv, phase = "handling", NEW r \in Reply \cup {Silence}, Finish(r), ConnectionOK',
         r # Silence /\ max >= 95 => r.width <= max
  PROVE  ServerInv'
<1>1. /\ phase' = "answered" /\ reply' = r /\ max' = max /\ line' = line /\ at' = at
      /\ frame' = frame /\ answers' = answers /\ lines' = lines
  BY DEF Finish, array
<1>2. ServerTypeOK'
  BY <1>1 DEF ServerInv, ServerTypeOK, ConnectionOK
<1>3. Budget' /\ FramesFit'
  BY <1>1 DEF Budget, FramesFit
<1> QED
  BY <1>2, <1>3 DEF ServerInv

\* The refusals of whole lines.
LEMMA RefuseKeeps ==
  ASSUME ServerInv, phase = "handling", NEW id \in Ids \cup {NoId}, NEW what \in Codes,
         Refuse(id, what), ConnectionOK'
  PROVE  ServerInv'
<1>1. max \in Nat
  BY ServerAssumption DEF ServerInv, ServerTypeOK
<1>3. /\ Answer(id, what, BodyWidth[what]) \in AnswerRecord
      /\ Answer(id, what, BodyWidth[what]).width # 0
  BY Refusals
<1> DEFINE r == Single(RenderBounded(Answer(id, what, BodyWidth[what]), max))
<1>4. r \in Reply /\ (max >= 95 => r.width <= max)
  BY <1>1, <1>3, Bounded
<1>5. Finish(r)
  BY DEF Refuse
<1> HIDE DEF r
<1> QED
  BY <1>4, <1>5, FinishKeeps

\* A new line.
LEMMA TakeKeeps == ASSUME ServerInv, NEW l \in Line, Take(l) PROVE ServerInv'
<1>1. lines' \in 0..MaxLines
  BY ServerAssumption DEF Take, ServerInv, ServerTypeOK
<1>2. ServerTypeOK'
  BY <1>1 DEF Take, connection, ServerInv, ServerTypeOK
<1>3. Budget' /\ FramesFit'
  BY DEF Take, Budget, FramesFit
<1> QED
  BY <1>2, <1>3 DEF ServerInv

\* A member of a batch: what is added to the array leaves room for its bracket.
LEMMA MemberKeeps == ServerInv /\ HandleMember => ServerInv'
<1> SUFFICES ASSUME ServerInv, HandleMember PROVE ServerInv'
  OBVIOUS
<1> DEFINE m == line.items[at]
           fitted == RenderMember(RealAnswer(m, handshaked), Room, max)
<1>1. line \in Line /\ at \in 1..Len(line.items)
  BY LineItems DEF HandleMember, ServerInv, ServerTypeOK
<1>2. m \in Message
  BY <1>1, LineItems
<1>3. max \in Nat /\ frame \in Nat \ {0} /\ Comma \in 0..1 /\ handshaked \in BOOLEAN
  BY ServerAssumption DEF ServerInv, ServerTypeOK, Comma
<1>4. Room \in Nat /\ (Room # 0 => frame + Comma + 1 + Room = max)
  BY <1>3 DEF Room, Minus
<1>5. fitted \in AnswerRecord /\ fitted.width # 0
  BY <1>2, <1>3, <1>4, RealAnswers, WidthOfNumbers, Rendered DEF RenderMember
<1>6. fitted.width \in Nat
  BY <1>5 DEF AnswerRecord
<1>7. ConnectionOK'
  BY <1>2, Shaken DEF HandleMember, ServerInv
<1> HIDE DEF m
<1>8. CASE at' = at + 1 /\ UNCHANGED <<max, line, phase, array, reply, lines>>
  <2>1. ServerTypeOK'
    BY <1>7, <1>8 DEF ServerInv, ServerTypeOK, ConnectionOK, array
  <2>2. Budget' /\ FramesFit'
    BY <1>8 DEF ServerInv, Budget, FramesFit, array
  <2> QED
    BY <2>1, <2>2 DEF ServerInv
<1>9. CASE /\ fitted.width <= Room
           /\ frame' = frame + Comma + fitted.width /\ answers' = Append(answers, fitted)
           /\ at' = at + 1 /\ UNCHANGED <<max, line, phase, reply, lines>>
  <2> HIDE DEF fitted
  <2>1. frame' \in Nat \ {0} /\ frame' + 1 <= max
    BY <1>3, <1>4, <1>5, <1>6, <1>9
  <2>2. answers' \in Seq(AnswerRecord)
    BY <1>5, <1>9 DEF ServerInv, ServerTypeOK
  <2>3. at' \in Nat \ {0}
    BY <1>9 DEF ServerInv, ServerTypeOK
  <2>4. ServerTypeOK'
    BY <1>7, <1>9, <2>1, <2>2, <2>3 DEF ServerInv, ServerTypeOK, ConnectionOK
  <2>5. Budget' /\ FramesFit'
    BY <1>9, <2>1 DEF ServerInv, Budget, FramesFit, HandleMember
  <2> QED
    BY <2>4, <2>5 DEF ServerInv
<1>10. CASE Finish(Single(RenderBounded(Answer(NoId, "oversize", OversizeBody(max)), max)))
  <2>1. OversizeBody(max) \in Nat \ {0}
    BY <1>3, WidthOfNumbers
  <2>2. /\ Answer(NoId, "oversize", OversizeBody(max)) \in AnswerRecord
        /\ Answer(NoId, "oversize", OversizeBody(max)).width # 0
    <3>1. "oversize" \in Bodies /\ NoId \in Ids \cup {NoId}
      BY DEF Bodies
    <3> QED
      BY <2>1, <3>1, AnswersAreRecords
  <2> DEFINE r == Single(RenderBounded(Answer(NoId, "oversize", OversizeBody(max)), max))
  <2>3. r \in Reply /\ (max >= 95 => r.width <= max)
    BY <1>3, <2>2, Bounded
  <2>4. Finish(r) /\ phase = "handling"
    BY <1>10 DEF HandleMember
  <2> HIDE DEF r
  <2> QED
    BY <1>7, <2>3, <2>4, FinishKeeps
<1> QED
  BY <1>8, <1>9, <1>10 DEF HandleMember, m

\* Every step of the handling of a line keeps the invariant.
LEMMA HandleKeeps == ServerInv /\ Handle => ServerInv'
<1> SUFFICES ASSUME ServerInv, Handle PROVE ServerInv'
  OBVIOUS
<1>1. max \in Nat /\ handshaked \in BOOLEAN /\ ConnectionOK
  BY ServerAssumption DEF ServerInv, ServerTypeOK, ConnectionOK
<1>2. UNCHANGED connection => ConnectionOK'
  BY <1>1 DEF ConnectionOK, connection
<1>3. line \in Line
  BY DEF Handle, Blank, Unparsable, HandleSingle, EmptyBatch, HandleMember, CloseBatch, Panic,
     ServerInv, ServerTypeOK
<1>4. CASE Blank
  BY <1>2, <1>4, FinishKeeps DEF Blank
<1>5. CASE Unparsable
  BY <1>2, <1>5, RefuseKeeps DEF Unparsable, Codes
<1>6. CASE HandleSingle
  <2> DEFINE m == line.items[1]
             r == Single(RenderBounded(RealAnswer(m, handshaked), max))
  <2>1. m \in Message
    BY <1>3, <1>6, LineItems DEF HandleSingle
  <2>2. ConnectionOK'
    BY <1>6, <2>1, Shaken DEF HandleSingle, ServerInv
  <2>3. r \in Reply /\ (max >= 95 => r.width <= max)
    BY <1>1, <2>1, RealAnswers, Bounded
  <2>4. phase = "handling" /\ (Finish(Silence) \/ Finish(r))
    BY <1>6 DEF HandleSingle
  <2> HIDE DEF r
  <2> QED
    BY <2>2, <2>3, <2>4, FinishKeeps
<1>7. CASE EmptyBatch
  BY <1>2, <1>7, RefuseKeeps DEF EmptyBatch, Codes
<1>8. CASE HandleMember
  BY <1>8, MemberKeeps
<1>9. CASE CloseBatch
  <2> DEFINE r == Closed
  <2>1. r \in Reply /\ (answers # <<>> => r.width <= max)
    BY <1>9 DEF CloseBatch, Closed, Reply, ServerInv, ServerTypeOK, Budget
  <2>2. phase = "handling" /\ (Finish(Silence) \/ (answers # <<>> /\ Finish(r)))
    BY <1>9 DEF CloseBatch
  <2> HIDE DEF r
  <2> QED
    BY <1>2, <1>9, <2>1, <2>2, FinishKeeps DEF CloseBatch
<1>10. CASE Panic
  <2>1. line.items[at] \in Message
    BY <1>3, <1>10, LineItems DEF Panic, ServerInv, ServerTypeOK
  <2>2. ConnectionOK'
    BY <1>10, <2>1, Shaken DEF Panic, ServerInv
  <2>3. RecoverId \in Ids \cup {NoId} /\ "internal_error" \in Codes
    BY IdsRead DEF RecoverId, Codes
  <2>4. phase = "handling" /\ Refuse(RecoverId, "internal_error")
    BY <1>10 DEF Panic
  <2> QED
    BY <2>2, <2>3, <2>4, RefuseKeeps
<1> QED
  BY <1>4, <1>5, <1>6, <1>7, <1>8, <1>9, <1>10 DEF Handle

LEMMA AtStart == ServerInit => ServerInv
<1> SUFFICES ASSUME ServerInit PROVE ServerInv
  OBVIOUS
<1>1. lines \in 0..MaxLines
  BY ServerAssumption DEF ServerInit
<1>2. answers \in Seq(AnswerRecord)
  BY DEF ServerInit
<1>3. ServerTypeOK
  <2>1. handshaked \in BOOLEAN /\ (handshaked <=> negotiated # NoVersion)
    BY DEF ServerInit
  <2>2. /\ max \in Limits /\ negotiated = NoVersion /\ line = NoLine
        /\ phase = "idle" /\ reply = Silence
    BY DEF ServerInit
  <2>3. at \in Nat \ {0} /\ frame \in Nat \ {0}
    BY DEF ServerInit
  <2> QED
    BY <1>1, <1>2, <2>1, <2>2, <2>3 DEF ServerTypeOK
<1>4. Budget /\ FramesFit
  BY DEF ServerInit, Budget, FramesFit
<1> QED
  BY <1>3, <1>4 DEF ServerInv

LEMMA ServerStepKeeps == ServerInv /\ [ServerNext]_serverVars => ServerInv'
<1> SUFFICES ASSUME ServerInv, [ServerNext]_serverVars PROVE ServerInv'
  OBVIOUS
<1>1. CASE \E l \in Line : Take(l)
  BY <1>1, TakeKeeps
<1>2. CASE Handle
  BY <1>2, HandleKeeps
<1>3. CASE UNCHANGED serverVars
  BY <1>3 DEF serverVars, connection, array, ServerInv, ServerTypeOK, Budget, FramesFit
<1> QED
  BY <1>1, <1>2, <1>3 DEF ServerNext

----------------------------------------------------------------------------
(* The connection.                                                          *)

\* No step undoes a handshake: not a second initialize, a batch that is refused whole or
\* a panic.
LEMMA NeverAgain == ServerInv /\ [ServerNext]_serverVars => (handshaked => UNCHANGED connection)
<1> SUFFICES ASSUME ServerInv, [ServerNext]_serverVars, handshaked PROVE UNCHANGED connection
  OBVIOUS
<1>1. ServerTypeOK
  BY DEF ServerInv
<1>2. CASE \E l \in Line : Take(l)
  BY <1>2 DEF Take
<1>3. CASE Blank \/ Unparsable \/ EmptyBatch \/ CloseBatch
  BY <1>3 DEF Blank, Unparsable, EmptyBatch, CloseBatch
<1>4. CASE HandleSingle
  <2>1. line.items[1] \in Message
    BY <1>4, LineItems DEF HandleSingle, ServerInv, ServerTypeOK
  <2> QED
    BY <1>1, <1>4, <2>1, Shaken DEF HandleSingle
<1>5. CASE HandleMember \/ Panic
  <2>1. line \in Line /\ at \in 1..Len(line.items)
    <3>1. line \in Line /\ at \in Nat \ {0} /\ at <= Len(line.items)
      BY <1>1, <1>5 DEF HandleMember, Panic, ServerTypeOK
    <3> QED
      BY <3>1, LineItems
  <2>2. Shake(line.items[at]) \/ UNCHANGED connection
    BY <1>5 DEF HandleMember, Panic
  <2>3. line.items[at] \in Message
    BY <2>1, LineItems
  <2> QED
    BY <1>1, <2>2, <2>3, Shaken
<1>6. CASE UNCHANGED serverVars
  BY <1>6 DEF serverVars
<1> QED
  BY <1>2, <1>3, <1>4, <1>5, <1>6 DEF ServerNext, Handle

----------------------------------------------------------------------------
(* Who is answered, and where.                                              *)

\* The members handled so far that are owed an answer.
OwedSoFar == PickedUpTo(line.items, Owing(line))[at - 1]

\* In the middle of a batch there is one answer for each of them, in its place.
Placed ==
  /\ at \in 1..Len(line.items) + 1
  /\ line.kind # "batch" => at = 1 /\ answers = <<>>
  /\ Len(answers) = Len(OwedSoFar)
  /\ \A k \in 1..Len(answers) : AddressedTo(Closed, k, OwedSoFar[k])
  /\ frame + Comma = Taken(answers)[Len(answers)]

\* One of them, at most, was told of a handshake, and that is the one that stands.
Told ==
  \A k \in 1..Len(answers) :
    answers[k].what = "handshake" =>
      /\ handshaked /\ negotiated = Agreed(OwedSoFar[k])
      /\ \A j \in 1..Len(answers) : answers[j].what = "handshake" => j = k

InOrder == phase = "handling" => Placed /\ Told

OrderInv == ServerInv /\ InOrder /\ OneAnswerEach /\ HandshakeIsTheOneTold

\* The next member joins those that are owed an answer, unless it is a notification.
LEMMA OneMemberMore ==
  ASSUME NEW l \in Line, NEW n \in 1..Len(l.items)
  PROVE  /\ PickedUpTo(l.items, Owing(l))[n] =
              IF IsNotification(l.items[n]) THEN PickedUpTo(l.items, Owing(l))[n - 1]
              ELSE Append(PickedUpTo(l.items, Owing(l))[n - 1], l.items[n])
         /\ PickedUpTo(l.items, Owing(l))[n] \in Seq(Message)
         /\ PickedUpTo(l.items, Owing(l))[n - 1] \in Seq(Message)
<1>1. l.items \in Seq(Message) /\ Len(l.items) \in Nat
  BY LineItems, LenProperties
<1>2. n \in Owing(l) <=> ~IsNotification(l.items[n])
  BY <1>1 DEF Owing
<1>3. n \in 0..Len(l.items) /\ n - 1 \in 0..Len(l.items)
  BY <1>1
<1>4. PickedUpTo(l.items, Owing(l))[n] =
              IF n \in Owing(l) THEN Append(PickedUpTo(l.items, Owing(l))[n - 1], l.items[n])
              ELSE PickedUpTo(l.items, Owing(l))[n - 1]
  <2> DEFINE s == l.items
             o == Owing(l)
  <2>1. s \in Seq(Message) /\ n \in 1..Len(s)
    BY <1>1
  <2> HIDE DEF s, o
  <2>2. \A k \in 1..Len(s) : PickedUpTo(s, o)[k] = IF k \in o
                                                THEN Append(PickedUpTo(s, o)[k - 1], s[k])
                                                ELSE PickedUpTo(s, o)[k - 1]
    BY ONLY <2>1, PickedStepwise
  <2> QED
    BY <2>1, <2>2 DEF s, o
<1>5. \A k \in 0..Len(l.items) : PickedUpTo(l.items, Owing(l))[k] \in Seq(Message)
  BY <1>1, PickedStepwise
<1> QED
  BY <1>2, <1>3, <1>4, <1>5

\* What the lines of each kind are owed.
LEMMA OwedByKind ==
  ASSUME NEW l \in Line
  PROVE  /\ Owed(l) \in Seq(Message)
         /\ PickedUpTo(l.items, Owing(l))[0] = <<>>
         /\ l.items = <<>> => Owed(l) = <<>>
         /\ l.kind \in {"blank", "unparsable"} => l.items = <<>>
         /\ l.kind = "message" =>
              /\ l.items # <<>> /\ l.items[1] \in Message /\ Len(l.items) = 1
              /\ Owed(l) = IF IsNotification(l.items[1]) THEN <<>> ELSE <<l.items[1]>>
<1>1. l.items \in Seq(Message) /\ Len(l.items) \in Nat
  BY LineItems, LenProperties
<1>2. PickedUpTo(l.items, Owing(l))[0] = <<>> /\ Owed(l) \in Seq(Message)
  <2>1. Len(l.items) \in 0..Len(l.items)
    BY <1>1
  <2> QED
    BY <1>1, <2>1, PickedStepwise DEF Owed, Picked
<1>3. l.items = <<>> => Owed(l) = <<>>
  BY <1>2 DEF Owed, Picked
<1>4. l.kind \in {"blank", "unparsable"} => l.items = <<>>
  BY DEF Line
<1>5. ASSUME l.kind = "message"
      PROVE  /\ l.items # <<>> /\ l.items[1] \in Message /\ Len(l.items) = 1
             /\ Owed(l) = IF IsNotification(l.items[1]) THEN <<>> ELSE <<l.items[1]>>
  <2>1. PICK m \in Messages : l.items = <<m>>
    BY <1>5 DEF Line
  <2>2. l.items # <<>> /\ l.items[1] \in Message /\ Len(l.items) = 1
    BY <1>1, <2>1
  <2>3. Owed(l) = PickedUpTo(l.items, Owing(l))[1]
    BY <2>2 DEF Owed, Picked
  <2>4. 1 \in 1..Len(l.items) /\ 1 - 1 = 0
    BY <2>2
  <2>5. PickedUpTo(l.items, Owing(l))[1] =
          IF IsNotification(l.items[1]) THEN <<>> ELSE Append(<<>>, l.items[1])
    <3> DEFINE u == PickedUpTo(l.items, Owing(l))
    <3>1. u[1] = IF IsNotification(l.items[1]) THEN u[1 - 1] ELSE Append(u[1 - 1], l.items[1])
      BY <2>4, OneMemberMore
    <3>2. u[1 - 1] = <<>>
      BY <1>2, <2>4, Zenon
    <3> HIDE DEF u
    <3> QED
      BY <3>1, <3>2, Zenon DEF u
  <2> QED
    BY <2>2, <2>3, <2>5
<1> QED
  BY <1>2, <1>3, <1>4, <1>5

\* A new line: nothing is answered yet.
LEMMA TakeOrders ==
  ASSUME NEW l \in Line, Take(l)
  PROVE  InOrder' /\ OneAnswerEach' /\ HandshakeIsTheOneTold'
<1>1. /\ line' = l /\ phase' = "handling" /\ at' = 1 /\ frame' = 1 /\ answers' = <<>>
  BY DEF Take
<1>2. Len(l.items) \in Nat
  BY LineItems, LenProperties
<1>3. OwedSoFar' = <<>>
  <2>1. OwedSoFar' = PickedUpTo(l.items, Owing(l))[1 - 1] /\ 1 - 1 = 0
    BY <1>1 DEF OwedSoFar, Owing
  <2> QED
    BY <2>1, OwedByKind
<1>4. frame' + Comma' = 1 /\ Len(answers') = 0
  BY <1>1 DEF Comma
<1>5. Taken(answers')[Len(answers')] = 1
  <2>1. answers' \in Seq(AnswerRecord)
    BY <1>1
  <2> QED
    BY <1>4, <2>1, TakenStepwise
<1>6. Placed'
  BY <1>1, <1>2, <1>3, <1>4, <1>5 DEF Placed
<1>7. Told'
  BY <1>4 DEF Told
<1> QED
  BY <1>1, <1>6, <1>7 DEF InOrder, OneAnswerEach, HandshakeIsTheOneTold

\* A member of a batch that is handled, in silence or with an answer.
LEMMA MemberOrders ==
  ASSUME OrderInv, HandleMember, phase' = "handling"
  PROVE  InOrder' /\ OneAnswerEach' /\ HandshakeIsTheOneTold'
<1> DEFINE m == line.items[at]
           a == RealAnswer(m, handshaked)
           body == OversizeMemberBody(Room, max)
           fitted == RenderMember(a, Room, max)
           owed == PickedUpTo(line.items, Owing(line))
<1>1. /\ ServerTypeOK /\ Placed /\ Told /\ line \in Line /\ at \in 1..Len(line.items)
      /\ answers \in Seq(AnswerRecord) /\ handshaked \in BOOLEAN
  BY LineItems DEF OrderInv, ServerInv, ServerTypeOK, InOrder, HandleMember
<1>2. m \in Message /\ Len(line.items) \in Nat
  BY <1>1, LineItems, LenProperties
<1>3. max \in Nat /\ frame \in Nat /\ Comma \in 0..1
  BY <1>1, ServerAssumption DEF ServerTypeOK, Comma
<1>4. Room \in Nat /\ body \in Nat \ {0}
  BY <1>3, WidthOfNumbers DEF Room
<1>5. a \in AnswerRecord /\ a.id = ReadId(m) /\ a.width # 0
  BY <1>1, <1>2, RealAnswers
<1>6. /\ fitted \in AnswerRecord
      /\ \/ fitted.id = ReadId(m)
         \/ /\ fitted.id = NoId /\ fitted.what = "oversize"
            /\ body + IdField(ReadId(m)) > Room
      /\ fitted.what \in {a.what, "oversize"}
  BY <1>4, <1>5, Rendered, RenderedFor DEF RenderMember
<1>7. /\ at' = at + 1 /\ max' = max /\ line' = line /\ phase = "handling" /\ line.kind = "batch"
      /\ Shake(m)
  BY DEF HandleMember, Finish
<1>8. /\ OwedSoFar = owed[at - 1] /\ OwedSoFar' = owed[at]
      /\ OwedSoFar \in Seq(Message) /\ OwedSoFar' \in Seq(Message)
      /\ OwedSoFar' = IF IsNotification(m) THEN OwedSoFar ELSE Append(OwedSoFar, m)
  <2>1. OwedSoFar' = owed[(at + 1) - 1] /\ (at + 1) - 1 = at
    BY <1>1, <1>7 DEF OwedSoFar, Owing
  <2>2. /\ owed[at] = IF IsNotification(m) THEN owed[at - 1] ELSE Append(owed[at - 1], m)
        /\ owed[at] \in Seq(Message) /\ owed[at - 1] \in Seq(Message)
    BY <1>1, OneMemberMore
  <2> QED
    BY <2>1, <2>2 DEF OwedSoFar
<1>9. at' \in 1..Len(line'.items) + 1
  BY <1>1, <1>2, <1>7
<1> HIDE DEF m, a, body, fitted, owed
<1>10. CASE IsNotification(m)
  <2>1. UNCHANGED <<max, array, connection>>
    BY <1>10 DEF HandleMember, Unanswered, Shake, m
  <2>2. Placed'
    BY <1>1, <1>7, <1>8, <1>9, <1>10, <2>1 DEF Placed, array, Closed, AddressedTo, RoomOf,
       RefusalOf, Comma
  <2>3. Told'
    BY <1>1, <1>8, <1>10, <2>1 DEF Told, array, connection
  <2> QED
    BY <2>2, <2>3 DEF InOrder, OneAnswerEach, HandshakeIsTheOneTold
<1>11. CASE ~IsNotification(m)
  <2>1. /\ frame' = frame + Comma + fitted.width /\ answers' = Append(answers, fitted)
    BY <1>11 DEF HandleMember, Finish, Unanswered, m, fitted, a
  <2>2. /\ Len(answers) \in Nat /\ Len(answers) = Len(OwedSoFar)
        /\ answers' \in Seq(AnswerRecord) /\ Len(answers') = Len(answers) + 1
        /\ answers'[Len(answers) + 1] = fitted
        /\ \A k \in 1..Len(answers) : answers'[k] = answers[k]
    BY <1>1, <1>6, <2>1, AppendProperties, LenProperties DEF Placed
  <2>3. /\ Len(OwedSoFar') = Len(answers')
        /\ OwedSoFar'[Len(answers) + 1] = m
        /\ \A k \in 1..Len(answers) : OwedSoFar'[k] = OwedSoFar[k]
    BY <1>2, <1>8, <1>11, <2>2, AppendProperties
  <2>4. /\ \A n \in 0..Len(answers) : Taken(answers')[n] = Taken(answers)[n]
        /\ Taken(answers')[Len(answers) + 1] = Taken(answers)[Len(answers)] + fitted.width + 1
        /\ Taken(answers)[Len(answers)] = frame + Comma
    BY <1>1, <1>6, <2>1, TakenGrows DEF Placed
  <2>5. frame' + Comma' = Taken(answers')[Len(answers')]
    <3>1. Comma' = 1
      BY <2>2 DEF Comma
    <3>2. fitted.width \in Nat
      BY <1>6 DEF AnswerRecord
    <3> QED
      BY <1>3, <2>1, <2>2, <2>4, <3>1, <3>2
  <2>6. ASSUME NEW k \in 1..Len(answers') PROVE AddressedTo(Closed, k, OwedSoFar[k])'
    <3>1. CASE k \in 1..Len(answers)
      <4>1. AddressedTo(Closed, k, OwedSoFar[k])
        BY <1>1, <3>1 DEF Placed
      <4>2. k - 1 \in 0..Len(answers)
        BY <2>2, <3>1
      <4>3. Taken(answers')[k - 1] = Taken(answers)[k - 1]
        BY <2>4, <4>2
      <4> QED
        BY <1>7, <2>2, <2>3, <3>1, <4>1, <4>3 DEF AddressedTo, Closed, RoomOf, RefusalOf
    <3>2. CASE k = Len(answers) + 1
      <4>1. Taken(answers')[k - 1] = frame + Comma
        <5>1. k - 1 = Len(answers) /\ Len(answers) \in 0..Len(answers)
          BY <2>2, <3>2
        <5> QED
          BY <2>4, <5>1
      <4>2. /\ RoomOf(Closed, k)' = Room
        BY <1>7, <4>1 DEF RoomOf, Closed, Room
      <4>3. RefusalOf(Closed, k)' = body
        BY <1>7, <4>2 DEF RefusalOf, Closed, body
      <4>4. Closed'.answers[k] = fitted /\ OwedSoFar'[k] = m
        BY <2>2, <2>3, <3>2 DEF Closed
      <4> QED
        BY <1>6, <4>2, <4>3, <4>4 DEF AddressedTo
    <3> QED
      BY <2>2, <3>1, <3>2
  <2>7. Placed'
    BY <1>7, <1>9, <2>3, <2>5, <2>6 DEF Placed
  <2>8. Told'
    <3>1. CASE a.what = "handshake"
      <4>1. Decodable(m) /\ ~handshaked
        BY <1>1, <1>2, <3>1, FirstHandshake DEF a
      <4>2. handshaked' /\ negotiated' = Agreed(m)
        BY <1>7, <1>11, <3>1, <4>1 DEF Shake, a
      <4>3. \A k \in 1..Len(answers) : answers'[k].what # "handshake"
        BY <1>1, <2>2, <4>1 DEF Told
      <4> QED
        BY <2>2, <2>3, <4>2, <4>3 DEF Told
    <3>2. CASE a.what # "handshake"
      <4>1. UNCHANGED connection
        BY <1>7, <3>2 DEF Shake, a
      <4>2. fitted.what # "handshake"
        BY <1>6, <3>2
      <4> QED
        BY <1>1, <2>2, <2>3, <4>1, <4>2 DEF Told, connection
    <3> QED
      BY <3>1, <3>2
  <2> QED
    BY <2>7, <2>8 DEF InOrder, OneAnswerEach, HandshakeIsTheOneTold
<1> QED
  BY <1>10, <1>11

\* A frame with a single answer.
LEMMA SingleFrame ==
  ASSUME NEW a \in AnswerRecord, a.width # 0, max \in Nat
  PROVE  LET r == Single(RenderBounded(a, max))
         IN /\ r # Silence /\ r.array = FALSE /\ Len(r.answers) = 1
            /\ \/ r.answers[1].id = a.id
               \/ /\ r.answers[1].id = NoId /\ r.answers[1].what = "oversize"
                  /\ OversizeBody(max) + IdField(a.id) > max
            /\ r.answers[1].what \in {a.what, "oversize"}
<1> DEFINE f == RenderBounded(a, max)
<1>0. OversizeBody(max) \in Nat \ {0}
  BY WidthOfNumbers
<1>1. /\ \/ f.id = a.id
         \/ f.id = NoId /\ f.what = "oversize" /\ OversizeBody(max) + IdField(a.id) > max
      /\ f.what \in {a.what, "oversize"}
  BY <1>0, RenderedFor DEF RenderBounded
<1>2. Single(f) \in Reply
  BY Bounded
<1> HIDE DEF f
<1>3. Single(f).array = FALSE /\ Len(Single(f).answers) = 1 /\ Single(f).answers[1] = f
  BY DEF Single
<1> QED
  BY <1>1, <1>2, <1>3, SilenceAssumption DEF f

\* A whole line is refused, addressed to nobody unless it is a request whose handling
\* panicked.
LEMMA RefuseOrders ==
  ASSUME ServerInv, phase = "handling", line \in Line,
         NEW id \in Ids \cup {NoId}, NEW what \in Codes, Refuse(id, what),
         \/ /\ id = NoId
            /\ line.kind = "unparsable" \/ line = [kind |-> "batch", items |-> <<>>]
         \/ /\ id = NoId /\ what = "internal_error"
            /\ line.kind = "batch" /\ Owed(line) # <<>>
         \/ /\ line.kind = "message" /\ ~IsNotification(line.items[1])
            /\ id = ReadId(line.items[1])
  PROVE  InOrder' /\ OneAnswerEach' /\ HandshakeIsTheOneTold'
<1> DEFINE a == Answer(id, what, BodyWidth[what])
           r == Single(RenderBounded(a, max))
<1>1. /\ phase' = "answered" /\ reply' = r /\ max' = max /\ line' = line
  BY DEF Refuse, Finish
<1>2. max \in Nat
  BY ServerAssumption DEF ServerInv, ServerTypeOK
<1>3. a \in AnswerRecord /\ a.id = id /\ a.what = what /\ a.width # 0
  BY Refusals
<1>4. /\ r # Silence /\ r.array = FALSE /\ Len(r.answers) = 1
      /\ r.answers[1].what \in {what, "oversize"}
      /\ \/ r.answers[1].id = id
         \/ /\ r.answers[1].id = NoId /\ r.answers[1].what = "oversize"
            /\ OversizeBody(max) + IdField(id) > max
  <2> HIDE DEF a
  <2> QED
    BY <1>2, <1>3, SingleFrame
<1>0. \A k \in DOMAIN r.answers : k = 1
  BY DEF Single
<1> HIDE DEF r
<1>5. HandshakeIsTheOneTold'
  <2>1. what # "handshake"
    BY DEF Codes
  <2>2. \A k \in DOMAIN r.answers : k = 1
    BY <1>4, <1>0
  <2> QED
    BY <1>1, <1>4, <2>1, <2>2 DEF HandshakeIsTheOneTold
<1>6. OneAnswerEach'
  <2>1. CASE /\ line.kind = "message" /\ ~IsNotification(line.items[1])
             /\ id = ReadId(line.items[1])
    <3>1. Owed(line) = <<line.items[1]>>
      BY <2>1, OwedByKind
    <3>2. Len(Owed(line)) = 1 /\ Owed(line)[1] = line.items[1] /\ Owed(line) # <<>>
      BY <3>1
    <3>3. Owed(line)' = Owed(line)
      BY <1>1 DEF Owed, Owing
    <3>4. AddressedTo(reply, 1, Owed(line)[1])'
      <4>1. RoomOf(reply, 1)' = max
        BY <1>1, <1>4 DEF RoomOf
      <4>2. RefusalOf(reply, 1)' = OversizeBody(max)
        BY <1>1, <1>4 DEF RefusalOf
      <4> QED
        BY <1>1, <1>4, <2>1, <3>2, <3>3, <4>1, <4>2 DEF AddressedTo
    <3>5. reply'.array = (line'.kind = "batch") /\ Len(reply'.answers) = Len(Owed(line)')
      BY <1>1, <1>4, <2>1, <3>2, <3>3
    <3>6. \A k \in 1..Len(Owed(line)') : AddressedTo(reply, k, Owed(line)[k])'
      <4> DEFINE n == Len(Owed(line)')
      <4>0. n = 1
        BY <3>2, <3>3
      <4> HIDE DEF n
      <4>1. \A k \in 1..n : k = 1
        BY <4>0
      <4>2. \A k \in 1..n : AddressedTo(reply, k, Owed(line)[k])'
        BY <3>4, <4>1, Zenon
      <4> QED
        BY <4>2 DEF n
    <3> QED
      BY <1>1, <1>4, <3>2, <3>3, <3>5, <3>6, Zenon DEF OneAnswerEach
  <2>2. CASE /\ id = NoId
             /\ \/ line.kind = "unparsable" \/ line = [kind |-> "batch", items |-> <<>>]
                \/ line.kind = "batch" /\ Owed(line) # <<>> /\ what = "internal_error"
    <3>0. Owed(line)' = Owed(line)
      BY <1>1 DEF Owed, Owing
    <3>1. reply'.answers[1].id = NoId
      BY <1>1, <1>4, <2>2
    <3>2. \/ line'.kind = "unparsable" \/ line' = [kind |-> "batch", items |-> <<>>]
          \/ /\ line'.kind = "batch" /\ Owed(line)' # <<>>
             /\ reply'.answers[1].what \in {"oversize", "internal_error"}
      BY <1>1, <1>4, <2>2, <3>0
    <3> QED
      BY <1>1, <1>4, <3>1, <3>2, Zenon DEF OneAnswerEach
  <2> QED
    BY <2>1, <2>2
<1> QED
  BY <1>1, <1>5, <1>6 DEF InOrder

\* A line with a member that is no notification owes an answer.
LEMMA SomeoneIsOwed ==
  ASSUME NEW l \in Line, NEW n \in 1..Len(l.items), ~IsNotification(l.items[n])
  PROVE  Owed(l) # <<>>
<1> DEFINE u == PickedUpTo(l.items, Owing(l))
<1>1. l.items \in Seq(Message) /\ Len(l.items) \in Nat
  BY LineItems, LenProperties
<1>2. n \in 0..Len(l.items)
  BY <1>1
<1>3. u[n] = Append(u[n - 1], l.items[n]) /\ u[n - 1] \in Seq(Message)
      /\ l.items[n] \in Message
  <2>1. l.items[n] \in Message
    BY <1>1
  <2> QED
    BY <2>1, OneMemberMore
<1>4. Len(u[n]) <= Len(Owed(l))
  BY <1>1, <1>2, PickedBegins DEF Owed
<1> HIDE DEF u
<1>5. Len(u[n]) = Len(u[n - 1]) + 1 /\ Len(u[n - 1]) \in Nat
  BY <1>3, AppendProperties, LenProperties
<1>6. Owed(l) \in Seq(Message) /\ Len(<<>>) = 0
  BY OwedByKind
<1> QED
  BY <1>4, <1>5, <1>6

\* A request on a line of its own.
LEMMA SingleOrders ==
  ASSUME OrderInv, HandleSingle
  PROVE  InOrder' /\ OneAnswerEach' /\ HandshakeIsTheOneTold'
<1> DEFINE m == line.items[1]
           a == RealAnswer(m, handshaked)
           r == Single(RenderBounded(a, max))
<1>1. /\ line \in Line /\ line.kind = "message" /\ handshaked \in BOOLEAN /\ max \in Nat
  BY ServerAssumption DEF OrderInv, ServerInv, ServerTypeOK, HandleSingle
<1>2. m \in Message /\ line.items # <<>>
      /\ Owed(line) = IF IsNotification(m) THEN <<>> ELSE <<m>>
  BY <1>1, OwedByKind
<1>3. /\ phase' = "answered" /\ max' = max /\ line' = line /\ Owed(line)' = Owed(line)
      /\ reply' = IF IsNotification(m) THEN Silence ELSE r
  BY DEF HandleSingle, Finish, Unanswered, Owed, Owing
<1>4. a \in AnswerRecord /\ a.id = ReadId(m) /\ a.width # 0
  BY <1>1, <1>2, RealAnswers
<1>5. /\ r # Silence /\ r.array = FALSE /\ Len(r.answers) = 1
      /\ \/ r.answers[1].id = ReadId(m)
         \/ /\ r.answers[1].id = NoId /\ r.answers[1].what = "oversize"
            /\ OversizeBody(max) + IdField(ReadId(m)) > max
      /\ r.answers[1].what \in {a.what, "oversize"}
  <2> HIDE DEF a
  <2> QED
    BY <1>1, <1>4, SingleFrame
<1>6. \A k \in DOMAIN r.answers : k = 1
  BY DEF Single
<1> HIDE DEF m, r
<1>7. CASE IsNotification(m)
  <2>1. reply' = Silence /\ line'.items # <<>> /\ Owed(line)' = <<>>
    BY <1>2, <1>3, <1>7
  <2> QED
    BY <1>3, <2>1, Zenon DEF OneAnswerEach, HandshakeIsTheOneTold, InOrder
<1>8. CASE ~IsNotification(m)
  <2>1. /\ Owed(line)' = <<m>> /\ Len(Owed(line)') = 1 /\ Owed(line)'[1] = m
        /\ Owed(line)' # <<>> /\ reply' = r
    BY <1>2, <1>3, <1>8
  <2>2. RoomOf(reply, 1)' = max /\ RefusalOf(reply, 1)' = OversizeBody(max)
    BY <1>3, <1>5, <2>1 DEF RoomOf, RefusalOf
  <2>3. AddressedTo(reply, 1, Owed(line)[1])'
    BY <1>5, <2>1, <2>2 DEF AddressedTo
  <2>4. \A k \in 1..Len(Owed(line)') : AddressedTo(reply, k, Owed(line)[k])'
    BY <2>1, <2>3
  <2>5. reply'.array = (line'.kind = "batch") /\ Len(reply'.answers) = Len(Owed(line)')
        /\ reply' # Silence
    BY <1>1, <1>3, <1>5, <2>1
  <2>6. OneAnswerEach'
    BY <1>3, <2>1, <2>4, <2>5, Zenon DEF OneAnswerEach
  <2>7. ASSUME r.answers[1].what = "handshake"
        PROVE  negotiated' = Agreed(Owed(line)'[1])
    <3>1. Decodable(m) /\ a.what = "handshake"
      BY <1>1, <1>2, <1>5, <2>7, FirstHandshake
    <3>2. negotiated' = Agreed(m)
      BY <1>8, <3>1 DEF HandleSingle, Shake, m
    <3> QED
      BY <2>1, <3>2
  <2>8. HandshakeIsTheOneTold'
    BY <1>3, <1>6, <2>1, <2>7 DEF HandshakeIsTheOneTold
  <2> QED
    BY <1>3, <2>6, <2>8 DEF InOrder
<1> QED
  BY <1>7, <1>8

\* A batch whose members are all handled.
LEMMA CloseOrders ==
  ASSUME OrderInv, CloseBatch
  PROVE  InOrder' /\ OneAnswerEach' /\ HandshakeIsTheOneTold'
<1>1. /\ line \in Line /\ phase = "handling" /\ line.kind = "batch" /\ line.items # <<>>
      /\ Placed /\ Told /\ at \in Nat /\ answers \in Seq(AnswerRecord) /\ frame \in Nat
  BY DEF OrderInv, ServerInv, ServerTypeOK, InOrder, CloseBatch
<1>2. Len(line.items) \in Nat /\ Len(answers) \in Nat /\ DOMAIN answers = 1..Len(answers)
  BY <1>1, LineItems, LenProperties
<1>3. OwedSoFar = Owed(line)
  <2>1. at = Len(line.items) + 1
    BY <1>1, <1>2 DEF CloseBatch, Placed
  <2>2. at - 1 = Len(line.items)
    BY <1>2, <2>1
  <2> QED
    BY <2>2 DEF OwedSoFar, Owed, Picked
<1>4. /\ phase' = "answered" /\ max' = max /\ line' = line /\ Owed(line)' = Owed(line)
      /\ answers' = answers /\ negotiated' = negotiated
      /\ reply' = IF answers = <<>> THEN Silence ELSE Closed
  BY DEF CloseBatch, Finish, Owed, Owing, array, connection
<1>5. Owed(line) \in Seq(Message) /\ Len(Owed(line)) = Len(answers)
  BY <1>1, <1>3, OwedByKind DEF Placed
<1>6. CASE answers = <<>>
  <2>1. Owed(line) = <<>>
    BY <1>5, <1>6, EmptySeq
  <2>2. reply' = Silence /\ line'.items # <<>> /\ Owed(line)' = <<>>
    BY <1>1, <1>4, <1>6, <2>1
  <2> QED
    BY <1>4, <2>2, Zenon DEF OneAnswerEach, HandshakeIsTheOneTold, InOrder
<1>7. CASE answers # <<>>
  <2>1. reply' = Closed /\ Closed.array = TRUE /\ Closed.answers = answers
    BY <1>4, <1>7 DEF Closed
  <2>2. Owed(line)' # <<>>
    BY <1>2, <1>4, <1>5, <1>7, EmptySeq
  <2>3. reply' # Silence
    <3>1. Closed \in Reply
      BY <1>1 DEF Closed, Reply
    <3> QED
      BY <2>1, <3>1, SilenceAssumption
  <2>4. ASSUME NEW k \in 1..Len(Owed(line)') PROVE AddressedTo(reply, k, Owed(line)[k])'
    <3>1. AddressedTo(Closed, k, OwedSoFar[k])
      BY <1>1, <1>4, <1>5 DEF Placed
    <3>2. Owed(line)'[k] = OwedSoFar[k]
      BY <1>3, <1>4
    <3>3. RoomOf(reply, k)' = RoomOf(Closed, k)
      BY <1>4, <2>1 DEF RoomOf
    <3>4. RefusalOf(reply, k)' = RefusalOf(Closed, k)
      BY <1>4, <2>1, <3>3 DEF RefusalOf
    <3> QED
      BY <2>1, <3>1, <3>2, <3>3, <3>4 DEF AddressedTo
  <2>5. OneAnswerEach'
    <3>1. reply'.array = (line'.kind = "batch") /\ Len(reply'.answers) = Len(Owed(line)')
      BY <1>1, <1>4, <1>5, <2>1
    <3> QED
      BY <1>4, <2>2, <2>3, <2>4, <3>1, Zenon DEF OneAnswerEach
  <2>6. HandshakeIsTheOneTold'
    BY <1>1, <1>2, <1>3, <1>4, <2>1 DEF HandshakeIsTheOneTold, Told
  <2> QED
    BY <1>4, <2>5, <2>6 DEF InOrder
<1> QED
  BY <1>6, <1>7

\* A member that does not fit takes its batch with it.
LEMMA CollapseOrders ==
  ASSUME OrderInv, HandleMember, phase' # "handling"
  PROVE  InOrder' /\ OneAnswerEach' /\ HandshakeIsTheOneTold'
<1> DEFINE a == Answer(NoId, "oversize", OversizeBody(max))
           r == Single(RenderBounded(a, max))
<1>1. /\ phase' = "answered" /\ reply' = r /\ max' = max /\ line' = line
      /\ line.kind = "batch"
  BY DEF HandleMember, Finish
<1>2. max \in Nat
  BY ServerAssumption DEF OrderInv, ServerInv, ServerTypeOK
<1>3. a \in AnswerRecord /\ a.width # 0 /\ a.id = NoId /\ a.what = "oversize"
  <2>1. OversizeBody(max) \in Nat \ {0} /\ "oversize" \in Bodies /\ NoId \in Ids \cup {NoId}
    BY <1>2, WidthOfNumbers DEF Bodies
  <2> DEFINE body == OversizeBody(max)
  <2> HIDE DEF body
  <2>2. Answer(NoId, "oversize", body) \in AnswerRecord
        /\ Answer(NoId, "oversize", body).width # 0
    BY <2>1, AnswersAreRecords DEF body
  <2>3. Answer(NoId, "oversize", body).id = NoId
        /\ Answer(NoId, "oversize", body).what = "oversize"
    BY DEF Answer
  <2> QED
    BY <2>2, <2>3 DEF body
<1>4. /\ r # Silence /\ r.array = FALSE /\ Len(r.answers) = 1
      /\ r.answers[1].id = NoId /\ r.answers[1].what = "oversize"
  <2> HIDE DEF a
  <2> QED
    BY <1>2, <1>3, SingleFrame
<1>5. \A k \in DOMAIN r.answers : k = 1
  BY DEF Single
<1> HIDE DEF r
<1>6. OneAnswerEach'
  <2>0. Owed(line)' # <<>>
    <3>1. line \in Line /\ at \in 1..Len(line.items) /\ ~IsNotification(line.items[at])
      BY DEF OrderInv, ServerInv, ServerTypeOK, InOrder, Placed, HandleMember, Finish,
         Unanswered
    <3> QED
      BY <1>1, <3>1, SomeoneIsOwed DEF Owed, Owing
  <2>1. /\ reply' # Silence /\ ~reply'.array /\ Len(reply'.answers) = 1
        /\ reply'.answers[1].id = NoId /\ line'.kind = "batch"
        /\ reply'.answers[1].what \in {"oversize", "internal_error"}
    BY <1>1, <1>4
  <2> QED
    BY <1>1, <2>0, <2>1, Zenon DEF OneAnswerEach
<1>7. HandshakeIsTheOneTold'
  BY <1>1, <1>4, <1>5 DEF HandshakeIsTheOneTold
<1> QED
  BY <1>1, <1>6, <1>7 DEF InOrder

\* Every step.
LEMMA OrderKept == OrderInv /\ [ServerNext]_serverVars => OrderInv'
<1> SUFFICES ASSUME OrderInv, [ServerNext]_serverVars PROVE OrderInv'
  OBVIOUS
<1>1. ServerInv'
  BY ServerStepKeeps DEF OrderInv
<1>2. SUFFICES InOrder' /\ OneAnswerEach' /\ HandshakeIsTheOneTold'
  BY <1>1 DEF OrderInv
<1>3. ASSUME Handle PROVE line \in Line /\ ServerInv
  BY <1>3 DEF Handle, Blank, Unparsable, HandleSingle, EmptyBatch, HandleMember, CloseBatch,
     Panic, OrderInv, ServerInv, ServerTypeOK
<1>4. CASE \E l \in Line : Take(l)
  BY <1>4, TakeOrders
<1>5. CASE Blank
  <2>1. phase' = "answered" /\ reply' = Silence /\ line'.kind = "blank"
    BY <1>5 DEF Blank, Finish
  <2> QED
    BY <2>1, Zenon DEF InOrder, OneAnswerEach, HandshakeIsTheOneTold
<1>6. CASE Unparsable \/ EmptyBatch
  <2>3. line \in Line /\ ServerInv
    BY <1>3, <1>6 DEF Handle
  <2>1. /\ phase = "handling"
        /\ line.kind = "unparsable" \/ line = [kind |-> "batch", items |-> <<>>]
        /\ Refuse(NoId, "parse_error") \/ Refuse(NoId, "invalid_request")
    BY <1>6, <2>3 DEF Unparsable, EmptyBatch, Line
  <2>2. {"parse_error", "invalid_request"} \subseteq Codes
    BY DEF Codes
  <2> QED
    BY <2>1, <2>2, <2>3, RefuseOrders
<1>7. CASE HandleSingle
  BY <1>7, SingleOrders
<1>8. CASE HandleMember
  BY <1>8, MemberOrders, CollapseOrders
<1>9. CASE CloseBatch
  BY <1>9, CloseOrders
<1>10. CASE Panic
  <2>1. /\ phase = "handling" /\ Refuse(RecoverId, "internal_error")
        /\ line.kind \in {"message", "batch"} /\ ~IsNotification(line.items[at])
    BY <1>10 DEF Panic, Unanswered
  <2>5. line \in Line /\ ServerInv
    BY <1>3, <1>10 DEF Handle
  <2>2. line.kind = "message" => at = 1
    BY <2>1 DEF OrderInv, InOrder, Placed
  <2>3. RecoverId \in Ids \cup {NoId} /\ "internal_error" \in Codes
    BY IdsRead DEF RecoverId, Codes
  <2>4. \/ RecoverId = NoId /\ line.kind = "batch" /\ Owed(line) # <<>>
        \/ /\ line.kind = "message" /\ ~IsNotification(line.items[1])
           /\ RecoverId = ReadId(line.items[1])
    <3>1. at \in 1..Len(line.items)
      BY <1>10, <2>1, <2>5, LineItems, LenProperties DEF OrderInv, InOrder, Placed, Panic
    <3>2. Owed(line) # <<>>
      BY <2>1, <2>5, <3>1, SomeoneIsOwed
    <3> QED
      BY <2>1, <2>2, <3>2 DEF RecoverId
  <2> QED
    BY <2>1, <2>3, <2>4, <2>5, RefuseOrders
<1>11. CASE UNCHANGED serverVars
  <2>1. InOrder'
    BY <1>11 DEF serverVars, connection, array, OrderInv, InOrder, Placed, Told, OwedSoFar,
       Owing, AddressedTo, RoomOf, RefusalOf, Closed, Comma
  <2>2. OneAnswerEach' /\ HandshakeIsTheOneTold'
    BY <1>11 DEF serverVars, connection, array, OrderInv, OneAnswerEach,
       HandshakeIsTheOneTold, AddressedTo, RoomOf, RefusalOf, Owed, Owing
  <2> QED
    BY <2>1, <2>2
<1> QED
  BY <1>4, <1>5, <1>6, <1>7, <1>8, <1>9, <1>10, <1>11 DEF ServerNext, Handle

LEMMA OrderAtStart == ServerInit => OrderInv
BY AtStart DEF ServerInit, OrderInv, InOrder, OneAnswerEach, HandshakeIsTheOneTold

----------------------------------------------------------------------------
(* The theorems.                                                            *)

\* Type correctness; the flag and the revision agree, after a panic too.
THEOREM ServerTypes == ServerSpec => []ServerTypeOK
<1>1. ServerInv => ServerTypeOK
  BY DEF ServerInv
<1> QED
  BY <1>1, AtStart, ServerStepKeeps, PTL DEF ServerSpec

\* From 95 bytes on no frame is wider than the limit, whatever the messages, however long
\* the batch and wherever its members starve each other.
\* (render_within, handle_batch, with_max_message_bytes)
THEOREM EveryFrameFits == ServerSpec => []FramesFit
<1>1. ServerInv => FramesFit
  BY DEF ServerInv
<1> QED
  BY <1>1, AtStart, ServerStepKeeps, PTL DEF ServerSpec

\* A connection is negotiated once: no later line, batch member or panic changes it.
\* (initialize, Shake)
THEOREM NegotiatedOnce == ServerSpec => HandshakeOnce
<1>1. ServerInv /\ [ServerNext]_serverVars => [handshaked => UNCHANGED connection]_serverVars
  BY NeverAgain
<1> QED
  BY <1>1, AtStart, ServerStepKeeps, PTL DEF ServerSpec, HandshakeOnce

\* One answer each, for any messages and batches of any length: silence where none is
\* owed, else one frame with the answers in the members' order, each addressed to its own
\* member wherever its refusal could be fitted with an id; or one answer to nobody for a
\* line that cannot be answered member by member.
\* (handle_line, handle_batch, fit_member, handle, recover_id)
THEOREM EveryMemberIsAnswered == ServerSpec => []OneAnswerEach
<1>1. OrderInv => OneAnswerEach
  BY DEF OrderInv
<1> QED
  BY <1>1, OrderAtStart, OrderKept, PTL DEF ServerSpec

\* A client told of a handshake was told the revision that stands, and no other member of
\* its line was told of one.  (initialize, handle_batch)
THEOREM TheHandshakeTold == ServerSpec => []HandshakeIsTheOneTold
<1>1. OrderInv => HandshakeIsTheOneTold
  BY DEF OrderInv
<1> QED
  BY <1>1, OrderAtStart, OrderKept, PTL DEF ServerSpec

-----------------------------------------------------------------------------
(* A session *)

SessionInv == SessionTypeOK /\ ServerInv

\* A line that is text is one of the server's.
LEMMA TextLines == \A l \in Wire : l.kind \notin Garbled => l \in Line
BY DEF Wire, Garbled

\* The line the loop takes is one the client sent.
LEMMA NextLine ==
  ASSUME SessionTypeOK, inbox # <<>>
  PROVE  /\ Head(inbox) = now + 1 /\ Head(inbox) \in 1..Len(asked)
         /\ asked[Head(inbox)] \in Wire
         /\ Tail(inbox) \in Seq(Nat) /\ Len(Tail(inbox)) = Len(inbox) - 1
         /\ Len(inbox) \in Nat /\ Len(asked) \in Nat
         /\ \A k \in 1..Len(Tail(inbox)) :
              Tail(inbox)[k] = Len(asked) - Len(Tail(inbox)) + k
<1>1. inbox \in Seq(Nat) /\ asked \in Seq(Wire) /\ Len(inbox) <= Len(asked)
  BY DEF SessionTypeOK
<1>2. Len(inbox) \in Nat \ {0} /\ Len(asked) \in Nat
  BY <1>1, EmptySeq, LenProperties
<1>3. Head(inbox) = inbox[1] /\ inbox[1] = Len(asked) - Len(inbox) + 1
  BY <1>1, <1>2 DEF SessionTypeOK
<1>4. Head(inbox) = now + 1 /\ Head(inbox) \in 1..Len(asked)
  <2>1. now = Len(asked) - Len(inbox) /\ Len(inbox) <= Len(asked)
    BY DEF SessionTypeOK
  <2> QED
    BY ONLY <1>2, <1>3, <2>1
<1>5. asked[Head(inbox)] \in Wire
  BY <1>1, <1>4
<1>6. /\ Tail(inbox) \in Seq(Nat) /\ Len(Tail(inbox)) = Len(inbox) - 1
      /\ \A k \in 1..Len(Tail(inbox)) : Tail(inbox)[k] = inbox[k + 1]
  BY <1>1, HeadTailProperties
<1>7. ASSUME NEW k \in 1..Len(Tail(inbox))
      PROVE  Tail(inbox)[k] = Len(asked) - Len(Tail(inbox)) + k
  <2>1. k + 1 \in 1..Len(inbox)
    BY <1>2, <1>6
  <2>2. inbox[k + 1] = Len(asked) - Len(inbox) + (k + 1)
    BY <2>1 DEF SessionTypeOK
  <2> QED
    BY <1>2, <1>6, <2>2
<1> QED
  BY <1>2, <1>4, <1>5, <1>6, <1>7

----------------------------------------------------------------------------
(* The session's steps are the server's, or none of its business.           *)

LEMMA SessionStepServes ==
  SessionInv /\ [SessionNext]_sessionVars => [ServerNext]_serverVars
<1> SUFFICES ASSUME SessionInv, [SessionNext]_sessionVars PROVE [ServerNext]_serverVars
  OBVIOUS
<1>1. CASE ReadLine
  <2>1. asked[Head(inbox)] \in Wire
    BY <1>1, NextLine DEF ReadLine, SessionInv
  <2>2. CASE UNCHANGED serverVars
    BY <2>2
  <2>3. CASE asked[Head(inbox)].kind \notin Garbled /\ Take(asked[Head(inbox)])
    BY <2>1, <2>3, TextLines DEF ServerNext
  <2> QED
    BY <1>1, <2>2, <2>3 DEF ReadLine
<1>2. CASE HandleLine
  BY <1>2 DEF HandleLine, ServerNext
<1>3. CASE ~ReadLine /\ ~HandleLine
  BY <1>3 DEF SessionNext, Serve, Send, Shut, ReadReply, Leave, Eof, WriteAll, Flush,
     FlushMeetsNobody, FlushFails, FlushFailsWith, ReadFails, Rest, sessionVars
<1> QED
  BY <1>1, <1>2, <1>3

\* What concerns the lines, and what concerns the frames.
LinesOK ==
  /\ manner \in Manners /\ quota \in Quotas /\ shut \in BOOLEAN
  /\ asked \in Seq(Wire) /\ Len(asked) <= quota
  /\ inbox \in Seq(Nat) /\ Len(inbox) <= InRoom /\ Len(inbox) <= Len(asked)
  /\ \A k \in 1..Len(inbox) : inbox[k] = Len(asked) - Len(inbox) + k
  /\ now = Len(asked) - Len(inbox)

FramesOK ==
  /\ outbox \in Seq(Sent) /\ Len(outbox) <= OutRoom /\ seen \in Seq(Sent) /\ left \in BOOLEAN
  /\ held \in Seq(Sent) /\ Len(held) <= 1
  /\ step \in {"read", "handle"} => held = <<>>
  /\ step \in {"write", "flush"} => held # <<>>
  /\ step \in {"read", "handle", "write", "flush", "ok", "err"}

LEMMA InvParts == SessionInv <=> ServerInv /\ LinesOK /\ FramesOK
BY DEF SessionInv, SessionTypeOK, LinesOK, FramesOK, ServerInv

LEMMA LinesStay ==
  LinesOK /\ UNCHANGED <<manner, quota, shut, asked, inbox, now>> => LinesOK'
BY DEF LinesOK

LEMMA FramesStay ==
  FramesOK /\ UNCHANGED <<outbox, seen, left, held, step>> => FramesOK'
BY DEF FramesOK

\* The steps of the client.
LEMMA ClientKeeps ==
  ASSUME LinesOK, FramesOK, Send \/ Shut \/ ReadReply \/ Leave
  PROVE  LinesOK' /\ FramesOK'
<1>1. CASE Send
  <2>1. PICK l \in Wire : asked' = Append(asked, l)
    BY <1>1 DEF Send
  <2>2. inbox' = Append(inbox, Len(asked) + 1)
    BY <1>1 DEF Send
  <2>3. Len(asked) \in Nat /\ Len(inbox) \in Nat /\ Len(asked) + 1 \in Nat
    BY LenProperties DEF LinesOK
  <2>4. /\ asked' \in Seq(Wire) /\ Len(asked') = Len(asked) + 1
    BY <2>1, AppendProperties DEF LinesOK
  <2>5. /\ inbox' \in Seq(Nat) /\ Len(inbox') = Len(inbox) + 1
        /\ \A k \in 1..Len(inbox) : inbox'[k] = inbox[k]
        /\ inbox'[Len(inbox) + 1] = Len(asked) + 1
    BY <2>2, <2>3, AppendProperties DEF LinesOK
  <2>6. Len(asked) < quota /\ Len(inbox) < InRoom /\ quota \in Nat /\ InRoom \in Nat
    BY <1>1, SessionAssumption, ServerAssumption DEF Send, MaySend, LinesOK
  <2>7. \A k \in 1..Len(inbox') : inbox'[k] = Len(asked') - Len(inbox') + k
    <3> TAKE k \in 1..Len(inbox')
    <3>1. CASE k \in 1..Len(inbox)
      <4>1. inbox[k] = Len(asked) - Len(inbox) + k
        BY <3>1 DEF LinesOK
      <4> QED
        BY <2>3, <2>4, <2>5, <3>1, <4>1
    <3>2. CASE k = Len(inbox) + 1
      BY <2>3, <2>4, <2>5, <3>2
    <3> QED
      BY <2>3, <2>5, <3>1, <3>2
  <2>8. /\ UNCHANGED <<manner, quota, shut, now>>
        /\ Len(asked') <= quota /\ Len(inbox') <= InRoom /\ Len(inbox') <= Len(asked')
        /\ now = Len(asked') - Len(inbox')
    BY <1>1, <2>3, <2>4, <2>5, <2>6 DEF Send, loopState, LinesOK
  <2>9. LinesOK'
    BY <2>4, <2>5, <2>7, <2>8 DEF LinesOK
  <2> QED
    BY <1>1, <2>9, FramesStay DEF Send, loopState
<1>2. CASE Shut
  <2>1. LinesOK'
    BY <1>2 DEF Shut, loopState, LinesOK
  <2> QED
    BY <1>2, <2>1, FramesStay DEF Shut, loopState
<1>3. CASE ReadReply
  <2>1. /\ Head(outbox) \in Sent /\ Tail(outbox) \in Seq(Sent)
        /\ Len(Tail(outbox)) = Len(outbox) - 1 /\ Len(outbox) \in Nat
    BY <1>3, HeadTailProperties, LenProperties DEF ReadReply, FramesOK
  <2>2. outbox' \in Seq(Sent) /\ Len(outbox') <= OutRoom /\ seen' \in Seq(Sent)
    BY <1>3, <2>1, AppendProperties, SessionAssumption DEF ReadReply, FramesOK
  <2>3. FramesOK'
    BY <1>3, <2>2 DEF ReadReply, loopState, FramesOK
  <2> QED
    BY <1>3, <2>3, LinesStay DEF ReadReply, loopState
<1>4. CASE Leave
  <2>1. FramesOK'
    BY <1>4 DEF Leave, loopState, FramesOK
  <2> QED
    BY <1>4, <2>1, LinesStay DEF Leave, loopState
<1> QED
  BY <1>1, <1>2, <1>3, <1>4

\* A frame is put into an empty buffer.
LEMMA HoldKeeps ==
  ASSUME FramesOK, held = <<>>, NEW f \in Sent, Hold(f), UNCHANGED <<outbox, seen, left>>
  PROVE  FramesOK'
<1>1. held' \in Seq(Sent) /\ Len(held') = 1
  <2>1. held \in Seq(Sent) /\ Len(held) = 0
    BY DEF FramesOK
  <2> QED
    BY <2>1, AppendProperties DEF Hold
<1>2. held' # <<>>
  BY <1>1
<1> QED
  BY <1>1, <1>2 DEF Hold, FramesOK

\* The steps of the loop.
LEMMA LoopKeeps ==
  ASSUME SessionInv, ServerInv', Serve \/ ReadFails \/ FlushFails
  PROVE  LinesOK' /\ FramesOK'
<1>1. LinesOK /\ FramesOK /\ SessionTypeOK
  BY InvParts DEF SessionInv
<1>2. CASE ReadLine
  <2>1. /\ now' = now + 1 /\ now' \in Nat /\ inbox' = Tail(inbox)
        /\ UNCHANGED <<asked, manner, quota, shut>>
    BY <1>1, <1>2, NextLine DEF ReadLine, clientState
  <2>2. LinesOK'
    BY <1>1, <1>2, <2>1, NextLine, SessionAssumption DEF ReadLine, LinesOK
  <2>3. held = <<>> /\ UNCHANGED <<outbox, seen, left>>
    BY <1>1, <1>2 DEF ReadLine, clientState, FramesOK
  <2>4. CASE Hold([of |-> now', answers |-> <<>>])
    <3>1. [of |-> now', answers |-> <<>>] \in Sent
      BY <2>1 DEF Sent
    <3> QED
      BY <1>1, <2>2, <2>3, <2>4, <3>1, HoldKeeps
  <2>5. CASE step' = "handle" /\ UNCHANGED held
    BY <1>1, <2>2, <2>3, <2>5 DEF FramesOK
  <2> QED
    BY <1>2, <2>4, <2>5 DEF ReadLine
<1>3. CASE HandleLine
  <2>1. LinesOK'
    BY <1>1, <1>3, LinesStay DEF HandleLine, clientState
  <2>2. held = <<>> /\ UNCHANGED <<outbox, seen, left>>
    BY <1>1, <1>3 DEF HandleLine, clientState, FramesOK
  <2>3. CASE reply' # Silence /\ Hold([of |-> now, answers |-> reply'.answers])
    <3>1. reply'.answers \in Seq(AnswerRecord)
      BY <2>3 DEF ServerInv, ServerTypeOK, Reply
    <3>2. now \in Nat
      <4>1. Len(asked) \in Nat /\ Len(inbox) \in Nat
        BY <1>1, LenProperties DEF LinesOK
      <4> QED
        BY <1>1, <4>1 DEF LinesOK
    <3>3. [of |-> now, answers |-> reply'.answers] \in Sent
      BY <3>1, <3>2 DEF Sent
    <3> QED
      BY <1>1, <2>1, <2>2, <2>3, <3>3, HoldKeeps
  <2>4. CASE step' \in {"read", step} /\ UNCHANGED held
    BY <1>1, <1>3, <2>1, <2>2, <2>4 DEF FramesOK, HandleLine
  <2> QED
    BY <1>3, <2>3, <2>4 DEF HandleLine
<1>4. CASE Flush
  <2>1. LinesOK'
    BY <1>1, <1>4, LinesStay DEF Flush, clientState
  <2>2. held # <<>> /\ held \in Seq(Sent) /\ Len(held) <= 1 /\ outbox \in Seq(Sent)
    BY <1>1, <1>4 DEF Flush, FramesOK
  <2>3. /\ Head(held) \in Sent /\ Tail(held) \in Seq(Sent) /\ Len(Tail(held)) = Len(held) - 1
        /\ Len(held) \in Nat
    BY <2>2, HeadTailProperties, LenProperties
  <2>4. held' \in Seq(Sent) /\ Len(held') <= 1
    BY <1>4, <2>2, <2>3 DEF Flush
  <2>5. outbox' \in Seq(Sent) /\ Len(outbox') <= OutRoom
    <3>1. Len(outbox) \in Nat /\ Len(outbox) < OutRoom /\ OutRoom \in Nat
      BY <1>4, <2>2, LenProperties, SessionAssumption DEF Flush
    <3>2. outbox' \in Seq(Sent) /\ Len(outbox') = Len(outbox) + 1
      BY <1>4, <2>2, <2>3, AppendProperties DEF Flush
    <3> QED
      BY <3>1, <3>2
  <2>6. FramesOK'
    BY <1>1, <1>4, <2>4, <2>5 DEF Flush, clientState, FramesOK
  <2> QED
    BY <2>1, <2>6
<1>5. CASE Eof \/ WriteAll \/ FlushMeetsNobody \/ FlushFails \/ ReadFails
  <2>1. LinesOK'
    BY <1>1, <1>5, LinesStay DEF Eof, WriteAll, FlushMeetsNobody, FlushFails, FlushFailsWith,
       ReadFails, clientState
  <2>2. FramesOK'
    BY <1>1, <1>5 DEF Eof, WriteAll, Flushes, FlushMeetsNobody, FlushFails, FlushFailsWith,
       EndedBy, ReadFails, clientState, FramesOK
  <2> QED
    BY <2>1, <2>2
<1> QED
  BY <1>2, <1>3, <1>4, <1>5 DEF Serve

LEMMA SessionStarts == SessionInit => SessionInv
<1> SUFFICES ASSUME SessionInit PROVE SessionInv
  OBVIOUS
<1>1. ServerInv
  BY AtStart DEF SessionInit
<1>2. InRoom \in Nat /\ OutRoom \in Nat
  BY SessionAssumption
<1>3. quota \in Nat
  <2>1. quota \in 0..MaxLines
    BY SessionAssumption DEF SessionInit
  <2> QED
    BY <2>1
<1>4. /\ <<>> \in Seq(Wire) /\ <<>> \in Seq(Nat) /\ <<>> \in Seq(Sent)
      /\ Len(<<>>) = 0
  BY EmptySeq
<1>5. LinesOK
  <2>1. asked = <<>> /\ inbox = <<>> /\ now = 0 /\ shut = FALSE
    BY DEF SessionInit
  <2>2. Len(asked) = 0 /\ Len(inbox) = 0
    BY <1>4, <2>1
  <2>3. asked \in Seq(Wire) /\ inbox \in Seq(Nat)
    BY <1>4, <2>1, Zenon
  <2>4. /\ Len(asked) <= quota /\ Len(inbox) <= InRoom /\ Len(inbox) <= Len(asked)
        /\ now = Len(asked) - Len(inbox)
    BY <1>2, <1>3, <2>1, <2>2
  <2>5. \A k \in 1..Len(inbox) : inbox[k] = Len(asked) - Len(inbox) + k
    BY <2>2
  <2>6. manner \in Manners /\ quota \in Quotas /\ shut \in BOOLEAN
    BY <2>1 DEF SessionInit
  <2> QED
    BY <2>1, <2>3, <2>4, <2>5, <2>6, Zenon DEF LinesOK
<1>6. FramesOK
  <2>1. outbox = <<>> /\ seen = <<>> /\ held = <<>> /\ left = FALSE /\ step = "read"
    BY DEF SessionInit
  <2>2. outbox \in Seq(Sent) /\ seen \in Seq(Sent) /\ held \in Seq(Sent)
    BY <1>4, <2>1, Zenon
  <2>3. Len(outbox) = 0 /\ Len(held) = 0
    BY <1>4, <2>1
  <2>4. Len(outbox) <= OutRoom /\ Len(held) <= 1
    BY <1>2, <2>3
  <2>5. step \notin {"write", "flush"} /\ left \in BOOLEAN
    BY <2>1
  <2> QED
    BY <2>1, <2>2, <2>4, <2>5 DEF FramesOK
<1> QED
  BY <1>1, <1>5, <1>6, InvParts

LEMMA SessionStepKeeps == SessionInv /\ [SessionNext]_sessionVars => SessionInv'
<1> SUFFICES ASSUME SessionInv, [SessionNext]_sessionVars PROVE SessionInv'
  OBVIOUS
<1>1. ServerInv'
  <2>1. ServerInv /\ [ServerNext]_serverVars
    BY SessionStepServes DEF SessionInv
  <2> QED
    BY <2>1, ServerStepKeeps
<1>2. LinesOK /\ FramesOK
  BY InvParts
<1>0. LinesOK' /\ FramesOK' => SessionInv'
  BY <1>1 DEF SessionInv, SessionTypeOK, LinesOK, FramesOK, ServerInv
<1>3. CASE Send \/ Shut \/ ReadReply \/ Leave
  BY <1>0, <1>2, <1>3, ClientKeeps
<1>4. CASE Serve \/ ReadFails \/ FlushFails
  BY <1>0, <1>1, <1>4, LoopKeeps
<1>5. CASE UNCHANGED sessionVars
  <2>1. LinesOK' /\ FramesOK'
    BY <1>2, <1>5, LinesStay, FramesStay DEF sessionVars, clientState, loopState
  <2> QED
    BY <1>0, <2>1
<1> QED
  BY <1>3, <1>4, <1>5 DEF SessionNext, Rest

----------------------------------------------------------------------------
(* In step: the frames that left are those owed for the lines handled.      *)

\* The lines the loop is done with, but for writing.
Handled == IF step = "handle" THEN now - 1 ELSE now

\* What is owed for them, and what left the loop or is held by it.
OwedByNow == PickedUpTo(Indexes(asked), OwingLines(asked))[Handled]
Frames == seen \o outbox \o held

\* The frames are just that, and the server is at the line the loop is at.
CaughtUp ==
  /\ ReplyOf(Frames) = OwedByNow
  /\ step = "handle" =>
       /\ phase = "handling" /\ now \in 1..Len(asked)
       /\ line = asked[now] /\ line.kind \notin Garbled
  /\ step = "ok" => left \/ (shut /\ inbox = <<>> /\ held = <<>>)

StepInv == SessionInv /\ OrderInv /\ CaughtUp

\* The indexes of the lines, and those of one line more.
LEMMA IndexesCount ==
  ASSUME NEW A, NEW ls \in Seq(A)
  PROVE  /\ Indexes(ls) \in Seq(Nat) /\ Len(Indexes(ls)) = Len(ls) /\ Len(ls) \in Nat
         /\ \A k \in 1..Len(ls) : Indexes(ls)[k] = k
<1>1. Len(ls) \in Nat /\ DOMAIN ls = 1..Len(ls)
  BY LenProperties
<1>2. Indexes(ls) = [k \in 1..Len(ls) |-> k]
  BY <1>1 DEF Indexes
<1> QED
  BY <1>1, <1>2

LEMMA IndexesGrow ==
  ASSUME NEW A, NEW ls \in Seq(A), NEW l \in A
  PROVE  /\ Indexes(Append(ls, l)) = Append(Indexes(ls), Len(ls) + 1)
         /\ \A k \in 1..Len(ls) : k \in OwingLines(Append(ls, l)) <=> k \in OwingLines(ls)
<1> DEFINE more == Append(ls, l)
<1>1. /\ more \in Seq(A) /\ Len(more) = Len(ls) + 1 /\ Len(ls) \in Nat
      /\ \A k \in 1..Len(ls) : more[k] = ls[k]
      /\ DOMAIN more = 1..Len(ls) + 1 /\ DOMAIN ls = 1..Len(ls)
  BY AppendProperties, LenProperties
<1> HIDE DEF more
<1>2. Indexes(more) = Append(Indexes(ls), Len(ls) + 1)
  <2> DEFINE s == Indexes(more)
             t == Append(Indexes(ls), Len(ls) + 1)
  <2>1. /\ s \in Seq(Nat) /\ Len(s) = Len(ls) + 1
        /\ \A k \in 1..Len(ls) + 1 : s[k] = k
    BY <1>1, IndexesCount
  <2>2. /\ Indexes(ls) \in Seq(Nat) /\ Len(Indexes(ls)) = Len(ls) /\ Len(ls) + 1 \in Nat
        /\ \A k \in 1..Len(ls) : Indexes(ls)[k] = k
    BY <1>1, IndexesCount
  <2>3. /\ t \in Seq(Nat) /\ Len(t) = Len(ls) + 1
        /\ \A k \in 1..Len(ls) + 1 : t[k] = k
    BY <1>1, <2>2, AppendProperties
  <2> HIDE DEF s, t
  <2>4. s = t
    BY <2>1, <2>3, SeqEqual
  <2> QED
    BY <2>4 DEF s, t
<1>3. \A k \in 1..Len(ls) : k \in OwingLines(more) <=> k \in OwingLines(ls)
  BY <1>1 DEF OwingLines
<1> QED
  BY <1>2, <1>3 DEF more

\* Whose frames they are, and of one frame more.
LEMMA RepliesCount ==
  ASSUME NEW frames \in Seq(Sent)
  PROVE  /\ ReplyOf(frames) \in Seq(Nat) /\ Len(ReplyOf(frames)) = Len(frames)
         /\ Len(frames) \in Nat
         /\ \A k \in 1..Len(frames) : ReplyOf(frames)[k] = frames[k].of
<1>1. Len(frames) \in Nat /\ DOMAIN frames = 1..Len(frames)
  BY LenProperties
<1>2. ReplyOf(frames) = [k \in 1..Len(frames) |-> frames[k].of]
  BY <1>1 DEF ReplyOf
<1>3. \A k \in 1..Len(frames) : frames[k].of \in Nat
  <2> TAKE k \in 1..Len(frames)
  <2>1. frames[k] \in Sent
    BY <1>1
  <2> QED
    BY <2>1 DEF Sent
<1> QED
  BY <1>1, <1>2, <1>3

LEMMA OneReplyMore ==
  ASSUME NEW frames \in Seq(Sent), NEW f \in Sent
  PROVE  ReplyOf(Append(frames, f)) = Append(ReplyOf(frames), f.of)
<1> DEFINE s == ReplyOf(Append(frames, f))
           t == Append(ReplyOf(frames), f.of)
           more == Append(frames, f)
<1>1. /\ more \in Seq(Sent) /\ Len(more) = Len(frames) + 1 /\ Len(frames) \in Nat
      /\ \A k \in 1..Len(frames) : more[k] = frames[k]
      /\ more[Len(frames) + 1] = f
  BY AppendProperties, LenProperties
<1>2. f.of \in Nat
  BY DEF Sent
<1> HIDE DEF more
<1>3. /\ ReplyOf(more) \in Seq(Nat) /\ Len(ReplyOf(more)) = Len(frames) + 1
      /\ \A k \in 1..Len(frames) : ReplyOf(more)[k] = frames[k].of
      /\ ReplyOf(more)[Len(frames) + 1] = f.of
  <2> DEFINE r == ReplyOf(more)
  <2>1. /\ r \in Seq(Nat) /\ Len(r) = Len(more)
        /\ \A k \in 1..Len(more) : r[k] = more[k].of
    BY ONLY <1>1, RepliesCount, Zenon
  <2> HIDE DEF r
  <2>2. /\ Len(frames) + 1 \in 1..Len(more)
        /\ \A k \in 1..Len(frames) : k \in 1..Len(more)
    BY ONLY <1>1
  <2>3. /\ r \in Seq(Nat) /\ Len(r) = Len(frames) + 1
        /\ \A k \in 1..Len(frames) : r[k] = frames[k].of
        /\ r[Len(frames) + 1] = f.of
    BY ONLY <1>1, <2>1, <2>2, Zenon
  <2> QED
    BY <2>3 DEF r
<1>4. /\ t \in Seq(Nat) /\ Len(t) = Len(frames) + 1
      /\ \A k \in 1..Len(frames) : t[k] = frames[k].of
      /\ t[Len(frames) + 1] = f.of
  <2> DEFINE r == ReplyOf(frames)
             x == f.of
  <2>1. /\ r \in Seq(Nat) /\ Len(r) = Len(frames)
        /\ \A k \in 1..Len(frames) : r[k] = frames[k].of
    BY RepliesCount
  <2>2. x \in Nat
    BY <1>2
  <2> HIDE DEF r, x
  <2>3. /\ Append(r, x) \in Seq(Nat) /\ Len(Append(r, x)) = Len(r) + 1
        /\ \A k \in 1..Len(r) : Append(r, x)[k] = r[k]
        /\ Append(r, x)[Len(r) + 1] = x
    BY ONLY <2>1, <2>2, AppendProperties
  <2> QED
    BY <2>1, <2>3 DEF r, x
<1> HIDE DEF t
<1>5. ReplyOf(more) = t
  <2> DEFINE r == ReplyOf(more)
             n == Len(frames)
  <2>1. r \in Seq(Nat) /\ Len(r) = n + 1 /\ \A k \in 1..n : r[k] = t[k]
    BY <1>3, <1>4
  <2>2. r[n + 1] = t[n + 1] /\ t \in Seq(Nat) /\ Len(t) = n + 1 /\ n \in Nat
    BY <1>1, <1>3, <1>4
  <2> HIDE DEF r, n
  <2>3. \A k \in 1..(n + 1) : k \in 1..n \/ k = n + 1
    BY <2>2
  <2>4. \A k \in 1..Len(r) : r[k] = t[k]
    BY ONLY <2>1, <2>2, <2>3, Zenon
  <2> QED
    BY <2>1, <2>2, <2>4, SeqEqual DEF r
<1> QED
  BY <1>5 DEF t, more

\* Moving the first of b behind a changes nothing of the two together.
LEMMA OneMoves ==
  ASSUME NEW A, NEW a \in Seq(A), NEW b \in Seq(A), b # <<>>
  PROVE  /\ Append(a, Head(b)) \in Seq(A) /\ Tail(b) \in Seq(A)
         /\ Append(a, Head(b)) \o Tail(b) = a \o b
<1> DEFINE x == Append(a, Head(b))
           y == Tail(b)
<1>1. /\ Len(a) \in Nat /\ Len(b) \in Nat \ {0} /\ Head(b) = b[1] /\ Head(b) \in A
      /\ y \in Seq(A) /\ Len(y) = Len(b) - 1 /\ \A k \in 1..Len(y) : y[k] = b[k + 1]
  BY EmptySeq, LenProperties, HeadTailProperties
<1>2. /\ x \in Seq(A) /\ Len(x) = Len(a) + 1 /\ x[Len(a) + 1] = b[1]
      /\ \A k \in 1..Len(a) : x[k] = a[k]
  BY <1>1, AppendProperties
<1> HIDE DEF x, y
<1>3. x \o y \in Seq(A) /\ Len(x \o y) = Len(a) + Len(b)
  <2>1. x \o y \in Seq(A) /\ Len(x \o y) = Len(x) + Len(y)
    BY <1>1, <1>2, ConcatProperties
  <2> QED
    BY <1>1, <1>2, <2>1
<1>4. a \o b \in Seq(A) /\ Len(a \o b) = Len(a) + Len(b)
  BY <1>1, ConcatProperties
<1>5. ASSUME NEW k \in 1..Len(a) + Len(b) PROVE (x \o y)[k] = (a \o b)[k]
  <2>0. k \in 1..Len(x) + Len(y) /\ k \in Nat
    BY <1>1, <1>2
  <2>1. (a \o b)[k] = IF k <= Len(a) THEN a[k] ELSE b[k - Len(a)]
    BY ConcatProperties
  <2>2. (x \o y)[k] = IF k <= Len(x) THEN x[k] ELSE y[k - Len(x)]
    BY <1>1, <1>2, <2>0, ConcatProperties
  <2>3. CASE k <= Len(a)
    BY <1>1, <1>2, <2>1, <2>2, <2>3
  <2>4. CASE k = Len(a) + 1
    <3>1. k - Len(a) = 1
      BY <1>1, <2>4
    <3> QED
      BY <1>1, <1>2, <2>1, <2>2, <2>4, <3>1
  <2>5. CASE k > Len(a) + 1
    <3> DEFINE j == k - Len(x)
    <3>1. j \in 1..Len(y) /\ j + 1 = k - Len(a)
      BY <1>1, <1>2, <2>5
    <3>2. y[j] = b[j + 1]
      BY <1>1, <3>1
    <3> QED
      BY <1>1, <1>2, <2>1, <2>2, <2>5, <3>1, <3>2
  <2>6. k <= Len(a) \/ k = Len(a) + 1 \/ k > Len(a) + 1
    BY <1>1, <2>0
  <2> QED
    BY <2>3, <2>4, <2>5, <2>6
<1>6. x \o y = a \o b
  BY <1>3, <1>4, <1>5, SeqEqual
<1> QED
  BY <1>1, <1>2, <1>6 DEF x, y

\* What is owed for one line more.
LEMMA OneLineMore ==
  ASSUME NEW A, NEW ls \in Seq(A), NEW n \in 1..Len(ls)
  PROVE  LET u == PickedUpTo(Indexes(ls), OwingLines(ls))
         IN u[n] = IF OwedAFrame(ls[n]) THEN Append(u[n - 1], n) ELSE u[n - 1]
<1> DEFINE u == PickedUpTo(Indexes(ls), OwingLines(ls))
<1>1. /\ Indexes(ls) \in Seq(Nat) /\ Len(Indexes(ls)) = Len(ls)
      /\ Indexes(ls)[n] = n
  BY IndexesCount
<1>2. n \in OwingLines(ls) <=> OwedAFrame(ls[n])
  BY LenProperties DEF OwingLines
<1>3. u[n] = IF n \in OwingLines(ls) THEN Append(u[n - 1], Indexes(ls)[n]) ELSE u[n - 1]
  <2> DEFINE s == Indexes(ls)
             o == OwingLines(ls)
  <2>1. s \in Seq(Nat) /\ n \in 1..Len(s)
    BY <1>1
  <2> HIDE DEF s, o, u
  <2>2. \A k \in 1..Len(s) : PickedUpTo(s, o)[k] = IF k \in o
                                                THEN Append(PickedUpTo(s, o)[k - 1], s[k])
                                                ELSE PickedUpTo(s, o)[k - 1]
    BY ONLY <2>1, PickedStepwise
  <2> QED
    BY <2>1, <2>2 DEF s, o, u
<1> QED
  BY <1>1, <1>2, <1>3

LEMMA FramesCount ==
  ASSUME FramesOK
  PROVE  /\ seen \in Seq(Sent) /\ outbox \in Seq(Sent) /\ held \in Seq(Sent)
         /\ seen \o outbox \in Seq(Sent) /\ Frames \in Seq(Sent)
<1>1. seen \in Seq(Sent) /\ outbox \in Seq(Sent) /\ held \in Seq(Sent)
  BY DEF FramesOK
<1>2. seen \o outbox \in Seq(Sent)
  BY ONLY <1>1, ConcatProperties
<1>3. (seen \o outbox) \o held \in Seq(Sent)
  BY ONLY <1>1, <1>2, ConcatProperties
<1> QED
  BY <1>1, <1>2, <1>3 DEF Frames

\* A frame is held: it is the last of them.
LEMMA HoldAdds ==
  ASSUME FramesOK, held = <<>>, NEW f \in Sent, Hold(f), UNCHANGED <<outbox, seen>>
  PROVE  ReplyOf(Frames') = Append(ReplyOf(Frames), f.of)
<1> DEFINE s == seen \o outbox
<1>1. s \in Seq(Sent)
  BY FramesCount
<1>2. held' = <<f>>
  BY DEF Hold
<1>3. Frames' = s \o <<f>> /\ Frames = s \o <<>>
  BY <1>2 DEF Frames
<1> HIDE DEF s
<1>4. Frames' = Append(Frames, f)
  <2>1. s \o <<f>> = Append(s, f)
    BY <1>1, AppendIsConcat
  <2>2. s \o <<>> = s
    BY <1>1, ConcatEmptySeq
  <2> QED
    BY <1>3, <2>1, <2>2
<1> QED
  BY <1>4, FramesCount, OneReplyMore

\* Frames pass from the loop to the pipe and from the pipe to the client.
LEMMA FramesPass ==
  ASSUME FramesOK, ReadReply \/ Flush
  PROVE  Frames' = Frames
<1>0. seen \in Seq(Sent) /\ outbox \in Seq(Sent) /\ held \in Seq(Sent)
  BY FramesCount
<1>1. CASE ReadReply
  <2>1. /\ outbox # <<>> /\ seen' = Append(seen, Head(outbox)) /\ outbox' = Tail(outbox)
        /\ held' = held
    BY <1>1 DEF ReadReply, loopState
  <2>2. seen' \o outbox' = seen \o outbox
    BY <1>0, <2>1, OneMoves
  <2> QED
    BY <2>1, <2>2 DEF Frames
<1>2. CASE Flush
  <2>1. /\ held # <<>> /\ outbox' = Append(outbox, Head(held)) /\ held' = Tail(held)
        /\ seen' = seen
    BY <1>2 DEF Flush, clientState, FramesOK
  <2>2. outbox' \in Seq(Sent) /\ held' \in Seq(Sent) /\ outbox' \o held' = outbox \o held
    BY <1>0, <2>1, OneMoves
  <2>3. (seen \o outbox) \o held = seen \o (outbox \o held)
    BY <1>0, ConcatAssociative
  <2>4. (seen \o outbox') \o held' = seen \o (outbox' \o held')
    <3> DEFINE p == outbox'
               q == held'
    <3>1. p \in Seq(Sent) /\ q \in Seq(Sent)
      BY <2>2
    <3> HIDE DEF p, q
    <3>2. seen \in Seq(Sent)
      BY <1>0
    <3>3. (seen \o p) \o q = seen \o (p \o q)
      BY ONLY <3>1, <3>2, ConcatAssociative
    <3> QED
      BY <3>3 DEF p, q
  <2> QED
    BY <2>1, <2>2, <2>3, <2>4 DEF Frames
<1> QED
  BY <1>1, <1>2

\* The lines the loop is done with are lines sent.
LEMMA HandledIsSent ==
  ASSUME LinesOK, CaughtUp
  PROVE  /\ Handled \in 0..Len(asked) /\ now \in 0..Len(asked) /\ Len(asked) \in Nat
         /\ asked \in Seq(Wire)
<1>1. /\ asked \in Seq(Wire) /\ Len(asked) \in Nat /\ Len(inbox) \in Nat
      /\ Len(inbox) <= Len(asked) /\ now = Len(asked) - Len(inbox)
  <2>1. /\ asked \in Seq(Wire) /\ inbox \in Seq(Nat)
        /\ Len(inbox) <= Len(asked) /\ now = Len(asked) - Len(inbox)
    BY DEF LinesOK
  <2> QED
    BY <2>1, LenProperties
<1>2. now \in 0..Len(asked)
  BY <1>1
<1>3. CASE step = "handle"
  BY <1>1, <1>2, <1>3 DEF Handled, CaughtUp
<1>4. CASE step # "handle"
  BY <1>1, <1>2, <1>4 DEF Handled
<1> QED
  BY <1>3, <1>4

\* Nothing that matters here has changed.
LEMMA CatchesUpStill ==
  ASSUME CaughtUp, Frames' = Frames, Handled' = Handled,
         UNCHANGED <<asked, now, line, phase>>, step' = "handle" => step = "handle",
         step' = "ok" => step = "ok" /\ UNCHANGED <<left, shut, inbox, held>>
  PROVE  CaughtUp'
<1>1. OwedByNow' = OwedByNow
  BY DEF OwedByNow
<1>2. ReplyOf(Frames') = OwedByNow'
  BY <1>1 DEF CaughtUp
<1> QED
  BY <1>2 DEF CaughtUp

\* The steps of the client.
LEMMA ClientStaysInStep ==
  ASSUME SessionInv, CaughtUp, Send \/ Shut \/ ReadReply \/ Leave
  PROVE  CaughtUp'
<1>0. LinesOK /\ FramesOK
  BY InvParts
<1>1. /\ UNCHANGED <<phase, line, now, step, held>>
      /\ Handled' = Handled
  BY DEF Send, Shut, ReadReply, Leave, serverVars, loopState, Handled
<1>2. CASE Send
  <2>1. PICK l \in Wire : asked' = Append(asked, l)
    BY <1>2 DEF Send
  <2>2. UNCHANGED <<seen, outbox, left, shut>> /\ shut = FALSE
    BY <1>0, <1>2 DEF Send, MaySend, LinesOK
  <2>3. Frames' = Frames
    BY <1>1, <2>2 DEF Frames
  <2>4. /\ Handled \in 0..Len(asked) /\ asked \in Seq(Wire) /\ Len(asked) \in Nat
    BY <1>0, HandledIsSent
  <2>5. OwedByNow' = OwedByNow
    <3>1. /\ Indexes(asked) \in Seq(Nat) /\ Len(Indexes(asked)) = Len(asked)
          /\ Len(asked) + 1 \in Nat
      BY <2>4, IndexesCount
    <3>2. /\ Indexes(asked') = Append(Indexes(asked), Len(asked) + 1)
          /\ \A k \in 1..Len(asked) : k \in OwingLines(asked') <=> k \in OwingLines(asked)
      BY <2>1, <2>4, IndexesGrow
    <3> DEFINE some == OwingLines(asked)
               more == OwingLines(asked')
               idx == Indexes(asked)
               n == Len(asked) + 1
    <3>3. /\ idx \in Seq(Nat) /\ n \in Nat /\ Handled \in 0..Len(idx)
          /\ \A k \in 1..Len(idx) : k \in more <=> k \in some
      BY <2>4, <3>1, <3>2
    <3>4. OwedByNow' = PickedUpTo(Append(idx, n), more)[Handled]
      BY <1>1, <3>2 DEF OwedByNow
    <3>5. OwedByNow = PickedUpTo(idx, some)[Handled]
      BY DEF OwedByNow
    <3> HIDE DEF some, more, idx, n
    <3>6. PickedUpTo(Append(idx, n), more)[Handled] = PickedUpTo(idx, some)[Handled]
      BY <3>3, PickedGrows
    <3> QED
      BY <3>4, <3>5, <3>6
  <2>6. ASSUME step = "handle"
        PROVE  now \in 1..Len(asked') /\ line = asked'[now]
    <3>1. now \in 1..Len(asked) /\ line = asked[now]
      BY <2>6 DEF CaughtUp
    <3> QED
      BY <2>1, <2>4, <3>1, AppendProperties
  <2> QED
    BY <1>1, <2>2, <2>3, <2>5, <2>6 DEF CaughtUp
<1>3. CASE Shut \/ Leave
  <2>1. UNCHANGED <<asked, inbox, seen, outbox>> /\ (left => left') /\ (shut => shut')
    BY <1>3 DEF Shut, Leave
  <2>2. Frames' = Frames /\ OwedByNow' = OwedByNow
    BY <1>1, <2>1 DEF Frames, OwedByNow
  <2> QED
    BY <1>1, <2>1, <2>2 DEF CaughtUp
<1>4. CASE ReadReply
  <2>1. UNCHANGED <<asked, inbox, left, shut>>
    BY <1>4 DEF ReadReply
  <2>2. Frames' = Frames
    BY <1>0, <1>4, FramesPass
  <2> QED
    BY <1>1, <2>1, <2>2, CatchesUpStill
<1> QED
  BY <1>2, <1>3, <1>4

\* The server is silent exactly where nothing is owed.
LEMMA SilenceIsWhatIsOwed ==
  ASSUME OneAnswerEach', phase' = "answered", line' = line, line \in Line
  PROVE  reply' # Silence <=> OwedAFrame(line)
<1>0. Owed(line)' = Owed(line)
  BY DEF Owed, Owing
<1>1. /\ line.kind \in {"blank", "unparsable", "message", "batch"}
      /\ line.items = <<>> => Owed(line) = <<>>
      /\ line.kind \in {"blank", "unparsable"} => line.items = <<>>
      /\ line.kind = "message" => line.items # <<>>
  BY LineItems, OwedByKind
<1>2. CASE reply' = Silence
  <2>1. line.kind = "blank" \/ (line.items # <<>> /\ Owed(line) = <<>>)
    BY <1>0, <1>2 DEF OneAnswerEach
  <2> QED
    BY <1>1, <1>2, <2>1 DEF OwedAFrame, Garbled
<1>3. CASE reply' # Silence
  <2>1. \/ Owed(line) # <<>>
        \/ line.kind = "unparsable" \/ line = [kind |-> "batch", items |-> <<>>]
    BY <1>0, <1>3 DEF OneAnswerEach
  <2> QED
    BY <1>1, <1>3, <2>1 DEF OwedAFrame, Garbled
<1> QED
  BY <1>2, <1>3

\* One line more, read and answered without the server.
LEMMA GarbledStaysInStep ==
  ASSUME SessionInv, CaughtUp, ReadLine, asked[now'].kind \in Garbled
  PROVE  CaughtUp'
<1>0. LinesOK /\ FramesOK /\ SessionTypeOK /\ inbox # <<>> /\ step = "read"
  BY InvParts DEF SessionInv, ReadLine
<1>1. /\ now' = now + 1 /\ now' \in 1..Len(asked) /\ now' \in Nat /\ asked' = asked
      /\ now' - 1 = now /\ asked \in Seq(Wire)
  <2>1. now' = now + 1 /\ now' \in 1..Len(asked) /\ asked' = asked
    BY <1>0, NextLine DEF ReadLine, clientState
  <2> QED
    BY <1>0, <2>1, HandledIsSent
<1>2. /\ Hold([of |-> now', answers |-> <<>>]) /\ UNCHANGED <<seen, outbox>>
      /\ held = <<>>
  BY <1>0 DEF ReadLine, clientState, FramesOK
<1>3. [of |-> now', answers |-> <<>>] \in Sent
  BY <1>1 DEF Sent
<1>4. ReplyOf(Frames') = Append(ReplyOf(Frames), now')
  BY <1>0, <1>2, <1>3, HoldAdds
<1>5. step' = "write"
  BY <1>2 DEF Hold
<1>6. OwedByNow' = Append(OwedByNow, now')
  <2> DEFINE n == now'
             u == PickedUpTo(Indexes(asked), OwingLines(asked))
  <2>1. OwedByNow' = u[n] /\ OwedByNow = u[n - 1]
    BY <1>0, <1>1, <1>5 DEF OwedByNow, Handled
  <2>2. OwedAFrame(asked[n])
    BY DEF OwedAFrame
  <2>3. n \in 1..Len(asked)
    BY <1>1
  <2> HIDE DEF n
  <2>4. u[n] = Append(u[n - 1], n)
    BY <1>1, <2>2, <2>3, OneLineMore
  <2> QED
    BY <2>1, <2>4 DEF n
<1> QED
  BY <1>4, <1>5, <1>6 DEF CaughtUp

\* One line more, given to the server.
LEMMA TextStaysInStep ==
  ASSUME SessionInv, CaughtUp, ReadLine, asked[now'].kind \notin Garbled
  PROVE  CaughtUp'
<1>0. LinesOK /\ FramesOK /\ SessionTypeOK /\ inbox # <<>> /\ step = "read"
  BY InvParts DEF SessionInv, ReadLine
<1>1. /\ now' = now + 1 /\ now' \in 1..Len(asked) /\ asked' = asked /\ now' - 1 = now
  <2>1. now' = now + 1 /\ now' \in 1..Len(asked) /\ asked' = asked
    BY <1>0, NextLine DEF ReadLine, clientState
  <2> QED
    BY <1>0, <2>1, HandledIsSent
<1>2. Take(asked[now']) /\ step' = "handle" /\ UNCHANGED <<seen, outbox, held>>
  BY DEF ReadLine, clientState
<1>3. phase' = "handling" /\ line' = asked[now']
  BY <1>2 DEF Take
<1>4. Frames' = Frames
  BY <1>2 DEF Frames
<1>5. OwedByNow' = OwedByNow
  BY <1>0, <1>1, <1>2 DEF OwedByNow, Handled
<1>6. ReplyOf(Frames') = OwedByNow'
  BY <1>4, <1>5 DEF CaughtUp
<1> QED
  BY <1>1, <1>2, <1>3, <1>6 DEF CaughtUp

\* The server is done with the line the loop is at: its frame is held, if it is owed one.
LEMMA AnswerStaysInStep ==
  ASSUME SessionInv, CaughtUp, OneAnswerEach', ServerInv', HandleLine, phase' = "answered"
  PROVE  CaughtUp'
<1>0. LinesOK /\ FramesOK /\ step = "handle" /\ held = <<>>
  BY InvParts DEF HandleLine, FramesOK
<1>1. /\ now \in 1..Len(asked) /\ line = asked[now] /\ line.kind \notin Garbled
      /\ asked \in Seq(Wire)
  BY <1>0 DEF CaughtUp, LinesOK
<1>2. UNCHANGED <<now, asked, seen, outbox>> /\ line' = line
  BY DEF HandleLine, clientState, Handle, Blank, Unparsable, HandleSingle, EmptyBatch,
     HandleMember, CloseBatch, Panic, Refuse, Finish
<1>3. line \in Line
  <2>1. asked[now] \in Wire
    BY <1>1
  <2> QED
    BY <1>1, <2>1, TextLines
<1>4. reply' # Silence <=> OwedAFrame(line)
  BY <1>2, <1>3, SilenceIsWhatIsOwed
<1>5. step' \notin {"handle", "ok"}
  BY DEF HandleLine, Hold
<1> DEFINE u == PickedUpTo(Indexes(asked), OwingLines(asked))
<1>6. OwedByNow' = u[now] /\ OwedByNow = u[now - 1]
  BY <1>0, <1>2, <1>5 DEF OwedByNow, Handled
<1>7. u[now] = IF OwedAFrame(line) THEN Append(u[now - 1], now) ELSE u[now - 1]
  BY <1>1, OneLineMore
<1> HIDE DEF u
<1>8. CASE reply' # Silence
  <2>1. Hold([of |-> now, answers |-> reply'.answers])
    BY <1>8 DEF HandleLine
  <2>2. [of |-> now, answers |-> reply'.answers] \in Sent
    <3>1. reply'.answers \in Seq(AnswerRecord)
      BY <1>8 DEF ServerInv, ServerTypeOK, Reply
    <3>2. now \in Nat
      BY <1>0, <1>1, HandledIsSent
    <3> QED
      BY <3>1, <3>2 DEF Sent
  <2>3. ReplyOf(Frames') = Append(ReplyOf(Frames), now)
    BY <1>0, <1>2, <2>1, <2>2, HoldAdds
  <2>4. ReplyOf(Frames') = OwedByNow'
    BY <1>4, <1>6, <1>7, <1>8, <2>3 DEF CaughtUp
  <2> QED
    BY <1>5, <2>4 DEF CaughtUp
<1>9. CASE reply' = Silence
  <2>1. held' = held
    BY <1>9 DEF HandleLine
  <2>2. Frames' = Frames
    BY <1>2, <2>1 DEF Frames
  <2>3. ReplyOf(Frames') = OwedByNow'
    BY <1>4, <1>6, <1>7, <1>9, <2>2 DEF CaughtUp
  <2> QED
    BY <1>5, <2>3 DEF CaughtUp
<1> QED
  BY <1>8, <1>9

\* The steps of the loop.
LEMMA LoopStaysInStep ==
  ASSUME SessionInv, CaughtUp, OneAnswerEach', ServerInv', Serve \/ ReadFails \/ FlushFails
  PROVE  CaughtUp'
<1>0. LinesOK /\ FramesOK
  BY InvParts
<1>1. CASE ReadLine
  BY <1>1, GarbledStaysInStep, TextStaysInStep
<1>2. CASE HandleLine /\ phase' = "answered"
  BY <1>2, AnswerStaysInStep
<1>3. CASE HandleLine /\ phase' # "answered"
  <2>1. /\ UNCHANGED <<clientState, now, inbox, outbox, step, held>> /\ line' = line
        /\ phase' = "handling" /\ step = "handle"
    BY <1>3 DEF HandleLine, Handle, Blank, Unparsable, HandleSingle, EmptyBatch,
       HandleMember, CloseBatch, Panic, Refuse, Finish
  <2>2. phase' = phase
    BY <2>1 DEF CaughtUp
  <2>3. Frames' = Frames /\ Handled' = Handled
    BY <2>1 DEF Frames, Handled, clientState
  <2> QED
    BY <2>1, <2>2, <2>3, CatchesUpStill DEF clientState
<1>4. CASE Eof
  <2>1. /\ UNCHANGED <<asked, seen, left, shut, now, inbox, outbox, held>> /\ step = "read"
        /\ step' = "ok" /\ shut /\ inbox = <<>>
    BY <1>4 DEF Eof, clientState
  <2>2. held = <<>>
    BY <1>0, <2>1 DEF FramesOK
  <2>3. Frames' = Frames /\ OwedByNow' = OwedByNow
    BY <2>1 DEF Frames, OwedByNow, Handled
  <2> QED
    BY <2>1, <2>2, <2>3 DEF CaughtUp
<1>5. CASE WriteAll \/ FlushFails \/ ReadFails
  <2>1. /\ UNCHANGED <<asked, seen, now, outbox, held, line, phase>>
        /\ step # "handle" /\ step' \notin {"handle", "ok"}
    BY <1>5 DEF WriteAll, Flushes, FlushFails, FlushFailsWith, EndedBy, IsDisconnect,
       ReadFails, clientState, serverVars
  <2>2. Frames' = Frames /\ Handled' = Handled
    BY <2>1 DEF Frames, Handled
  <2> QED
    BY <2>1, <2>2, CatchesUpStill
<1>6. CASE FlushMeetsNobody
  <2>1. /\ UNCHANGED <<asked, seen, now, outbox, held>> /\ left'
        /\ step = "flush" /\ step' = "ok"
    BY <1>6 DEF FlushMeetsNobody, FlushFailsWith, EndedBy, IsDisconnect, clientState
  <2>2. Frames' = Frames /\ OwedByNow' = OwedByNow
    BY <2>1 DEF Frames, OwedByNow, Handled
  <2> QED
    BY <2>1, <2>2 DEF CaughtUp
<1>7. CASE Flush
  <2>1. /\ UNCHANGED <<asked, now, line, phase>>
        /\ step = "flush" /\ step' \notin {"handle", "ok"}
    BY <1>7 DEF Flush, clientState, serverVars
  <2>2. Frames' = Frames /\ Handled' = Handled
    BY <1>0, <1>7, <2>1, FramesPass DEF Handled
  <2> QED
    BY <2>1, <2>2, CatchesUpStill
<1> QED
  BY <1>1, <1>2, <1>3, <1>4, <1>5, <1>6, <1>7 DEF Serve

LEMMA StepsInStep == StepInv /\ [SessionNext]_sessionVars => StepInv'
<1> SUFFICES ASSUME StepInv, [SessionNext]_sessionVars PROVE StepInv'
  OBVIOUS
<1>1. SessionInv' /\ OrderInv'
  <2>1. SessionInv' /\ [ServerNext]_serverVars
    BY SessionStepKeeps, SessionStepServes DEF StepInv
  <2> QED
    BY <2>1, OrderKept DEF StepInv
<1>2. OneAnswerEach' /\ ServerInv'
  BY <1>1 DEF OrderInv
<1>3. CASE Send \/ Shut \/ ReadReply \/ Leave
  BY <1>1, <1>3, ClientStaysInStep DEF StepInv
<1>4. CASE Serve \/ ReadFails \/ FlushFails
  BY <1>1, <1>2, <1>4, LoopStaysInStep DEF StepInv
<1>5. CASE UNCHANGED sessionVars
  <2>1. UNCHANGED <<asked, inbox, seen, outbox, held, step, now, left, shut, line, phase>>
    BY <1>5 DEF sessionVars, serverVars, clientState, loopState
  <2>2. Frames' = Frames /\ Handled' = Handled
    BY <2>1 DEF Frames, Handled
  <2> QED
    BY <1>1, <2>1, <2>2, CatchesUpStill DEF StepInv
<1> QED
  BY <1>3, <1>4, <1>5 DEF SessionNext, Rest

LEMMA StepsStart == SessionInit => StepInv
<1> SUFFICES ASSUME SessionInit PROVE StepInv
  OBVIOUS
<1>1. SessionInv /\ OrderInv
  BY SessionStarts, OrderAtStart DEF SessionInit
<1>2. /\ asked = <<>> /\ seen = <<>> /\ outbox = <<>> /\ held = <<>>
      /\ step = "read" /\ now = 0
  BY DEF SessionInit
<1>3. OwedByNow = <<>>
  <2>1. asked \in Seq(Wire) /\ Indexes(asked) \in Seq(Nat)
    BY <1>1, IndexesCount DEF SessionInv, SessionTypeOK
  <2>2. PickedUpTo(Indexes(asked), OwingLines(asked))[0] = <<>>
    BY <2>1, PickedStepwise
  <2> QED
    BY <1>2, <2>2 DEF OwedByNow, Handled
<1>4. ReplyOf(Frames) = <<>>
  <2>1. Frames \in Seq(Sent) /\ seen \in Seq(Sent) /\ Len(seen) = 0
    BY <1>1, <1>2, FramesCount, InvParts
  <2>2. Frames = seen
    BY <1>2, <2>1, ConcatEmptySeq DEF Frames
  <2> QED
    BY <2>1, <2>2, RepliesCount, EmptySeq
<1> QED
  BY <1>1, <1>2, <1>3, <1>4 DEF StepInv, CaughtUp

----------------------------------------------------------------------------
(* The theorems.                                                            *)

\* The frames that leave are those owed for the lines read, in their order: a client that
\* counts frames stays in step whatever panicked, was refused or was not text in between,
\* and however small the pipes are.  (serve, handle, write_error)
THEOREM FramesStayInStep == SessionSpec => []InStep
<1>1. StepInv => InStep
  <2> SUFFICES ASSUME StepInv PROVE InStep
    OBVIOUS
  <2> DEFINE idx == Indexes(asked)
             owing == OwingLines(asked)
             sent == ReplyOf(Frames)
             owed == Picked(idx, owing)
  <2>1. LinesOK /\ FramesOK /\ CaughtUp
    BY InvParts DEF StepInv
  <2>2. idx \in Seq(Nat) /\ Handled \in 0..Len(idx)
    BY <2>1, HandledIsSent, IndexesCount
  <2>3. sent = PickedUpTo(idx, owing)[Handled] /\ sent \in Seq(Nat)
    BY <2>1, FramesCount, RepliesCount DEF CaughtUp, OwedByNow
  <2>4. owed \in Seq(Nat)
    BY <2>2, PickedStepwise, LenProperties DEF Picked
  <2>5. Len(sent) <= Len(owed) /\ \A i \in 1..Len(sent) : sent[i] = owed[i]
    <3> HIDE DEF idx, owing, sent
    <3> QED
      BY <2>2, <2>3, PickedBegins
  <2> HIDE DEF sent, owed
  <2>6. SubSeq(sent, 1, Len(sent)) = SubSeq(owed, 1, Len(sent))
    BY <2>3, <2>4, <2>5
  <2>7. IsPrefix(sent, owed)
    BY <2>5, <2>6 DEF IsPrefix
  <2> QED
    BY <2>7 DEF sent, owed, idx, owing, InStep, Frames, OwedOf
<1> QED
  BY <1>1, StepsStart, StepsInStep, PTL DEF SessionSpec

\* A loop that ended well has lost no reply: each line read has the frame it was owed in the
\* pipe, unless the client itself stopped listening.  (serve, is_disconnect)
THEOREM OkIsHonest == SessionSpec => []OkLosesNothing
<1>1. StepInv => OkLosesNothing
  <2> SUFFICES ASSUME StepInv, step = "ok", ~left
               PROVE  inbox = <<>> /\ ReplyOf(seen \o outbox) = OwedOf(asked)
    BY DEF OkLosesNothing
  <2>1. LinesOK /\ FramesOK /\ CaughtUp
    BY InvParts DEF StepInv
  <2>2. inbox = <<>> /\ held = <<>>
    BY <2>1 DEF CaughtUp
  <2>3. Handled = Len(asked)
    <3>1. Len(inbox) = 0 /\ now = Len(asked) - Len(inbox) /\ Len(asked) \in Nat
      BY <2>1, <2>2, HandledIsSent, EmptySeq DEF LinesOK
    <3> QED
      BY <3>1 DEF Handled
  <2>4. Frames = seen \o outbox
    BY <2>1, <2>2, FramesCount, ConcatEmptySeq DEF Frames
  <2>5. Len(Indexes(asked)) = Len(asked)
    BY <2>1, IndexesCount DEF LinesOK
  <2> QED
    BY <2>1, <2>2, <2>3, <2>4, <2>5 DEF CaughtUp, OwedByNow, OwedOf, Picked
<1> QED
  BY <1>1, StepsStart, StepsInStep, PTL DEF SessionSpec

\* Type correctness of a session: the pipe holds the lines after the one the loop is at,
\* and the loop holds one frame while it writes and none otherwise.  (serve, write_line)
THEOREM SessionTypes == SessionSpec => []SessionTypeOK
<1>1. SessionInv => SessionTypeOK
  BY DEF SessionInv
<1> QED
  BY <1>1, SessionStarts, SessionStepKeeps, PTL DEF SessionSpec

\* A session implements the server's specification: the loop calls handle_line with the
\* client's lines, one at a time, and changes nothing of the server in between.
\* (serve, handle)
THEOREM SessionServes == SessionSpec => ServerSpec
<1>1. SessionInit => ServerInit
  BY DEF SessionInit
<1> QED
  BY <1>1, SessionStarts, SessionStepKeeps, SessionStepServes, PTL DEF SessionSpec, ServerSpec

-----------------------------------------------------------------------------
(* The line reader, for any limit and any stream: a line never costs more   *)
(* memory than the limit and its framing, however long it is, and what is   *)
(* returned is the stream's lines, one for one.  The second rests on where  *)
(* the reader is in the line after those it has told (OneForOne).           *)

\* A byte is read only where there is room for it.
RoomToRead == where = "reading" => Len(buffer) < Cap

LineInv == LineTypeOK /\ RoomToRead

Texts == {t \in Seq(Bytes) : Len(t) <= Limit}

\* A part of a sequence of bytes is one.
LEMMA PartsOfBytes ==
  ASSUME NEW s \in Seq(Bytes), NEW i \in Nat \ {0}, NEW k \in 0..Len(s)
  PROVE  /\ SubSeq(s, i, k) \in Seq(Bytes)
         /\ Len(SubSeq(s, i, k)) = IF i <= k THEN (k - i) + 1 ELSE 0
<1>1. i \in Int /\ k \in Int /\ Len(s) \in Nat
  OBVIOUS
<1>2. \A j \in i..k : s[j] \in Bytes
  <2> TAKE j \in i..k
  <2>1. j \in 1..Len(s)
    BY <1>1
  <2> QED
    BY <2>1
<1>3. /\ SubSeq(s, i, k) \in Seq(Bytes)
      /\ Len(SubSeq(s, i, k)) = IF i <= k THEN k - i + 1 ELSE 0
  BY <1>1, <1>2, SubSeqProperties
<1> QED
  BY <1>1, <1>3

\* Stripping a line leaves some of its bytes.
LEMMA StrippedIsShorter ==
  ASSUME NEW b \in Seq(Bytes)
  PROVE  Stripped(b) \in Seq(Bytes) /\ Len(Stripped(b)) <= Len(b)
<1>1. ASSUME NEW s \in Seq(Bytes), s # <<>>
      PROVE  Front(s) \in Seq(Bytes) /\ Len(Front(s)) <= Len(s)
  <2>1. Len(s) \in Nat \ {0}
    BY <1>1, EmptySeq, LenProperties
  <2>2. SubSeq(s, 1, Len(s) - 1) \in Seq(Bytes) /\ Len(SubSeq(s, 1, Len(s) - 1)) = Len(s) - 1
    <3> DEFINE k == Len(s) - 1
    <3>1. k \in Nat /\ k <= Len(s)
      BY <2>1
    <3> HIDE DEF k
    <3>2. 1 \in Nat \ {0}
      OBVIOUS
    <3>3. SubSeq(s, 1, k) \in Seq(Bytes) /\ Len(SubSeq(s, 1, k)) = IF 1 <= k THEN (k - 1) + 1 ELSE 0
      <4>1. k \in 0..Len(s)
        BY <2>1, <3>1
      <4> QED
        BY <3>2, <4>1, PartsOfBytes
    <3>4. Len(SubSeq(s, 1, k)) = k
      BY <3>1, <3>3
    <3> QED
      BY <3>3, <3>4 DEF k
  <2> QED
    BY <2>1, <2>2 DEF Front
<1>2. CASE ~IsTerminated(b)
  BY <1>2 DEF Stripped
<1>3. CASE IsTerminated(b)
  <2>1. b # <<>>
    BY <1>3 DEF IsTerminated
  <2>2. Front(b) \in Seq(Bytes) /\ Len(Front(b)) <= Len(b)
    BY <1>1, <2>1
  <2>3. Front(b) # <<>> => Front(Front(b)) \in Seq(Bytes) /\ Len(Front(Front(b))) <= Len(Front(b))
    BY <1>1, <2>2
  <2>4. Len(b) \in Nat /\ Len(Front(b)) \in Nat
    BY <2>2, LenProperties
  <2>5. Stripped(b) \in {Front(b), Front(Front(b))}
    BY <1>3 DEF Stripped
  <2>6. Stripped(b) = Front(Front(b)) /\ Stripped(b) # Front(b) => Front(b) # <<>>
    BY <1>3 DEF Stripped
  <2>7. CASE Stripped(b) = Front(b)
    BY <2>2, <2>7
  <2>8. CASE Stripped(b) # Front(b)
    <3>1. Front(Front(b)) \in Seq(Bytes) /\ Len(Front(Front(b))) \in Nat
      BY <2>3, <2>5, <2>6, <2>8, LenProperties
    <3> QED
      BY <2>2, <2>3, <2>4, <2>5, <2>6, <2>8, <3>1
  <2> QED
    BY <2>7, <2>8
<1> QED
  BY <1>2, <1>3

\* A set of positions has a first one.
LEMMA FirstPosition ==
  ASSUME NEW T, T \subseteq Nat, T # {}
  PROVE  Min(T) \in T /\ \A k \in T : Min(T) <= k
<1> DEFINE below == OpToRel(<, Nat)
<1>1. IsWellFoundedOn(below, Nat)
  BY NatLessThanWellFounded
<1>2. \A j \in Nat, k \in Nat : j < k => <<j, k>> \in below
  BY DEF OpToRel
<1> HIDE DEF below
<1>3. PICK k \in T : \A j \in T : ~ (<<j, k>> \in below)
  BY <1>1, WFMin
<1>4. ASSUME NEW j \in T PROVE k <= j
  <2>1. j \in Nat /\ k \in Nat
    BY <1>3
  <2>2. ~(j < k)
    BY <1>2, <1>3, <2>1
  <2> QED
    BY <2>1, <2>2
<1> QED
  BY <1>4 DEF Min

\* What a turn of skip_to_newline consumes is in the chunk.
LEMMA ConsumesItsChunk ==
  ASSUME NEW chunk \in Seq(Bytes)
  PROVE  Consumed(chunk) \in 0..Len(chunk)
<1> DEFINE newlines == {k \in 1..Len(chunk) : chunk[k] = "lf"}
<1>1. Len(chunk) \in Nat
  BY LenProperties
<1>2. CASE newlines = {}
  BY <1>1, <1>2 DEF Consumed, SelectInSeq
<1>3. CASE newlines # {}
  <2>1. newlines \subseteq Nat
    OBVIOUS
  <2>2. Min(newlines) \in newlines
    BY <1>3, <2>1, FirstPosition
  <2>3. SelectInSeq(chunk, LAMBDA b : b = "lf") = Min(newlines)
    BY <1>3 DEF SelectInSeq
  <2> QED
    BY <1>1, <2>2, <2>3 DEF Consumed
<1> QED
  BY <1>2, <1>3

\* What is handed on empties the buffer.
LEMMA DeliverKeeps ==
  ASSUME LineInv, NEW kind \in {"text", "not_utf8", "too_long"}, NEW t \in Texts,
         Deliver([kind |-> kind, text |-> t]), todo' \in Seq(Bytes), UNCHANGED clientVars
  PROVE  LineInv'
<1>1. Limit \in Nat
  BY LineAssumption
<1>2. buffer' \in Seq(Bytes) /\ Len(buffer') = 0 /\ where' = "reading"
  BY DEF Deliver
<1>3. out' \in Seq([kind : {"text", "not_utf8", "too_long"}, text : Texts])
  BY DEF Deliver, LineInv, LineTypeOK, Texts
<1>4. LineTypeOK'
  BY <1>1, <1>2, <1>3 DEF LineInv, LineTypeOK, clientVars, Texts
<1>5. RoomToRead'
  BY <1>1, <1>2 DEF RoomToRead, Cap, Framing
<1> QED
  BY <1>4, <1>5 DEF LineInv

\* The reader's steps.
LEMMA ReadsKeep == LineInv /\ (Reads \/ ReadError) => LineInv'
<1> SUFFICES ASSUME LineInv, Reads \/ ReadError PROVE LineInv'
  OBVIOUS
<1>1. Limit \in Nat /\ Cap = Limit + 2
  BY LineAssumption DEF Cap, Framing
<1>2. LineTypeOK /\ RoomToRead
  BY DEF LineInv
<1>3. <<>> \in Texts
  BY <1>1 DEF Texts
<1>4. CASE ReadByte
  <2>1. Head(todo) \in Bytes /\ todo' \in Seq(Bytes)
    BY <1>2, <1>4, HeadTailProperties DEF ReadByte, LineTypeOK
  <2>2. buffer' \in Seq(Bytes) /\ Len(buffer') = Len(buffer) + 1 /\ Len(buffer) \in Nat
    BY <1>2, <1>4, <2>1, AppendProperties, LenProperties DEF ReadByte, LineTypeOK
  <2>3. Len(buffer') <= Cap /\ (where' = "reading" => Len(buffer') < Cap)
    BY <1>1, <1>2, <1>4, <2>2 DEF ReadByte, RoomToRead
  <2>4. where' \in {"judging", "reading"}
    BY <1>4 DEF ReadByte
  <2>5. LineTypeOK'
    BY <1>1, <1>2, <1>4, <2>1, <2>2, <2>3, <2>4 DEF ReadByte, LineTypeOK, clientVars
  <2>6. RoomToRead'
    BY <2>3 DEF RoomToRead, Cap
  <2> QED
    BY <2>5, <2>6 DEF LineInv
<1>5. CASE EndOfStream
  BY <1>2, <1>5 DEF EndOfStream, LineInv, LineTypeOK, RoomToRead, clientVars
<1>6. CASE Judge
  <2> DEFINE message == Stripped(buffer)
  <2>1. message \in Seq(Bytes)
    BY <1>2, StrippedIsShorter DEF LineTypeOK
  <2>2. todo' \in Seq(Bytes) /\ UNCHANGED clientVars
    BY <1>2, <1>6 DEF Judge, LineTypeOK
  <2>3. Len(message) <= Limit => message \in Texts
    BY <2>1 DEF Texts
  <2> HIDE DEF message
  <2>4. CASE where' = "skipping" /\ buffer' = <<>> /\ UNCHANGED out
    <3>1. buffer' \in Seq(Bytes) /\ Len(buffer') = 0
      BY <2>4
    <3> QED
      BY <1>1, <1>2, <2>2, <2>4, <3>1 DEF LineInv, LineTypeOK, RoomToRead, clientVars
  <2>5. CASE \/ Deliver([kind |-> "too_long", text |-> <<>>])
             \/ Deliver([kind |-> "not_utf8", text |-> <<>>])
    BY <1>3, <2>2, <2>5, DeliverKeeps
  <2>6. CASE Len(message) <= Limit /\ Deliver([kind |-> "text", text |-> message])
    BY <2>2, <2>3, <2>6, DeliverKeeps
  <2> QED
    BY <1>6, <2>4, <2>5, <2>6 DEF Judge, message
<1>7. CASE Skip
  <2>1. todo' \in Seq(Bytes)
    <3>1. CASE todo' = todo
      BY <1>2, <3>1 DEF LineTypeOK
    <3>2. CASE \E n \in 1..Len(todo) :
                 todo' = SubSeq(todo, Consumed(SubSeq(todo, 1, n)) + 1, Len(todo))
      <4>1. PICK n \in 1..Len(todo) :
                   todo' = SubSeq(todo, Consumed(SubSeq(todo, 1, n)) + 1, Len(todo))
        BY <3>2
      <4>2. todo \in Seq(Bytes) /\ Len(todo) \in Nat /\ \A i \in 1..Len(todo) : todo[i] \in Bytes
        BY <1>2, LenProperties DEF LineTypeOK
      <4>3. SubSeq(todo, 1, n) \in Seq(Bytes)
        BY <4>2, PartsOfBytes
      <4>4. Consumed(SubSeq(todo, 1, n)) \in Nat
        <5>1. Consumed(SubSeq(todo, 1, n)) \in 0..Len(SubSeq(todo, 1, n))
          BY <4>3, ConsumesItsChunk
        <5> QED
          BY <5>1
      <4> QED
        <5> DEFINE i == Consumed(SubSeq(todo, 1, n)) + 1
        <5>1. i \in Nat \ {0} /\ Len(todo) \in 0..Len(todo)
          BY <4>2, <4>4
        <5> HIDE DEF i
        <5>2. SubSeq(todo, i, Len(todo)) \in Seq(Bytes)
          BY <4>2, <5>1, PartsOfBytes
        <5> QED
          BY <4>1, <5>2 DEF i
    <3> QED
      BY <1>7, <3>1, <3>2 DEF Skip
  <2>2. UNCHANGED clientVars
    BY <1>7 DEF Skip
  <2>3. CASE Deliver([kind |-> "too_long", text |-> <<>>])
    BY <1>3, <2>1, <2>2, <2>3, DeliverKeeps
  <2>4. CASE UNCHANGED <<buffer, where, out>>
    BY <1>2, <2>1, <2>2, <2>4 DEF LineInv, LineTypeOK, RoomToRead, Cap, clientVars
  <2> QED
    BY <1>7, <2>3, <2>4 DEF Skip
<1>8. CASE ReadError
  BY <1>2, <1>8 DEF ReadError, LineInv, LineTypeOK, RoomToRead, clientVars
<1> QED
  BY <1>4, <1>5, <1>6, <1>7, <1>8 DEF Reads

LEMMA StreamStarts == LineInit => LineInv
<1> SUFFICES ASSUME LineInit PROVE LineInv
  OBVIOUS
<1>1. Limit \in Nat /\ MaxBytes \in Nat /\ Cap = Limit + 2
  BY LineAssumption DEF Cap, Framing
<1>2. /\ written \in Seq(Bytes) /\ Len(written) = 0 /\ todo \in Seq(Bytes)
      /\ buffer \in Seq(Bytes) /\ Len(buffer) = 0
      /\ out \in Seq([kind : {"text", "not_utf8", "too_long"}, text : Texts])
  BY DEF LineInit
<1>3. open \in BOOLEAN /\ where = "reading"
  BY DEF LineInit
<1> QED
  BY <1>1, <1>2, <1>3 DEF LineInv, LineTypeOK, RoomToRead, Texts

LEMMA LineStepKeeps == LineInv /\ [LineNext]_lineVars => LineInv'
<1> SUFFICES ASSUME LineInv, [LineNext]_lineVars PROVE LineInv'
  OBVIOUS
<1>1. CASE WriteByte
  <2>1. PICK b \in Bytes : written' = Append(written, b) /\ todo' = Append(todo, b)
    BY <1>1 DEF WriteByte
  <2>2. /\ written' \in Seq(Bytes) /\ Len(written') = Len(written) + 1 /\ Len(written) \in Nat
        /\ todo' \in Seq(Bytes)
    BY <2>1, AppendProperties, LenProperties DEF LineInv, LineTypeOK
  <2>3. Len(written') <= MaxBytes
    BY <1>1, <2>2, LineAssumption DEF WriteByte
  <2> QED
    BY <1>1, <2>2, <2>3 DEF WriteByte, LineInv, LineTypeOK, RoomToRead, Cap
<1>2. CASE CloseStream
  BY <1>2 DEF CloseStream, readerVars, LineInv, LineTypeOK, RoomToRead, Cap
<1>3. CASE Reads \/ ReadError
  BY <1>3, ReadsKeep
<1>4. CASE UNCHANGED lineVars
  BY <1>4 DEF lineVars, clientVars, readerVars, LineInv, LineTypeOK, RoomToRead, Cap
<1> QED
  BY <1>1, <1>2, <1>3, <1>4 DEF LineNext

\* However long the lines of a stream, the reader never holds more of one than the limit
\* and its framing, and never hands on a message past the limit.
\* (take, in read_line; the bound on the stripped length)
THEOREM MemoryIsBounded == LineSpec => []LineTypeOK
<1>1. LineInv => LineTypeOK
  BY DEF LineInv
<1> QED
  BY <1>1, StreamStarts, LineStepKeeps, PTL DEF LineSpec

\* The lines that end by here.
Upto(ends, k) == {e \in ends : e <= k}

\* What has been told is the lines that end by here, one for one.
ToldLines(bytes, ends, told, done) ==
  /\ done = 0 \/ done \in ends
  /\ Cardinality(Upto(ends, done)) = Len(told)
  /\ \A n \in 1..Len(told) : \E e \in Upto(ends, done) :
       Cardinality(Upto(ends, e)) = n /\ told[n] = Verdict(LineTo(bytes, ends, e))

\* What the reader has taken of the stream, and where its lines end.
TakenBytes == Len(written) - Len(todo)
Ends  == LineEnds(written, ~open)
AtEnd == ~open /\ todo = <<>>

\* No byte between the last line told and this one ends a line.
Unended(bytes, done, k) == \A i \in (done + 1)..k : bytes[i] # "lf"

\* Where the reader is in the line after those it has told.
Within(done) ==
  /\ where = "reading" =>
       buffer = SubSeq(written, done + 1, TakenBytes) /\ Unended(written, done, TakenBytes)
  /\ where = "judging" =>
       /\ done < TakenBytes /\ buffer = SubSeq(written, done + 1, TakenBytes)
       /\ Unended(written, done, TakenBytes - 1)
       /\ written[TakenBytes] = "lf" \/ Len(buffer) = Cap \/ AtEnd
  /\ where = "skipping" =>
       /\ Unended(written, done, TakenBytes)
       /\ TakenBytes - done >= Cap \/ (AtEnd /\ TakenBytes - done > Limit)

\* What remains is the rest of the stream.
Remaining == Len(todo) <= Len(written) /\ \A i \in 1..Len(todo) : todo[i] = written[TakenBytes + i]

\* The invariant: a place in the stream before which every line is told, and after which
\* the reader holds, or has thrown away, the start of one more.
OneForOne ==
  Remaining /\ \E done \in 0..TakenBytes : ToldLines(written, Ends, out, done) /\ Within(done)

\* A part of a sequence, place by place.
LEMMA Parts ==
  ASSUME NEW S, NEW s \in Seq(S), NEW i \in Nat, NEW j \in Nat, i <= j, j <= Len(s)
  PROVE  LET t == SubSeq(s, i + 1, j)
         IN t \in Seq(S) /\ Len(t) = j - i /\ \A k \in 1..(j - i) : t[k] = s[i + k]
<1> DEFINE t == SubSeq(s, i + 1, j)
<1>1. Len(s) \in Nat /\ i + 1 \in Int /\ j \in Int /\ \A k \in (i + 1)..j : s[k] \in S
  OBVIOUS
<1>2. /\ t \in Seq(S)
      /\ Len(t) = IF i + 1 <= j THEN j - (i + 1) + 1 ELSE 0
      /\ \A k \in 1..(j - (i + 1) + 1) : t[k] = s[i + 1 + k - 1]
  <2> DEFINE m == i + 1
  <2>1. m \in Int /\ j \in Int /\ \A k \in m..j : s[k] \in S
    BY <1>1
  <2> HIDE DEF m
  <2>2. /\ SubSeq(s, m, j) \in Seq(S)
        /\ Len(SubSeq(s, m, j)) = IF m <= j THEN j - m + 1 ELSE 0
        /\ \A k \in 1..(j - m + 1) : SubSeq(s, m, j)[k] = s[m + k - 1]
    BY ONLY <2>1, SubSeqProperties
  <2> QED
    BY <2>2 DEF m
<1>3. Len(t) = j - i /\ j - (i + 1) + 1 = j - i
  BY <1>2
<1>4. ASSUME NEW k \in 1..(j - i) PROVE t[k] = s[i + k]
  <2>1. i + 1 + k - 1 = i + k
    OBVIOUS
  <2> HIDE DEF t
  <2> QED
    BY <1>2, <1>3, <2>1
<1> QED
  BY <1>2, <1>3, <1>4

\* The same part of two streams that agree on it.
LEMMA SameParts ==
  ASSUME NEW S, NEW s \in Seq(S), NEW t \in Seq(S), NEW i \in Nat, NEW j \in Nat, i <= j,
         j <= Len(s), j <= Len(t), \A k \in 1..j : s[k] = t[k]
  PROVE  SubSeq(s, i + 1, j) = SubSeq(t, i + 1, j)
<1> DEFINE a == SubSeq(s, i + 1, j)
           b == SubSeq(t, i + 1, j)
<1>1. a \in Seq(S) /\ Len(a) = j - i /\ \A k \in 1..(j - i) : a[k] = s[i + k]
  BY Parts
<1>2. b \in Seq(S) /\ Len(b) = j - i /\ \A k \in 1..(j - i) : b[k] = t[i + k]
  BY Parts
<1>3. \A k \in 1..(j - i) : i + k \in 1..j
  OBVIOUS
<1> HIDE DEF a, b
<1>4. \A k \in 1..Len(a) : a[k] = b[k]
  BY <1>1, <1>2, <1>3
<1> QED
  BY <1>1, <1>2, <1>4, SeqEqual DEF a, b

\* The greatest of a set is the one that is.
LEMMA GreatestIs ==
  ASSUME NEW T \in SUBSET Nat, NEW m \in T, \A k \in T : k <= m
  PROVE  Max(T) = m
<1>1. \A k \in T : (\A j \in T : k >= j) => k = m
  <2> TAKE k \in T
  <2> HAVE \A j \in T : k >= j
  <2>1. k >= m /\ k <= m /\ k \in Nat /\ m \in Nat
    OBVIOUS
  <2> QED
    BY <2>1
<1>2. \A j \in T : m >= j
  OBVIOUS
<1> QED
  BY <1>1, <1>2 DEF Max

\* The ends before a place are finitely many.
LEMMA FiniteEnds ==
  ASSUME NEW ends \in SUBSET (Nat \ {0}), NEW k \in Nat
  PROVE  IsFiniteSet(Upto(ends, k)) /\ Cardinality(Upto(ends, k)) \in Nat
<1>1. \A S \in SUBSET Nat : (\A s \in S : s <= k) => IsFiniteSet(S)
  BY FS_BoundedSetOfNaturals
<1>2. IsFiniteSet(Upto(ends, k))
  <2>1. Upto(ends, k) \in SUBSET Nat /\ \A s \in Upto(ends, k) : s <= k
    BY DEF Upto
  <2> QED
    BY <1>1, <2>1
<1> QED
  BY <1>2, FS_CardinalityType

\* The line before a place ends somewhere before it.
LEMMA LineStarts ==
  ASSUME NEW ends \in SUBSET (Nat \ {0}), NEW e \in Nat \ {0}
  PROVE  LET T == {0} \cup {k \in ends : k < e}
         IN Max(T) \in T /\ Max(T) \in 0..(e - 1)
<1> DEFINE T == {0} \cup {k \in ends : k < e}
           D == {e - k : k \in T}
<1>1. T \in SUBSET Nat /\ 0 \in T /\ \A k \in T : k < e
  <2>1. \A k \in ends : k \in Nat
    OBVIOUS
  <2>2. 0 \in Nat /\ 0 < e
    OBVIOUS
  <2> QED
    BY <2>1, <2>2
<1> HIDE DEF T
<1>2. D \subseteq Nat /\ D # {}
  <2>1. \A k \in T : e - k \in Nat
    BY <1>1
  <2> QED
    BY <1>1, <2>1
<1>3. Min(D) \in D /\ \A d \in D : Min(D) <= d
  <2> HIDE DEF D
  <2> QED
    BY <1>2, FirstPosition
<1>4. PICK m \in T : Min(D) = e - m
  BY <1>3
<1>5. \A k \in T : k <= m
  <2> TAKE k \in T
  <2>1. e - m <= e - k
    BY <1>3, <1>4
  <2> QED
    BY <1>1, <2>1
<1>6. Max(T) = m
  BY <1>1, <1>5, GreatestIs
<1>7. m \in 0..(e - 1)
  BY <1>1
<1> QED
  BY <1>6, <1>7 DEF T

\* What has been told stays so while the stream grows after it.
LEMMA ToldStill ==
  ASSUME NEW b \in Seq(Bytes), NEW c \in Seq(Bytes), NEW told,
         NEW ends \in SUBSET (Nat \ {0}), NEW more \in SUBSET (Nat \ {0}),
         NEW done \in Nat, done <= Len(b), done <= Len(c),
         \A k \in 1..done : b[k] = c[k] /\ (k \in ends <=> k \in more),
         ToldLines(b, ends, told, done)
  PROVE  ToldLines(c, more, told, done)
<1>1. ASSUME NEW k \in 0..done PROVE Upto(ends, k) = Upto(more, k)
  <2>1. \A e \in Nat \ {0} : e <= k => e \in 1..done
    OBVIOUS
  <2> QED
    BY <2>1 DEF Upto
<1>2. done = 0 \/ done \in more
  <2>1. done # 0 => done \in 1..done
    OBVIOUS
  <2> QED
    BY <2>1 DEF ToldLines
<1>3. Cardinality(Upto(more, done)) = Len(told)
  <2>1. done \in 0..done
    OBVIOUS
  <2> QED
    BY <1>1, <2>1 DEF ToldLines
<1>4. ASSUME NEW e \in Upto(ends, done)
      PROVE  /\ e \in Upto(more, done) /\ Upto(ends, e) = Upto(more, e)
             /\ LineTo(b, ends, e) = LineTo(c, more, e)
  <2>1. e \in 1..done /\ e \in 0..done /\ done \in 0..done /\ e \in Nat \ {0}
    BY DEF Upto
  <2>2. {k \in ends : k < e} = {k \in more : k < e}
    <3>1. \A k \in Nat \ {0} : k < e => k \in 1..done
      BY <2>1
    <3> QED
      BY <3>1
  <2> DEFINE m == Max({0} \cup {k \in ends : k < e})
  <2>3. m \in 0..(e - 1)
    BY <2>1, LineStarts
  <2>4. LineTo(b, ends, e) = SubSeq(b, m + 1, e) /\ LineTo(c, more, e) = SubSeq(c, m + 1, e)
    BY <2>2 DEF LineTo
  <2> HIDE DEF m
  <2>5. /\ m \in Nat /\ m <= e /\ e <= Len(b) /\ e <= Len(c) /\ e \in Nat
        /\ \A k \in 1..e : k \in 1..done
    <3>1. Len(b) \in Nat /\ Len(c) \in Nat
      OBVIOUS
    <3> QED
      BY <2>1, <2>3, <3>1
  <2>6. \A k \in 1..e : b[k] = c[k]
    BY <2>5
  <2>7. SubSeq(b, m + 1, e) = SubSeq(c, m + 1, e)
    BY ONLY b \in Seq(Bytes), c \in Seq(Bytes), <2>5, <2>6, SameParts
  <2> QED
    BY <1>1, <2>1, <2>4, <2>7
<1>5. ASSUME NEW n \in 1..Len(told)
      PROVE  \E e \in Upto(more, done) :
               Cardinality(Upto(more, e)) = n /\ told[n] = Verdict(LineTo(c, more, e))
  <2>1. PICK e \in Upto(ends, done) :
               Cardinality(Upto(ends, e)) = n /\ told[n] = Verdict(LineTo(b, ends, e))
    BY DEF ToldLines
  <2> QED
    BY <1>4, <2>1
<1> QED
  BY <1>2, <1>3, <1>5 DEF ToldLines

\* The next line is told.
LEMMA ToldOneMore ==
  ASSUME NEW b \in Seq(Bytes), NEW S, NEW told \in Seq(S), NEW v \in S,
         NEW ends \in SUBSET (Nat \ {0}), NEW done \in Nat, NEW end \in ends, done < end,
         \A k \in (done + 1)..(end - 1) : k \notin ends,
         v = Verdict(SubSeq(b, done + 1, end)), ToldLines(b, ends, told, done)
  PROVE  ToldLines(b, ends, Append(told, v), end)
<1> DEFINE l == Len(told)
           more == Append(told, v)
<1>1. l \in Nat /\ Len(more) = l + 1 /\ more[l + 1] = v /\ \A n \in 1..l : more[n] = told[n]
  <2>1. l \in Nat /\ Len(more) = l + 1
    OBVIOUS
  <2>2. more[l + 1] = v /\ \A n \in 1..l : more[n] = told[n]
    BY AppendProperties
  <2> QED
    BY <2>1, <2>2
<1> HIDE DEF more
<1>2. Upto(ends, end) = Upto(ends, done) \cup {end} /\ end \notin Upto(ends, done)
  <2>1. \A e \in ends : e <= end => e <= done \/ e = end
    <3> TAKE e \in ends
    <3> HAVE e <= end
    <3>1. e \notin (done + 1)..(end - 1) /\ e \in Nat /\ end \in Nat
      OBVIOUS
    <3> QED
      BY <3>1
  <2>2. \A e \in ends : e <= done => e <= end
    OBVIOUS
  <2>3. ~(end <= done)
    OBVIOUS
  <2>4. end <= end /\ \A e \in ends : e <= end <=> (e <= done \/ e = end)
    BY <2>1, <2>2
  <2> HIDE DEF more
  <2>5. Upto(ends, end) \subseteq Upto(ends, done) \cup {end}
    BY <2>4, Zenon DEF Upto
  <2>6. Upto(ends, done) \cup {end} \subseteq Upto(ends, end)
    BY <2>4, Zenon DEF Upto
  <2> QED
    BY <2>3, <2>5, <2>6, Zenon DEF Upto
<1>3. Cardinality(Upto(ends, end)) = l + 1
  <2>1. IsFiniteSet(Upto(ends, done)) /\ Cardinality(Upto(ends, done)) = l
    BY FiniteEnds DEF ToldLines
  <2>2. Cardinality(Upto(ends, done) \cup {end}) = l + 1
    BY <1>2, <2>1, FS_AddElement
  <2> QED
    BY <1>2, <2>2
<1>4. LineTo(b, ends, end) = SubSeq(b, done + 1, end)
  <2> DEFINE T == {0} \cup {k \in ends : k < end}
  <2>0. (done = 0 \/ done \in ends) /\ \A k \in ends : k \in Nat
    BY DEF ToldLines
  <2>1. T \in SUBSET Nat /\ done \in T
    <3>1. \A k \in T : k \in Nat
      BY <2>0
    <3>2. done \in T
      BY <2>0
    <3> QED
      BY <3>1, <3>2
  <2>2. \A k \in T : k <= done
    <3> TAKE k \in T
    <3>1. CASE k = 0
      BY <3>1
    <3>2. CASE k # 0
      <4>1. k \notin (done + 1)..(end - 1) /\ k \in Nat /\ k < end
        BY <3>2
      <4> QED
        BY <4>1
    <3> QED
      BY <3>1, <3>2
  <2>3. Max(T) = done
    <3> HIDE DEF T
    <3> QED
      BY <2>1, <2>2, GreatestIs
  <2> QED
    BY <2>3 DEF LineTo
<1>5. ASSUME NEW n \in 1..Len(more)
      PROVE  \E e \in Upto(ends, end) :
               Cardinality(Upto(ends, e)) = n /\ more[n] = Verdict(LineTo(b, ends, e))
  <2>1. CASE n = l + 1
    <3>1. end \in Upto(ends, end)
      BY <1>2
    <3> QED
      BY <1>1, <1>3, <1>4, <2>1, <3>1
  <2>2. CASE n # l + 1
    <3>1. n \in 1..l
      BY <1>1, <2>2
    <3>2. PICK e \in Upto(ends, done) :
                 Cardinality(Upto(ends, e)) = n /\ told[n] = Verdict(LineTo(b, ends, e))
      BY <3>1 DEF ToldLines
    <3>3. e \in Upto(ends, end) /\ more[n] = told[n]
      BY <1>1, <1>2, <3>1
    <3> QED
      BY <3>2, <3>3
  <2> QED
    BY <2>1, <2>2
<1> QED
  BY <1>1, <1>3, <1>5 DEF ToldLines, more

\* Framing is two bytes at most, and an unterminated line has none.
LEMMA StrippedIsNear ==
  ASSUME NEW b \in Seq(Bytes)
  PROVE  /\ Stripped(b) \in Seq(Bytes) /\ Len(Stripped(b)) <= Len(b)
         /\ Len(Stripped(b)) >= Len(b) - 2
         /\ ~IsTerminated(b) => Stripped(b) = b
         /\ IsTerminated(b) <=> b # <<>> /\ b[Len(b)] = "lf"
<1>1. ASSUME NEW s \in Seq(Bytes), s # <<>>
      PROVE  Front(s) \in Seq(Bytes) /\ Len(Front(s)) = Len(s) - 1
  <2>1. Len(s) \in Nat \ {0}
    BY <1>1, EmptySeq, LenProperties
  <2> DEFINE k == Len(s) - 1
  <2>2. k \in Nat /\ 0 <= k /\ k <= Len(s)
    BY <2>1
  <2> HIDE DEF k
  <2>3. SubSeq(s, 0 + 1, k) \in Seq(Bytes) /\ Len(SubSeq(s, 0 + 1, k)) = k - 0
    BY ONLY s \in Seq(Bytes), 0 \in Nat, <2>2, Parts
  <2> QED
    BY <2>1, <2>2, <2>3 DEF Front, k
<1>2. Stripped(b) \in Seq(Bytes) /\ Len(Stripped(b)) <= Len(b)
  BY StrippedIsShorter
<1>3. Len(b) \in Nat /\ Len(Stripped(b)) \in Nat
  BY <1>2, LenProperties
<1>4. ~IsTerminated(b) => Stripped(b) = b
  BY DEF Stripped
<1>5. ASSUME IsTerminated(b) PROVE Len(Stripped(b)) >= Len(b) - 2
  <2>1. b # <<>>
    BY <1>5 DEF IsTerminated
  <2>2. Front(b) \in Seq(Bytes) /\ Len(Front(b)) = Len(b) - 1
    BY <1>1, <2>1
  <2>3. CASE Stripped(b) = Front(b)
    BY <1>3, <2>2, <2>3
  <2>4. CASE Front(b) # <<>> /\ Stripped(b) = Front(Front(b))
    <3>1. Len(Front(Front(b))) = Len(Front(b)) - 1
      BY <1>1, <2>2, <2>4
    <3> QED
      BY <1>3, <2>2, <2>4, <3>1
  <2> QED
    BY <1>5, <2>3, <2>4 DEF Stripped
<1>6. IsTerminated(b) <=> b # <<>> /\ b[Len(b)] = "lf"
  BY DEF IsTerminated, Last
<1> QED
  BY <1>2, <1>3, <1>4, <1>5, <1>6

\* What read_line returns.
Records == [kind : {"text", "not_utf8", "too_long"}, text : Texts]

\* What the invariant is about, as the provers take it.
LEMMA StreamFacts ==
  ASSUME LineInv
  PROVE  /\ written \in Seq(Bytes) /\ Len(written) \in Nat
         /\ todo \in Seq(Bytes) /\ Len(todo) \in Nat
         /\ buffer \in Seq(Bytes) /\ Len(buffer) \in Nat
         /\ out \in Seq(Records) /\ open \in BOOLEAN
         /\ Limit \in Nat /\ Cap = Limit + 2
         /\ Ends \in SUBSET (Nat \ {0}) /\ \A k \in Ends : k \in 1..Len(written)
         /\ \A k \in 1..Len(written) :
              k \in Ends <=> written[k] = "lf" \/ (~open /\ k = Len(written))
<1>1. /\ written \in Seq(Bytes) /\ todo \in Seq(Bytes) /\ buffer \in Seq(Bytes)
      /\ out \in Seq(Records) /\ open \in BOOLEAN
  BY DEF LineInv, LineTypeOK, Records, Texts
<1>2. Len(written) \in Nat /\ Len(todo) \in Nat /\ Len(buffer) \in Nat
      /\ DOMAIN written = 1..Len(written)
  BY <1>1
<1>3. Limit \in Nat /\ Cap = Limit + 2
  BY LineAssumption DEF Cap, Framing
<1>4. \A k \in Ends : k \in 1..Len(written)
  BY <1>2 DEF Ends, LineEnds
<1>5. \A k \in 1..Len(written) : k \in Ends <=> written[k] = "lf" \/ (~open /\ k = Len(written))
  BY <1>2 DEF Ends, LineEnds
<1>6. Ends \in SUBSET (Nat \ {0})
  BY <1>4
<1> QED
  BY <1>1, <1>2, <1>3, <1>4, <1>5, <1>6

\* A part grows by the next element.
LEMMA GrownParts ==
  ASSUME NEW S, NEW s \in Seq(S), NEW i \in Nat, NEW j \in Nat, i <= j, j < Len(s)
  PROVE  Append(SubSeq(s, i + 1, j), s[j + 1]) = SubSeq(s, i + 1, j + 1)
<1> DEFINE a == SubSeq(s, i + 1, j)
           b == SubSeq(s, i + 1, j + 1)
           c == Append(a, s[j + 1])
<1>0. j + 1 \in Nat /\ i <= j + 1 /\ j + 1 <= Len(s) /\ j <= Len(s) /\ s[j + 1] \in S
      /\ (j + 1) - i = (j - i) + 1 /\ j - i \in Nat
  OBVIOUS
<1>1. a \in Seq(S) /\ Len(a) = j - i /\ \A k \in 1..(j - i) : a[k] = s[i + k]
  BY <1>0, Parts
<1>2. b \in Seq(S) /\ Len(b) = (j + 1) - i /\ \A k \in 1..((j + 1) - i) : b[k] = s[i + k]
  <2> DEFINE m == j + 1
  <2>1. m \in Nat /\ i <= m /\ m <= Len(s)
    BY <1>0
  <2> HIDE DEF m
  <2>2. LET t == SubSeq(s, i + 1, m)
        IN t \in Seq(S) /\ Len(t) = m - i /\ \A k \in 1..(m - i) : t[k] = s[i + k]
    BY ONLY s \in Seq(S), i \in Nat, <2>1, Parts
  <2> QED
    BY <2>2 DEF m
<1> HIDE DEF a, b
<1>3. c \in Seq(S) /\ Len(c) = (j - i) + 1 /\ c[(j - i) + 1] = s[j + 1]
      /\ \A k \in 1..(j - i) : c[k] = a[k]
  BY <1>0, <1>1, AppendProperties
<1> HIDE DEF c
<1>4. ASSUME NEW k \in 1..Len(c) PROVE c[k] = b[k]
  <2>1. CASE k = (j - i) + 1
    <3>1. i + k = j + 1 /\ k \in 1..((j + 1) - i)
      BY <1>0, <2>1
    <3> QED
      BY <1>2, <1>3, <2>1, <3>1
  <2>2. CASE k # (j - i) + 1
    <3>1. k \in 1..(j - i) /\ k \in 1..((j + 1) - i)
      BY <1>0, <1>3, <2>2
    <3> QED
      BY <1>1, <1>2, <1>3, <3>1
  <2> QED
    BY <2>1, <2>2
<1>5. c = b
  BY <1>0, <1>2, <1>3, <1>4, SeqEqual
<1> QED
  BY <1>5 DEF a, b, c

\* What the reader takes is the start of what remains.
LEMMA TakesTheStart ==
  ASSUME LineInv, Remaining, NEW j \in 0..Len(todo), written' = written,
         todo' = SubSeq(todo, j + 1, Len(todo))
  PROVE  Remaining' /\ TakenBytes' = TakenBytes + j /\ TakenBytes \in Nat /\ Len(todo') = Len(todo) - j
<1>1. /\ written \in Seq(Bytes) /\ Len(written) \in Nat /\ todo \in Seq(Bytes)
      /\ Len(todo) \in Nat /\ Len(todo) <= Len(written)
  BY StreamFacts DEF Remaining
<1>2. j \in Nat /\ j <= Len(todo) /\ Len(todo) <= Len(todo)
  BY <1>1
<1>3. /\ todo' \in Seq(Bytes) /\ Len(todo') = Len(todo) - j
      /\ \A k \in 1..(Len(todo) - j) : todo'[k] = todo[j + k]
  <2> DEFINE l == Len(todo)
             t == SubSeq(todo, j + 1, l)
  <2>1. l \in Nat /\ j <= l /\ l <= Len(todo)
    BY <1>1, <1>2
  <2> HIDE DEF l
  <2>2. t \in Seq(Bytes) /\ Len(t) = l - j /\ \A k \in 1..(l - j) : t[k] = todo[j + k]
    BY ONLY <1>1, <1>2, <2>1, Parts
  <2> QED
    BY <2>2 DEF l
<1>4. TakenBytes' = TakenBytes + j /\ TakenBytes \in Nat
  <2> DEFINE w == Len(written)
             l == Len(todo)
             r == Len(todo')
             t == TakenBytes
             u == TakenBytes'
  <2>1. t = w - l /\ u = w - r
    BY DEF TakenBytes
  <2>2. w \in Nat /\ l \in Nat /\ l <= w /\ j \in Nat /\ j <= l /\ r = l - j
    BY <1>1, <1>2, <1>3
  <2> HIDE DEF w, l, r, t, u
  <2>3. u = t + j /\ t \in Nat
    BY ONLY <2>1, <2>2
  <2> QED
    BY <2>3 DEF t, u
<1>5. ASSUME NEW k \in 1..Len(todo') PROVE todo'[k] = written'[TakenBytes' + k]
  <2>1. j + k \in 1..Len(todo) /\ k \in 1..(Len(todo) - j) /\ TakenBytes + (j + k) = (TakenBytes + j) + k
    BY <1>1, <1>2, <1>3, <1>4
  <2>2. todo'[k] = written[TakenBytes + (j + k)]
    BY <1>3, <2>1 DEF Remaining
  <2> QED
    BY <1>4, <2>1, <2>2
<1>6. Len(todo') <= Len(written')
  BY <1>1, <1>2, <1>3
<1> QED
  BY <1>3, <1>4, <1>5, <1>6 DEF Remaining

\* A line that is told is told of the same stream.
LEMMA ToldNow ==
  ASSUME LineInv, NEW done \in Nat, NEW end \in Ends, done < end,
         \A k \in (done + 1)..(end - 1) : k \notin Ends, ToldLines(written, Ends, out, done),
         NEW v \in Records, v = Verdict(SubSeq(written, done + 1, end)),
         out' = Append(out, v), UNCHANGED clientVars
  PROVE  ToldLines(written', Ends', out', end)
<1>1. /\ written \in Seq(Bytes) /\ out \in Seq(Records) /\ Ends \in SUBSET (Nat \ {0})
  BY StreamFacts
<1> DEFINE ends == Ends
           b == written
           told == out
<1>4. /\ b \in Seq(Bytes) /\ told \in Seq(Records) /\ ends \in SUBSET (Nat \ {0})
      /\ end \in ends /\ done < end /\ \A k \in (done + 1)..(end - 1) : k \notin ends
      /\ v = Verdict(SubSeq(b, done + 1, end)) /\ ToldLines(b, ends, told, done)
      /\ done \in Nat /\ v \in Records
  BY <1>1
<1> HIDE DEF ends, b, told
<1>5. ToldLines(b, ends, Append(told, v), end)
  BY ONLY <1>4, ToldOneMore
<1>2. ToldLines(written, Ends, Append(out, v), end)
  BY <1>5 DEF ends, b, told
<1>3. written' = written /\ Ends' = Ends
  BY DEF clientVars, Ends
<1> QED
  BY <1>2, <1>3

\* Where the lines of a stream end.
LEMMA EndsAre ==
  ASSUME NEW b \in Seq(Bytes), NEW closed
  PROVE  /\ LineEnds(b, closed) \in SUBSET (Nat \ {0})
         /\ \A k \in LineEnds(b, closed) : k \in 1..Len(b)
         /\ \A k \in 1..Len(b) : k \in LineEnds(b, closed) <=>
              b[k] = "lf" \/ (closed /\ k = Len(b))
<1>1. DOMAIN b = 1..Len(b) /\ Len(b) \in Nat
  OBVIOUS
<1>2. \A k \in LineEnds(b, closed) : k \in 1..Len(b)
  BY <1>1 DEF LineEnds
<1>3. \A k \in 1..Len(b) : k \in LineEnds(b, closed) <=> b[k] = "lf" \/ (closed /\ k = Len(b))
  BY <1>1 DEF LineEnds
<1>4. LineEnds(b, closed) \in SUBSET (Nat \ {0})
  BY <1>2
<1> QED
  BY <1>2, <1>3, <1>4

\* The client writes.
LEMMA WritingKeeps ==
  ASSUME LineInv, OneForOne, WriteByte
  PROVE  OneForOne'
<1>1. PICK b \in Bytes : written' = Append(written, b) /\ todo' = Append(todo, b)
  BY DEF WriteByte
<1>2. open /\ open' = open /\ buffer' = buffer /\ where' = where /\ out' = out
  BY DEF WriteByte
<1>3. /\ written \in Seq(Bytes) /\ Len(written) \in Nat /\ todo \in Seq(Bytes) /\ Len(todo) \in Nat
      /\ Ends \in SUBSET (Nat \ {0})
      /\ \A k \in 1..Len(written) : k \in Ends <=> written[k] = "lf" \/ (~open /\ k = Len(written))
  BY StreamFacts
<1>4. /\ written' \in Seq(Bytes) /\ Len(written') = Len(written) + 1
      /\ written'[Len(written) + 1] = b /\ \A k \in 1..Len(written) : written'[k] = written[k]
  BY <1>1, <1>3, AppendProperties
<1>5. /\ todo' \in Seq(Bytes) /\ Len(todo') = Len(todo) + 1
      /\ todo'[Len(todo) + 1] = b /\ \A k \in 1..Len(todo) : todo'[k] = todo[k]
  BY <1>1, <1>3, AppendProperties
<1>6. /\ Ends' \in SUBSET (Nat \ {0})
      /\ \A k \in 1..Len(written') :
           k \in Ends' <=> written'[k] = "lf" \/ (~open' /\ k = Len(written'))
  BY <1>4, EndsAre DEF Ends
<1>7. Remaining /\ Len(todo) <= Len(written) /\ \A i \in 1..Len(todo) : todo[i] = written[TakenBytes + i]
  BY DEF OneForOne, Remaining
<1>8. TakenBytes = Len(written) - Len(todo) /\ TakenBytes' = TakenBytes /\ TakenBytes \in 0..Len(written)
  <2>1. TakenBytes = Len(written) - Len(todo) /\ TakenBytes' = Len(written') - Len(todo')
    BY DEF TakenBytes
  <2> QED
    BY <1>3, <1>4, <1>5, <1>7, <2>1
<1>9. Remaining'
  <2>1. ASSUME NEW i \in 1..Len(todo') PROVE todo'[i] = written'[TakenBytes + i]
    <3>1. CASE i = Len(todo) + 1
      <4>1. TakenBytes + i = Len(written) + 1
        BY <1>3, <1>8, <3>1
      <4> QED
        BY <1>4, <1>5, <3>1, <4>1
    <3>2. CASE i # Len(todo) + 1
      <4>1. i \in 1..Len(todo) /\ TakenBytes + i \in 1..Len(written)
        BY <1>3, <1>5, <1>8, <3>2
      <4> QED
        BY <1>4, <1>5, <1>7, <4>1
    <3> QED
      BY <3>1, <3>2
  <2>2. Len(todo') <= Len(written')
    BY <1>3, <1>4, <1>5, <1>7
  <2> QED
    BY <1>8, <2>1, <2>2 DEF Remaining
<1>10. PICK done \in 0..TakenBytes : ToldLines(written, Ends, out, done) /\ Within(done)
  BY DEF OneForOne
<1>11. /\ done \in Nat /\ done <= TakenBytes /\ TakenBytes \in Nat /\ TakenBytes <= Len(written)
       /\ done <= Len(written) /\ done <= Len(written') /\ TakenBytes <= Len(written')
       /\ \A k \in 1..TakenBytes : k \in 1..Len(written) /\ k \in 1..Len(written')
       /\ \A k \in 1..done : k \in 1..TakenBytes
  BY <1>3, <1>4, <1>8
<1>12. \A k \in 1..TakenBytes : written'[k] = written[k] /\ written[k] = written'[k]
  BY <1>4, <1>11
<1>13. ToldLines(written', Ends', out', done)
  <2>1. \A k \in 1..done : written[k] = written'[k] /\ (k \in Ends <=> k \in Ends')
    <3> TAKE k \in 1..done
    <3>1. k \in 1..Len(written) /\ k \in 1..Len(written') /\ written[k] = written'[k]
      BY <1>11, <1>12
    <3>2. k \in Ends <=> written[k] = "lf"
      BY <1>2, <1>3, <3>1
    <3>3. k \in Ends' <=> written'[k] = "lf"
      BY <1>2, <1>6, <3>1
    <3> QED
      BY <3>1, <3>2, <3>3
  <2> DEFINE c == written'
             more == Ends'
             told == out
  <2>2. c \in Seq(Bytes) /\ more \in SUBSET (Nat \ {0}) /\ done <= Len(c)
        /\ (\A k \in 1..done : written[k] = c[k] /\ (k \in Ends <=> k \in more))
        /\ ToldLines(written, Ends, told, done) /\ told = out'
    BY <1>2, <1>4, <1>6, <1>10, <1>11, <2>1
  <2> HIDE DEF c, more, told
  <2>3. ToldLines(c, more, told, done)
    BY ONLY <1>3, <1>11, <2>2, ToldStill
  <2>4. told = out'
    BY <2>2
  <2> QED
    BY <2>3, <2>4 DEF c, more
<1>14. SubSeq(written', done + 1, TakenBytes) = SubSeq(written, done + 1, TakenBytes)
  <2> DEFINE c == written'
             k == TakenBytes
  <2>1. c \in Seq(Bytes) /\ k \in Nat /\ done <= k /\ k <= Len(c) /\ k <= Len(written)
        /\ done \in Nat /\ \A i \in 1..k : c[i] = written[i]
    BY <1>4, <1>11, <1>12
  <2> HIDE DEF c, k
  <2>2. SubSeq(c, done + 1, k) = SubSeq(written, done + 1, k)
    BY ONLY <1>3, <2>1, SameParts
  <2> QED
    BY <2>2 DEF c, k
<1>15. \A k \in 0..TakenBytes : Unended(written, done, k) => Unended(written', done, k)
  <2> TAKE k \in 0..TakenBytes
  <2>1. \A i \in (done + 1)..k : i \in 1..TakenBytes
    BY <1>11
  <2> QED
    BY <1>12, <2>1 DEF Unended
<1>16. Within(done)'
  <2>0. ~AtEnd
    BY <1>2 DEF AtEnd
  <2>1. ASSUME where' = "reading"
        PROVE  buffer' = SubSeq(written', done + 1, TakenBytes') /\ Unended(written', done, TakenBytes')
    <3>1. TakenBytes \in 0..TakenBytes
      BY <1>8
    <3>2. Unended(written', done, TakenBytes)
      BY <1>2, <1>8, <1>10, <1>15, <2>1, <3>1 DEF Within
    <3> QED
      BY <1>2, <1>8, <1>10, <1>14, <2>1, <3>2 DEF Within
  <2>2. ASSUME where' = "judging"
        PROVE  /\ done < TakenBytes' /\ buffer' = SubSeq(written', done + 1, TakenBytes')
               /\ Unended(written', done, TakenBytes' - 1)
               /\ written'[TakenBytes'] = "lf" \/ Len(buffer') = Cap \/ AtEnd'
    <3>1. /\ done < TakenBytes /\ buffer = SubSeq(written, done + 1, TakenBytes)
          /\ Unended(written, done, TakenBytes - 1) /\ (written[TakenBytes] = "lf" \/ Len(buffer) = Cap)
      BY <1>2, <1>10, <2>0, <2>2 DEF Within
    <3>2. TakenBytes \in 1..TakenBytes /\ TakenBytes - 1 \in 0..TakenBytes
      BY <1>11, <3>1
    <3>3. written'[TakenBytes] = written[TakenBytes]
      BY <1>12, <3>2
    <3>4. Unended(written', done, TakenBytes - 1)
      BY <1>8, <1>15, <3>1, <3>2
    <3> QED
      BY <1>2, <1>8, <1>14, <3>1, <3>3, <3>4
  <2>3. ASSUME where' = "skipping"
        PROVE  Unended(written', done, TakenBytes') /\ TakenBytes' - done >= Cap
    <3>1. Unended(written, done, TakenBytes) /\ TakenBytes - done >= Cap /\ TakenBytes \in 0..TakenBytes
      BY <1>2, <1>8, <1>10, <2>0, <2>3 DEF Within
    <3>2. Unended(written', done, TakenBytes)
      BY <1>8, <1>15, <3>1
    <3> QED
      BY <1>8, <3>1, <3>2
  <2> QED
    BY <2>1, <2>2, <2>3 DEF Within
<1>17. done \in 0..TakenBytes'
  BY <1>8
<1> QED
  BY <1>9, <1>13, <1>16, <1>17 DEF OneForOne

\* The client closes its end: what is left of the last line becomes one.
LEMMA ClosingKeeps ==
  ASSUME LineInv, OneForOne, CloseStream
  PROVE  OneForOne'
<1>1. /\ open /\ ~open' /\ written' = written /\ todo' = todo /\ buffer' = buffer
      /\ where' = where /\ out' = out
  BY DEF CloseStream, readerVars
<1>2. /\ written \in Seq(Bytes) /\ Len(written) \in Nat /\ Len(todo) \in Nat
      /\ Ends \in SUBSET (Nat \ {0})
      /\ \A k \in Ends : k \in 1..Len(written)
      /\ \A k \in 1..Len(written) : k \in Ends <=> written[k] = "lf" \/ (~open /\ k = Len(written))
  BY StreamFacts
<1>3. /\ Ends' \in SUBSET (Nat \ {0})
      /\ \A k \in 1..Len(written) : k \in Ends' <=> written[k] = "lf" \/ k = Len(written)
  <2>1. Ends' = LineEnds(written, ~open') /\ ~open'
    BY <1>1 DEF Ends
  <2> QED
    BY <1>1, <1>2, <2>1, EndsAre
<1>4. TakenBytes' = TakenBytes /\ (Remaining => Remaining')
  BY <1>1 DEF TakenBytes, Remaining
<1>5. PICK done \in 0..TakenBytes : ToldLines(written, Ends, out, done) /\ Within(done)
  BY DEF OneForOne
<1>6. done \in Nat /\ done <= Len(written) /\ Remaining
  BY <1>2 DEF OneForOne, Remaining, TakenBytes
<1>7. ToldLines(written', Ends', out', done)
  <2>1. \A k \in 1..done : written[k] = written[k] /\ (k \in Ends <=> k \in Ends')
    <3> TAKE k \in 1..done
    <3>1. k \in 1..Len(written)
      BY <1>2, <1>6
    <3>2. CASE k = Len(written)
      <4>1. done = k /\ done # 0
        BY <1>2, <1>6, <3>2
      <4>2. k \in Ends
        BY <1>5, <4>1 DEF ToldLines
      <4> QED
        BY <1>3, <3>1, <3>2, <4>2
    <3>3. CASE k # Len(written)
      BY <1>2, <1>3, <3>1, <3>3
    <3> QED
      BY <3>2, <3>3
  <2> DEFINE more == Ends'
  <2>2. /\ more \in SUBSET (Nat \ {0})
        /\ \A k \in 1..done : written[k] = written[k] /\ (k \in Ends <=> k \in more)
    BY <1>3, <2>1
  <2> HIDE DEF more
  <2>3. ToldLines(written, more, out, done)
    BY ONLY <1>2, <1>5, <1>6, <2>2, ToldStill
  <2> QED
    BY <1>1, <2>3 DEF more
<1>8. Within(done)'
  <2>1. ~AtEnd
    BY <1>1 DEF AtEnd
  <2> QED
    BY <1>1, <1>4, <1>5, <2>1 DEF Within
<1> QED
  BY <1>4, <1>5, <1>6, <1>7, <1>8 DEF OneForOne

\* A byte is taken into the line.
LEMMA ReadingKeeps ==
  ASSUME LineInv, OneForOne, ReadByte
  PROVE  OneForOne'
<1>1. /\ where = "reading" /\ todo # <<>> /\ buffer' = Append(buffer, Head(todo))
      /\ todo' = Tail(todo) /\ written' = written /\ open' = open /\ out' = out
      /\ where' = IF Head(todo) = "lf" \/ Len(buffer') = Cap THEN "judging" ELSE "reading"
  BY DEF ReadByte, clientVars
<1>2. /\ written \in Seq(Bytes) /\ Len(written) \in Nat /\ todo \in Seq(Bytes) /\ Len(todo) \in Nat
      /\ Remaining
  BY StreamFacts DEF OneForOne
<1>3. Head(todo) = todo[1] /\ Len(todo) >= 1
  BY <1>1, <1>2
<1>4. todo' = SubSeq(todo, 1 + 1, Len(todo))
  <2>1. Tail(todo) = SubSeq(todo, 2, Len(todo))
    <3>1. Tail(todo) \in Seq(Bytes) /\ Len(Tail(todo)) = Len(todo) - 1
          /\ \A k \in 1..(Len(todo) - 1) : Tail(todo)[k] = todo[k + 1]
      BY <1>1, <1>2, HeadTailProperties
    <3> DEFINE l == Len(todo)
               t == SubSeq(todo, 1 + 1, l)
    <3>2. l \in Nat /\ 1 <= l /\ l <= Len(todo) /\ 1 \in Nat
      BY <1>2, <1>3
    <3> HIDE DEF l
    <3>3. t \in Seq(Bytes) /\ Len(t) = l - 1 /\ \A k \in 1..(l - 1) : t[k] = todo[1 + k]
      BY ONLY <1>2, <3>2, Parts
    <3> HIDE DEF t
    <3>4. \A k \in 1..(l - 1) : k + 1 = 1 + k
      BY <3>2
    <3>5. \A k \in 1..Len(t) : t[k] = Tail(todo)[k]
      BY <3>1, <3>3, <3>4 DEF l
    <3>6. t = Tail(todo)
      BY <3>1, <3>3, <3>5, SeqEqual DEF l
    <3>7. 1 + 1 = 2
      OBVIOUS
    <3> QED
      BY <3>6, <3>7 DEF t, l
  <2>2. 1 + 1 = 2
    OBVIOUS
  <2> QED
    BY <1>1, <2>1, <2>2
<1>5. Remaining' /\ TakenBytes' = TakenBytes + 1 /\ TakenBytes \in Nat
  <2>1. 1 \in 0..Len(todo)
    BY <1>2, <1>3
  <2> QED
    BY <1>1, <1>2, <1>4, <2>1, TakesTheStart
<1>6. TakenBytes + 1 <= Len(written) /\ written[TakenBytes + 1] = Head(todo)
  <2>1. 1 \in 1..Len(todo)
    BY <1>2, <1>3
  <2>2. TakenBytes = Len(written) - Len(todo)
    BY DEF TakenBytes
  <2> QED
    BY <1>2, <1>3, <2>1, <2>2 DEF Remaining
<1>7. PICK done \in 0..TakenBytes : ToldLines(written, Ends, out, done) /\ Within(done)
  BY DEF OneForOne
<1>8. done \in Nat /\ done <= TakenBytes /\ TakenBytes < Len(written) /\ done \in 0..TakenBytes' /\ done < TakenBytes'
      /\ TakenBytes' - 1 = TakenBytes
  BY <1>2, <1>5, <1>6
<1>9. buffer = SubSeq(written, done + 1, TakenBytes) /\ Unended(written, done, TakenBytes)
  BY <1>1, <1>7 DEF Within
<1>10. buffer' = SubSeq(written, done + 1, TakenBytes + 1)
  <2> DEFINE j == TakenBytes
  <2>1. j \in Nat /\ done <= j /\ j < Len(written)
    BY <1>5, <1>8
  <2> HIDE DEF j
  <2>2. Append(SubSeq(written, done + 1, j), written[j + 1]) = SubSeq(written, done + 1, j + 1)
    BY ONLY <1>2, <1>8, <2>1, GrownParts
  <2> QED
    BY <1>1, <1>6, <1>9, <2>2 DEF j
<1>11. Head(todo) # "lf" => Unended(written, done, TakenBytes + 1)
  <2> SUFFICES ASSUME Head(todo) # "lf", NEW i \in (done + 1)..(TakenBytes + 1)
               PROVE  written[i] # "lf"
    BY DEF Unended
  <2>1. i = TakenBytes + 1 \/ i \in (done + 1)..TakenBytes
    BY <1>5, <1>8
  <2> QED
    BY <1>6, <1>9, <2>1 DEF Unended
<1>12. ToldLines(written', Ends', out', done)
  BY <1>1, <1>7 DEF Ends
<1>13. Within(done)'
  <2>1. ASSUME where' = "reading"
        PROVE  buffer' = SubSeq(written', done + 1, TakenBytes') /\ Unended(written', done, TakenBytes')
    BY <1>1, <1>5, <1>10, <1>11, <2>1
  <2>2. ASSUME where' = "judging"
        PROVE  /\ done < TakenBytes' /\ buffer' = SubSeq(written', done + 1, TakenBytes')
               /\ Unended(written', done, TakenBytes' - 1)
               /\ written'[TakenBytes'] = "lf" \/ Len(buffer') = Cap
    BY <1>1, <1>5, <1>6, <1>8, <1>9, <1>10, <2>2
  <2>3. where' # "skipping"
    BY <1>1
  <2> QED
    BY <2>1, <2>2, <2>3 DEF Within
<1> QED
  BY <1>5, <1>8, <1>12, <1>13 DEF OneForOne

\* The stream ends.
LEMMA EndingKeeps ==
  ASSUME LineInv, OneForOne, EndOfStream
  PROVE  OneForOne'
<1>1. /\ where = "reading" /\ todo = <<>> /\ ~open /\ written' = written /\ open' = open
      /\ todo' = todo /\ buffer' = buffer /\ out' = out
      /\ where' = IF buffer = <<>> THEN "eof" ELSE "judging"
  BY DEF EndOfStream, clientVars
<1>2. /\ written \in Seq(Bytes) /\ Len(written) \in Nat /\ Remaining /\ todo \in Seq(Bytes)
      /\ Len(todo) \in Nat
  BY StreamFacts DEF OneForOne
<1>3. PICK done \in 0..TakenBytes : ToldLines(written, Ends, out, done) /\ Within(done)
  BY DEF OneForOne
<1>4. TakenBytes' = TakenBytes /\ Remaining' /\ Ends' = Ends /\ AtEnd'
  BY <1>1, <1>2 DEF TakenBytes, Remaining, Ends, AtEnd
<1>5. TakenBytes \in Nat /\ done \in Nat /\ done <= TakenBytes /\ TakenBytes <= Len(written)
  BY <1>2 DEF TakenBytes, Remaining
<1>6. buffer = SubSeq(written, done + 1, TakenBytes) /\ Unended(written, done, TakenBytes)
  BY <1>1, <1>3 DEF Within
<1>7. Unended(written, done, TakenBytes - 1)
  <2>1. \A i \in (done + 1)..(TakenBytes - 1) : i \in (done + 1)..TakenBytes
    BY <1>5
  <2> QED
    BY <1>6, <2>1 DEF Unended
<1>8. buffer # <<>> => done < TakenBytes
  <2> SUFFICES ASSUME done = TakenBytes PROVE buffer = <<>>
    BY <1>5
  <2> QED
    BY <1>2, <1>5, <1>6
<1>9. Within(done)'
  BY <1>1, <1>4, <1>6, <1>7, <1>8 DEF Within
<1> QED
  BY <1>1, <1>3, <1>4, <1>9 DEF OneForOne

\* The reader stops at an error.
LEMMA FailingKeeps ==
  ASSUME LineInv, OneForOne, ReadError
  PROVE  OneForOne'
<1>1. /\ written' = written /\ open' = open /\ todo' = todo /\ out' = out /\ where' = "failed"
  BY DEF ReadError, clientVars
<1>2. TakenBytes' = TakenBytes /\ Ends' = Ends /\ (Remaining => Remaining')
  BY <1>1 DEF TakenBytes, Ends, Remaining
<1>3. PICK done \in 0..TakenBytes : ToldLines(written, Ends, out, done) /\ Within(done)
  BY DEF OneForOne
<1>4. Within(done)'
  BY <1>1 DEF Within
<1> QED
  BY <1>1, <1>2, <1>3, <1>4 DEF OneForOne

\* A line is told, and the next one is empty so far.
LEMMA TellingKeeps ==
  ASSUME LineInv, Remaining', NEW done \in Nat, NEW end \in Ends, done < end,
         \A k \in (done + 1)..(end - 1) : k \notin Ends, ToldLines(written, Ends, out, done),
         NEW v \in Records, v = Verdict(SubSeq(written, done + 1, end)),
         Deliver(v), UNCHANGED clientVars, TakenBytes' = end
  PROVE  OneForOne'
<1>1. /\ out' = Append(out, v) /\ buffer' = <<>> /\ where' = "reading" /\ written' = written
  BY DEF Deliver, clientVars
<1>2. ToldLines(written', Ends', out', end)
  BY <1>1, ToldNow
<1>3. written \in Seq(Bytes) /\ end \in 1..Len(written) /\ end \in Nat /\ Len(written) \in Nat
  BY StreamFacts
<1>4. SubSeq(written, end + 1, end) = <<>>
  <2>1. LET t == SubSeq(written, end + 1, end) IN t \in Seq(Bytes) /\ Len(t) = end - end
    <3>1. end <= end /\ end <= Len(written)
      BY <1>3
    <3> QED
      BY ONLY <1>3, <3>1, Parts
  <2> DEFINE t == SubSeq(written, end + 1, end)
  <2> HIDE DEF t
  <2>2. t \in Seq(Bytes) /\ Len(t) = 0
    BY <1>3, <2>1 DEF t
  <2>3. t = <<>>
    BY <2>2, EmptySeq
  <2> QED
    BY <2>3 DEF t
<1>5. Unended(written, end, end)
  BY <1>3 DEF Unended
<1>6. Within(end)'
  BY <1>1, <1>4, <1>5 DEF Within
<1>7. end \in 0..TakenBytes'
  BY <1>3
<1> QED
  BY <1>2, <1>6, <1>7 DEF OneForOne

\* The verdict on a line, by its message.
LEMMA Verdicts ==
  ASSUME NEW b \in Seq(Bytes)
  PROVE  /\ Len(Stripped(b)) > Limit => Verdict(b) = [kind |-> "too_long", text |-> <<>>]
         /\ Len(Stripped(b)) <= Limit /\ ~IsUtf8(Stripped(b)) =>
              Verdict(b) = [kind |-> "not_utf8", text |-> <<>>]
         /\ Len(Stripped(b)) <= Limit /\ IsUtf8(Stripped(b)) =>
              Verdict(b) = [kind |-> "text", text |-> Stripped(b)]
         /\ Verdict(b) \in Records
<1> DEFINE message == Stripped(b)
<1>1. message \in Seq(Bytes) /\ Len(message) \in Nat /\ Limit \in Nat
  BY StrippedIsShorter, LineAssumption, LenProperties
<1>2. Verdict(b) = [kind |-> IF Len(message) > Limit THEN "too_long"
                             ELSE IF IsUtf8(message) THEN "text" ELSE "not_utf8",
                    text |-> IF Len(message) <= Limit /\ IsUtf8(message) THEN message ELSE <<>>]
  BY DEF Verdict
<1>3. Len(message) > Limit <=> ~(Len(message) <= Limit)
  BY <1>1
<1>4. <<>> \in Texts /\ (Len(message) <= Limit => message \in Texts)
  BY <1>1 DEF Texts
<1> HIDE DEF message
<1>5. Len(message) > Limit => Verdict(b) = [kind |-> "too_long", text |-> <<>>]
  BY <1>2, <1>3
<1>6. Len(message) <= Limit /\ ~IsUtf8(message) => Verdict(b) = [kind |-> "not_utf8", text |-> <<>>]
  BY <1>2, <1>3
<1>7. Len(message) <= Limit /\ IsUtf8(message) => Verdict(b) = [kind |-> "text", text |-> message]
  BY <1>2, <1>3
<1>8. Verdict(b) \in Records
  BY <1>3, <1>4, <1>5, <1>6, <1>7 DEF Records
<1> QED
  BY <1>5, <1>6, <1>7, <1>8 DEF message

\* No line ends in a stretch that has no LF, but where the closed stream does.
LEMMA NoEnds ==
  ASSUME LineInv, NEW done \in Nat, NEW end \in Nat, done < end, end <= Len(written),
         Unended(written, done, end - 1)
  PROVE  /\ \A k \in (done + 1)..(end - 1) : k \notin Ends
         /\ end \in 1..Len(written)
         /\ end \in Ends <=> written[end] = "lf" \/ (~open /\ end = Len(written))
<1>1. /\ Len(written) \in Nat
      /\ \A k \in 1..Len(written) : k \in Ends <=> written[k] = "lf" \/ (~open /\ k = Len(written))
  BY StreamFacts
<1>2. end \in 1..Len(written)
  BY <1>1
<1>3. ASSUME NEW k \in (done + 1)..(end - 1) PROVE k \notin Ends
  <2>1. k \in 1..Len(written) /\ k # Len(written)
    BY <1>1
  <2> QED
    BY <1>1, <2>1 DEF Unended
<1> QED
  BY <1>1, <1>2, <1>3

\* A line is judged.
LEMMA JudgingKeeps ==
  ASSUME LineInv, OneForOne, Judge
  PROVE  OneForOne'
<1> DEFINE message == Stripped(buffer)
<1>1. where = "judging" /\ written' = written /\ open' = open /\ todo' = todo
      /\ UNCHANGED clientVars
  BY DEF Judge, clientVars
<1>2. \/ /\ Len(message) > Limit /\ LeftOver /\ where' = "skipping" /\ out' = out
      \/ ~(Len(message) > Limit /\ LeftOver) /\ Deliver(Verdict(buffer))
  <2>1. Len(message) \in Nat /\ Limit \in Nat
    BY StreamFacts, StrippedIsShorter, LenProperties
  <2>2. buffer \in Seq(Bytes)
    BY StreamFacts
  <2>3. /\ Len(message) > Limit => Verdict(buffer) = [kind |-> "too_long", text |-> <<>>]
        /\ Len(message) <= Limit /\ ~IsUtf8(message) =>
             Verdict(buffer) = [kind |-> "not_utf8", text |-> <<>>]
        /\ Len(message) <= Limit /\ IsUtf8(message) =>
             Verdict(buffer) = [kind |-> "text", text |-> message]
    BY <2>2, Verdicts
  <2>4. \/ /\ Len(message) > Limit /\ LeftOver /\ where' = "skipping" /\ out' = out
        \/ Len(message) > Limit /\ ~LeftOver /\ Deliver([kind |-> "too_long", text |-> <<>>])
        \/ Len(message) <= Limit /\ ~IsUtf8(message)
             /\ Deliver([kind |-> "not_utf8", text |-> <<>>])
        \/ Len(message) <= Limit /\ IsUtf8(message)
             /\ Deliver([kind |-> "text", text |-> message])
    BY DEF Judge
  <2> HIDE DEF message
  <2>5. Len(message) <= Limit <=> ~(Len(message) > Limit)
    BY <2>1
  <2> QED
    BY <2>3, <2>4, <2>5, Zenon
<1>3. /\ written \in Seq(Bytes) /\ Len(written) \in Nat /\ Remaining /\ buffer \in Seq(Bytes)
      /\ Len(buffer) \in Nat /\ Len(todo) \in Nat /\ Limit \in Nat /\ Cap = Limit + 2
      /\ todo \in Seq(Bytes)
  BY StreamFacts DEF OneForOne
<1>4. PICK done \in 0..TakenBytes : ToldLines(written, Ends, out, done) /\ Within(done)
  BY DEF OneForOne
<1>5. /\ done < TakenBytes /\ buffer = SubSeq(written, done + 1, TakenBytes)
      /\ Unended(written, done, TakenBytes - 1)
      /\ written[TakenBytes] = "lf" \/ Len(buffer) = Cap \/ AtEnd
  BY <1>1, <1>4 DEF Within
<1>6. TakenBytes' = TakenBytes /\ Remaining' /\ Ends' = Ends /\ AtEnd' = AtEnd
  BY <1>1, <1>3 DEF TakenBytes, Remaining, Ends, AtEnd
<1>7. TakenBytes \in Nat /\ done \in Nat /\ done <= TakenBytes /\ TakenBytes <= Len(written)
      /\ (AtEnd => ~open /\ TakenBytes = Len(written))
  <2>1. AtEnd => ~open /\ Len(todo) = 0
    BY DEF AtEnd
  <2> QED
    BY <1>3, <1>5, <2>1 DEF TakenBytes, Remaining
<1>8. Len(buffer) = TakenBytes - done /\ buffer[Len(buffer)] = written[TakenBytes] /\ buffer # <<>>
  <2> DEFINE k == TakenBytes
             t == SubSeq(written, done + 1, k)
  <2>1. k \in Nat /\ done \in Nat /\ done <= k /\ k <= Len(written) /\ done < k
    BY <1>5, <1>7
  <2> HIDE DEF k
  <2>2. t \in Seq(Bytes) /\ Len(t) = k - done /\ \A i \in 1..(k - done) : t[i] = written[done + i]
    BY ONLY <1>3, <2>1, Parts
  <2>3. k - done \in 1..(k - done) /\ done + (k - done) = k
    BY <2>1
  <2>4. buffer = t
    BY <1>5 DEF k
  <2> HIDE DEF t
  <2>5. Len(buffer) = k - done /\ buffer[Len(buffer)] = written[k] /\ Len(buffer) # 0
    BY <2>1, <2>2, <2>3, <2>4
  <2> QED
    BY <2>5 DEF k
<1>9. LeftOver <=> written[TakenBytes] # "lf"
  BY <1>3, <1>8, StrippedIsNear DEF LeftOver
<1>10. LeftOver => message = buffer
  BY <1>3, StrippedIsNear DEF LeftOver
<1> HIDE DEF message
<1>11. CASE Len(message) > Limit /\ LeftOver /\ where' = "skipping" /\ out' = out
  <2>1. Unended(written, done, TakenBytes)
    <3> SUFFICES ASSUME NEW i \in (done + 1)..TakenBytes PROVE written[i] # "lf"
      BY DEF Unended
    <3>1. i = TakenBytes \/ i \in (done + 1)..(TakenBytes - 1)
      BY <1>7
    <3> QED
      BY <1>5, <1>9, <1>11, <3>1 DEF Unended
  <2>2. TakenBytes - done >= Cap \/ (AtEnd /\ TakenBytes - done > Limit)
    BY <1>3, <1>5, <1>7, <1>8, <1>9, <1>10, <1>11
  <2>3. Within(done)'
    BY <1>1, <1>6, <1>11, <2>1, <2>2 DEF Within
  <2>4. ToldLines(written', Ends', out', done)
    BY <1>1, <1>4, <1>6, <1>11
  <2> QED
    BY <1>4, <1>6, <2>3, <2>4 DEF OneForOne
<1>12. CASE ~(Len(message) > Limit /\ LeftOver) /\ Deliver(Verdict(buffer))
  <2> DEFINE v == Verdict(buffer)
             end == TakenBytes
  <2>1. v \in Records
    BY <1>3, Verdicts
  <2>2. end \in Ends /\ \A k \in (done + 1)..(end - 1) : k \notin Ends
    <3>1. /\ \A k \in (done + 1)..(end - 1) : k \notin Ends
          /\ end \in Ends <=> written[end] = "lf" \/ (~open /\ end = Len(written))
      BY <1>5, <1>7, NoEnds
    <3>2. written[end] = "lf" \/ AtEnd
      BY <1>3, <1>5, <1>8, <1>9, <1>10, <1>12
    <3> QED
      BY <1>7, <3>1, <3>2
  <2>3. v = Verdict(SubSeq(written, done + 1, end)) /\ Deliver(v) /\ TakenBytes' = end /\ done < end
    BY <1>5, <1>6, <1>12
  <2> HIDE DEF v, end
  <2>4. ToldLines(written, Ends, out, done)
    BY <1>4
  <2> QED
    BY ONLY LineInv, <1>1, <1>6, <1>7, <2>1, <2>2, <2>3, <2>4, TellingKeeps
<1> QED
  BY <1>2, <1>11, <1>12

\* A turn of skip_to_newline consumes up to the first LF of its chunk, or all of it.
LEMMA ConsumesTheLine ==
  ASSUME NEW chunk \in Seq(Bytes)
  PROVE  LET j == Consumed(chunk)
         IN /\ j \in 0..Len(chunk)
            /\ "lf" \in ToSet(chunk) =>
                 j >= 1 /\ chunk[j] = "lf" /\ \A k \in 1..(j - 1) : chunk[k] # "lf"
            /\ "lf" \notin ToSet(chunk) => j = Len(chunk) /\ \A k \in 1..j : chunk[k] # "lf"
<1> DEFINE newlines == {k \in 1..Len(chunk) : chunk[k] = "lf"}
           j == Consumed(chunk)
<1>1. Len(chunk) \in Nat /\ DOMAIN chunk = 1..Len(chunk) /\ j \in 0..Len(chunk)
  BY ConsumesItsChunk
<1>2. "lf" \in ToSet(chunk) <=> newlines # {}
  BY <1>1 DEF ToSet
<1>3. CASE "lf" \notin ToSet(chunk)
  BY <1>1, <1>2, <1>3 DEF Consumed
<1>4. CASE "lf" \in ToSet(chunk)
  <2>1. newlines \subseteq Nat /\ newlines # {}
    BY <1>2, <1>4
  <2>2. Min(newlines) \in newlines /\ \A k \in newlines : Min(newlines) <= k
    <3> HIDE DEF newlines
    <3> QED
      BY <2>1, FirstPosition
  <2>3. SelectInSeq(chunk, LAMBDA b : b = "lf") = Min(newlines)
    BY <2>1 DEF SelectInSeq
  <2>4. j = Min(newlines)
    BY <1>4, <2>3 DEF Consumed
  <2>5. ASSUME NEW k \in 1..(j - 1) PROVE chunk[k] # "lf"
    <3>1. k \in 1..Len(chunk) /\ ~(j <= k)
      BY <1>1
    <3> QED
      BY <2>2, <2>4, <3>1
  <2> QED
    BY <1>1, <1>4, <2>2, <2>4, <2>5
<1> QED
  BY <1>3, <1>4

\* The rest of a line is thrown away.
LEMMA SkippingKeeps ==
  ASSUME LineInv, OneForOne, Skip
  PROVE  OneForOne'
<1> DEFINE tooLong == [kind |-> "too_long", text |-> <<>>]
<1>1. where = "skipping" /\ written' = written /\ open' = open /\ UNCHANGED clientVars
  BY DEF Skip, clientVars
<1>2. /\ written \in Seq(Bytes) /\ Len(written) \in Nat /\ Remaining /\ todo \in Seq(Bytes)
      /\ Len(todo) \in Nat /\ Limit \in Nat /\ Cap = Limit + 2
  BY StreamFacts DEF OneForOne
<1>3. PICK done \in 0..TakenBytes : ToldLines(written, Ends, out, done) /\ Within(done)
  BY DEF OneForOne
<1>4. Unended(written, done, TakenBytes) /\ (TakenBytes - done >= Cap \/ (AtEnd /\ TakenBytes - done > Limit))
  BY <1>1, <1>3 DEF Within
<1>5. /\ TakenBytes \in Nat /\ done \in Nat /\ done <= TakenBytes /\ TakenBytes <= Len(written)
      /\ TakenBytes = Len(written) - Len(todo)
  BY <1>2 DEF TakenBytes, Remaining
<1>6. tooLong \in Records
  BY <1>2 DEF Records, Texts
\* Where such a line is found to end, it is told as too long.
<1>7. ASSUME NEW end \in Ends, done < end, end <= Len(written), end = TakenBytes', Remaining',
             Unended(written, done, end - 1), Deliver(tooLong),
             \/ end - done > Cap \/ (written[end] # "lf" /\ end - done > Limit)
      PROVE  OneForOne'
  <2> DEFINE b == SubSeq(written, done + 1, end)
  <2>0. end \in Nat
    BY StreamFacts
  <2>01. done \in Nat /\ done < end /\ done <= end /\ end <= Len(written)
    BY ONLY <1>5, <2>0, done < end, end <= Len(written)
  <2>1. /\ b \in Seq(Bytes) /\ Len(b) = end - done
        /\ \A i \in 1..(end - done) : b[i] = written[done + i]
    <3>1. written \in Seq(Bytes)
      BY <1>2
    <3> QED
      BY ONLY <2>0, <2>01, <3>1, Parts
  <2>2. b[Len(b)] = written[end] /\ Len(b) \in Nat
    <3>1. end - done \in 1..(end - done) /\ done + (end - done) = end /\ end - done \in Nat
      BY ONLY <2>0, <2>01
    <3> HIDE DEF b
    <3> QED
      BY <2>1, <3>1
  <2>3. /\ Stripped(b) \in Seq(Bytes) /\ Len(Stripped(b)) >= Len(b) - 2
        /\ b[Len(b)] # "lf" => Stripped(b) = b
    <3> HIDE DEF b
    <3> QED
      BY <2>1, StrippedIsNear
  <2>4. Len(Stripped(b)) > Limit
    <3> HIDE DEF b
    <3>1. Len(Stripped(b)) \in Nat
      BY <2>3, LenProperties
    <3>2. CASE end - done > Cap
      BY <1>2, <1>5, <2>0, <2>1, <2>2, <2>3, <3>1, <3>2
    <3>3. CASE written[end] # "lf" /\ end - done > Limit
      BY <2>1, <2>2, <2>3, <3>3
    <3> QED
      BY <1>7, <3>2, <3>3
  <2>5. tooLong = Verdict(b)
    <3> HIDE DEF b
    <3> QED
      BY <2>1, <2>4, Verdicts
  <2>6. \A k \in (done + 1)..(end - 1) : k \notin Ends
    BY <1>5, <1>7, <2>0, NoEnds
  <2> DEFINE v == tooLong
  <2>7. v \in Records /\ v = Verdict(SubSeq(written, done + 1, end)) /\ Deliver(v)
    BY <1>6, <1>7, <2>5
  <2> HIDE DEF v
  <2> QED
    BY ONLY LineInv, <1>1, <1>3, <1>5, <1>7, <2>6, <2>7, TellingKeeps
<1> HIDE DEF tooLong
<1>8. ASSUME NEW n \in 1..Len(todo),
             todo' = SubSeq(todo, Consumed(SubSeq(todo, 1, n)) + 1, Len(todo)),
             IF "lf" \in ToSet(SubSeq(todo, 1, n)) THEN Deliver(tooLong)
             ELSE UNCHANGED <<buffer, where, out>>
      PROVE  OneForOne'
  <2> DEFINE chunk == SubSeq(todo, 1, n)
             j == Consumed(chunk)
  <2>1. chunk \in Seq(Bytes) /\ Len(chunk) = n /\ \A k \in 1..n : chunk[k] = todo[k]
    <3>1. n \in Nat /\ 0 <= n /\ n <= Len(todo) /\ 0 \in Nat /\ n - 0 = n /\ 0 + 1 = 1
      BY <1>2
    <3>2. LET t == SubSeq(todo, 0 + 1, n)
          IN t \in Seq(Bytes) /\ Len(t) = n - 0 /\ \A k \in 1..(n - 0) : t[k] = todo[0 + k]
      BY ONLY <1>2, <3>1, Parts
    <3>3. \A k \in 1..n : 0 + k = k
      OBVIOUS
    <3> QED
      BY <3>1, <3>2, <3>3
  <2> HIDE DEF chunk
  <2>2. /\ j \in 0..n
        /\ "lf" \in ToSet(chunk) =>
             j >= 1 /\ chunk[j] = "lf" /\ \A k \in 1..(j - 1) : chunk[k] # "lf"
        /\ "lf" \notin ToSet(chunk) => j = n /\ \A k \in 1..j : chunk[k] # "lf"
    BY <2>1, ConsumesTheLine
  <2>3. todo' = SubSeq(todo, j + 1, Len(todo))
    BY <1>8 DEF chunk
  <2> HIDE DEF j
  <2>4. j \in 0..Len(todo) /\ j \in Nat /\ n <= Len(todo) /\ n \in Nat
    BY <1>2, <2>2
  <2>5. Remaining' /\ TakenBytes' = TakenBytes + j
    BY <1>1, <1>2, <2>3, <2>4, TakesTheStart
  <2>6. \A k \in 1..n : chunk[k] = written[TakenBytes + k]
    <3> TAKE k \in 1..n
    <3>1. k \in 1..Len(todo)
      BY <1>2, <2>4
    <3> QED
      BY <1>2, <2>1, <3>1 DEF Remaining
  <2>7. ASSUME NEW m \in 0..n, \A k \in 1..m : chunk[k] # "lf"
        PROVE  Unended(written, done, TakenBytes + m)
    <3> SUFFICES ASSUME NEW i \in (done + 1)..(TakenBytes + m) PROVE written[i] # "lf"
      BY DEF Unended
    <3>1. CASE i <= TakenBytes
      <4>1. i \in (done + 1)..TakenBytes
        BY <1>5, <3>1
      <4> QED
        BY <1>4, <4>1 DEF Unended
    <3>2. CASE ~(i <= TakenBytes)
      <4>1. i - TakenBytes \in 1..m /\ i - TakenBytes \in 1..n /\ TakenBytes + (i - TakenBytes) = i
        BY <1>5, <2>4, <3>2
      <4> QED
        BY <2>6, <2>7, <4>1
    <3> QED
      BY <3>1, <3>2
  <2>8. TakenBytes - done >= Cap
    <3>1. Len(todo) # 0
      BY <1>2
    <3>2. ~AtEnd
      BY <3>1 DEF AtEnd
    <3> QED
      BY <1>4, <3>2
  <2>9. CASE "lf" \in ToSet(chunk)
    <3> DEFINE end == TakenBytes + j
    <3>1. /\ j - 1 \in 0..n /\ j \in 1..n /\ (TakenBytes + (j - 1)) = end - 1
          /\ end \in Nat /\ done < end /\ end <= Len(written) /\ end - done > Cap
      BY <1>2, <1>5, <2>2, <2>4, <2>8, <2>9
    <3>2. Unended(written, done, end - 1)
      <4>1. Unended(written, done, TakenBytes + (j - 1))
        BY <2>2, <2>7, <2>9, <3>1
      <4> QED
        BY <3>1, <4>1
    <3>3. written[end] = "lf"
      BY <2>2, <2>6, <2>9, <3>1
    <3>4. end = TakenBytes' /\ Deliver(tooLong)
      BY <1>8, <2>5, <2>9 DEF chunk
    <3> HIDE DEF end
    <3>5. end \in Ends
      BY <1>5, <3>1, <3>2, <3>3, NoEnds
    <3> QED
      BY <1>7, <2>5, <3>1, <3>2, <3>4, <3>5
  <2>10. CASE "lf" \notin ToSet(chunk)
    <3>1. n \in 0..n /\ j = n
      BY <2>2, <2>4, <2>10
    <3>2. Unended(written, done, TakenBytes + j)
      BY <2>2, <2>7, <2>10, <3>1
    <3>3. buffer' = buffer /\ where' = where /\ out' = out
      BY <1>8, <2>10 DEF chunk
    <3>4. TakenBytes' - done >= Cap /\ done \in 0..TakenBytes'
      BY <1>2, <1>5, <2>4, <2>5, <2>8
    <3>5. Within(done)'
      BY <1>1, <2>5, <3>2, <3>3, <3>4 DEF Within
    <3>6. ToldLines(written', Ends', out', done)
      BY <1>1, <1>3, <3>3 DEF Ends
    <3> QED
      BY <2>5, <3>4, <3>5, <3>6 DEF OneForOne
  <2> QED
    BY <2>9, <2>10
<1>9. ASSUME todo = <<>>, ~open, Deliver(tooLong), todo' = todo
      PROVE  OneForOne'
  <2> DEFINE end == TakenBytes
  <2>1. Len(todo) = 0 /\ TakenBytes' = TakenBytes /\ Remaining'
    BY <1>1, <1>2, <1>9 DEF TakenBytes, Remaining
  <2>2. end = Len(written) /\ end - done > Limit /\ done < end /\ end \in Nat
    BY <1>2, <1>4, <1>5, <2>1
  <2>3. Unended(written, done, end - 1)
    <3>1. \A i \in (done + 1)..(end - 1) : i \in (done + 1)..TakenBytes
      BY <1>5
    <3> QED
      BY <1>4, <3>1 DEF Unended
  <2>4. written[end] # "lf"
    <3>1. TakenBytes \in (done + 1)..TakenBytes
      BY <1>5, <2>2
    <3> QED
      BY <1>4, <3>1 DEF Unended
  <2>5. end = TakenBytes' /\ end <= Len(written)
    BY <1>5, <2>1
  <2> HIDE DEF end
  <2>6. end \in Ends
    BY <1>5, <1>9, <2>2, <2>3, <2>5, NoEnds
  <2> QED
    BY <1>7, <1>9, <2>1, <2>2, <2>3, <2>4, <2>5, <2>6
<1>10. \/ \E n \in 1..Len(todo) :
            /\ todo' = SubSeq(todo, Consumed(SubSeq(todo, 1, n)) + 1, Len(todo))
            /\ IF "lf" \in ToSet(SubSeq(todo, 1, n)) THEN Deliver(tooLong)
               ELSE UNCHANGED <<buffer, where, out>>
       \/ todo = <<>> /\ ~open /\ Deliver(tooLong) /\ todo' = todo
  BY Zenon DEF Skip, tooLong
<1> QED
  BY <1>8, <1>9, <1>10

\* What read_line returns is the stream's lines, in order, one for one and judged on the
\* message alone, for any limit and any stream: a line that is too long, or not text, never
\* swallows or splits a neighbour, wherever the cap or a chunk happened to cut it.
\* (read_line, skip_to_newline)
THEOREM ReadsLineByLine == LineSpec => []ReadsTheLines
<1>1. LineInit => OneForOne
  <2> SUFFICES ASSUME LineInit PROVE OneForOne
    OBVIOUS
  <2>1. /\ written = <<>> /\ todo = <<>> /\ buffer = <<>> /\ where = "reading" /\ out = <<>>
    BY DEF LineInit
  <2>2. Len(written) = 0 /\ Len(todo) = 0 /\ Len(out) = 0 /\ TakenBytes = 0
    BY <2>1 DEF TakenBytes
  <2>3. Remaining
    BY <2>2 DEF Remaining
  <2>4. ToldLines(written, Ends, out, 0)
    <3>1. Ends = {}
      <4>1. Len(written) = 0 /\ DOMAIN written = 1..Len(written)
        BY <2>1
      <4>2. \A k \in DOMAIN written : FALSE
        BY ONLY <4>1
      <4> QED
        BY <4>2 DEF Ends, LineEnds
    <3>2. Upto(Ends, 0) = {}
      BY <3>1 DEF Upto
    <3>3. Cardinality({}) = 0
      BY FS_EmptySet
    <3> QED
      BY <2>2, <3>2, <3>3 DEF ToldLines
  <2>5. Within(0)
    <3>1. SubSeq(written, 0 + 1, 0) = <<>>
      BY <2>1
    <3>2. Unended(written, 0, 0)
      BY DEF Unended
    <3> QED
      BY <2>1, <2>2, <3>1, <3>2, Zenon DEF Within
  <2>6. 0 \in 0..TakenBytes
    BY <2>2
  <2> QED
    BY <2>3, <2>4, <2>5, <2>6 DEF OneForOne
<1>2. LineInv /\ OneForOne /\ [LineNext]_lineVars => OneForOne'
  <2> SUFFICES ASSUME LineInv, OneForOne, [LineNext]_lineVars PROVE OneForOne'
    OBVIOUS
  <2>1. CASE WriteByte
    BY <2>1, WritingKeeps
  <2>2. CASE CloseStream
    BY <2>2, ClosingKeeps
  <2>3. CASE Reads
    BY <2>3, ReadingKeeps, EndingKeeps, JudgingKeeps, SkippingKeeps DEF Reads
  <2>4. CASE ReadError
    BY <2>4, FailingKeeps
  <2>5. CASE UNCHANGED lineVars
    <3>1. written' = written /\ open' = open /\ todo' = todo /\ buffer' = buffer
          /\ where' = where /\ out' = out
      BY <2>5 DEF lineVars, clientVars, readerVars
    <3> QED
      BY <3>1 DEF OneForOne, Remaining, TakenBytes, Ends, AtEnd, Within
  <2> QED
    BY <2>1, <2>2, <2>3, <2>4, <2>5 DEF LineNext
<1>3. LineInv /\ OneForOne => ReadsTheLines
  <2> SUFFICES ASSUME LineInv, OneForOne, NEW n \in DOMAIN out
               PROVE  \E end \in Ends :
                        /\ Cardinality({k \in Ends : k <= end}) = n
                        /\ out[n] = Verdict(LineTo(written, Ends, end))
    BY DEF ReadsTheLines, Ends
  <2>1. PICK done \in 0..TakenBytes : ToldLines(written, Ends, out, done)
    BY DEF OneForOne
  <2>2. n \in 1..Len(out)
    BY StreamFacts
  <2>3. PICK e \in Upto(Ends, done) :
               Cardinality(Upto(Ends, e)) = n /\ out[n] = Verdict(LineTo(written, Ends, e))
    BY <2>1, <2>2 DEF ToldLines
  <2>4. e \in Ends
    BY DEF Upto
  <2> QED
    BY <2>3, <2>4 DEF Upto
<1> QED
  BY <1>1, <1>2, <1>3, StreamStarts, LineStepKeeps, PTL DEF LineSpec
=============================================================================
