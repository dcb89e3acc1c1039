-------------------------- MODULE SelectionProofs --------------------------
(***************************************************************************)
(* The candidate rule for any encoders, any estimator and any margin.       *)
(***************************************************************************)
EXTENDS Selection, SequenceTheorems, TLAPS

\* The positions of enabled that were tried.
Tried == 1..(next - 1)

\* An encoder that was tried, applied and was kept, when it was tried, as a candidate.
Contender(id) == id \in Candidates /\ Kept(id) /\ \E k \in Tried : enabled[k] = id

\* After every turn of the loop: best is the best contender so far, and the flag tells of
\* the candidates refused so far.
Progress ==
  /\ step \in {"size", "utf8", "parse"} => next = 1 /\ best = None /\ ~rejected
  /\ outcome = "artifact" => step = "done" /\ next > Len(enabled)
  /\ best = None => \A id \in Ids : ~Contender(id)
  /\ best # None => Contender(best) /\ \A id \in Ids : Contender(id) => Beats(best, id)
  /\ rejected = (\E id \in Candidates : ~Kept(id) /\ \E k \in Tried : enabled[k] = id)

SelectionInv == SelectionTypeOK /\ Progress

\* The margin applied is at most 100%, whatever was configured.
LEMMA MarginRange ==
  ASSUME NEW o \in Overrides, NEW c \in OverClaims
  PROVE  Margin(o, c) \in 0..BpsScale
BY SelectionAssumption, SMT DEF Margin, BpsScale

\* Inputs and lists of encoders have the shape the model gives them.
LEMMA Shapes ==
  ASSUME SelectionTypeOK
  PROVE  /\ input \in Input /\ enabled \in Seq(Ids \cup {Passthrough})
         /\ \A id \in Candidates : id \in Ids /\ input.after[id] \in Nat
         /\ \A k \in 1..Len(enabled) : enabled[k] \in Ids \cup {Passthrough}
         /\ input.before \in Nat /\ margin \in Nat /\ Len(enabled) \in Nat
BY SelectionAssumption, SMT DEF SelectionTypeOK, Input, Candidates, BpsScale

\* The first state has the types.
LEMMA TypesAtFirst == Init => SelectionTypeOK
<1> SUFFICES ASSUME Init PROVE SelectionTypeOK
  OBVIOUS
<1>1. margin \in 0..BpsScale
  BY MarginRange DEF Init
<1>2. enabled \in Seq(Ids \cup {Passthrough})
  BY SelectionAssumption DEF Init
<1>3. next \in 1..(Len(enabled) + 1)
  BY <1>2, LenProperties, SMT DEF Init
<1> QED
  BY <1>1, <1>3 DEF Init, SelectionTypeOK

\* Every step keeps them.
LEMMA TypesKept == SelectionTypeOK /\ [Next]_vars => SelectionTypeOK'
<1> SUFFICES ASSUME SelectionTypeOK, [Next]_vars PROVE SelectionTypeOK'
  OBVIOUS
<1>1. CASE GuardSize
  BY <1>1 DEF GuardSize, Guard, SelectionTypeOK, jobVars, Candidates
<1>2. CASE GuardUtf8
  BY <1>2 DEF GuardUtf8, Guard, SelectionTypeOK, jobVars, Candidates
<1>3. CASE Parse
  BY <1>3 DEF Parse, Guard, SelectionTypeOK, jobVars, Candidates
<1>4. CASE TryEncoder
  <2>1. enabled \in Seq(Ids \cup {Passthrough}) /\ Len(enabled) \in Nat
    BY Shapes
  <2>2. next' \in 1..(Len(enabled') + 1)
    BY <1>4, <2>1, SMT DEF TryEncoder, SelectionTypeOK, jobVars
  <2>3. best' \in Candidates' \cup {None} /\ rejected' \in BOOLEAN
    BY <1>4 DEF TryEncoder, SelectionTypeOK, jobVars, Candidates
  <2> QED
    BY <1>4, <2>2, <2>3 DEF TryEncoder, SelectionTypeOK, jobVars
<1>5. CASE Finish
  BY <1>5 DEF Finish, SelectionTypeOK, jobVars, Candidates
<1>6. CASE UNCHANGED vars
  BY <1>6 DEF vars, SelectionTypeOK, jobVars, Candidates
<1> QED
  BY <1>1, <1>2, <1>3, <1>4, <1>5, <1>6 DEF Next

\* Fewer tokens clear every margin that more tokens clear.
LEMMA MarginIsMonotone ==
  ASSUME NEW fewer \in Nat, NEW more \in Nat, NEW before \in Nat, NEW bps \in Nat,
         fewer <= more, ClearsMargin(more, before, bps)
  PROVE  ClearsMargin(fewer, before, bps)
<1> DEFINE bar == before * bps
<1>1. bar \in Nat
  OBVIOUS
<1>2. more < before /\ (before - more) * 10000 >= bar
  BY DEF ClearsMargin, BpsScale
<1> HIDE DEF bar
<1>3. fewer < before /\ (before - fewer) * 10000 >= bar
  BY <1>1, <1>2, SMT
<1> QED
  BY <1>3 DEF ClearsMargin, BpsScale, bar

\* The order of preference is total and transitive on the candidates.
LEMMA PreferenceIsAnOrder ==
  ASSUME SelectionTypeOK, NEW a \in Candidates, NEW b \in Candidates, NEW c \in Candidates
  PROVE  /\ Beats(a, a)
         /\ Beats(a, b) /\ Beats(b, c) => Beats(a, c)
         /\ Prefers(input.after[a], a, input.after[b], b) => Beats(a, b)
         /\ ~Prefers(input.after[a], a, input.after[b], b) => Beats(b, a)
<1>1. \A x \in {a, b, c} : x \in Nat /\ input.after[x] \in Nat
  BY Shapes, SelectionAssumption
<1> QED
  BY <1>1, SMT DEF Beats, Prefers

\* Nothing was tried yet.
LEMMA ProgressAtFirst == Init => Progress
<1> SUFFICES ASSUME Init PROVE Progress
  OBVIOUS
<1>1. next = 1 /\ best = None /\ rejected = FALSE /\ outcome = "none"
  BY DEF Init
<1>2. Tried = {}
  BY <1>1, SMT DEF Tried
<1> QED
  BY <1>1, <1>2 DEF Progress, Contender

\* Every turn of the loop extends the claim to one more encoder.
LEMMA ProgressKept == SelectionInv /\ [Next]_vars => Progress'
<1> SUFFICES ASSUME SelectionTypeOK, Progress, [Next]_vars PROVE Progress'
  BY DEF SelectionInv
<1> USE DEF Contender, Tried, Kept, Beats
<1>1. CASE GuardSize \/ GuardUtf8 \/ Parse
  <2>1. UNCHANGED <<input, enabled, margin, next, best, rejected>>
    BY <1>1 DEF GuardSize, GuardUtf8, Parse, Guard, jobVars
  <2>2. Candidates' = Candidates
    BY <2>1 DEF Candidates
  <2>3. step \in {"size", "utf8", "parse"} /\ outcome' # "artifact"
    BY <1>1 DEF GuardSize, GuardUtf8, Parse, Guard, SelectionTypeOK, Progress
  <2> QED
    BY <2>1, <2>2, <2>3 DEF Progress
<1>2. CASE TryEncoder
  <2> DEFINE id == enabled[next]
  <2>1. /\ UNCHANGED <<input, enabled, margin, step, outcome>>
        /\ step = "select" /\ next \in 1..Len(enabled) /\ next' = next + 1
        /\ Candidates' = Candidates
    BY <1>2, Shapes, SMT DEF TryEncoder, jobVars, SelectionTypeOK, Candidates
  <2>2. outcome = "none"
    BY <2>1 DEF SelectionTypeOK
  <2>3. Tried' = Tried \cup {next}
    BY <2>1, Shapes, SMT DEF SelectionTypeOK
  <2>4. \A x : Contender(x)' <=> Contender(x) \/ (x = id /\ id \in Candidates /\ Kept(id))
    BY <2>1, <2>3
  <2>5. CASE id \notin Candidates
    <3>1. UNCHANGED <<best, rejected>>
      BY <1>2, <2>5 DEF TryEncoder
    <3>2. \A x \in Ids : Contender(x)' <=> Contender(x)
      BY <2>4, <2>5
    <3>3. rejected' = (\E x \in Candidates' : ~Kept(x)' /\ \E k \in Tried' : enabled'[k] = x)
      BY <2>1, <2>3, <2>5, <3>1 DEF Progress
    <3> QED
      BY <2>1, <2>2, <2>4, <2>5, <3>1, <3>2, <3>3 DEF Progress
  <2>6. CASE id \in Candidates /\ ~Kept(id)
    <3>1. rejected' = TRUE /\ UNCHANGED best
      BY <1>2, <2>6 DEF TryEncoder
    <3>2. \A x : Contender(x)' <=> Contender(x)
      BY <2>4, <2>6
    <3>3. \E x \in Candidates' : ~Kept(x)' /\ \E k \in Tried' : enabled'[k] = x
      BY <2>1, <2>3, <2>6
    <3> QED
      BY <2>1, <2>2, <3>1, <3>2, <3>3 DEF Progress
  <2>7. CASE id \in Candidates /\ Kept(id)
    <3>1. UNCHANGED rejected /\ best' = IF Wins(id) THEN id ELSE best
      BY <1>2, <2>7 DEF TryEncoder
    <3>2. best # None => Contender(best) /\ best \in Candidates
      BY DEF Progress
    <3>3. id # None
      BY <2>7, SelectionAssumption DEF Candidates
    <3>4. \A x : Contender(x) => x \in Candidates
      OBVIOUS
    <3>5. (best # None)' /\ Contender(best)' /\ \A x \in Ids : Contender(x)' => Beats(best, x)'
      <4>1. CASE best = None
        BY <2>1, <2>4, <2>7, <3>1, <3>3, <4>1, PreferenceIsAnOrder DEF Progress, Wins
      <4>2. CASE best # None /\ Prefers(input.after[id], id, input.after[best], best)
        <5>1. Beats(id, id) /\ Beats(id, best)
          BY <2>7, <3>2, <4>2, PreferenceIsAnOrder
        <5>2. \A x \in Ids : Contender(x) => Beats(id, x)
          BY <2>7, <3>2, <3>4, <4>2, <5>1, PreferenceIsAnOrder DEF Progress
        <5> QED
          BY <2>1, <2>4, <2>7, <3>1, <3>3, <4>2, <5>1, <5>2 DEF Wins
      <4>3. CASE best # None /\ ~Prefers(input.after[id], id, input.after[best], best)
        <5>1. Beats(best, id)
          BY <2>7, <3>2, <4>3, PreferenceIsAnOrder
        <5> QED
          BY <2>1, <2>4, <3>1, <3>2, <4>3, <5>1 DEF Wins, Progress
      <4> QED
        BY <4>1, <4>2, <4>3
    <3>6. rejected' = (\E x \in Candidates' : ~Kept(x)' /\ \E k \in Tried' : enabled'[k] = x)
      BY <2>1, <2>3, <2>7, <3>1 DEF Progress
    <3> QED
      BY <2>1, <2>2, <3>5, <3>6 DEF Progress
  <2> QED
    BY <2>5, <2>6, <2>7
<1>3. CASE Finish
  <2>1. UNCHANGED <<input, enabled, margin, next, best, rejected>> /\ next > Len(enabled)
        /\ step = "select" /\ step' = "done"
    BY <1>3 DEF Finish, jobVars
  <2>2. Candidates' = Candidates
    BY <2>1 DEF Candidates
  <2> QED
    BY <2>1, <2>2 DEF Progress
<1>4. CASE UNCHANGED vars
  <2>1. Candidates' = Candidates
    BY <1>4 DEF vars, jobVars, Candidates
  <2> QED
    BY <1>4, <2>1 DEF vars, jobVars, Progress
<1> QED
  BY <1>1, <1>2, <1>3, <1>4 DEF Next

\* What the loop has established when it ends.
LEMMA AtTheEnd ==
  ASSUME SelectionInv, outcome = "artifact"
  PROVE  \A id \in Ids :
           (\E k \in Tried : enabled[k] = id) <=> (\E k \in DOMAIN enabled : enabled[k] = id)
<1>1. next > Len(enabled) /\ next \in 1..(Len(enabled) + 1) /\ Len(enabled) \in Nat
  BY Shapes DEF SelectionInv, SelectionTypeOK, Progress
<1>2. Tried = 1..Len(enabled)
  BY <1>1, SMT DEF Tried
<1>3. DOMAIN enabled = 1..Len(enabled)
  BY Shapes DEF SelectionInv
<1> QED
  BY <1>2, <1>3

\* At the end of the loop the claim is the three properties.
LEMMA ProgressSuffices == SelectionInv => DoNoHarm /\ BestIsChosen /\ GateIsTold
<1> SUFFICES ASSUME SelectionInv PROVE DoNoHarm /\ BestIsChosen /\ GateIsTold
  OBVIOUS
<1>0. SelectionTypeOK /\ Progress
  BY DEF SelectionInv
<1>1. DoNoHarm
  BY <1>0 DEF Progress, Contender, Kept, ClearsMargin, DoNoHarm
<1>2. ASSUME outcome = "artifact"
      PROVE  \A id \in Ids : Contender(id) <=> id \in Applied /\ Kept(id)
  BY <1>2, AtTheEnd DEF Contender, Applied
<1>3. ASSUME outcome = "artifact"
      PROVE  BestIsChosen
  <2>1. \A id \in Winners : id \in Ids /\ id \in Candidates /\ input.after[id] \in Nat
    BY <1>0, Shapes DEF Winners, Applied
  <2>2. \A id \in Winners : ClearsMargin(input.after[id], input.before, margin) => Contender(id)
    BY <1>2, <1>3, <2>1 DEF Winners, Kept
  <2>3. CASE \E id \in Winners : ClearsMargin(input.after[id], input.before, margin)
    <3>1. best # None /\ Contender(best) /\ best \in Candidates
      BY <1>0, <2>1, <2>2, <2>3 DEF Progress, Contender
    <3>2. best \in Winners
      BY <1>0, <1>2, <1>3, <3>1, Shapes DEF Winners, Kept, ClearsMargin
    <3>3. ASSUME NEW id \in Winners
          PROVE  Beats(best, id)
      <4>1. /\ input.after[id] \in Nat /\ input.after[best] \in Nat
            /\ input.before \in Nat /\ margin \in Nat
        BY <1>0, <2>1, <3>1, Shapes
      <4>2. CASE input.after[id] <= input.after[best]
        <5>1. ClearsMargin(input.after[best], input.before, margin)
          BY <3>1 DEF Contender, Kept
        <5>2. ClearsMargin(input.after[id], input.before, margin)
          BY <4>1, <4>2, <5>1, MarginIsMonotone
        <5> QED
          BY <1>0, <2>1, <2>2, <3>1, <5>2 DEF Progress
      <4>3. CASE ~(input.after[id] <= input.after[best])
        BY <4>1, <4>3, SMT DEF Beats
      <4> QED
        BY <4>2, <4>3
    <3> QED
      BY <2>3, <3>2, <3>3 DEF BestIsChosen
  <2>4. CASE ~\E id \in Winners : ClearsMargin(input.after[id], input.before, margin)
    <3>1. \A id \in Ids : ~Contender(id)
      BY <1>2, <1>3, <2>4, Shapes, <1>0 DEF Winners, Kept, ClearsMargin
    <3>2. best = None
      BY <1>0, <3>1 DEF Progress, Contender, Candidates
    <3> QED
      BY <2>4, <3>2 DEF BestIsChosen
  <2> QED
    BY <2>3, <2>4
<1>4. ASSUME outcome = "artifact"
      PROVE  GateIsTold
  <2>1. \A id \in Candidates : (\E k \in Tried : enabled[k] = id) <=> id \in Applied
    BY <1>4, AtTheEnd DEF Applied, Candidates
  <2> QED
    BY <1>0, <2>1 DEF Progress, GateIsTold, Applied, Kept
<1> QED
  BY <1>1, <1>3, <1>4 DEF BestIsChosen, GateIsTold

\* The inductive invariant holds of every state.
LEMMA Inductive == Spec => []SelectionInv
<1>1. Init => SelectionInv
  BY TypesAtFirst, ProgressAtFirst DEF SelectionInv
<1>2. SelectionInv /\ [Next]_vars => SelectionInv'
  BY TypesKept, ProgressKept DEF SelectionInv
<1> QED
  BY <1>1, <1>2, PTL DEF Spec

\* The variables of compress keep their ranges, and the margin is at most 100%.
THEOREM SelectionTypes == Spec => []SelectionTypeOK
<1>1. SelectionInv => SelectionTypeOK
  BY DEF SelectionInv
<1> QED
  BY <1>1, Inductive, PTL

\* Do no harm: for any estimator, any margin and any encoders, a rendering that replaces
\* the input is rated strictly lower, and by the margin at least.  (clears_margin)
THEOREM NoHarmIsDone == Spec => []DoNoHarm
<1>1. SelectionInv => DoNoHarm
  BY ProgressSuffices
<1> QED
  BY <1>1, Inductive, PTL

\* The candidate rule is a choice of the best, independent of the order of the encoders,
\* and a margin only ever turns the choice into passthrough.  (select, prefers)
THEOREM TheBestIsChosen == Spec => []BestIsChosen
<1>1. SelectionInv => BestIsChosen
  BY ProgressSuffices
<1> QED
  BY <1>1, Inductive, PTL

\* The flag in the statistics says whether some rendering was refused, whatever happened
\* to the others.  (gate_rejected_candidate)
THEOREM TheGateIsTold == Spec => []GateIsTold
<1>1. SelectionInv => GateIsTold
  BY ProgressSuffices
<1> QED
  BY <1>1, Inductive, PTL
=============================================================================
