----------------------------- MODULE Selection -----------------------------
(***************************************************************************)
(* Compressor::compress (tokfold-core): the guards on the input, then the   *)
(* candidate rule of encoder::select, one enabled encoder after the other.  *)
(* What an encoder makes of a document is its estimated tokens; estimates   *)
(* are a parameter, since a caller may supply any TokenEstimator.           *)
(***************************************************************************)
EXTENDS Naturals, Sequences

CONSTANTS
  Ids,        \* encoder ids but Passthrough's
  Declined,   \* render returns None
  Inputs,     \* what compress may be given: see Input
  Orders,     \* lists of enabled encoders
  Overrides,  \* Config::min_saving_bps: a margin in basis points, or Unset
  OverClaims, \* the estimator's over_claim_bps
  Unset,
  None        \* no candidate kept yet

Passthrough == 0
BpsScale == 10000       \* BPS_SCALE, MAX_SAVING_BPS

\* What the guards tell apart, and the estimates of the input and of each rendering.
Input ==
  [fits   : BOOLEAN,                              \* within max_input_bytes
   utf8   : BOOLEAN,
   json   : {"valid", "invalid", "too_deep"},
   before : Nat,
   after  : [Ids -> Nat \cup {Declined}]]

ASSUME SelectionAssumption ==
  /\ Ids \subseteq Nat \ {Passthrough}
  /\ Declined \notin Nat
  /\ None \notin Nat
  /\ Inputs \subseteq Input
  /\ Orders \subseteq Seq(Ids \cup {Passthrough})
  /\ Unset \notin Nat
  /\ Overrides \subseteq Nat \cup {Unset}
  /\ OverClaims \subseteq Nat

VARIABLES
  input,
  enabled,    \* enabled_encoders(profile)
  margin,     \* the margin applied
  step,       \* "size", "utf8", "parse", "select" or "done"
  next,       \* the position in enabled to try
  best,       \* the encoder kept so far, or None
  rejected,   \* gate_rejected_candidate
  outcome     \* the error, or "artifact"

jobVars == <<input, enabled, margin>>
vars == <<jobVars, step, next, best, rejected, outcome>>

\* An explicit override wins over the estimator's budget; a margin over 100% is clamped.
Margin(override, claim) ==
  LET asked == IF override = Unset THEN claim ELSE override
  IN IF asked > BpsScale THEN BpsScale ELSE asked

Init ==
  /\ input \in Inputs
  /\ enabled \in Orders
  /\ \E o \in Overrides, c \in OverClaims : margin = Margin(o, c)
  /\ step = "size" /\ next = 1
  /\ best = None /\ rejected = FALSE /\ outcome = "none"

Guard(at, holds, error, then) ==
  /\ step = at
  /\ \/ holds /\ step' = then /\ UNCHANGED outcome
     \/ ~holds /\ step' = "done" /\ outcome' = error
  /\ UNCHANGED <<jobVars, next, best, rejected>>

GuardSize == Guard("size", input.fits, "input_too_large", "utf8")
GuardUtf8 == Guard("utf8", input.utf8, "not_utf8", "parse")

\* tape::parse
Parse ==
  Guard("parse", input.json = "valid",
        IF input.json = "invalid" THEN "invalid_json" ELSE "depth_exceeded", "select")

----------------------------------------------------------------------------
(* select                                                                   *)

\* Mutant: a win of exactly nothing is kept.
ClearsWhenEqual(after, before, bps) ==
  after <= before /\ (before - after) * BpsScale >= before * bps

\* clears_margin: a strict win, and of at least bps basis points of the input.
ClearsMargin(after, before, bps) ==
  after < before /\ (before - after) * BpsScale >= before * bps

\* Mutant: the first of equals is kept, in the order tried.
PrefersStrictly(newAfter, newId, bestAfter, bestId) == newAfter < bestAfter

\* prefers: fewer tokens, or as many and a lower id.
Prefers(newAfter, newId, bestAfter, bestId) ==
  newAfter < bestAfter \/ (newAfter = bestAfter /\ newId < bestId)

Kept(id) == ClearsMargin(input.after[id], input.before, margin)
Wins(id) == best = None \/ Prefers(input.after[id], id, input.after[best], best)

\* An encoder may not apply; Passthrough is the fallback, never a candidate.
Candidates == {id \in Ids : input.after[id] # Declined}

TryEncoder ==
  /\ step = "select" /\ next <= Len(enabled)
  /\ LET id == enabled[next]
     IN \/ id \notin Candidates /\ UNCHANGED <<best, rejected>>
        \/ id \in Candidates /\ ~Kept(id) /\ rejected' = TRUE /\ UNCHANGED best
        \/ /\ id \in Candidates /\ Kept(id)
           /\ best' = IF Wins(id) THEN id ELSE best
           /\ UNCHANGED rejected
  /\ next' = next + 1
  /\ UNCHANGED <<jobVars, step, outcome>>

\* The winner, or passthrough at ratio 1, framed with the archive.
Finish ==
  /\ step = "select" /\ next > Len(enabled)
  /\ step' = "done"
  /\ outcome' = "artifact"
  /\ UNCHANGED <<jobVars, next, best, rejected>>

Next == GuardSize \/ GuardUtf8 \/ Parse \/ TryEncoder \/ Finish

Spec == Init /\ [][Next]_vars

----------------------------------------------------------------------------
(* Properties.                                                              *)

\* Type invariant.
SelectionTypeOK ==
  /\ input \in Inputs /\ enabled \in Orders /\ margin \in 0..BpsScale
  /\ step \in {"size", "utf8", "parse", "select", "done"}
  /\ next \in 1..(Len(enabled) + 1)
  /\ best \in Candidates \cup {None}
  /\ rejected \in BOOLEAN
  /\ outcome \in {"none", "artifact", "input_too_large", "not_utf8", "invalid_json",
                  "depth_exceeded"}
  /\ (outcome # "none") = (step = "done")

\* The encoders tried that applied.
Applied == {id \in Candidates : \E k \in DOMAIN enabled : enabled[k] = id}

\* Those whose rendering is a strict win.
Winners == {id \in Applied : input.after[id] < input.before}

Beats(a, b) == input.after[a] < input.after[b] \/ (input.after[a] = input.after[b] /\ a <= b)

\* "Do no harm": a rendering that is not the input verbatim is rated strictly lower, by
\* at least the margin.  (clears_margin; Stats)
DoNoHarm ==
  best # None =>
    /\ input.after[best] < input.before
    /\ (input.before - input.after[best]) * BpsScale >= input.before * margin

\* The winner is the best of all that were tried, whatever their order and however often
\* one is listed, ties to the lower id; and a margin never changes who wins, it only
\* makes the winner lose to passthrough.  (select, prefers)
BestIsChosen ==
  outcome = "artifact" =>
    IF \E id \in Winners : ClearsMargin(input.after[id], input.before, margin)
    THEN best \in Winners /\ \A id \in Winners : Beats(best, id)
    ELSE best = None

\* A passthrough says why: the flag is up exactly when some rendering was refused.
\* (gate_rejected_candidate)
GateIsTold ==
  outcome = "artifact" =>
    rejected = (\E id \in Applied : ~ClearsMargin(input.after[id], input.before, margin))
=============================================================================
