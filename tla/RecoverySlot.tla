---------------------------- MODULE RecoverySlot ----------------------------
(***************************************************************************)
(* What one `compress --archive` run promises about its slot, with the      *)
(* system calls left out: the slot holds what it held until the run clears  *)
(* it, then nothing that expands, then possibly the run's own document; and *)
(* output is let out only when it and the slot agree.  The run may stop at  *)
(* any point, by itself or killed.                                          *)
(***************************************************************************)
CONSTANTS Docs, NoDoc, Nothing, Passthrough

VARIABLES
  phase,   \* is a run under way?
  slot,    \* the document the slot expands to, or NoDoc
  shown    \* what the run's output stands for: Nothing, a document, Passthrough

vars == <<phase, slot, shown>>

Init == phase = "over" /\ slot = NoDoc /\ shown = Nothing

\* A run begins over whatever an earlier one left in the slot it names.
Begin ==
  /\ phase = "over"
  /\ phase' = "running"
  /\ slot' \in Docs \cup {NoDoc}
  /\ UNCHANGED shown

\* Nothing in the slot expands any more; only before the run has spoken.
Clear ==
  /\ phase = "running" /\ shown = Nothing
  /\ slot' = NoDoc
  /\ UNCHANGED <<phase, shown>>

\* The run's archive is whole.
Commit ==
  /\ phase = "running" /\ shown = Nothing /\ slot = NoDoc
  /\ slot' \in Docs
  /\ UNCHANGED <<phase, shown>>

\* The rendering of the document in the slot, or an input the slot has no archive of.
Show ==
  /\ phase = "running" /\ shown = Nothing
  /\ shown' = IF slot = NoDoc THEN Passthrough ELSE slot
  /\ UNCHANGED <<phase, slot>>

End ==
  /\ phase = "running"
  /\ phase' = "over" /\ slot' = NoDoc /\ shown' = Nothing

Next == Begin \/ Clear \/ Commit \/ Show \/ End

Spec == Init /\ [][Next]_vars
=============================================================================
