---------------------------- MODULE CliContract ----------------------------
(***************************************************************************)
(* A run of CliRuns that nobody interferes with implements RecoverySlot.    *)
(***************************************************************************)
EXTENDS CliRuns

CONSTANTS
  Observed,              \* the process whose runs are compared with the contract
  Nothing, Passthrough   \* what an output stands for besides a document

ASSUME ObservedAssumption ==
  /\ Observed \in Procs
  /\ Nothing \notin Docs /\ Passthrough \notin Docs /\ Nothing # Passthrough

\* The run of p as its caller sees it: only `compress --archive` has a slot.
Visible(p) == Running(p) /\ WantsArchive(p)

DocIn(q) ==
  IF IsFile(Reach(q)) /\ Decodes(data[Reach(q)]) THEN DocOf(data[Reach(q)]) ELSE NoDoc

Contract == INSTANCE RecoverySlot WITH
  phase <- IF Visible(Observed) THEN "running" ELSE "over",
  slot  <- IF Visible(Observed) THEN DocIn(Slot(Observed)) ELSE NoDoc,
  shown <- IF Visible(Observed) /\ sent[Observed] # <<>>
           THEN IF Accepted(buf[Observed]) THEN DocOf(buf[Observed]) ELSE Passthrough
           ELSE Nothing

\* Every run keeps the contract: the slot goes from what it held, through nothing that
\* expands, to the run's own document; a rendering leaves only when the slot expands to
\* that document, a passthrough only when it expands to none, and after that the slot
\* is not touched.  (cmd_compress: "persist the archive first", "clear, then emit")
KeepsTheContract == Contract!Spec
=============================================================================
