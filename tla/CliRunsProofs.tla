--------------------------- MODULE CliRunsProofs ---------------------------
(***************************************************************************)
(* Theorems about CliRuns for any number of processes, names, files, runs   *)
(* and renames, with failing system calls and killed processes.             *)
(***************************************************************************)
EXTENDS CliContract, SequenceTheorems, TLAPS

----------------------------------------------------------------------------
(* Chunks and archives.                                                     *)

\* Every chunk a step makes from a document of the model is a chunk.
LEMMA ChunksOfDocs ==
  ASSUME NEW d \in Docs
  PROVE  {Raw(d), Head_(d), Body(d), Rendering(d), Report(d)} \subseteq Chunk
BY DEF Chunk, Raw, Head_, Body, Rendering, Report

\* An archive is two chunks.
LEMMA ArchiveHasTwoChunks ==
  ASSUME NEW d
  PROVE  /\ Len(ArchiveOf(d)) = 2
         /\ ArchiveOf(d)[1] = Head_(d)
         /\ ArchiveOf(d)[2] = Body(d)
BY DEF ArchiveOf

\* What Accepted says of the document.
LEMMA AcceptedIsGood ==
  ASSUME NEW bytes \in Seq(Chunk), Accepted(bytes)
  PROVE  DocOf(bytes) \in Docs
BY DEF Accepted, DocOf, Docs

\* What Decodes says of the document, and that it is what decompress returns.
LEMMA DecodedIsADoc ==
  ASSUME NEW bytes \in Seq(Chunk), Decodes(bytes)
  PROVE  DocOf(bytes) \in Docs /\ Restored(bytes) = DocOf(bytes)
<1>1. bytes[1] \in Chunk
  <2>1. 1 \in 1..Len(bytes)
    BY DEF Decodes
  <2> QED
    BY <2>1, ElementOfSeq
<1>2. bytes[1].doc \in Docs
  BY <1>1 DEF Decodes, Chunk, Hole
<1>3. bytes[2].doc = bytes[1].doc
  BY DEF Decodes, Body
<1> QED
  BY <1>2, <1>3 DEF Decodes, DocOf, Restored

\* A positioned write of a chunk gives chunks.
LEMMA PutAtChunks ==
  ASSUME NEW bytes \in Seq(Chunk), NEW n \in Nat \ {0}, NEW c \in Chunk
  PROVE  PutAt(bytes, n, c) \in Seq(Chunk)
<1> DEFINE m == IF Len(bytes) < n THEN n ELSE Len(bytes)
<1>1. m \in Nat
  BY LenProperties
<1>2. ASSUME NEW k \in 1..m
      PROVE  (IF k = n THEN c ELSE IF k <= Len(bytes) THEN bytes[k] ELSE Hole) \in Chunk
  BY ElementOfSeq, LenProperties DEF Chunk
<1>3. PutAt(bytes, n, c) \in [1..m -> Chunk]
  BY <1>2 DEF PutAt
<1> QED
  BY <1>1, <1>3, SeqDef

----------------------------------------------------------------------------
(* The file system as the program asks it.                                  *)

\* A name stands for a name, and reaches a file or nothing.
LEMMA ReachIsAFile ==
  ASSUME TypeOK, NEW q \in Paths
  PROVE  Canonical(q) \in Paths /\ Reach(q) \in Inodes \cup {None}
BY CliAssumption DEF TypeOK, FilesOK, Canonical, Reach

\* What a run reads is a file, a pipe or nothing, and its bytes are chunks.
LEMMA InputTypes ==
  ASSUME TypeOK, NEW p \in Procs
  PROVE  /\ inv[p] \in Invocation
         /\ InputIdentity(p) \in Inodes \cup {Pipe, None}
         /\ InputBytes(p) \in Seq(Chunk)
<1>1. inv[p] \in Invocation
  BY CliAssumption DEF TypeOK, RunsOK
<1>2. InputIdentity(p) \in Inodes \cup {Pipe, None}
  <2>1. inv[p].input \in Paths \cup {NoPath} /\ stdin[p] \in Inodes \cup {Pipe}
    BY <1>1 DEF Invocation, TypeOK, RunsOK, FilesOK
  <2> QED
    BY <2>1, ReachIsAFile DEF InputIdentity
<1>3. InputBytes(p) \in Seq(Chunk)
  BY <1>1 DEF InputBytes, Invocation, TypeOK, RunsOK, FilesOK
<1> QED
  BY <1>1, <1>2, <1>3

\* The slot of a run that wants an archive is a name.
LEMMA SlotIsAName ==
  ASSUME TypeOK, NEW p \in Procs, WantsArchive(p)
  PROVE  Slot(p) \in Paths
BY InputTypes DEF Invocation, WantsArchive, Slot

\* What a run owes its standard output, at the moment it writes it, is chunks.
LEMMA PayloadIsChunks ==
  ASSUME TypeOK, NEW p \in Procs, pc[p] = "emit"
  PROVE  Payload(p) \in Seq(Chunk)
<1>1. inv[p].cmd \in Commands
  BY InputTypes DEF Invocation
<1>2. buf[p] \in Seq(Chunk) /\ WellPlaced(p)
  BY DEF TypeOK, RunsOK
<1>3. CASE inv[p].cmd = "compress" /\ Accepted(buf[p])
  <2>1. Rendering(DocOf(buf[p])) \in Chunk
    BY <1>2, <1>3, AcceptedIsGood, ChunksOfDocs
  <2> QED
    BY <1>3, <2>1 DEF Payload
<1>4. CASE inv[p].cmd = "compress" /\ ~Accepted(buf[p])
  BY <1>2, <1>4 DEF Payload
<1>5. CASE inv[p].cmd = "expand"
  <2>1. Raw(Restored(buf[p])) \in Chunk
    BY <1>2, <1>5, DecodedIsADoc, ChunksOfDocs DEF WellPlaced
  <2> QED
    BY <1>5, <2>1 DEF Payload
<1>6. CASE inv[p].cmd = "stats"
  <2>1. Report(DocOf(buf[p])) \in Chunk
    BY <1>2, <1>6, AcceptedIsGood, ChunksOfDocs DEF WellPlaced
  <2> QED
    BY <1>6, <2>1 DEF Payload
<1> QED
  BY <1>1, <1>3, <1>4, <1>5, <1>6 DEF Commands

----------------------------------------------------------------------------
(* Type correctness, one lemma per action.                                  *)

\* WellPlaced(q) is about q's own variables.
LEMMA OthersStayWellPlaced ==
  ASSUME NEW q \in Procs, WellPlaced(q),
         pc'[q] = pc[q], inv'[q] = inv[q], hold'[q] = hold[q], buf'[q] = buf[q],
         off'[q] = off[q], target'[q] = target[q]
  PROVE  WellPlaced(q)'
BY DEF WellPlaced, WantsArchive

\* A run that has ended, or is still before the decision with nothing written, is
\* always well placed.
LEMMA PlacedAnywhere ==
  ASSUME NEW q \in Procs,
         \/ pc'[q] \in {"done", "crashed", "announce"}
         \/ pc'[q] \in {"guard_output", "guard_archive", "open_input", "read"} /\ off'[q] = 0
  PROVE  WellPlaced(q)'
BY DEF WellPlaced

\* The guard on standard output keeps the types.
LEMMA GuardOutputType ==
  ASSUME TypeOK, NEW p \in Procs, EnsureOutputIsNotTheInput(p)
  PROVE  TypeOK'
<1> USE DEF EnsureOutputIsNotTheInput, Goto, Quit
<1>1. FilesOK' /\ HistoryOK'
  BY DEF TypeOK, FilesOK, HistoryOK, fsVars, argVars, histVars
<1>2. RunsOK'
  BY DEF TypeOK, RunsOK, Labels, Ended, argVars, readVars, slotVars, outVars
<1>3. ASSUME NEW q \in Procs PROVE WellPlaced(q)'
  BY OthersStayWellPlaced, PlacedAnywhere
     DEF WellPlaced, TypeOK, RunsOK, argVars, readVars, slotVars
<1> QED
  BY <1>1, <1>2, <1>3 DEF TypeOK

\* The guard on the slot keeps the types.
LEMMA GuardArchiveType ==
  ASSUME TypeOK, NEW p \in Procs, EnsureArchiveIsNotTheInput(p)
  PROVE  TypeOK'
<1> USE DEF EnsureArchiveIsNotTheInput, Goto, Quit
<1>1. FilesOK' /\ HistoryOK'
  BY DEF TypeOK, FilesOK, HistoryOK, fsVars, argVars, histVars
<1>2. RunsOK'
  BY DEF TypeOK, RunsOK, Labels, Ended, argVars, readVars, slotVars, outVars
<1>3. ASSUME NEW q \in Procs PROVE WellPlaced(q)'
  BY OthersStayWellPlaced, PlacedAnywhere
     DEF WellPlaced, TypeOK, RunsOK, argVars, readVars, slotVars
<1> QED
  BY <1>1, <1>2, <1>3 DEF TypeOK

\* Opening the input keeps the types: what is held is a file.
LEMMA OpenInputType ==
  ASSUME TypeOK, NEW p \in Procs, OpenInput(p)
  PROVE  TypeOK'
<1> USE DEF OpenInput, Goto, Quit
<1>1. FilesOK' /\ HistoryOK'
  BY DEF TypeOK, FilesOK, HistoryOK, fsVars, argVars, histVars
<1>2. RunsOK'
  <2>1. hold' \in [Procs -> Inodes \cup {None}]
    BY DEF TypeOK, RunsOK, IsFile
  <2> QED
    BY <2>1 DEF TypeOK, RunsOK, Labels, Ended, argVars, slotVars, outVars
<1>3. ASSUME NEW q \in Procs PROVE WellPlaced(q)'
  BY OthersStayWellPlaced, PlacedAnywhere DEF WellPlaced, TypeOK, RunsOK, argVars, slotVars
<1> QED
  BY <1>1, <1>2, <1>3 DEF TypeOK

\* A read of the input adds a chunk to what was read.
LEMMA ReadChunkType ==
  ASSUME TypeOK, NEW p \in Procs, ReadChunk(p)
  PROVE  TypeOK'
<1> USE DEF ReadChunk, Close, Quit
<1>1. ASSUME Len(buf[p]) < Len(InputBytes(p))
      PROVE  Append(buf[p], InputBytes(p)[Len(buf[p]) + 1]) \in Seq(Chunk)
  <2>1. Len(buf[p]) + 1 \in 1..Len(InputBytes(p)) /\ buf[p] \in Seq(Chunk)
    BY <1>1, InputTypes, LenProperties DEF TypeOK, RunsOK
  <2> QED
    BY <2>1, InputTypes, ElementOfSeq
<1>2. FilesOK' /\ HistoryOK'
  BY DEF TypeOK, FilesOK, HistoryOK, fsVars, argVars, histVars
<1>3. RunsOK'
  BY <1>1 DEF TypeOK, RunsOK, Labels, Ended, argVars, slotVars, outVars
<1>4. ASSUME NEW q \in Procs PROVE WellPlaced(q)'
  BY OthersStayWellPlaced, PlacedAnywhere DEF WellPlaced, TypeOK, RunsOK, argVars, slotVars
<1> QED
  BY <1>2, <1>3, <1>4 DEF TypeOK

\* The branch taken is one whose needs the input has met.
LEMMA DecideType ==
  ASSUME TypeOK, NEW p \in Procs, Decide(p)
  PROVE  TypeOK'
<1> USE DEF Decide, Close, Goto, Quit
<1>1. buf[p] \in Seq(Chunk) /\ (Accepted(buf[p]) => DocOf(buf[p]) \in Docs)
  BY AcceptedIsGood DEF TypeOK, RunsOK
<1>2. FilesOK' /\ HistoryOK'
  BY <1>1 DEF TypeOK, FilesOK, HistoryOK, fsVars, argVars
<1>3. RunsOK'
  BY DEF TypeOK, RunsOK, CompressGoesTo, Labels, Ended, argVars, slotVars, outVars
<1>4. ASSUME NEW q \in Procs PROVE WellPlaced(q)'
  <2>1. CASE q # p
    BY <2>1, OthersStayWellPlaced DEF TypeOK, RunsOK, argVars, slotVars
  <2>2. CASE q = p
    BY <2>2 DEF TypeOK, RunsOK, CompressGoesTo, WellPlaced, WantsArchive, argVars, slotVars
  <2> QED
    BY <2>1, <2>2
<1> QED
  BY <1>2, <1>3, <1>4 DEF TypeOK

\* The stat before the archive is opened keeps the types.
LEMMA StatSlotType ==
  ASSUME TypeOK, NEW p \in Procs, StatSlot(p)
  PROVE  TypeOK'
<1> USE DEF StatSlot, Goto, Quit
<1>1. FilesOK' /\ HistoryOK'
  BY DEF TypeOK, FilesOK, HistoryOK, fsVars, argVars, histVars
<1>2. RunsOK'
  BY DEF TypeOK, RunsOK, Labels, Ended, argVars, readVars, slotVars, outVars
<1>3. ASSUME NEW q \in Procs PROVE WellPlaced(q)'
  <2>1. CASE q # p
    BY <2>1, OthersStayWellPlaced DEF TypeOK, RunsOK, argVars, readVars, slotVars
  <2>2. CASE q = p
    BY <2>2 DEF TypeOK, RunsOK, WellPlaced, WantsArchive, argVars, readVars, slotVars
  <2> QED
    BY <2>1, <2>2
<1> QED
  BY <1>1, <1>2, <1>3 DEF TypeOK

\* p writes chunks into a file: the file system and the histories keep their types.
LEMMA SetBytesType ==
  ASSUME TypeOK, NEW p \in Procs, NEW i \in Inodes, NEW bytes \in Seq(Chunk),
         SetBytes(p, i, bytes), UNCHANGED <<runs, moves>>
  PROVE  FilesOK' /\ HistoryOK'
BY CliAssumption DEF TypeOK, FilesOK, HistoryOK, SetBytes, MeetBytes, Forget

\* The open leaves a file held, emptied or new, or ends the run.
LEMMA OpenSlotType ==
  ASSUME TypeOK, NEW p \in Procs, OpenSlot(p)
  PROVE  TypeOK'
<1> USE DEF OpenSlot, Goto, Quit
<1>1. Slot(p) \in Paths /\ WellPlaced(p)
  BY SlotIsAName DEF TypeOK, WellPlaced
<1>2. Canonical(Slot(p)) \in Paths /\ Reach(Slot(p)) \in Inodes \cup {None}
  BY <1>1, ReachIsAFile
<1>3. CASE TruncateSlot(p)
  <2>1. FilesOK' /\ HistoryOK'
    BY <1>3, SetBytesType, EmptySeq DEF TruncateSlot, IsFile, argVars
  <2>2. RunsOK'
    BY <1>3 DEF TruncateSlot, IsFile, TypeOK, RunsOK, Labels, Ended, argVars, slotVars, outVars
  <2>3. ASSUME NEW q \in Procs PROVE WellPlaced(q)'
    <3>1. CASE q # p
      BY <1>3, <3>1, OthersStayWellPlaced DEF TruncateSlot, TypeOK, RunsOK, argVars, slotVars
    <3>2. CASE q = p
      BY <1>1, <1>3, <3>2
      DEF TruncateSlot, IsFile, TypeOK, RunsOK, WellPlaced, WantsArchive, argVars, slotVars
    <3> QED
      BY <3>1, <3>2
  <2> QED
    BY <2>1, <2>2, <2>3 DEF TypeOK
<1>4. CASE CreateSlot(p)
  <2>1. PICK i \in Inodes : CreateSlot(p)!2!(i)
    BY <1>4 DEF CreateSlot
  <2>2. FilesOK'
    BY <1>2, <2>1, CliAssumption, EmptySeq DEF TypeOK, FilesOK, Canonical
  <2>3. HistoryOK'
    BY <1>4, <2>1, CliAssumption DEF CreateSlot, TypeOK, HistoryOK, MeetNaming,
       MetByNaming, Forget, argVars
  <2>4. RunsOK'
    BY <1>4, <2>1 DEF CreateSlot, TypeOK, RunsOK, Labels, Ended, argVars, slotVars, outVars
  <2>5. ASSUME NEW q \in Procs PROVE WellPlaced(q)'
    <3>1. CASE q # p
      BY <1>4, <2>1, <3>1, OthersStayWellPlaced DEF CreateSlot, TypeOK, RunsOK, argVars, slotVars
    <3>2. CASE q = p
      BY <1>1, <1>4, <2>1, <3>2
      DEF CreateSlot, TypeOK, RunsOK, WellPlaced, WantsArchive, argVars, slotVars
    <3> QED
      BY <3>1, <3>2
  <2> QED
    BY <2>2, <2>3, <2>4, <2>5 DEF TypeOK
<1>5. CASE OpenSlotFails(p)
  <2>1. FilesOK' /\ HistoryOK'
    BY <1>5 DEF OpenSlotFails, TypeOK, FilesOK, HistoryOK, fsVars, argVars, histVars
  <2>2. RunsOK'
    BY <1>5 DEF OpenSlotFails, TypeOK, RunsOK, Labels, Ended, argVars, slotVars, outVars
  <2>3. ASSUME NEW q \in Procs PROVE WellPlaced(q)'
    BY <1>5, OthersStayWellPlaced, PlacedAnywhere
    DEF OpenSlotFails, TypeOK, RunsOK, argVars, slotVars
  <2> QED
    BY <2>1, <2>2, <2>3 DEF TypeOK
<1> QED
  BY <1>3, <1>4, <1>5

\* The look at the emptied file keeps the types.
LEMMA CheckEmptiedType ==
  ASSUME TypeOK, NEW p \in Procs, CheckEmptied(p)
  PROVE  TypeOK'
<1> USE DEF CheckEmptied, Close, Goto, Quit
<1>1. FilesOK' /\ HistoryOK'
  BY DEF TypeOK, FilesOK, HistoryOK, fsVars, argVars, histVars
<1>2. RunsOK'
  BY DEF TypeOK, RunsOK, Labels, Ended, argVars, slotVars, outVars
<1>3. ASSUME NEW q \in Procs PROVE WellPlaced(q)'
  <2>1. CASE q # p
    BY <2>1, OthersStayWellPlaced DEF TypeOK, RunsOK, argVars, slotVars
  <2>2. CASE q = p
    BY <2>2 DEF TypeOK, RunsOK, WellPlaced, WantsArchive, argVars, slotVars
  <2> QED
    BY <2>1, <2>2
<1> QED
  BY <1>1, <1>2, <1>3 DEF TypeOK

\* A write of the archive stays within its two chunks.
LEMMA WriteSlotType ==
  ASSUME TypeOK, NEW p \in Procs, WriteSlot(p)
  PROVE  TypeOK'
<1> DEFINE archive == ArchiveOf(DocOf(buf[p]))
           n == off[p] + 1
           bytes == PutAt(data[hold[p]], n, archive[n])
<1> USE DEF WriteSlot, Close, Goto, Quit
<1>1. hold[p] \in Inodes /\ n \in {1, 2} /\ DocOf(buf[p]) \in Docs
  <2>1. pc[p] = "write_slot" /\ WellPlaced(p) /\ buf[p] \in Seq(Chunk) /\ off[p] \in 0..2
    BY DEF TypeOK, RunsOK
  <2>2. hold[p] \in Inodes /\ n \in {1, 2} /\ Accepted(buf[p])
    BY <2>1 DEF WellPlaced
  <2> QED
    BY <2>1, <2>2, AcceptedIsGood
<1>2. Len(archive) = 2 /\ archive[n] \in Chunk
  BY <1>1, ArchiveHasTwoChunks, ChunksOfDocs
<1>3. bytes \in Seq(Chunk)
  BY <1>1, <1>2, PutAtChunks DEF TypeOK, FilesOK
<1> HIDE DEF archive, bytes
<1>4. CASE SetBytes(p, hold[p], bytes) /\ off' = [off EXCEPT ![p] = n]
  <2>1. FilesOK' /\ HistoryOK'
    BY <1>1, <1>3, <1>4, SetBytesType DEF argVars
  <2>2. RunsOK'
    <3>1. /\ pc' \in [Procs -> Labels]
          /\ hold' \in [Procs -> Inodes \cup {None}]
          /\ exit' \in [Procs -> {"none", "success", "bad_input", "corrupt"}]
      BY <1>4 DEF TypeOK, RunsOK, Labels, Ended
    <3>2. off' \in [Procs -> 0..2]
      BY <1>1, <1>4 DEF TypeOK, RunsOK
    <3> QED
      BY <3>1, <3>2 DEF TypeOK, RunsOK, argVars, slotVars, outVars
  <2>3. ASSUME NEW q \in Procs PROVE WellPlaced(q)'
    <3>1. CASE q # p
      BY <1>4, <3>1, OthersStayWellPlaced DEF TypeOK, RunsOK, argVars, slotVars
    <3>2. CASE q = p
      BY <1>1, <1>2, <1>4, <3>2
      DEF archive, TypeOK, RunsOK, WellPlaced, WantsArchive, argVars, slotVars
    <3> QED
      BY <3>1, <3>2
  <2> QED
    BY <2>1, <2>2, <2>3 DEF TypeOK
<1>5. CASE Faults /\ pc' = [pc EXCEPT ![p] = "done"] /\ UNCHANGED <<off, fsVars, histVars>>
  <2>1. FilesOK' /\ HistoryOK'
    BY <1>5 DEF TypeOK, FilesOK, HistoryOK, fsVars, argVars, histVars
  <2>2. RunsOK'
    BY <1>5 DEF TypeOK, RunsOK, Labels, Ended, argVars, slotVars, outVars
  <2>3. ASSUME NEW q \in Procs PROVE WellPlaced(q)'
    BY <1>5, OthersStayWellPlaced, PlacedAnywhere DEF TypeOK, RunsOK, argVars, slotVars
  <2> QED
    BY <2>1, <2>2, <2>3 DEF TypeOK
<1> QED
  BY <1>4, <1>5 DEF archive, bytes

\* Resolving the slot leaves a name as the target.
LEMMA ResolveSlotType ==
  ASSUME TypeOK, NEW p \in Procs, ResolveSlot(p)
  PROVE  TypeOK'
<1> USE DEF ResolveSlot, Settle, Goto, Quit
<1>1. WellPlaced(p) /\ WantsArchive(p) /\ Canonical(Slot(p)) \in Paths
  BY SlotIsAName, ReachIsAFile DEF TypeOK, WellPlaced
<1>2. FilesOK' /\ HistoryOK'
  BY DEF TypeOK, FilesOK, HistoryOK, fsVars, argVars, histVars
<1>3. RunsOK'
  <2>1. /\ pc' \in [Procs -> Labels]
        /\ exit' \in [Procs -> {"none", "success", "bad_input", "corrupt"}]
    BY DEF TypeOK, RunsOK, Labels, Ended
  <2>2. cleared' \in [Procs -> {"none", "empty", "removed", "foreign"}]
    BY DEF TypeOK, RunsOK
  <2>3. target' \in [Procs -> Paths \cup {NoPath}]
    BY <1>1 DEF TypeOK, RunsOK
  <2> QED
    BY <2>1, <2>2, <2>3 DEF TypeOK, RunsOK, argVars, readVars, outVars
<1>4. ASSUME NEW q \in Procs PROVE WellPlaced(q)'
  <2>1. CASE q # p
    BY <2>1, OthersStayWellPlaced DEF TypeOK, RunsOK, argVars, readVars
  <2>2. CASE q = p
    BY <1>1, <2>2 DEF TypeOK, RunsOK, WellPlaced, WantsArchive, argVars, readVars
  <2> QED
    BY <2>1, <2>2
<1> QED
  BY <1>2, <1>3, <1>4 DEF TypeOK

\* Looking at the target keeps the types.
LEMMA ClassifySlotType ==
  ASSUME TypeOK, NEW p \in Procs, ClassifySlot(p)
  PROVE  TypeOK'
<1> USE DEF ClassifySlot, Settle, Goto, Quit
<1>1. FilesOK' /\ HistoryOK'
  BY DEF TypeOK, FilesOK, HistoryOK, fsVars, argVars, histVars
<1>2. RunsOK'
  BY DEF TypeOK, RunsOK, Labels, Ended, argVars, readVars, outVars
<1>3. ASSUME NEW q \in Procs PROVE WellPlaced(q)'
  <2>1. CASE q # p
    BY <2>1, OthersStayWellPlaced DEF TypeOK, RunsOK, argVars, readVars
  <2>2. CASE q = p
    BY <2>2 DEF TypeOK, RunsOK, WellPlaced, WantsArchive, argVars, readVars
  <2> QED
    BY <2>1, <2>2
<1> QED
  BY <1>1, <1>2, <1>3 DEF TypeOK

\* Reading the magic leaves the identity of a file.
LEMMA ProbeSlotType ==
  ASSUME TypeOK, NEW p \in Procs, ProbeSlot(p)
  PROVE  TypeOK'
<1> USE DEF ProbeSlot, Settle, IsFile, Goto, Quit
<1>1. FilesOK' /\ HistoryOK'
  BY DEF TypeOK, FilesOK, HistoryOK, fsVars, argVars, histVars
<1>2. RunsOK'
  <2>1. /\ pc' \in [Procs -> Labels]
        /\ exit' \in [Procs -> {"none", "success", "bad_input", "corrupt"}]
    BY DEF TypeOK, RunsOK, Labels, Ended
  <2>2. cleared' \in [Procs -> {"none", "empty", "removed", "foreign"}]
    BY DEF TypeOK, RunsOK
  <2>3. ident' \in [Procs -> Inodes \cup {None}]
    BY DEF TypeOK, RunsOK
  <2> QED
    BY <2>1, <2>2, <2>3 DEF TypeOK, RunsOK, argVars, readVars, outVars
<1>3. ASSUME NEW q \in Procs PROVE WellPlaced(q)'
  <2>1. CASE q # p
    BY <2>1, OthersStayWellPlaced DEF TypeOK, RunsOK, argVars, readVars
  <2>2. CASE q = p
    BY <2>2 DEF TypeOK, RunsOK, WellPlaced, WantsArchive, argVars, readVars
  <2> QED
    BY <2>1, <2>2
<1> QED
  BY <1>1, <1>2, <1>3 DEF TypeOK

\* The second look keeps the types.
LEMMA RecheckSlotType ==
  ASSUME TypeOK, NEW p \in Procs, RecheckSlot(p)
  PROVE  TypeOK'
<1> USE DEF RecheckSlot, Goto, Quit
<1>1. FilesOK' /\ HistoryOK'
  <2>1. met' \in [Procs -> SUBSET {"names", "data", "window", "input"}]
    <3>1. met \in [Procs -> SUBSET {"names", "data", "window", "input"}]
      BY DEF TypeOK, HistoryOK
    <3>2. met[p] \ {"window"} \in SUBSET {"names", "data", "window", "input"}
      BY <3>1
    <3>3. met' = met \/ met' = [met EXCEPT ![p] = met[p] \ {"window"}]
      OBVIOUS
    <3> QED
      BY ONLY <3>1, <3>2, <3>3, p \in Procs
  <2> QED
    BY <2>1 DEF TypeOK, FilesOK, HistoryOK, fsVars, argVars
<1>2. RunsOK'
  BY DEF TypeOK, RunsOK, Labels, Ended, argVars, readVars, slotVars, outVars
<1>3. ASSUME NEW q \in Procs PROVE WellPlaced(q)'
  <2>1. CASE q # p
    BY <2>1, OthersStayWellPlaced DEF TypeOK, RunsOK, argVars, readVars, slotVars
  <2>2. CASE q = p
    BY <2>2 DEF TypeOK, RunsOK, WellPlaced, WantsArchive, argVars, readVars, slotVars
  <2> QED
    BY <2>1, <2>2
<1> QED
  BY <1>1, <1>2, <1>3 DEF TypeOK

\* The removal takes one name out of the directory.
LEMMA UnlinkSlotType ==
  ASSUME TypeOK, NEW p \in Procs, UnlinkSlot(p)
  PROVE  TypeOK'
<1> USE DEF UnlinkSlot, NameToRemove, RemovalFails, Settle, Goto, Quit
<1>1. FilesOK'
  <2>1. entry' \in [Paths -> Paths \cup Inodes \cup {None}]
    BY DEF TypeOK, FilesOK
  <2>2. ASSUME NEW q \in Paths, entry'[q] \in Paths PROVE entry'[entry'[q]] \notin Paths
    BY <2>2, CliAssumption DEF TypeOK, FilesOK
  <2> QED
    BY <2>1, <2>2 DEF TypeOK, FilesOK
<1>2. HistoryOK'
  BY DEF TypeOK, HistoryOK, MeetNaming, MetByNaming, argVars
<1>3. RunsOK'
  BY DEF TypeOK, RunsOK, Labels, Ended, argVars, readVars, outVars
<1>4. ASSUME NEW q \in Procs PROVE WellPlaced(q)'
  <2>1. CASE q # p
    BY <2>1, OthersStayWellPlaced DEF TypeOK, RunsOK, argVars, readVars
  <2>2. CASE q = p
    BY <2>2 DEF TypeOK, RunsOK, WellPlaced, WantsArchive, argVars, readVars
  <2> QED
    BY <2>1, <2>2
<1> QED
  BY <1>1, <1>2, <1>3, <1>4 DEF TypeOK

\* A write to standard output adds one chunk of what is owed.
LEMMA EmitChunkType ==
  ASSUME TypeOK, NEW p \in Procs, EmitChunk(p)
  PROVE  TypeOK'
<1> DEFINE c == Payload(p)[Len(sent[p]) + 1]
<1> USE DEF EmitChunk
<1>1. sent[p] \in Seq(Chunk) /\ Payload(p) \in Seq(Chunk)
  BY PayloadIsChunks DEF TypeOK, RunsOK
<1>2. Len(sent[p]) + 1 \in 1..Len(Payload(p))
  BY <1>1, LenProperties
<1>3. c \in Chunk
  BY <1>1, <1>2, ElementOfSeq
<1> HIDE DEF c
<1>4. sent' = [sent EXCEPT ![p] = Append(@, c)]
  BY DEF c
<1>5. FilesOK' /\ HistoryOK'
  <2>1. CASE UNCHANGED <<fsVars, histVars>>
    BY <2>1 DEF TypeOK, FilesOK, HistoryOK, fsVars, argVars, histVars
  <2>2. CASE stdout[p] # Pipe /\ SetBytes(p, stdout[p], Append(data[stdout[p]], c))
    <3>1. stdout[p] \in Inodes
      BY <2>2 DEF TypeOK, RunsOK
    <3>2. Append(data[stdout[p]], c) \in Seq(Chunk)
      BY <1>3, <3>1 DEF TypeOK, FilesOK
    <3> QED
      BY <2>2, <3>1, <3>2, SetBytesType DEF argVars
  <2> QED
    BY <2>1, <2>2 DEF c
<1>6. RunsOK'
  BY <1>1, <1>3, <1>4 DEF TypeOK, RunsOK, argVars, readVars, slotVars
<1>7. ASSUME NEW q \in Procs PROVE WellPlaced(q)'
  BY OthersStayWellPlaced DEF TypeOK, argVars, readVars, slotVars
<1> QED
  BY <1>5, <1>6, <1>7 DEF TypeOK

\* The end of the output keeps the types.
LEMMA EmitEndsType ==
  ASSUME TypeOK, NEW p \in Procs, EmitEnds(p)
  PROVE  TypeOK'
<1> USE DEF EmitEnds, AfterEmit, WriteFails, Goto, Quit
<1>1. FilesOK' /\ HistoryOK'
  BY DEF TypeOK, FilesOK, HistoryOK, fsVars, argVars, histVars
<1>2. RunsOK'
  BY DEF TypeOK, RunsOK, Labels, Ended, argVars, readVars, slotVars
<1>3. ASSUME NEW q \in Procs PROVE WellPlaced(q)'
  BY OthersStayWellPlaced, PlacedAnywhere DEF TypeOK, RunsOK, argVars, readVars, slotVars
<1> QED
  BY <1>1, <1>2, <1>3 DEF TypeOK

\* The announcement keeps the types.
LEMMA AnnounceType ==
  ASSUME TypeOK, NEW p \in Procs, Announce(p)
  PROVE  TypeOK'
<1> USE DEF Announce, Quit
<1>1. FilesOK' /\ HistoryOK'
  BY DEF TypeOK, FilesOK, HistoryOK, fsVars, argVars, histVars
<1>2. RunsOK'
  BY DEF TypeOK, RunsOK, WantsArchive, Labels, Ended, argVars, readVars, slotVars
<1>3. ASSUME NEW q \in Procs PROVE WellPlaced(q)'
  BY OthersStayWellPlaced, PlacedAnywhere DEF TypeOK, RunsOK, argVars, readVars, slotVars
<1> QED
  BY <1>1, <1>2, <1>3 DEF TypeOK

\* A killed run is well placed.
LEMMA CrashType ==
  ASSUME TypeOK, NEW p \in Procs, Crash(p)
  PROVE  TypeOK'
<1> USE DEF Crash, Close
<1>1. FilesOK' /\ HistoryOK'
  BY DEF TypeOK, FilesOK, HistoryOK, fsVars, argVars, histVars
<1>2. RunsOK'
  BY DEF TypeOK, RunsOK, Labels, Ended, argVars, slotVars, outVars
<1>3. ASSUME NEW q \in Procs PROVE WellPlaced(q)'
  BY OthersStayWellPlaced, PlacedAnywhere DEF TypeOK, RunsOK, argVars, slotVars
<1> QED
  BY <1>1, <1>2, <1>3 DEF TypeOK

\* A rename by another program keeps links one deep.
LEMMA RenameType ==
  ASSUME TypeOK, NEW from \in Paths, NEW to \in Paths, Rename(from, to)
  PROVE  TypeOK'
<1> USE DEF Rename
<1>1. FilesOK'
  <2>1. entry' \in [Paths -> Paths \cup Inodes \cup {None}]
    BY DEF TypeOK, FilesOK
  <2>2. ASSUME NEW q \in Paths, entry'[q] \in Paths PROVE entry'[entry'[q]] \notin Paths
    BY <2>2, CliAssumption DEF TypeOK, FilesOK
  <2> QED
    BY <2>1, <2>2 DEF TypeOK, FilesOK
<1>2. HistoryOK'
  <2>1. met' \in [Procs -> SUBSET {"names", "data", "window", "input"}]
    <3>1. \A r \in Procs : met[r] \cup MetByNaming(r, from, None)
                                   \cup MetByNaming(r, to, entry[from])
                          \in SUBSET {"names", "data", "window", "input"}
      BY DEF TypeOK, HistoryOK, MetByNaming
    <3> QED
      BY <3>1
  <2> QED
    BY <2>1, CliAssumption DEF TypeOK, HistoryOK, Forget
<1>3. RunsOK'
  BY DEF TypeOK, RunsOK, readVars, slotVars, outVars
<1>4. ASSUME NEW q \in Procs PROVE WellPlaced(q)'
  BY OthersStayWellPlaced DEF TypeOK, readVars, slotVars
<1> QED
  BY <1>1, <1>2, <1>3, <1>4 DEF TypeOK

\* A run starts with the state of none.
LEMMA LaunchType ==
  ASSUME TypeOK, NEW p \in Procs, Launch(p)
  PROVE  TypeOK'
<1>1. PICK v \in Invocations :
        /\ v.stdin = Pipe \/ IsFile(Opened(v.stdin))
        /\ v.stdout = Pipe \/ IsFile(Opened(v.stdout))
        /\ inv' = [inv EXCEPT ![p] = v]
        /\ stdin' = [stdin EXCEPT ![p] = Opened(v.stdin)]
        /\ stdout' = [stdout EXCEPT ![p] = Opened(v.stdout)]
        /\ LET emptied == IF v.trunc /\ v.stdout # Pipe THEN {Opened(v.stdout)} ELSE {}
               slot == IF v.archive = NoPath THEN None ELSE Reach(v.archive)
               stale == IsFile(slot) /\ slot \notin emptied /\ Decodes(data[slot])
           IN /\ data' = [i \in Inodes |-> IF i \in emptied THEN <<>> ELSE data[i]]
              /\ met' = [q \in Procs |->
                           IF q = p THEN {}
                           ELSE IF emptied = {} THEN met[q] ELSE met[q] \cup {"data"}]
              /\ old' = [Forget(emptied) EXCEPT
                           ![p] = [names |-> IF stale THEN {v.archive, Canonical(v.archive)}
                                             ELSE {},
                                   ino   |-> IF stale THEN slot ELSE None]]
  BY DEF Launch
<1> DEFINE emptied == IF v.trunc /\ v.stdout # Pipe THEN {Opened(v.stdout)} ELSE {}
           slot == IF v.archive = NoPath THEN None ELSE Reach(v.archive)
           stale == IsFile(slot) /\ slot \notin emptied /\ Decodes(data[slot])
<1>2. v \in Invocation
  BY CliAssumption
<1>3. Opened(v.stdin) \in Inodes \cup {Pipe} /\ Opened(v.stdout) \in Inodes \cup {Pipe}
  BY <1>1 DEF Opened, IsFile
<1>4. FilesOK'
  BY <1>1, EmptySeq DEF Launch, TypeOK, FilesOK
<1>5. HistoryOK'
  <2>1. runs' \in 0..MaxRuns /\ moves' \in 0..MaxMoves /\ archived' \subseteq Docs
    BY CliAssumption DEF Launch, TypeOK, HistoryOK
  <2>2. met' \in [Procs -> SUBSET {"names", "data", "window", "input"}]
    BY <1>1 DEF TypeOK, HistoryOK
  <2>3. Forget(emptied) \in [Procs -> [names : SUBSET Paths, ino : Inodes \cup {None}]]
    BY DEF Forget, TypeOK, HistoryOK
  <2>4. stale => v.archive \in Paths /\ Canonical(v.archive) \in Paths
    BY <1>2, CliAssumption, ReachIsAFile DEF Invocation, IsFile
  <2>5. [names |-> IF stale THEN {v.archive, Canonical(v.archive)} ELSE {},
         ino   |-> IF stale THEN slot ELSE None] \in
          [names : SUBSET Paths, ino : Inodes \cup {None}]
    BY <2>4 DEF IsFile
  <2>6. old' = [Forget(emptied) EXCEPT
                  ![p] = [names |-> IF stale THEN {v.archive, Canonical(v.archive)} ELSE {},
                          ino   |-> IF stale THEN slot ELSE None]]
    BY <1>1
  <2> HIDE DEF emptied, slot, stale
  <2>7. old' \in [Procs -> [names : SUBSET Paths, ino : Inodes \cup {None}]]
    BY <2>3, <2>5, <2>6
  <2> QED
    BY <2>1, <2>2, <2>7 DEF HistoryOK
<1>6. RunsOK'
  BY <1>1, <1>3, EmptySeq DEF Launch, TypeOK, RunsOK, Labels, Ended
<1>7. ASSUME NEW q \in Procs PROVE WellPlaced(q)'
  <2>1. CASE q # p
    BY <1>1, <2>1, OthersStayWellPlaced DEF Launch, TypeOK, RunsOK
  <2>2. CASE q = p
    BY <2>2, PlacedAnywhere DEF Launch, TypeOK, RunsOK
  <2> QED
    BY <2>1, <2>2
<1> QED
  BY <1>4, <1>5, <1>6, <1>7 DEF TypeOK

\* The first state has the types.
LEMMA InitType == Init => TypeOK
<1> SUFFICES ASSUME Init PROVE TypeOK
  OBVIOUS
<1> USE DEF Init
<1>1. FilesOK
  BY CliAssumption DEF FilesOK, Disk
<1>2. RunsOK
  BY CliAssumption, EmptySeq DEF RunsOK, Labels, Ended
<1>3. HistoryOK
  <2>1. archived \subseteq Docs
    BY <1>1, DecodedIsADoc DEF FilesOK
  <2> QED
    BY <2>1, CliAssumption DEF HistoryOK
<1>4. \A p \in Procs : WellPlaced(p)
  BY DEF WellPlaced
<1> QED
  BY <1>1, <1>2, <1>3, <1>4 DEF TypeOK

\* Every variable keeps its range and every run is well placed, with any number of runs
\* interleaved, failing and killed: no step of write_file or clear_stale_archive finds
\* itself without the descriptor, the target or the accepted input it relies on.
THEOREM TypeCorrect == Spec => []TypeOK
<1>1. TypeOK /\ [Next]_vars => TypeOK'
  <2> SUFFICES ASSUME TypeOK, [Next]_vars PROVE TypeOK'
    OBVIOUS
  <2>1. ASSUME NEW p \in Procs, Launch(p) PROVE TypeOK'
    BY <2>1, LaunchType
  <2>2. ASSUME NEW p \in Procs, Step(p) PROVE TypeOK'
    BY <2>2, GuardOutputType, GuardArchiveType, OpenInputType, ReadChunkType, DecideType,
       StatSlotType, OpenSlotType, CheckEmptiedType, WriteSlotType,
       ResolveSlotType, ClassifySlotType, ProbeSlotType, RecheckSlotType, UnlinkSlotType,
       EmitChunkType, EmitEndsType, AnnounceType DEF Step
  <2>3. ASSUME NEW p \in Procs, Crash(p) PROVE TypeOK'
    BY <2>3, CrashType
  <2>4. ASSUME NEW from \in Paths, NEW to \in Paths, Rename(from, to) PROVE TypeOK'
    BY <2>4, RenameType
  <2>5. CASE UNCHANGED vars
    BY <2>5 DEF vars, fsVars, argVars, readVars, slotVars, outVars, histVars, TypeOK,
       FilesOK, RunsOK, HistoryOK, WellPlaced, WantsArchive
  <2> QED
    BY <2>1, <2>2, <2>3, <2>4, <2>5 DEF Next
<1> QED
  BY <1>1, InitType, PTL DEF Spec

----------------------------------------------------------------------------
(* Exit codes and announcements.                                            *)

BeforeOutput ==
  {"guard_output", "guard_archive", "open_input", "read",
   "stat_slot", "open_slot", "check_emptied", "write_slot",
   "resolve_slot", "classify_slot", "probe_slot", "recheck_slot", "unlink_slot"}

\* The slot is as it has to be before a byte leaves.
Settled(p) == IF Accepted(buf[p]) THEN off[p] = 2 ELSE off[p] = 0 /\ cleared[p] # "none"

Delivered(p) == gone[p] \/ sent[p] = Payload(p)

SentIsAPrefix(p) ==
  \A k \in 1..Len(sent[p]) : k <= Len(Payload(p)) /\ sent[p][k] = Payload(p)[k]

\* The strengthening of ExitsTellTheTruth that every step keeps: what a run may have
\* said at each of its program points.
Truthful(p) ==
  /\ pc[p] \in BeforeOutput => sent[p] = <<>>
  /\ pc[p] # "done" => exit[p] = "none" /\ ~told[p]
  /\ pc[p] \in {"resolve_slot", "classify_slot", "probe_slot", "recheck_slot", "unlink_slot"}
       => off[p] = 0
  /\ SentIsAPrefix(p)
  /\ WantsArchive(p) /\ (pc[p] \in {"emit", "announce"} \/ sent[p] # <<>>) => Settled(p)
  /\ pc[p] = "announce" => ~Accepted(buf[p])
  /\ pc[p] = "announce" \/ exit[p] = "success" => Delivered(p)
  /\ exit[p] = "corrupt" => inv[p].cmd = "expand" /\ sent[p] = <<>>
  /\ told[p] => WantsArchive(p) /\ ~Accepted(buf[p]) /\ Delivered(p) /\ Settled(p)

TruthInv == \A p \in Procs : Truthful(p)

\* The invariant is strong enough.
LEMMA TruthSuffices == TypeOK /\ TruthInv => ExitsTellTheTruth
<1> SUFFICES ASSUME TypeOK, TruthInv, NEW p \in Procs
             PROVE  /\ exit[p] = "success" => gone[p] \/ sent[p] = Payload(p)
                    /\ exit[p] = "corrupt" => inv[p].cmd = "expand" /\ sent[p] = <<>>
                    /\ sent[p] # <<>> /\ WantsArchive(p) => off[p] = 2 \/ cleared[p] # "none"
                    /\ told[p] => /\ gone[p] \/ sent[p] = Payload(p)
                                  /\ off[p] = 0 /\ cleared[p] # "none"
  BY ArchiveHasTwoChunks DEF ExitsTellTheTruth
<1> QED
  BY DEF TruthInv, Truthful, Delivered, Settled

\* Truthful(q) is about q's own variables, and not about its descriptors.
LEMMA OthersStayTruthful ==
  ASSUME NEW q \in Procs, Truthful(q),
         pc'[q] = pc[q], inv'[q] = inv[q], buf'[q] = buf[q], off'[q] = off[q],
         cleared'[q] = cleared[q], sent'[q] = sent[q], gone'[q] = gone[q],
         told'[q] = told[q], exit'[q] = exit[q]
  PROVE  Truthful(q)'
<1>1. Payload(q)' = Payload(q) /\ WantsArchive(q)' = WantsArchive(q)
  BY DEF Payload, WantsArchive
<1> QED
  BY <1>1 DEF Truthful, Settled, Delivered, SentIsAPrefix

\* A step before any output: the run goes on towards its output, or gives up.
LEMMA QuietStepIsTruthful ==
  ASSUME TypeOK, NEW p \in Procs, Truthful(p), pc[p] \in BeforeOutput,
         inv'[p] = inv[p], sent'[p] = <<>>, told'[p] = told[p],
         \/ /\ pc'[p] \in BeforeOutput \cup {"emit"}
            /\ exit'[p] = exit[p]
            /\ pc'[p] \in {"resolve_slot", "classify_slot", "probe_slot", "recheck_slot",
                           "unlink_slot"} => off'[p] = 0
            /\ pc'[p] = "emit" /\ WantsArchive(p) => Settled(p)'
         \/ pc'[p] = "done" /\ exit'[p] = "bad_input"
         \/ pc'[p] = "done" /\ exit'[p] = "corrupt" /\ inv[p].cmd = "expand"
  PROVE  Truthful(p)'
<1>1. SentIsAPrefix(p)'
  BY EmptySeq DEF SentIsAPrefix
<1>2. WantsArchive(p)' = WantsArchive(p)
  BY DEF WantsArchive
<1>3. pc'[p] # "done" => exit'[p] = "none"
  BY DEF Truthful, BeforeOutput
<1>4. ~told'[p] /\ exit'[p] # "success"
  BY DEF Truthful, BeforeOutput
<1> QED
  BY <1>1, <1>2, <1>3, <1>4 DEF Truthful, BeforeOutput

\* The steps that settle no slot and write nothing.
LEMMA EarlyStepsAreTruthful ==
  ASSUME TypeOK, TruthInv, NEW p \in Procs,
         \/ EnsureOutputIsNotTheInput(p) \/ EnsureArchiveIsNotTheInput(p)
         \/ OpenInput(p) \/ ReadChunk(p)
  PROVE  TruthInv'
<1> USE DEF EnsureOutputIsNotTheInput, EnsureArchiveIsNotTheInput, OpenInput, ReadChunk,
            Close, Goto, Quit, argVars, slotVars, outVars
<1>1. ASSUME NEW q \in Procs, q # p PROVE Truthful(q)'
  BY <1>1, OthersStayTruthful DEF TypeOK, RunsOK, TruthInv, readVars
<1>2. Truthful(p)'
  BY QuietStepIsTruthful DEF TypeOK, RunsOK, TruthInv, Truthful, BeforeOutput, readVars
<1> QED
  BY <1>1, <1>2 DEF TruthInv

\* The decision: exit 3 and a rejected stats come before any output.
LEMMA DecideIsTruthful ==
  ASSUME TypeOK, TruthInv, NEW p \in Procs, Decide(p)
  PROVE  TruthInv'
<1> USE DEF Decide, Close, Goto, Quit, argVars, slotVars, outVars
<1>1. ASSUME NEW q \in Procs, q # p PROVE Truthful(q)'
  BY <1>1, OthersStayTruthful DEF TypeOK, RunsOK, TruthInv
<1>2. Truthful(p)'
  <2>1. off[p] = 0 /\ sent[p] = <<>> /\ Truthful(p)
    BY DEF TypeOK, WellPlaced, TruthInv, Truthful, BeforeOutput
  <2>2. CASE inv[p].cmd = "compress" /\ WantsArchive(p)
    BY <2>1, <2>2, QuietStepIsTruthful
    DEF TypeOK, RunsOK, CompressGoesTo, BeforeOutput
  <2>3. CASE ~WantsArchive(p)
    BY <2>1, <2>3, QuietStepIsTruthful
    DEF TypeOK, RunsOK, CompressGoesTo, BeforeOutput
  <2> QED
    BY <2>2, <2>3 DEF WantsArchive
<1> QED
  BY <1>1, <1>2 DEF TruthInv

\* write_file: stat, open, look, write.
LEMMA WriteFileIsTruthful ==
  ASSUME TypeOK, TruthInv, NEW p \in Procs,
         StatSlot(p) \/ OpenSlot(p) \/ CheckEmptied(p) \/ WriteSlot(p)
  PROVE  TruthInv'
<1> USE DEF Close, Goto, Quit
<1>1. Truthful(p) /\ WellPlaced(p)
  BY DEF TypeOK, TruthInv
<1>2. CASE StatSlot(p)
  <2>1. ASSUME NEW q \in Procs, q # p PROVE Truthful(q)'
    BY <1>2, <2>1, OthersStayTruthful
    DEF StatSlot, TypeOK, RunsOK, TruthInv, argVars, readVars, slotVars, outVars
  <2>2. Truthful(p)'
    BY <1>1, <1>2, QuietStepIsTruthful
    DEF StatSlot, TypeOK, RunsOK, Truthful, BeforeOutput, argVars, readVars, slotVars, outVars
  <2> QED
    BY <2>1, <2>2 DEF TruthInv
<1>3. CASE OpenSlot(p)
  <2>1. /\ UNCHANGED <<inv, buf, off, cleared, sent, gone, told>>
        /\ \/ pc' = [pc EXCEPT ![p] = "check_emptied"] /\ exit' = exit
           \/ pc' = [pc EXCEPT ![p] = "done"] /\ exit' = [exit EXCEPT ![p] = "bad_input"]
        /\ pc[p] = "open_slot"
    BY <1>3 DEF OpenSlot, TruncateSlot, CreateSlot, OpenSlotFails, argVars, slotVars, outVars
  <2>2. ASSUME NEW q \in Procs, q # p PROVE Truthful(q)'
    BY <2>1, <2>2, OthersStayTruthful DEF TypeOK, RunsOK, TruthInv
  <2>3. Truthful(p)'
    BY <1>1, <2>1, QuietStepIsTruthful DEF TypeOK, RunsOK, Truthful, BeforeOutput
  <2> QED
    BY <2>2, <2>3 DEF TruthInv
<1>4. CASE CheckEmptied(p)
  <2>1. ASSUME NEW q \in Procs, q # p PROVE Truthful(q)'
    BY <1>4, <2>1, OthersStayTruthful
    DEF CheckEmptied, TypeOK, RunsOK, TruthInv, argVars, slotVars, outVars
  <2>2. Truthful(p)'
    BY <1>1, <1>4, QuietStepIsTruthful
    DEF CheckEmptied, TypeOK, RunsOK, Truthful, BeforeOutput, argVars, slotVars, outVars
  <2> QED
    BY <2>1, <2>2 DEF TruthInv
<1>5. CASE WriteSlot(p)
  <2>1. /\ UNCHANGED <<inv, buf, cleared, sent, gone, told>>
        /\ pc[p] = "write_slot"
        /\ \/ /\ off' = [off EXCEPT ![p] = off[p] + 1]
              /\ \/ UNCHANGED <<pc, exit>>
                 \/ off[p] + 1 = 2 /\ pc' = [pc EXCEPT ![p] = "emit"] /\ exit' = exit
           \/ /\ off' = off
              /\ pc' = [pc EXCEPT ![p] = "done"] /\ exit' = [exit EXCEPT ![p] = "bad_input"]
    BY <1>5, ArchiveHasTwoChunks DEF WriteSlot, argVars, slotVars, outVars
  <2>2. ASSUME NEW q \in Procs, q # p PROVE Truthful(q)'
    BY <2>1, <2>2, OthersStayTruthful DEF TypeOK, RunsOK, TruthInv
  <2>3. sent[p] = <<>> /\ Accepted(buf[p])
    BY <1>1, <2>1 DEF WellPlaced, Truthful, BeforeOutput
  <2>4. pc'[p] = "emit" => Settled(p)'
    BY <2>1, <2>3 DEF TypeOK, RunsOK, Settled
  <2>5. Truthful(p)'
    BY <1>1, <2>1, <2>3, <2>4, QuietStepIsTruthful DEF TypeOK, RunsOK, BeforeOutput
  <2> QED
    BY <2>2, <2>5 DEF TruthInv
<1> QED
  BY <1>2, <1>3, <1>4, <1>5

\* clear_stale_archive: resolve, classify, probe, look again, remove.
LEMMA ClearingIsTruthful ==
  ASSUME TypeOK, TruthInv, NEW p \in Procs,
         \/ ResolveSlot(p) \/ ClassifySlot(p) \/ ProbeSlot(p) \/ RecheckSlot(p) \/ UnlinkSlot(p)
  PROVE  TruthInv'
<1>1. /\ UNCHANGED <<inv, buf, off, sent, gone, told>>
      /\ pc[p] \in {"resolve_slot", "classify_slot", "probe_slot", "recheck_slot", "unlink_slot"}
      /\ \E found \in {"empty", "foreign", "removed"} :
           \/ /\ cleared' = [cleared EXCEPT ![p] = found]
              /\ pc' = [pc EXCEPT ![p] = "emit"] /\ exit' = exit
           \/ /\ cleared' = cleared
              /\ exit' = exit
              /\ \E l \in {"classify_slot", "probe_slot", "recheck_slot", "unlink_slot"} :
                   pc' = [pc EXCEPT ![p] = l]
           \/ /\ cleared' = cleared
              /\ pc' = [pc EXCEPT ![p] = "done"]
              /\ exit' = [exit EXCEPT ![p] = "bad_input"]
  BY DEF ResolveSlot, ClassifySlot, ProbeSlot, RecheckSlot, UnlinkSlot, RemovalFails, Settle,
     Goto, Quit, argVars, readVars, slotVars, outVars
<1>2. Truthful(p) /\ WellPlaced(p) /\ off[p] = 0 /\ sent[p] = <<>>
  BY <1>1 DEF TypeOK, TruthInv, Truthful, BeforeOutput
<1>3. ASSUME NEW q \in Procs, q # p PROVE Truthful(q)'
  BY <1>1, <1>3, OthersStayTruthful DEF TypeOK, RunsOK, TruthInv
<1>4. pc'[p] = "emit" => Settled(p)'
  BY <1>1, <1>2 DEF TypeOK, RunsOK, WellPlaced, Settled
<1>5. Truthful(p)'
  BY <1>1, <1>2, <1>4, QuietStepIsTruthful DEF TypeOK, RunsOK, BeforeOutput
<1> QED
  BY <1>3, <1>5 DEF TruthInv

\* A write to standard output extends a prefix of what is owed, once the slot is settled.
LEMMA EmitChunkIsTruthful ==
  ASSUME TypeOK, TruthInv, NEW p \in Procs, EmitChunk(p)
  PROVE  TruthInv'
<1> USE DEF EmitChunk
<1>1. ASSUME NEW q \in Procs, q # p PROVE Truthful(q)'
  BY <1>1, OthersStayTruthful DEF TypeOK, RunsOK, TruthInv, argVars, readVars, slotVars
<1>2. /\ Truthful(p) /\ pc[p] = "emit" /\ sent[p] \in Seq(Chunk) /\ Payload(p) \in Seq(Chunk)
      /\ Len(sent[p]) < Len(Payload(p))
      /\ sent'[p] = Append(sent[p], Payload(p)[Len(sent[p]) + 1])
  BY PayloadIsChunks DEF TypeOK, RunsOK, TruthInv
<1>3. /\ pc' = pc /\ exit' = exit /\ told' = told /\ gone' = gone /\ inv' = inv /\ buf' = buf
      /\ off' = off /\ cleared' = cleared
  BY DEF argVars, readVars, slotVars
<1>4. /\ Payload(p)' = Payload(p) /\ WantsArchive(p)' = WantsArchive(p)
      /\ Settled(p)' = Settled(p)
  BY <1>3 DEF Payload, WantsArchive, Settled
<1>5. SentIsAPrefix(p)'
  <2>1. Len(sent'[p]) = Len(sent[p]) + 1 /\ Len(sent[p]) \in Nat /\ Len(Payload(p)) \in Nat
    BY <1>2, LenProperties
  <2>2. ASSUME NEW k \in 1..Len(sent'[p])
        PROVE  k <= Len(Payload(p)) /\ sent'[p][k] = Payload(p)[k]
    <3>1. CASE k = Len(sent[p]) + 1
      BY <1>2, <2>1, <3>1
    <3>2. CASE k # Len(sent[p]) + 1
      BY <1>2, <2>1, <3>2 DEF Truthful, SentIsAPrefix
    <3> QED
      BY <3>1, <3>2
  <2> QED
    BY <1>4, <2>2 DEF SentIsAPrefix
<1>6. ~told[p] /\ exit[p] = "none"
  BY <1>2 DEF Truthful
<1>7. Truthful(p)'
  BY <1>2, <1>3, <1>4, <1>5, <1>6 DEF Truthful, BeforeOutput
<1> QED
  BY <1>1, <1>7 DEF TruthInv

\* Success is reported of a whole payload or of a reader that left.
LEMMA EmitEndsIsTruthful ==
  ASSUME TypeOK, TruthInv, NEW p \in Procs, EmitEnds(p)
  PROVE  TruthInv'
<1> USE DEF EmitEnds, AfterEmit, WriteFails, Goto, Quit
<1>1. ASSUME NEW q \in Procs, q # p PROVE Truthful(q)'
  BY <1>1, OthersStayTruthful DEF TypeOK, RunsOK, TruthInv, argVars, readVars, slotVars
<1>2. /\ Truthful(p) /\ pc[p] = "emit" /\ sent[p] \in Seq(Chunk) /\ Payload(p) \in Seq(Chunk)
  BY PayloadIsChunks DEF TypeOK, RunsOK, TruthInv
<1>3. /\ sent' = sent /\ told' = told /\ inv' = inv /\ buf' = buf
      /\ off' = off /\ cleared' = cleared
  BY DEF argVars, readVars, slotVars
<1>4. /\ Payload(p)' = Payload(p) /\ WantsArchive(p)' = WantsArchive(p)
      /\ Settled(p)' = Settled(p) /\ SentIsAPrefix(p)'
  <2>1. Payload(p)' = Payload(p)
    BY <1>3 DEF Payload
  <2> QED
    BY <1>2, <1>3, <2>1 DEF WantsArchive, Settled, Truthful, SentIsAPrefix
<1>5. Len(sent[p]) = Len(Payload(p)) => sent[p] = Payload(p)
  BY <1>2, SeqEqual DEF Truthful, SentIsAPrefix
<1>6. \/ /\ gone'[p] \/ sent[p] = Payload(p)
         /\ \/ /\ pc'[p] = "announce" /\ exit' = exit
               /\ inv[p].cmd = "compress" /\ ~Accepted(buf[p])
            \/ pc'[p] = "done" /\ exit'[p] = "success"
      \/ pc'[p] = "done" /\ exit'[p] = "bad_input"
  BY <1>5 DEF TypeOK, RunsOK
<1>7. Truthful(p)'
  BY <1>2, <1>3, <1>4, <1>6 DEF Truthful, Delivered, BeforeOutput
<1> QED
  BY <1>1, <1>7 DEF TruthInv

\* The announcement follows the passthrough and a slot that was looked at.
LEMMA AnnounceIsTruthful ==
  ASSUME TypeOK, TruthInv, NEW p \in Procs, Announce(p)
  PROVE  TruthInv'
<1> USE DEF Announce, Quit
<1>1. ASSUME NEW q \in Procs, q # p PROVE Truthful(q)'
  BY <1>1, OthersStayTruthful DEF TypeOK, RunsOK, TruthInv, argVars, readVars, slotVars
<1>2. Truthful(p) /\ pc[p] = "announce"
  BY DEF TruthInv
<1>3. /\ sent' = sent /\ gone' = gone /\ inv' = inv /\ buf' = buf
      /\ off' = off /\ cleared' = cleared /\ told'[p] = WantsArchive(p)
      /\ pc'[p] = "done" /\ exit'[p] = "success"
  BY DEF TypeOK, RunsOK, argVars, readVars, slotVars
<1>4. /\ Payload(p)' = Payload(p) /\ WantsArchive(p)' = WantsArchive(p)
      /\ Settled(p)' = Settled(p)
  BY <1>3 DEF Payload, WantsArchive, Settled
<1>5. Truthful(p)'
  BY <1>2, <1>3, <1>4 DEF Truthful, Delivered, SentIsAPrefix, BeforeOutput
<1> QED
  BY <1>1, <1>5 DEF TruthInv

\* A killed run reports nothing.
LEMMA CrashIsTruthful ==
  ASSUME TypeOK, TruthInv, NEW p \in Procs, Crash(p)
  PROVE  TruthInv'
<1> USE DEF Crash, Close
<1>1. ASSUME NEW q \in Procs, q # p PROVE Truthful(q)'
  BY <1>1, OthersStayTruthful DEF TypeOK, RunsOK, TruthInv, argVars, slotVars, outVars
<1>2. Truthful(p) /\ pc[p] \notin {"idle", "done", "crashed"} /\ pc'[p] = "crashed"
  BY DEF TypeOK, RunsOK, TruthInv, Running, Ended
<1>3. /\ sent' = sent /\ gone' = gone /\ told' = told /\ inv' = inv /\ buf' = buf
      /\ off' = off /\ cleared' = cleared /\ exit' = exit
  BY DEF argVars, slotVars, outVars
<1>4. /\ Payload(p)' = Payload(p) /\ WantsArchive(p)' = WantsArchive(p)
      /\ Settled(p)' = Settled(p)
  BY <1>3 DEF Payload, WantsArchive, Settled
<1>5. Truthful(p)'
  BY <1>2, <1>3, <1>4 DEF Truthful, Delivered, SentIsAPrefix, BeforeOutput
<1> QED
  BY <1>1, <1>5 DEF TruthInv

\* A run that starts has reported nothing.
LEMMA LaunchIsTruthful ==
  ASSUME TypeOK, TruthInv, NEW p \in Procs, Launch(p)
  PROVE  TruthInv'
<1>1. PICK v \in Invocations : inv' = [inv EXCEPT ![p] = v]
  BY DEF Launch
<1>2. ASSUME NEW q \in Procs, q # p PROVE Truthful(q)'
  <2>1. /\ pc'[q] = pc[q] /\ inv'[q] = inv[q] /\ buf'[q] = buf[q] /\ off'[q] = off[q]
        /\ cleared'[q] = cleared[q] /\ sent'[q] = sent[q] /\ gone'[q] = gone[q]
    BY <1>1, <1>2 DEF Launch, TypeOK, RunsOK
  <2>2. told'[q] = told[q] /\ exit'[q] = exit[q]
    BY <1>2 DEF Launch, TypeOK, RunsOK
  <2> QED
    BY <2>1, <2>2, OthersStayTruthful DEF TruthInv
<1>3. /\ sent'[p] = <<>> /\ ~told'[p] /\ pc'[p] = "guard_output" /\ exit'[p] = "none"
  BY DEF Launch, TypeOK, RunsOK
<1>4. SentIsAPrefix(p)'
  BY <1>3, EmptySeq DEF SentIsAPrefix
<1>5. Truthful(p)'
  BY <1>3, <1>4 DEF Truthful
<1> QED
  BY <1>2, <1>5 DEF TruthInv

\* Nothing was reported yet.
LEMMA InitIsTruthful == Init => TruthInv
<1> SUFFICES ASSUME Init, NEW p \in Procs PROVE Truthful(p)
  BY DEF TruthInv
<1>1. SentIsAPrefix(p)
  BY EmptySeq DEF Init, SentIsAPrefix
<1> QED
  BY <1>1 DEF Init, Truthful, BeforeOutput

\* Every step keeps it.
LEMMA TruthIsKept ==
  ASSUME TypeOK, TruthInv, [Next]_vars
  PROVE  TruthInv'
<1>1. ASSUME NEW p \in Procs, Launch(p) PROVE TruthInv'
  BY <1>1, LaunchIsTruthful
<1>2. ASSUME NEW p \in Procs, Step(p) PROVE TruthInv'
  BY <1>2, EarlyStepsAreTruthful, DecideIsTruthful, WriteFileIsTruthful, ClearingIsTruthful,
     EmitChunkIsTruthful, EmitEndsIsTruthful, AnnounceIsTruthful DEF Step
<1>3. ASSUME NEW p \in Procs, Crash(p) PROVE TruthInv'
  BY <1>3, CrashIsTruthful
<1>4. ASSUME NEW from \in Paths, NEW to \in Paths, Rename(from, to) PROVE TruthInv'
  BY <1>4, OthersStayTruthful DEF Rename, TruthInv, readVars, slotVars, outVars
<1>5. CASE UNCHANGED vars
  BY <1>5, OthersStayTruthful DEF TruthInv, vars, argVars, readVars, slotVars, outVars
<1> QED
  BY <1>1, <1>2, <1>3, <1>4, <1>5 DEF Next

\* Success means the whole payload was taken or the reader left, exit 3 means an expand
\* that let nothing out, no byte leaves before the slot is settled, and "no recovery
\* archive written" is never said of a run that wrote one: for any number of runs, with
\* any system call failing and any run killed.
THEOREM ExitsAreTruthful == Spec => []ExitsTellTheTruth
<1>1. TypeOK /\ TruthInv /\ [Next]_vars => TruthInv'
  BY TruthIsKept
<1> QED
  BY <1>1, InitIsTruthful, TypeCorrect, TruthSuffices, PTL DEF Spec

----------------------------------------------------------------------------
(* What a step does to the file system, as the other runs see it.           *)

\* The variables that are a run's own.
Mine(p) ==
  <<pc[p], inv[p], stdin[p], stdout[p], hold[p], buf[p], off[p], target[p], ident[p],
    cleared[p], sent[p], gone[p], told[p], exit[p]>>

\* Between two looks at its slot a rejected run has a name that is no symlink, and that is
\* still that of the regular file it inspected unless it was re-bound since.
SlotReading == {"classify_slot", "probe_slot", "recheck_slot", "unlink_slot"}

TargetOK(p) ==
  pc[p] \in SlotReading =>
    /\ entry[target[p]] \notin Paths
    /\ pc[p] = "unlink_slot" /\ "window" \notin met[p] => entry[target[p]] = ident[p]
    /\ pc[p] \in {"recheck_slot", "unlink_slot"} => IsFile(ident[p])

\* The steps that look and change nothing on disk.
Looks(p) ==
  \/ EnsureOutputIsNotTheInput(p) \/ EnsureArchiveIsNotTheInput(p)
  \/ OpenInput(p) \/ ReadChunk(p) \/ Decide(p) \/ StatSlot(p) \/ CheckEmptied(p)
  \/ ResolveSlot(p) \/ ClassifySlot(p) \/ ProbeSlot(p) \/ RecheckSlot(p)
  \/ EmitEnds(p) \/ Announce(p) \/ Crash(p)

\* A step is one run's.
LEMMA OthersUntouched ==
  ASSUME TypeOK, NEW p \in Procs, NEW r \in Procs, r # p, Launch(r) \/ Step(r) \/ Crash(r)
  PROVE  Mine(p)' = Mine(p)
<1> USE DEF TypeOK, RunsOK, Mine
<1>1. CASE Launch(r)
  <2>1. PICK v \in Invocations :
          /\ inv' = [inv EXCEPT ![r] = v]
          /\ stdin' = [stdin EXCEPT ![r] = Opened(v.stdin)]
          /\ stdout' = [stdout EXCEPT ![r] = Opened(v.stdout)]
    BY <1>1 DEF Launch
  <2> QED
    BY <1>1, <2>1 DEF Launch
<1>2. CASE \/ EnsureOutputIsNotTheInput(r) \/ EnsureArchiveIsNotTheInput(r)
           \/ OpenInput(r) \/ ReadChunk(r) \/ Decide(r)
  BY <1>2 DEF EnsureOutputIsNotTheInput, EnsureArchiveIsNotTheInput, OpenInput, ReadChunk,
     Decide, Goto, Quit, Close, argVars, readVars, slotVars, outVars
<1>3. CASE StatSlot(r) \/ CheckEmptied(r) \/ WriteSlot(r)
  BY <1>3 DEF StatSlot, CheckEmptied, WriteSlot, Goto, Quit, Close, argVars, readVars,
     slotVars, outVars
<1>4. CASE OpenSlot(r)
  BY <1>4 DEF OpenSlot, TruncateSlot, CreateSlot, OpenSlotFails, Goto, Quit, argVars,
     slotVars, outVars
<1>5. CASE ResolveSlot(r) \/ ClassifySlot(r) \/ ProbeSlot(r) \/ RecheckSlot(r) \/ UnlinkSlot(r)
  BY <1>5 DEF ResolveSlot, ClassifySlot, ProbeSlot, RecheckSlot, UnlinkSlot, RemovalFails,
     Settle, Goto, Quit, argVars, readVars, slotVars, outVars
<1>6. CASE EmitChunk(r) \/ EmitEnds(r) \/ Announce(r) \/ Crash(r)
  BY <1>6 DEF EmitChunk, EmitEnds, AfterEmit, WriteFails, Announce, Crash, Goto, Quit, Close,
     argVars, readVars, slotVars, outVars
<1> QED
  BY <1>1, <1>2, <1>3, <1>4, <1>5, <1>6 DEF Step

\* A look changes nothing of the files, and at most what the run itself has met.
LEMMA LooksOnly ==
  ASSUME TypeOK, NEW r \in Procs, Looks(r)
  PROVE  /\ UNCHANGED <<entry, kind, data, old>>
         /\ met' \in {met, [met EXCEPT ![r] = @ \ {"window"}]}
         /\ ~RecheckSlot(r) => met' = met
BY DEF Looks, EnsureOutputIsNotTheInput, EnsureArchiveIsNotTheInput, OpenInput, ReadChunk,
   Decide, StatSlot, CheckEmptied, ResolveSlot, ClassifySlot, ProbeSlot, RecheckSlot,
   EmitEnds, Announce, Crash, fsVars, histVars

\* Whatever a run does to the files, it looks, writes into one, makes one under a free
\* name or takes one name away.
LEMMA FourKindsOfSteps ==
  ASSUME TypeOK, NEW r \in Procs, TargetOK(r), Step(r) \/ Crash(r)
  PROVE  \/ /\ UNCHANGED <<entry, kind, data, old>>
            /\ met' \in {met, [met EXCEPT ![r] = @ \ {"window"}]}
         \/ \E i \in Inodes, bytes \in Seq(Chunk) : SetBytes(r, i, bytes)
         \/ pc[r] = "open_slot" /\ CreateSlot(r)
         \/ /\ pc[r] = "unlink_slot" /\ target[r] \in Paths /\ entry[target[r]] \notin Paths
            /\ entry' = [entry EXCEPT ![target[r]] = None]
            /\ MeetNaming(r, target[r], None)
            /\ UNCHANGED <<kind, data, old>>
<1>0. WellPlaced(r)
  BY DEF TypeOK
<1>1. CASE Looks(r)
  BY <1>1, LooksOnly
<1>2. CASE OpenSlot(r)
  <2>1. CASE TruncateSlot(r)
    <3>1. <<>> \in Seq(Chunk)
      BY EmptySeq
    <3> QED
      BY <2>1, <3>1 DEF TruncateSlot, IsFile
  <2>2. CASE CreateSlot(r)
    BY <1>2, <2>2 DEF OpenSlot
  <2>3. CASE OpenSlotFails(r)
    BY <2>3 DEF OpenSlotFails, fsVars, histVars
  <2> QED
    BY <1>2, <2>1, <2>2, <2>3 DEF OpenSlot
<1>3. CASE WriteSlot(r)
  <2> DEFINE archive == ArchiveOf(DocOf(buf[r]))
             n == off[r] + 1
             bytes == PutAt(data[hold[r]], n, archive[n])
  <2>1. hold[r] \in Inodes /\ n \in {1, 2} /\ Accepted(buf[r]) /\ buf[r] \in Seq(Chunk)
    <3>1. pc[r] = "write_slot" /\ off[r] \in 0..2 /\ buf[r] \in Seq(Chunk)
      BY <1>3 DEF WriteSlot, TypeOK, RunsOK
    <3> QED
      BY <1>0, <3>1 DEF WellPlaced
  <2>2. archive[n] \in Chunk
    BY <2>1, ArchiveHasTwoChunks, ChunksOfDocs, AcceptedIsGood
  <2>3. bytes \in Seq(Chunk)
    BY <2>1, <2>2, PutAtChunks DEF TypeOK, FilesOK
  <2>4. SetBytes(r, hold[r], bytes) \/ UNCHANGED <<fsVars, histVars>>
    BY <1>3 DEF WriteSlot
  <2> HIDE DEF bytes
  <2> QED
    BY <2>1, <2>3, <2>4 DEF fsVars, histVars
<1>4. CASE UnlinkSlot(r)
  <2>1. pc[r] = "unlink_slot" /\ target[r] \in Paths /\ entry[target[r]] \notin Paths
    BY <1>0, <1>4 DEF UnlinkSlot, WellPlaced, TargetOK, SlotReading
  <2> QED
    BY <1>4, <2>1 DEF UnlinkSlot, NameToRemove
<1>5. CASE EmitChunk(r)
  <2> DEFINE c == Payload(r)[Len(sent[r]) + 1]
             i == stdout[r]
             bytes == Append(data[i], c)
  <2>1. c \in Chunk
    <3>1. Payload(r) \in Seq(Chunk) /\ sent[r] \in Seq(Chunk)
      BY <1>5, PayloadIsChunks DEF EmitChunk, TypeOK, RunsOK
    <3>2. Len(sent[r]) + 1 \in 1..Len(Payload(r))
      BY <1>5, <3>1, LenProperties DEF EmitChunk
    <3> QED
      BY <3>1, <3>2, ElementOfSeq
  <2>2. CASE i # Pipe
    <3>1. i \in Inodes /\ data[i] \in Seq(Chunk)
      BY <2>2 DEF TypeOK, RunsOK, FilesOK
    <3> HIDE DEF c
    <3>2. bytes \in Seq(Chunk)
      BY <2>1, <3>1, AppendProperties
    <3>3. SetBytes(r, i, bytes)
      BY <1>5, <2>2 DEF EmitChunk, c
    <3> HIDE DEF bytes, i
    <3> QED
      BY <3>1, <3>2, <3>3
  <2>3. CASE i = Pipe
    BY <1>5, <2>3 DEF EmitChunk, fsVars, histVars
  <2> QED
    BY <2>2, <2>3
<1> QED
  BY <1>1, <1>2, <1>3, <1>4, <1>5 DEF Step, Looks

\* What others change under a run is in what it has met.
LEMMA WhatOthersChangeIsMet ==
  ASSUME TypeOK, NEW p \in Procs, NEW r \in Procs, r # p, TargetOK(r),
         Launch(r) \/ Step(r) \/ Crash(r)
  PROVE  /\ met[p] \subseteq met'[p]
         /\ "names" \notin met'[p] => UNCHANGED <<entry, kind>>
         /\ met'[p] = {} => UNCHANGED data
<1>0. met \in [Procs -> SUBSET {"names", "data", "window", "input"}] /\ data \in [Inodes -> Seq(Chunk)]
  BY DEF TypeOK, HistoryOK, FilesOK
<1>1. CASE Launch(r)
  <2>1. PICK v \in Invocations :
          LET emptied == IF v.trunc /\ v.stdout # Pipe THEN {Opened(v.stdout)} ELSE {}
          IN /\ data' = [i \in Inodes |-> IF i \in emptied THEN <<>> ELSE data[i]]
             /\ met' = [q \in Procs |->
                          IF q = r THEN {}
                          ELSE IF emptied = {} THEN met[q] ELSE met[q] \cup {"data"}]
    BY <1>1 DEF Launch
  <2> DEFINE emptied == IF v.trunc /\ v.stdout # Pipe THEN {Opened(v.stdout)} ELSE {}
  <2>2. /\ data' = [i \in Inodes |-> IF i \in emptied THEN <<>> ELSE data[i]]
        /\ met'[p] = IF emptied = {} THEN met[p] ELSE met[p] \cup {"data"}
    BY <2>1
  <2> HIDE DEF emptied
  <2>3. met'[p] = {} => data' = data
    BY <1>0, <2>2
  <2>4. UNCHANGED <<entry, kind>>
    BY <1>1 DEF Launch
  <2> QED
    BY <2>2, <2>3, <2>4
<1>2. CASE /\ UNCHANGED <<entry, kind, data, old>>
           /\ met' \in {met, [met EXCEPT ![r] = @ \ {"window"}]}
  BY <1>0, <1>2
<1>3. CASE \E i \in Inodes, bytes \in Seq(Chunk) : SetBytes(r, i, bytes)
  BY <1>0, <1>3 DEF SetBytes, MeetBytes
<1>4. CASE CreateSlot(r)
  <2>1. PICK i \in Inodes : MeetNaming(r, Canonical(Slot(r)), i)
    BY <1>4 DEF CreateSlot
  <2>2. met'[p] = met[p] \cup MetByNaming(p, Canonical(Slot(r)), i)
    BY <1>0, <2>1 DEF MeetNaming
  <2>3. "names" \in MetByNaming(p, Canonical(Slot(r)), i)
    BY DEF MetByNaming
  <2> QED
    BY <2>2, <2>3
<1>5. CASE /\ MeetNaming(r, target[r], None)
           /\ UNCHANGED <<kind, data, old>>
  BY <1>0, <1>5 DEF MeetNaming, MetByNaming
<1> QED
  BY <1>1, <1>2, <1>3, <1>4, <1>5, FourKindsOfSteps
----------------------------------------------------------------------------
(* What the other runs and programs may have done between two steps of p.   *)

\* A step that is not p's: another run's, another program's, or none.
NotMine(p) ==
  \/ \E r \in Procs \ {p} : Launch(r) \/ Step(r) \/ Crash(r)
  \/ \E from, to \in Paths : Rename(from, to)
  \/ UNCHANGED vars

\* Every step is p's own or not.
LEMMA WhoseStep ==
  ASSUME NEW p \in Procs, [Next]_vars
  PROVE  Launch(p) \/ Step(p) \/ Crash(p) \/ NotMine(p)
BY DEF Next, NotMine

AllTargetsOK == \A p \in Procs : TargetOK(p)

\* What is not p's step leaves p's own variables.
LEMMA OthersAreOthers ==
  ASSUME TypeOK, NEW p \in Procs, NotMine(p)
  PROVE  Mine(p)' = Mine(p)
<1>1. CASE \E r \in Procs \ {p} : Launch(r) \/ Step(r) \/ Crash(r)
  BY <1>1, OthersUntouched
<1>2. CASE \E from, to \in Paths : Rename(from, to)
  BY <1>2 DEF Rename, Mine, readVars, slotVars, outVars
<1>3. CASE UNCHANGED vars
  BY <1>3 DEF vars, argVars, readVars, slotVars, outVars, Mine
<1> QED
  BY <1>1, <1>2, <1>3 DEF NotMine

\* It is told by met[p] what it did to the files.
LEMMA TheOthers ==
  ASSUME TypeOK, AllTargetsOK, NEW p \in Procs, NotMine(p)
  PROVE  /\ Mine(p)' = Mine(p)
         /\ met[p] \subseteq met'[p]
         /\ "names" \notin met'[p] => UNCHANGED <<entry, kind>>
         /\ met'[p] = {} => UNCHANGED data
<1>0. met \in [Procs -> SUBSET {"names", "data", "window", "input"}] /\ Mine(p)' = Mine(p)
  BY OthersAreOthers DEF TypeOK, HistoryOK
<1>1. CASE \E r \in Procs \ {p} : Launch(r) \/ Step(r) \/ Crash(r)
  BY <1>0, <1>1, WhatOthersChangeIsMet DEF AllTargetsOK
<1>2. CASE \E from, to \in Paths : Rename(from, to)
  <2>1. met[p] \subseteq met'[p] /\ "names" \in met'[p] /\ data' = data
    BY <1>0, <1>2 DEF Rename, MetByNaming
  <2> QED
    BY <1>0, <2>1
<1>3. CASE UNCHANGED vars
  BY <1>0, <1>3 DEF vars, fsVars, histVars
<1> QED
  BY <1>1, <1>2, <1>3 DEF NotMine

\* No step makes a symlink.
LEMMA NoNewLinks ==
  ASSUME TypeOK, AllTargetsOK, [Next]_vars, NEW q \in Paths, entry[q] \notin Paths
  PROVE  entry'[q] \notin Paths
<1>0. entry \in [Paths -> Paths \cup Inodes \cup {None}]
  BY DEF TypeOK, FilesOK
<1>1. ASSUME NEW r \in Procs, Launch(r) PROVE entry' = entry
  BY <1>1 DEF Launch
<1>2. ASSUME NEW r \in Procs, Step(r) \/ Crash(r) PROVE entry'[q] \notin Paths
  <2>1. CASE pc[r] = "open_slot" /\ CreateSlot(r)
    BY <1>0, <2>1, CliAssumption DEF CreateSlot
  <2>2. CASE entry' = [entry EXCEPT ![target[r]] = None]
    BY <1>0, <2>2, CliAssumption
  <2>3. CASE entry' = entry
    BY <2>3
  <2> QED
    BY <1>2, <2>1, <2>2, <2>3, FourKindsOfSteps DEF AllTargetsOK, SetBytes
<1>3. ASSUME NEW from \in Paths, NEW to \in Paths, Rename(from, to) PROVE entry'[q] \notin Paths
  BY <1>0, <1>3, CliAssumption DEF Rename
<1>4. CASE UNCHANGED vars
  BY <1>4 DEF vars, fsVars
<1> QED
  BY <1>1, <1>2, <1>3, <1>4 DEF Next

\* A name that another actor re-binds leads to a file or to nothing; who is about to remove
\* it, reads through it, or reads the file it now leads to has met that.
LEMMA OthersNaming ==
  ASSUME TypeOK, AllTargetsOK, NEW p \in Procs, NotMine(p), NEW q \in Paths,
         entry'[q] # entry[q]
  PROVE  /\ entry'[q] \in Inodes \cup {None}
         /\ q = target[p] => "window" \in met'[p]
         /\ entry'[q] # None /\ (entry'[q] = InputIdentity(p) \/ q \in InputNames(p)) =>
              "input" \in met'[p]
<1>0. /\ entry \in [Paths -> Paths \cup Inodes \cup {None}]
      /\ met \in [Procs -> SUBSET {"names", "data", "window", "input"}]
      /\ None \notin Inodes
  BY CliAssumption DEF TypeOK, FilesOK, HistoryOK
<1>1. ASSUME NEW i, i \in Inodes \cup {None}, entry'[q] = i, MetByNaming(p, q, i) \subseteq met'[p]
      PROVE  /\ entry'[q] \in Inodes \cup {None}
             /\ q = target[p] => "window" \in met'[p]
             /\ entry'[q] # None /\ (entry'[q] = InputIdentity(p) \/ q \in InputNames(p)) =>
                  "input" \in met'[p]
  BY <1>1 DEF MetByNaming
<1>2. ASSUME NEW r \in Procs \ {p}, NEW c \in Paths, NEW i \in Inodes \cup {None},
             entry' = [entry EXCEPT ![c] = i], MeetNaming(r, c, i)
      PROVE  q = c /\ entry'[q] = i /\ MetByNaming(p, q, i) \subseteq met'[p]
  <2>1. q = c /\ entry'[q] = i
    BY <1>0, <1>2
  <2> QED
    BY <1>2, <2>1 DEF MeetNaming
<1>3. ASSUME NEW r \in Procs \ {p}, Launch(r) \/ Step(r) \/ Crash(r)
      PROVE  \E c \in Paths, i \in Inodes \cup {None} :
               entry' = [entry EXCEPT ![c] = i] /\ MeetNaming(r, c, i)
  <2>1. ~Launch(r)
    BY DEF Launch
  <2>2. ~SetBytes(r, 0, 0) /\ \A j, bytes : ~SetBytes(r, j, bytes)
    BY DEF SetBytes
  <2>3. CASE pc[r] = "open_slot" /\ CreateSlot(r)
    <3>1. WellPlaced(r)
      BY DEF TypeOK
    <3>2. Canonical(Slot(r)) \in Paths
      BY <2>3, <3>1, SlotIsAName, ReachIsAFile DEF WellPlaced
    <3> QED
      BY <2>3, <3>2 DEF CreateSlot
  <2>4. CASE target[r] \in Paths /\ entry' = [entry EXCEPT ![target[r]] = None]
             /\ MeetNaming(r, target[r], None)
    BY <2>4
  <2> QED
    BY <1>3, <2>1, <2>2, <2>3, <2>4, FourKindsOfSteps DEF AllTargetsOK
<1>4. ASSUME NEW from \in Paths, NEW to \in Paths, Rename(from, to)
      PROVE  \E i \in Inodes \cup {None} : entry'[q] = i /\ MetByNaming(p, q, i) \subseteq met'[p]
  <2>1. /\ entry' = [entry EXCEPT ![to] = entry[from], ![from] = None]
        /\ entry[from] \in Inodes
        /\ met'[p] = met[p] \cup MetByNaming(p, from, None) \cup MetByNaming(p, to, entry[from])
    BY <1>4 DEF Rename
  <2>2. CASE q = from
    BY <1>0, <2>1, <2>2
  <2>3. CASE q = to /\ q # from
    BY <1>0, <2>1, <2>3
  <2> QED
    BY <1>0, <2>1, <2>2, <2>3
<1>5. ~UNCHANGED vars
  BY DEF vars, fsVars
<1> QED
  BY <1>1, <1>2, <1>3, <1>4, <1>5 DEF NotMine

\* Files stay files.
LEMMA FilesStayFiles ==
  ASSUME TypeOK, AllTargetsOK, [Next]_vars, NEW i, IsFile(i)
  PROVE  IsFile(i)'
<1>0. kind \in [Inodes -> {"file", "dir", "special"}] /\ i \in Inodes /\ kind[i] = "file"
  BY DEF TypeOK, FilesOK, IsFile
<1>1. ASSUME NEW r \in Procs, Step(r) \/ Crash(r) PROVE kind'[i] = "file"
  BY <1>0, <1>1, FourKindsOfSteps DEF AllTargetsOK, SetBytes, CreateSlot
<1>2. ASSUME NEW from \in Paths, NEW to \in Paths, Rename(from, to) PROVE kind'[i] = "file"
  BY <1>0, <1>2 DEF Rename
<1>3. ASSUME NEW r \in Procs, Launch(r) PROVE kind'[i] = "file"
  BY <1>0, <1>3 DEF Launch
<1>4. CASE UNCHANGED vars
  BY <1>0, <1>4 DEF vars, fsVars, IsFile
<1> QED
  BY <1>0, <1>1, <1>2, <1>3, <1>4 DEF Next, IsFile

\* The own steps that move pc into or within the reading of the slot.
LEMMA TargetsStayOK ==
  ASSUME TypeOK, AllTargetsOK, [Next]_vars
  PROVE  AllTargetsOK'
<1> SUFFICES ASSUME NEW p \in Procs PROVE TargetOK(p)'
  BY DEF AllTargetsOK
<1>0. TargetOK(p) /\ WellPlaced(p)
  BY DEF AllTargetsOK, TypeOK
<1>1. CASE NotMine(p)
  <2>1. /\ pc'[p] = pc[p] /\ target'[p] = target[p] /\ ident'[p] = ident[p]
        /\ met[p] \subseteq met'[p]
    BY <1>1, TheOthers DEF Mine
  <2>2. pc[p] \in SlotReading => target[p] \in Paths
    BY <1>0 DEF WellPlaced, SlotReading
  <2>3. pc[p] \in SlotReading => entry'[target[p]] \notin Paths
    BY <1>0, <2>2, NoNewLinks DEF TargetOK
  <2>4. pc[p] \in SlotReading /\ "window" \notin met'[p] => entry'[target[p]] = entry[target[p]]
    BY <1>1, <2>2, OthersNaming
  <2>5. IsFile(ident[p]) => IsFile(ident[p])'
    BY <2>1, FilesStayFiles DEF IsFile
  <2> QED
    BY <1>0, <2>1, <2>3, <2>4, <2>5 DEF TargetOK, SlotReading
<1>2. CASE Launch(p)
  <2>1. pc'[p] = "guard_output"
    BY <1>2 DEF Launch, TypeOK, RunsOK
  <2> QED
    BY <2>1 DEF TargetOK, SlotReading
<1>3. CASE ResolveSlot(p)
  <2>1. entry' = entry /\ pc'[p] # "unlink_slot"
    BY <1>3 DEF ResolveSlot, fsVars, Goto, Quit, TypeOK, RunsOK
  <2>2. pc'[p] \in SlotReading => target'[p] = Canonical(Slot(p)) /\ pc'[p] = "classify_slot"
    BY <1>3 DEF ResolveSlot, Goto, Quit, TypeOK, RunsOK, SlotReading
  <2>3. WantsArchive(p)
    BY <1>0, <1>3 DEF ResolveSlot, WellPlaced
  <2>4. entry[Canonical(Slot(p))] \notin Paths
    BY <2>3, SlotIsAName DEF Canonical, TypeOK, FilesOK
  <2> QED
    BY <2>1, <2>2, <2>4 DEF TargetOK
<1>4. CASE ClassifySlot(p) \/ ProbeSlot(p)
  <2>1. /\ entry' = entry /\ target' = target /\ pc[p] \in SlotReading
        /\ pc'[p] # "unlink_slot"
    BY <1>4 DEF ClassifySlot, ProbeSlot, fsVars, Goto, Quit, TypeOK, RunsOK, SlotReading
  <2>2. pc'[p] = "recheck_slot" => IsFile(ident'[p]) /\ kind' = kind
    BY <1>4 DEF ClassifySlot, ProbeSlot, fsVars, Goto, Quit, TypeOK, RunsOK
  <2> QED
    BY <1>0, <2>1, <2>2 DEF TargetOK, IsFile
<1>5. CASE RecheckSlot(p)
  <2>1. /\ entry' = entry /\ target' = target /\ ident' = ident /\ pc[p] \in SlotReading
        /\ pc'[p] = "unlink_slot" => Reach(target[p]) = ident[p]
        /\ pc[p] = "recheck_slot" /\ pc'[p] # "recheck_slot" /\ kind' = kind
    BY <1>5 DEF RecheckSlot, StillTheInspected, fsVars, slotVars, Goto, Quit, TypeOK, RunsOK,
       SlotReading
  <2>2. Reach(target[p]) = entry[target[p]]
    BY <1>0, <2>1 DEF TargetOK, Reach, Canonical
  <2> QED
    BY <1>0, <2>1, <2>2 DEF TargetOK, IsFile
<1>6. CASE Crash(p) \/ (Step(p) /\ ~ResolveSlot(p) /\ ~ClassifySlot(p) /\ ~ProbeSlot(p)
                        /\ ~RecheckSlot(p))
  <2>1. CASE \/ EnsureOutputIsNotTheInput(p) \/ EnsureArchiveIsNotTheInput(p)
             \/ OpenInput(p) \/ ReadChunk(p) \/ Decide(p)
    <3>1. pc'[p] \notin SlotReading
      BY <2>1 DEF EnsureOutputIsNotTheInput, EnsureArchiveIsNotTheInput, OpenInput, ReadChunk,
         Decide, CompressGoesTo, Goto, Quit, TypeOK, RunsOK, SlotReading
    <3> QED
      BY <3>1 DEF TargetOK
  <2>2. CASE StatSlot(p) \/ OpenSlot(p) \/ CheckEmptied(p) \/ WriteSlot(p) \/ UnlinkSlot(p)
    <3>1. pc'[p] \notin SlotReading
      BY <2>2 DEF StatSlot, OpenSlot, TruncateSlot, CreateSlot, OpenSlotFails, CheckEmptied,
         WriteSlot, UnlinkSlot, RemovalFails, Goto, Quit, TypeOK, RunsOK, SlotReading
    <3> QED
      BY <3>1 DEF TargetOK
  <2>3. CASE EmitChunk(p) \/ EmitEnds(p) \/ Announce(p) \/ Crash(p)
    <3>1. pc'[p] \notin SlotReading
      BY <2>3 DEF EmitChunk, EmitEnds, AfterEmit, WriteFails, Announce, Crash, Goto, Quit,
         TypeOK, RunsOK, SlotReading
    <3> QED
      BY <3>1 DEF TargetOK
  <2> QED
    BY <1>6, <2>1, <2>2, <2>3 DEF Step
<1> QED
  BY <1>1, <1>2, <1>3, <1>4, <1>5, <1>6, WhoseStep

\* Nobody reads a slot at the start.
LEMMA InitTargetsOK == Init => AllTargetsOK
BY DEF Init, AllTargetsOK, TargetOK, SlotReading

\* Only a rejected run takes a name away, and no other than the one its archive path was
\* resolved to; what it takes it from is the regular file whose magic it read, unless
\* another actor re-bound that very name after its identity was checked again.
\* (clear_stale_archive, removal_is_still_the_inspected_file)
THEOREM RemovesTheInspectedOnly == Spec => UnlinksOnlyTheInspected
<1>1. TypeOK /\ AllTargetsOK /\ [Next]_vars =>
        [\A p \in Procs, q \in Paths :
           Acts(p) /\ Running(p) /\ entry[q] # None /\ entry'[q] = None =>
             /\ ~Accepted(buf[p]) /\ q = target[p]
             /\ "window" \in met[p] \/ (entry[q] = ident[p] /\ IsFile(ident[p]))]_vars
  <2> SUFFICES ASSUME TypeOK, AllTargetsOK, [Next]_vars, NEW p \in Procs, NEW q \in Paths,
                      Acts(p), Running(p), entry[q] # None, entry'[q] = None
               PROVE  /\ ~Accepted(buf[p]) /\ q = target[p]
                      /\ "window" \in met[p] \/ (entry[q] = ident[p] /\ IsFile(ident[p]))
    OBVIOUS
  <2>0. entry \in [Paths -> Paths \cup Inodes \cup {None}] /\ TargetOK(p) /\ WellPlaced(p)
    BY DEF TypeOK, FilesOK, AllTargetsOK
  <2>1. ~NotMine(p)
    <3>1. ASSUME NotMine(p) PROVE FALSE
      <4>1. Mine(p)' = Mine(p)
        BY <3>1, TheOthers
      <4> QED
        BY <4>1 DEF Mine, Acts
    <3> QED
      BY <3>1
  <2>2. Step(p) \/ Crash(p)
    BY <2>1, WhoseStep DEF Launch
  <2>3. entry' # entry
    OBVIOUS
  <2>4. ~(pc[p] = "open_slot" /\ CreateSlot(p))
    <3>1. ASSUME pc[p] = "open_slot" /\ CreateSlot(p) PROVE FALSE
      <4>1. PICK i \in Inodes : entry' = [entry EXCEPT ![Canonical(Slot(p))] = i]
        BY <3>1 DEF CreateSlot
      <4> QED
        BY <2>0, <4>1, CliAssumption
    <3> QED
      BY <3>1
  <2>5. /\ pc[p] = "unlink_slot" /\ target[p] \in Paths
        /\ entry' = [entry EXCEPT ![target[p]] = None]
    BY <2>0, <2>2, <2>3, <2>4, FourKindsOfSteps DEF SetBytes
  <2>6. q = target[p]
    BY <2>0, <2>5
  <2> QED
    BY <2>0, <2>5, <2>6 DEF WellPlaced, TargetOK, SlotReading
<1> QED
  BY <1>1, InitTargetsOK, TargetsStayOK, TypeCorrect, PTL DEF Spec, UnlinksOnlyTheInspected

----------------------------------------------------------------------------
(* The archive that was in the slot when the run was launched.              *)

\* A change of names that binds no name to x and takes no name for it through a link:
\* what it re-binds is a name of another file, or no name any more.
Spares(x) ==
  \A t \in Paths :
    entry'[t] = entry[t] \/ (/\ entry'[t] \notin Paths \cup {x}
                             /\ entry[t] \in Paths => Reach(t) # x)

\* A name that reaches x afterwards reached it before, by the same route.
LEMMA SameRoute ==
  ASSUME TypeOK, NEW x \in Inodes, Spares(x), NEW q \in Paths, Reach(q)' = x
  PROVE  Reach(q) = x /\ Canonical(q)' = Canonical(q)
<1>1. entry'[q] = entry[q]
  <2>1. CASE entry'[q] \in Paths
    BY <2>1 DEF Spares
  <2>2. CASE entry'[q] \notin Paths
    BY <2>2 DEF Spares, Reach, Canonical
  <2> QED
    BY <2>1, <2>2
<1>2. Canonical(q)' = Canonical(q) /\ Canonical(q) \in Paths
  BY <1>1, ReachIsAFile DEF Canonical
<1>3. entry'[Canonical(q)] = x
  BY <1>2 DEF Reach
<1> QED
  BY <1>2, <1>3 DEF Spares, Reach

\* Two names for one place that leads to x afterwards are still two names for it.
LEMMA SamePlace ==
  ASSUME TypeOK, NEW x \in Inodes, Spares(x), NEW q \in Paths, NEW s \in Paths,
         Reach(q)' = x, Canonical(q) = Canonical(s)
  PROVE  Canonical(s)' = Canonical(s)
<1>1. Reach(q) = x /\ Canonical(q)' = Canonical(q)
  BY SameRoute
<1>2. Reach(s) = x
  BY <1>1 DEF Reach
<1>3. CASE entry[s] \in Paths
  BY <1>2, <1>3 DEF Spares, Canonical
<1>4. CASE entry[s] \notin Paths
  <2>1. Canonical(s) = s
    BY <1>4 DEF Canonical
  <2>2. Canonical(q)' = s /\ entry'[s] = x
    BY <1>1, <2>1 DEF Reach
  <2>3. entry'[s] \notin Paths
    BY <2>2, CliAssumption
  <2> QED
    BY <2>1, <2>3 DEF Canonical
<1> QED
  BY <1>3, <1>4

\* An archive that is still the old one of p after a step was so before, is the same
\* bytes, and no name was bound to it.
LEMMA LeftAlone ==
  ASSUME TypeOK, AllTargetsOK, [Next]_vars, NEW p \in Procs, ~Launch(p),
         NEW x, x = old'[p].ino, x \in Inodes
  PROVE  /\ old'[p] = old[p] /\ Spares(x)
         /\ kind'[x] = kind[x] /\ data'[x] = data[x]
<1>0. /\ entry \in [Paths -> Paths \cup Inodes \cup {None}]
      /\ kind \in [Inodes -> {"file", "dir", "special"}]
      /\ data \in [Inodes -> Seq(Chunk)]
      /\ old \in [Procs -> [names : SUBSET Paths, ino : Inodes \cup {None}]]
      /\ None \notin Paths /\ Paths \cap Inodes = {} /\ None \notin Inodes
  BY CliAssumption DEF TypeOK, FilesOK, HistoryOK
<1>1. ASSUME NEW files, old'[p] = Forget(files)[p] PROVE old'[p] = old[p] /\ x \notin files
  <2>1. CASE old[p].ino \in files
    <3>1. old'[p] = [old[p] EXCEPT !.ino = None]
      BY <1>1, <2>1 DEF Forget
    <3>2. old'[p].ino = None
      BY <1>0, <3>1
    <3> QED
      BY <1>0, <3>2
  <2>2. CASE old[p].ino \notin files
    BY <1>1, <2>2 DEF Forget
  <2> QED
    BY <2>1, <2>2
<1>2. ASSUME NEW r \in Procs, Launch(r)
      PROVE  /\ old'[p] = old[p] /\ entry' = entry /\ kind' = kind /\ data'[x] = data[x]
  <2>1. r # p
    BY <1>2
  <2>2. PICK v \in Invocations :
          LET emptied == IF v.trunc /\ v.stdout # Pipe THEN {Opened(v.stdout)} ELSE {}
              left == IF v.archive = NoPath THEN None ELSE Reach(v.archive)
              stale == IsFile(left) /\ left \notin emptied /\ Decodes(data[left])
          IN /\ data' = [i \in Inodes |-> IF i \in emptied THEN <<>> ELSE data[i]]
             /\ old' = [Forget(emptied) EXCEPT
                          ![r] = [names |-> IF stale THEN {v.archive, Canonical(v.archive)}
                                            ELSE {},
                                  ino   |-> IF stale THEN left ELSE None]]
    BY <1>2 DEF Launch
  <2> DEFINE emptied == IF v.trunc /\ v.stdout # Pipe THEN {Opened(v.stdout)} ELSE {}
  <2>3. /\ data' = [i \in Inodes |-> IF i \in emptied THEN <<>> ELSE data[i]]
        /\ old'[p] = Forget(emptied)[p]
    BY <2>1, <2>2
  <2> HIDE DEF emptied
  <2>4. old'[p] = old[p] /\ x \notin emptied
    BY <1>1, <2>3
  <2> QED
    BY <1>2, <2>3, <2>4 DEF Launch
<1>3. ASSUME NEW r \in Procs, Step(r) \/ Crash(r)
      PROVE  /\ old'[p] = old[p] /\ Spares(x) /\ kind'[x] = kind[x] /\ data'[x] = data[x]
  <2>1. CASE UNCHANGED <<entry, kind, data, old>>
    BY <2>1 DEF Spares
  <2>2. CASE \E i \in Inodes, bytes \in Seq(Chunk) : SetBytes(r, i, bytes)
    <3>1. PICK i \in Inodes, bytes \in Seq(Chunk) : SetBytes(r, i, bytes)
      BY <2>2
    <3>2. old'[p] = old[p] /\ x # i
      BY <1>1, <3>1 DEF SetBytes
    <3> QED
      BY <1>0, <3>1, <3>2 DEF SetBytes, Spares
  <2>3. CASE pc[r] = "open_slot" /\ CreateSlot(r)
    <3>1. PICK i \in Inodes :
            /\ entry' = [entry EXCEPT ![Canonical(Slot(r))] = i]
            /\ kind' = [kind EXCEPT ![i] = "file"]
            /\ data' = [data EXCEPT ![i] = <<>>]
            /\ old' = Forget({i})
      BY <2>3 DEF CreateSlot
    <3>2. old'[p] = old[p] /\ x # i
      BY <1>1, <3>1
    <3>3. Slot(r) \in Paths /\ entry[Canonical(Slot(r))] = None
      BY <2>3, SlotIsAName DEF CreateSlot, Reach, TypeOK, WellPlaced
    <3>4. Spares(x)
      BY <1>0, <3>1, <3>2, <3>3 DEF Spares
    <3> QED
      BY <1>0, <3>1, <3>2, <3>4
  <2>4. CASE /\ target[r] \in Paths /\ entry[target[r]] \notin Paths
             /\ entry' = [entry EXCEPT ![target[r]] = None]
             /\ UNCHANGED <<kind, data, old>>
    <3>1. Spares(x)
      BY <1>0, <2>4 DEF Spares
    <3> QED
      BY <2>4, <3>1
  <2> QED
    BY <1>3, <2>1, <2>2, <2>3, <2>4, FourKindsOfSteps DEF AllTargetsOK
<1>4. ASSUME NEW from \in Paths, NEW to \in Paths, Rename(from, to)
      PROVE  /\ old'[p] = old[p] /\ Spares(x) /\ kind' = kind /\ data' = data
  <2>1. old'[p] = old[p] /\ x \notin {entry[from], Reach(to)}
    BY <1>1, <1>4 DEF Rename
  <2>2. /\ entry' = [entry EXCEPT ![to] = entry[from], ![from] = None]
        /\ entry[from] \in Inodes /\ entry[to] # entry[from]
    BY <1>4 DEF Rename
  <2>3. Spares(x)
    BY <1>0, <2>1, <2>2 DEF Spares
  <2> QED
    BY <1>4, <2>1, <2>3 DEF Rename
<1>5. CASE UNCHANGED vars
  BY <1>5 DEF vars, fsVars, histVars, Spares
<1> QED
  BY <1>2, <1>3, <1>4, <1>5 DEF Next, Spares

\* p has done what its slot needs, or has let something out.
Late(p) == pc[p] \in {"check_emptied", "write_slot", "emit", "announce"} \/ Spoke(p)

\* The archive an earlier run left in p's slot, as long as nobody rewrote or moved it: it
\* expands, its names stand for the slot, a rejected run has resolved the slot to it, and
\* once p is past its slot the slot leads elsewhere.
OldOK(p) ==
  old[p].ino \in Inodes =>
    /\ IsFile(old[p].ino) /\ Decodes(data[old[p].ino])
    /\ Slot(p) \in Paths /\ old[p].names \subseteq Paths
    /\ \A q \in old[p].names : Reach(q) = old[p].ino => Canonical(q) = Canonical(Slot(p))
    /\ pc[p] \in SlotReading /\ Reach(Slot(p)) = old[p].ino => target[p] = Canonical(Slot(p))
    /\ WantsArchive(p) /\ Late(p) => Reach(Slot(p)) # old[p].ino

AllOldOK == \A p \in Procs : OldOK(p)

\* What a step of the system leaves of OldOK(p), given what it does to p itself.
LEMMA OldKept ==
  ASSUME TypeOK, AllTargetsOK, [Next]_vars, NEW p \in Procs, OldOK(p), ~Launch(p),
         inv'[p] = inv[p],
         pc'[p] \in SlotReading =>
           \/ pc[p] \in SlotReading /\ target'[p] = target[p]
           \/ target'[p] = Canonical(Slot(p)),
         old'[p].ino \in Inodes /\ WantsArchive(p) /\ Late(p)' =>
           Late(p) \/ Reach(Slot(p))' # old'[p].ino
  PROVE  OldOK(p)'
<1> SUFFICES ASSUME NEW x \in Inodes, x = old'[p].ino PROVE OldOK(p)'
  BY DEF OldOK
<1>1. /\ old'[p] = old[p] /\ Spares(x)
      /\ kind'[x] = kind[x] /\ data'[x] = data[x]
  BY LeftAlone
<1>2. /\ x = old[p].ino /\ x \in Inodes
      /\ IsFile(x) /\ Decodes(data[x])
      /\ Slot(p) \in Paths /\ old[p].names \subseteq Paths
      /\ \A q \in old[p].names : Reach(q) = x => Canonical(q) = Canonical(Slot(p))
      /\ pc[p] \in SlotReading /\ Reach(Slot(p)) = x => target[p] = Canonical(Slot(p))
      /\ WantsArchive(p) /\ Late(p) => Reach(Slot(p)) # x
  BY <1>1 DEF OldOK
<1>3. Slot(p)' = Slot(p) /\ WantsArchive(p)' = WantsArchive(p)
  BY DEF Slot, WantsArchive
<1>4. IsFile(x)' /\ Decodes(data'[x])
  BY <1>1, <1>2 DEF IsFile
<1>5. ASSUME NEW q \in old[p].names, Reach(q)' = x PROVE Canonical(q)' = Canonical(Slot(p))'
  <2>1. Reach(q) = x /\ Canonical(q)' = Canonical(q)
    BY <1>1, <1>2, <1>5, SameRoute
  <2>2. Canonical(q) = Canonical(Slot(p))
    BY <1>2, <2>1
  <2> DEFINE s == Slot(p)
  <2>3. s \in Paths /\ Canonical(q) = Canonical(s) /\ q \in Paths
    BY <1>2, <2>2
  <2>4. s' = s
    BY <1>3
  <2> HIDE DEF s
  <2>5. Canonical(s)' = Canonical(s)
    BY <1>1, <1>2, <1>5, <2>3, <2>4, SamePlace DEF Canonical
  <2> QED
    BY <2>1, <2>3, <2>5 DEF s
<1>6. Reach(Slot(p))' = x =>
        Reach(Slot(p)) = x /\ Canonical(Slot(p))' = Canonical(Slot(p))
  <2> DEFINE s == inv[p].archive
  <2>1. s \in Paths /\ inv'[p].archive = s
    BY <1>2 DEF Slot
  <2> HIDE DEF s
  <2>2. \A q \in Paths : Reach(q)' = x => Reach(q) = x /\ Canonical(q)' = Canonical(q)
    BY <1>1, <1>2, SameRoute
  <2>3. Reach(Slot(p)) = Reach(s) /\ Canonical(Slot(p)) = Canonical(s)
    BY DEF s, Slot
  <2>4. Reach(Slot(p))' = entry'[IF entry'[s] \in Paths THEN entry'[s] ELSE s]
    BY <2>1 DEF Reach, Canonical, Slot
  <2>5. Canonical(Slot(p))' = IF entry'[s] \in Paths THEN entry'[s] ELSE s
    BY <2>1 DEF Canonical, Slot
  <2> QED
    BY <2>1, <2>2, <2>3, <2>4, <2>5 DEF Reach, Canonical
<1>7. pc'[p] \in SlotReading /\ Reach(Slot(p))' = x => target'[p] = Canonical(Slot(p))'
  BY <1>2, <1>6
<1>8. WantsArchive(p)' /\ Late(p)' => Reach(Slot(p))' # x
  BY <1>2, <1>3, <1>6
<1> QED
  BY <1>1, <1>2, <1>3, <1>4, <1>5, <1>7, <1>8 DEF OldOK

\* A run that starts knows the archive that lies in its slot.
LEMMA LaunchKnowsTheArchive ==
  ASSUME TypeOK, NEW p \in Procs, Launch(p)
  PROVE  OldOK(p)'
<1>0. /\ entry \in [Paths -> Paths \cup Inodes \cup {None}]
      /\ kind \in [Inodes -> {"file", "dir", "special"}]
      /\ data \in [Inodes -> Seq(Chunk)]
      /\ \A q \in Paths : entry[q] \in Paths => entry[entry[q]] \notin Paths
      /\ old \in [Procs -> [names : SUBSET Paths, ino : Inodes \cup {None}]]
  BY DEF TypeOK, FilesOK, HistoryOK
<1>1. PICK v \in Invocations :
        LET emptied == IF v.trunc /\ v.stdout # Pipe THEN {Opened(v.stdout)} ELSE {}
            left == IF v.archive = NoPath THEN None ELSE Reach(v.archive)
            stale == IsFile(left) /\ left \notin emptied /\ Decodes(data[left])
        IN /\ inv' = [inv EXCEPT ![p] = v]
           /\ data' = [i \in Inodes |-> IF i \in emptied THEN <<>> ELSE data[i]]
           /\ old' = [Forget(emptied) EXCEPT
                        ![p] = [names |-> IF stale THEN {v.archive, Canonical(v.archive)}
                                          ELSE {},
                                ino   |-> IF stale THEN left ELSE None]]
  BY DEF Launch
<1> DEFINE emptied == IF v.trunc /\ v.stdout # Pipe THEN {Opened(v.stdout)} ELSE {}
           left == IF v.archive = NoPath THEN None ELSE Reach(v.archive)
           stale == IsFile(left) /\ left \notin emptied /\ Decodes(data[left])
<1>2. /\ inv'[p] = v /\ pc'[p] = "guard_output" /\ sent'[p] = <<>> /\ exit'[p] = "none"
      /\ entry' = entry /\ kind' = kind
  BY <1>1 DEF Launch, TypeOK, RunsOK
<1>3. data' = [i \in Inodes |-> IF i \in emptied THEN <<>> ELSE data[i]]
  BY <1>1
<1>4. old'[p] = [names |-> IF stale THEN {v.archive, Canonical(v.archive)} ELSE {},
                 ino   |-> IF stale THEN left ELSE None]
  BY <1>0, <1>1 DEF Forget
<1>5. CASE ~stale
  <2>1. old'[p].ino = None
    BY <1>4, <1>5
  <2> QED
    BY <2>1, CliAssumption DEF OldOK
<1>6. CASE stale
  <2> DEFINE s == v.archive
  <2>1. /\ s \in Paths /\ left = Reach(s) /\ IsFile(left) /\ left \notin emptied
        /\ Decodes(data[left])
    BY <1>6, CliAssumption DEF Invocation, IsFile
  <2>2. old'[p].ino = left /\ old'[p].names = {s, Canonical(s)}
    BY <1>4, <1>6
  <2> HIDE DEF stale, emptied, left
  <2>3. IsFile(left) /\ kind' = kind /\ data'[left] = data[left]
    BY <1>2, <1>3, <2>1 DEF IsFile
  <2>4. Slot(p)' = s /\ (\A q \in Paths : Canonical(q)' = Canonical(q))
    BY <1>2 DEF Slot, Canonical
  <2>5. Canonical(s) \in Paths /\ Canonical(Canonical(s)) = Canonical(s)
    BY <1>0, <2>1, ReachIsAFile DEF Canonical
  <2>6. ~Late(p)' /\ pc'[p] \notin SlotReading
    BY <1>2 DEF Late, Spoke, SlotReading
  <2>7. Slot(p)' \in Paths /\ old'[p].names \subseteq Paths
    BY <2>1, <2>2, <2>4, <2>5
  <2>8. \A q \in old'[p].names : Canonical(q)' = Canonical(Slot(p))'
    <3>1. Canonical(Slot(p))' = Canonical(s)
      BY <1>2 DEF Slot, Canonical
    <3> QED
      BY <2>1, <2>2, <2>4, <2>5, <3>1
  <2>9. (IsFile(old[p].ino) /\ Decodes(data[old[p].ino]))'
    BY <2>1, <2>2, <2>3 DEF IsFile
  <2> QED
    BY <2>6, <2>7, <2>8, <2>9 DEF OldOK
<1> QED
  BY <1>5, <1>6

\* A header opens with the magic.
LEMMA ArchivesOpenWithMagic ==
  ASSUME NEW bytes, Decodes(bytes)
  PROVE  OpensWithMagic(bytes)
BY DEF Decodes, OpensWithMagic

\* The steps that settle the slot find no old archive in it, or take it away.
LEMMA SettlingClears ==
  ASSUME TypeOK, AllTargetsOK, AllOldOK, [Next]_vars, NEW p \in Procs, ~Launch(p),
         \/ ResolveSlot(p) \/ ClassifySlot(p) \/ ProbeSlot(p) \/ UnlinkSlot(p)
         \/ UNCHANGED inv /\ (TruncateSlot(p) \/ CreateSlot(p)),
         pc'[p] \in {"emit", "check_emptied"},
         WantsArchive(p), old'[p].ino \in Inodes
  PROVE  Reach(Slot(p))' # old'[p].ino
<1> SUFFICES ASSUME NEW x \in Inodes, x = old'[p].ino, Reach(Slot(p))' = x PROVE FALSE
  OBVIOUS
<1>0. WellPlaced(p) /\ OldOK(p) /\ TargetOK(p) /\ pc \in [Procs -> Labels]
  BY DEF TypeOK, RunsOK, AllOldOK, AllTargetsOK
<1>1. inv' = inv
  BY DEF ResolveSlot, ClassifySlot, ProbeSlot, UnlinkSlot, argVars
<1>2. PICK s \in Paths : s = Slot(p) /\ inv'[p].archive = s
  BY <1>1, SlotIsAName DEF Slot
<1>3. Reach(s)' = x
  BY <1>2 DEF Slot, Reach, Canonical
<1>4. /\ old'[p] = old[p] /\ Spares(x) /\ old[p].ino = x
      /\ Reach(s) = x /\ Canonical(s)' = Canonical(s)
  BY <1>3, LeftAlone, SameRoute
<1>5. /\ IsFile(x) /\ Decodes(data[x]) /\ OpensWithMagic(data[x])
      /\ pc[p] \in SlotReading => target[p] = Canonical(s)
  BY <1>0, <1>2, <1>4, ArchivesOpenWithMagic DEF OldOK
<1>6. entry[Canonical(s)] = x /\ entry'[Canonical(s)] = x
  BY <1>3, <1>4 DEF Reach
<1>7. pc[p] \in SlotReading => Reach(target[p]) = x /\ entry[target[p]] = x
  <2>1. entry[Canonical(s)] \notin Paths
    BY <1>6, CliAssumption
  <2> QED
    BY <1>5, <1>6, <2>1 DEF Reach, Canonical
<1>8. x # None
  BY CliAssumption
<1>9. CASE ResolveSlot(p)
  BY <1>0, <1>2, <1>4, <1>8, <1>9 DEF ResolveSlot, Goto, Quit
<1>10. CASE ClassifySlot(p)
  BY <1>0, <1>5, <1>7, <1>10 DEF ClassifySlot, SlotReading, IsFile, Goto, Quit
<1>11. CASE ProbeSlot(p)
  BY <1>0, <1>5, <1>7, <1>8, <1>11 DEF ProbeSlot, SlotReading, IsFile, Goto, Quit
<1>12. CASE UnlinkSlot(p)
  <2>1. entry' = [entry EXCEPT ![target[p]] = None]
    BY <1>0, <1>12 DEF UnlinkSlot, NameToRemove, RemovalFails, Quit
  <2>2. target[p] = Canonical(s) /\ target[p] \in Paths
    BY <1>0, <1>5, <1>12 DEF UnlinkSlot, WellPlaced, SlotReading
  <2> QED
    BY <1>6, <1>8, <2>1, <2>2 DEF TypeOK, FilesOK
<1>13. CASE TruncateSlot(p)
  <2>1. old' = Forget({x}) /\ old \in [Procs -> [names : SUBSET Paths, ino : Inodes \cup {None}]]
    BY <1>2, <1>4, <1>13 DEF TruncateSlot, SetBytes, TypeOK, HistoryOK
  <2>2. old'[p].ino = None
    BY <1>4, <2>1 DEF Forget
  <2> QED
    BY <1>8, <2>2
<1>14. CASE CreateSlot(p)
  BY <1>2, <1>4, <1>8, <1>14 DEF CreateSlot
<1> QED
  BY <1>9, <1>10, <1>11, <1>12, <1>13, <1>14

\* Every step keeps it.
LEMMA OldStaysOK ==
  ASSUME TypeOK, AllTargetsOK, AllOldOK, [Next]_vars
  PROVE  AllOldOK'
<1> SUFFICES ASSUME NEW p \in Procs PROVE OldOK(p)'
  BY DEF AllOldOK
<1>0. OldOK(p) /\ WellPlaced(p) /\ pc \in [Procs -> Labels]
      /\ exit \in [Procs -> {"none", "success", "bad_input", "corrupt"}]
      /\ target \in [Procs -> Paths \cup {NoPath}]
      /\ sent \in [Procs -> Seq(Chunk)]
  BY DEF AllOldOK, TypeOK, RunsOK
<1>1. CASE Launch(p)
  BY <1>1, LaunchKnowsTheArchive
<1>2. CASE NotMine(p) /\ ~Launch(p)
  <2>1. /\ pc'[p] = pc[p] /\ target'[p] = target[p] /\ inv'[p] = inv[p]
        /\ sent'[p] = sent[p] /\ exit'[p] = exit[p]
    BY <1>2, TheOthers DEF Mine
  <2>2. Late(p)' = Late(p)
    BY <2>1 DEF Late, Spoke
  <2> QED
    BY <1>0, <1>2, <2>1, <2>2, OldKept
<1>3. CASE ~Launch(p) /\ (ResolveSlot(p) \/ ClassifySlot(p) \/ ProbeSlot(p) \/ UnlinkSlot(p))
  <2>1. inv' = inv /\ sent' = sent
    BY <1>3 DEF ResolveSlot, ClassifySlot, ProbeSlot, UnlinkSlot, argVars, outVars
  <2>2. \/ pc'[p] = "emit"
        \/ pc'[p] = "done" /\ exit'[p] = "bad_input"
        \/ pc'[p] = "classify_slot" /\ target'[p] = Canonical(Slot(p)) /\ exit' = exit
        \/ pc'[p] \in SlotReading /\ target' = target /\ pc[p] \in SlotReading /\ exit' = exit
    BY <1>0, <1>3 DEF ResolveSlot, ClassifySlot, ProbeSlot, UnlinkSlot, RemovalFails, SlotReading,
       Goto, Quit, slotVars
  <2>3. pc'[p] = "emit" /\ WantsArchive(p) /\ old'[p].ino \in Inodes =>
          Reach(Slot(p))' # old'[p].ino
    BY <1>3, SettlingClears
  <2>4. pc'[p] # "emit" /\ Late(p)' => Late(p)
    BY <2>1, <2>2 DEF Late, Spoke, SlotReading
  <2> QED
    BY <1>0, <1>3, <2>1, <2>2, <2>3, <2>4, OldKept DEF SlotReading
<1>4. CASE ~Launch(p) /\ OpenSlot(p)
  <2>1. inv' = inv /\ sent' = sent
    BY <1>4 DEF OpenSlot, argVars, outVars
  <2>2. \/ pc'[p] = "check_emptied" /\ (TruncateSlot(p) \/ CreateSlot(p))
        \/ pc'[p] = "done" /\ exit'[p] = "bad_input"
    BY <1>0, <1>4 DEF OpenSlot, TruncateSlot, CreateSlot, OpenSlotFails, Goto, Quit
  <2>3. pc'[p] = "check_emptied" /\ WantsArchive(p) /\ old'[p].ino \in Inodes =>
          Reach(Slot(p))' # old'[p].ino
    BY <1>4, <2>1, <2>2, SettlingClears
  <2>4. pc'[p] = "done" /\ Late(p)' => Late(p)
    BY <2>1, <2>2 DEF Late, Spoke
  <2> QED
    BY <1>0, <1>4, <2>1, <2>2, <2>3, <2>4, OldKept DEF SlotReading
<1>5. CASE /\ ~Launch(p)
           /\ \/ EnsureOutputIsNotTheInput(p) \/ EnsureArchiveIsNotTheInput(p)
              \/ OpenInput(p) \/ ReadChunk(p) \/ Decide(p) \/ StatSlot(p) \/ RecheckSlot(p)
              \/ Crash(p)
  <2>1. inv' = inv /\ sent' = sent
    BY <1>5 DEF EnsureOutputIsNotTheInput, EnsureArchiveIsNotTheInput, OpenInput, ReadChunk,
       Decide, StatSlot, RecheckSlot, Crash, argVars, outVars
  <2>2. exit'[p] = "success" => exit[p] = "success"
    BY <1>0, <1>5 DEF EnsureOutputIsNotTheInput, EnsureArchiveIsNotTheInput, OpenInput, ReadChunk,
       Decide, StatSlot, RecheckSlot, Crash, Goto, Quit
  <2>3. /\ pc'[p] \in SlotReading => pc[p] \in SlotReading /\ target' = target
        /\ pc'[p] \in {"check_emptied", "write_slot", "emit", "announce"} => ~WantsArchive(p)
    BY <1>0, <1>5 DEF EnsureOutputIsNotTheInput, EnsureArchiveIsNotTheInput, OpenInput, ReadChunk,
       Decide, CompressGoesTo, WantsArchive, StatSlot, RecheckSlot, Crash, Goto, Quit,
       SlotReading, slotVars
  <2>4. Late(p)' /\ WantsArchive(p) => Late(p)
    BY <2>1, <2>2, <2>3 DEF Late, Spoke
  <2> QED
    BY <1>0, <1>5, <2>1, <2>3, <2>4, OldKept
<1>6. CASE /\ ~Launch(p)
           /\ \/ CheckEmptied(p) \/ WriteSlot(p) \/ EmitChunk(p) \/ EmitEnds(p) \/ Announce(p)
  <2>1. inv' = inv /\ Late(p)
    BY <1>6 DEF CheckEmptied, WriteSlot, EmitChunk, EmitEnds, Announce, argVars, Late
  <2>2. pc'[p] \notin SlotReading
    BY <1>0, <1>6 DEF CheckEmptied, WriteSlot, EmitChunk, EmitEnds, AfterEmit, WriteFails,
       Announce, Goto, Quit, SlotReading
  <2> QED
    BY <1>0, <1>6, <2>1, <2>2, OldKept
<1> QED
  BY <1>1, <1>2, <1>3, <1>4, <1>5, <1>6, WhoseStep DEF Step

\* Nobody was launched yet.
LEMMA InitOldOK == Init => AllOldOK
BY CliAssumption DEF Init, AllOldOK, OldOK

\* Once a compress given --archive has emitted a byte or exited 0, neither the slot as
\* typed nor the file it stood for at launch leads to the archive an earlier run left
\* there: for any number of runs over any files, with failing system calls, killed runs
\* and renames.  (cmd_compress, clear_stale_archive, write_file)
THEOREM NoArchiveOutlivesItsRun == Spec => []NoStaleArchive
<1>1. AllOldOK => NoStaleArchive
  BY DEF AllOldOK, OldOK, NoStaleArchive, Late, Reach
<1>2. TypeOK /\ AllTargetsOK /\ AllOldOK /\ [Next]_vars => AllOldOK'
  BY OldStaysOK
<1>3. TypeOK /\ AllTargetsOK /\ [Next]_vars => AllTargetsOK'
  BY TargetsStayOK
<1> QED
  BY <1>1, <1>2, <1>3, InitOldOK, InitTargetsOK, TypeCorrect, PTL DEF Spec

----------------------------------------------------------------------------
(* The file a run reads.                                                    *)

\* The shell redirects to files.
OutputOK(p) == stdout[p] \in Inodes => IsFile(stdout[p])

\* What the two guards found, unless the file that is read has got another name, or its name
\* another file: standard output is not that file, nor is the slot, until the last write to
\* each.  Somebody may have taken the input away; then what is left of it is None, and
\* the slot must not be made under its name.
InputOK(p) ==
  Running(p) /\ "input" \notin met[p] =>
    /\ pc[p] # "guard_output" /\ InputIdentity(p) \in Inodes => stdout[p] # InputIdentity(p)
    /\ /\ WantsArchive(p) /\ IsFile(InputIdentity(p))
       /\ pc[p] \in {"open_input", "read", "stat_slot", "open_slot", "resolve_slot"}
       => Reach(Slot(p)) # InputIdentity(p)
    /\ WantsArchive(p) /\ pc[p] \in {"read", "stat_slot", "open_slot"} =>
         Canonical(Slot(p)) \notin InputNames(p)
    /\ /\ pc[p] \notin {"guard_output", "guard_archive", "open_input"}
       /\ InputIdentity(p) \in Inodes
       => IsFile(InputIdentity(p))
    /\ pc[p] \in SlotReading /\ InputIdentity(p) \in Inodes => entry[target[p]] # InputIdentity(p)
    /\ pc[p] \in {"check_emptied", "write_slot"} => hold[p] # InputIdentity(p)

\* What the second guard found, until somebody else changes a name: standard output is not
\* the slot, and what the slot was resolved to is what it stands for.
AsideOK(p) ==
  WantsArchive(p) /\ "names" \notin met[p] =>
    /\ pc[p] \in {"open_input", "read", "stat_slot", "open_slot", "resolve_slot"} \cup SlotReading
       => ~IsFile(Reach(Slot(p))) \/ Reach(Slot(p)) # stdout[p]
    /\ pc[p] \in SlotReading => target[p] = Canonical(Slot(p))

InputInv == \A p \in Procs : OutputOK(p) /\ AsideOK(p) /\ InputOK(p)

\* Standard output stays the file it is.
LEMMA OutputStaysOK ==
  ASSUME TypeOK, AllTargetsOK, InputInv, [Next]_vars, NEW p \in Procs
  PROVE  OutputOK(p)'
<1>0. /\ kind \in [Inodes -> {"file", "dir", "special"}]
      /\ stdout \in [Procs -> Inodes \cup {Pipe}]
      /\ OutputOK(p)
  BY DEF TypeOK, FilesOK, RunsOK, InputInv
<1>1. ASSUME NEW i \in Inodes, IsFile(i) PROVE kind'[i] = "file"
  BY <1>1, FilesStayFiles DEF IsFile
<1>2. CASE \E r \in Procs : Launch(r)
  <2>1. PICK r \in Procs : Launch(r)
    BY <1>2
  <2>2. PICK v \in Invocations :
          /\ v.stdout = Pipe \/ IsFile(Opened(v.stdout))
          /\ stdout' = [stdout EXCEPT ![r] = Opened(v.stdout)]
    BY <2>1 DEF Launch
  <2>3. kind' = kind
    BY <2>1 DEF Launch
  <2>4. Pipe \notin Inodes
    BY CliAssumption
  <2> QED
    BY <1>0, <2>2, <2>3, <2>4 DEF OutputOK, IsFile, Opened
<1>3. CASE ~\E r \in Procs : Launch(r)
  <2>1. stdout' = stdout
    <3>1. ASSUME NEW r \in Procs, Step(r) \/ Crash(r) PROVE stdout' = stdout
      BY <3>1 DEF Step, Crash, EnsureOutputIsNotTheInput, EnsureArchiveIsNotTheInput, OpenInput,
         ReadChunk, Decide, StatSlot, OpenSlot, CheckEmptied, WriteSlot, ResolveSlot,
         ClassifySlot, ProbeSlot, RecheckSlot, UnlinkSlot, EmitChunk, EmitEnds, Announce, argVars
    <3> QED
      BY <1>3, <3>1 DEF Next, Rename, vars, argVars
  <2> QED
    BY <1>0, <1>1, <1>3, <2>1 DEF OutputOK, IsFile
<1> QED
  BY <1>2, <1>3

\* Between the second guard and the slot no step of p changes a name.
LEMMA AsideStaysOK ==
  ASSUME TypeOK, AllTargetsOK, [Next]_vars, NEW p \in Procs, AsideOK(p)
  PROVE  AsideOK(p)'
<1> DEFINE Window == {"open_input", "read", "stat_slot", "open_slot", "resolve_slot"}
                     \cup SlotReading
<1>0. /\ pc \in [Procs -> Labels] /\ WellPlaced(p)
      /\ target \in [Procs -> Paths \cup {NoPath}]
      /\ met \in [Procs -> SUBSET {"names", "data", "window", "input"}]
  BY DEF TypeOK, RunsOK, HistoryOK
<1>1. ASSUME inv'[p] = inv[p], stdout'[p] = stdout[p], entry' = entry, kind' = kind
      PROVE  /\ WantsArchive(p)' = WantsArchive(p)
             /\ (~IsFile(Reach(Slot(p))) \/ Reach(Slot(p)) # stdout[p])' =
                  (~IsFile(Reach(Slot(p))) \/ Reach(Slot(p)) # stdout[p])
             /\ Canonical(Slot(p))' = Canonical(Slot(p))
  BY <1>1 DEF WantsArchive, Slot, Reach, Canonical, IsFile
<1>2. CASE Launch(p)
  <2>1. pc'[p] = "guard_output"
    BY <1>0, <1>2 DEF Launch
  <2> QED
    BY <2>1 DEF AsideOK, SlotReading
<1>3. CASE NotMine(p)
  <2> SUFFICES ASSUME "names" \notin met'[p] PROVE AsideOK(p)'
    BY DEF AsideOK
  <2>1. Mine(p)' = Mine(p) /\ "names" \notin met[p] /\ entry' = entry /\ kind' = kind
    BY <1>3, TheOthers
  <2>2. /\ pc'[p] = pc[p] /\ inv'[p] = inv[p] /\ stdout'[p] = stdout[p]
        /\ target'[p] = target[p]
    BY <2>1 DEF Mine
  <2> QED
    BY <1>1, <2>1, <2>2 DEF AsideOK
<1>4. CASE EnsureArchiveIsNotTheInput(p)
  <2>1. /\ inv' = inv /\ stdout' = stdout /\ entry' = entry /\ kind' = kind
        /\ pc'[p] \notin SlotReading
        /\ pc'[p] \in Window => ~ArchiveCollides(p)
    BY <1>0, <1>4 DEF EnsureArchiveIsNotTheInput, Goto, Quit, argVars, fsVars, SlotReading
  <2>2. WantsArchive(p) /\ ~ArchiveCollides(p) =>
          ~IsFile(Reach(Slot(p))) \/ Reach(Slot(p)) # stdout[p]
    BY DEF ArchiveCollides, WantsArchive
  <2> QED
    BY <1>1, <2>1, <2>2 DEF AsideOK
<1>5. CASE \/ EnsureOutputIsNotTheInput(p) \/ OpenInput(p) \/ ReadChunk(p) \/ Decide(p)
           \/ StatSlot(p) \/ ResolveSlot(p) \/ ClassifySlot(p) \/ ProbeSlot(p)
           \/ RecheckSlot(p)
  <2>1. inv' = inv /\ stdout' = stdout /\ entry' = entry /\ kind' = kind
    BY <1>5 DEF EnsureOutputIsNotTheInput, OpenInput, ReadChunk, Decide, StatSlot, ResolveSlot,
       ClassifySlot, ProbeSlot, RecheckSlot, argVars, fsVars
  <2>2. "names" \notin met'[p] => "names" \notin met[p]
    BY <1>0, <1>5 DEF EnsureOutputIsNotTheInput, OpenInput, ReadChunk, Decide, StatSlot,
       ResolveSlot, ClassifySlot, ProbeSlot, RecheckSlot, histVars
  <2>3. WantsArchive(p) =>
          /\ pc'[p] \in Window => pc[p] \in Window
          /\ pc'[p] \in SlotReading =>
               \/ pc[p] \in SlotReading /\ target' = target
               \/ target'[p] = Canonical(Slot(p))
    BY <1>0, <1>5 DEF EnsureOutputIsNotTheInput, OpenInput, ReadChunk, Decide, CompressGoesTo,
       StatSlot, ResolveSlot, ClassifySlot, ProbeSlot, RecheckSlot, WantsArchive, Goto, Quit,
       SlotReading, slotVars
  <2> QED
    BY <1>1, <2>1, <2>2, <2>3 DEF AsideOK
<1>6. CASE \/ OpenSlot(p) \/ CheckEmptied(p) \/ WriteSlot(p) \/ UnlinkSlot(p)
           \/ EmitChunk(p) \/ EmitEnds(p) \/ Announce(p) \/ Crash(p)
  <2>1. pc'[p] \notin Window
    BY <1>0, <1>6 DEF OpenSlot, TruncateSlot, CreateSlot, OpenSlotFails, CheckEmptied, WriteSlot,
       UnlinkSlot, RemovalFails, EmitChunk, EmitEnds, AfterEmit, WriteFails, Announce, Crash,
       Goto, Quit, SlotReading
  <2> QED
    BY <2>1 DEF AsideOK
<1> QED
  BY <1>2, <1>3, <1>4, <1>5, <1>6, WhoseStep DEF Step

\* A step of p leaves the file it reads alone: its name and its bytes.
LEMMA OwnInputKept ==
  ASSUME TypeOK, AllTargetsOK, NEW p \in Procs, InputOK(p), Step(p) \/ Crash(p),
         Running(p), "input" \notin met[p],
         NEW x \in Inodes, x = InputIdentity(p)
  PROVE  InputIdentity(p)' = x /\ data'[x] = data[x] /\ kind'[x] = kind[x]
<1>0. /\ entry \in [Paths -> Paths \cup Inodes \cup {None}]
      /\ kind \in [Inodes -> {"file", "dir", "special"}]
      /\ data \in [Inodes -> Seq(Chunk)]
      /\ inv[p].input \in Paths \cup {NoPath}
      /\ WellPlaced(p) /\ TargetOK(p)
      /\ x # None /\ x # Pipe
  BY CliAssumption, InputTypes DEF TypeOK, FilesOK, AllTargetsOK, Invocation
<1>1. inv' = inv /\ stdin' = stdin
  BY DEF Step, Crash, EnsureOutputIsNotTheInput, EnsureArchiveIsNotTheInput, OpenInput,
     ReadChunk, Decide, StatSlot, OpenSlot, CheckEmptied, WriteSlot, ResolveSlot,
     ClassifySlot, ProbeSlot, RecheckSlot, UnlinkSlot, EmitChunk, EmitEnds, Announce, argVars
<1>2. entry' = entry => InputIdentity(p)' = x
  BY <1>1 DEF InputIdentity, Reach, Canonical
\* Taking a name away, or binding a free one, that does not lead to x.
<1>3. ASSUME NEW c \in Paths, NEW y, entry' = [entry EXCEPT ![c] = y], entry[c] \notin Paths,
             entry[c] # x
      PROVE  InputIdentity(p)' = x
  <2>1. CASE inv[p].input = NoPath
    BY <1>1, <2>1 DEF InputIdentity
  <2>2. CASE inv[p].input # NoPath
    <3> DEFINE q == inv[p].input
    <3>1. q \in Paths /\ Reach(q) = x
      BY <1>0, <2>2 DEF InputIdentity
    <3>2. q # c /\ Canonical(q) # c /\ Canonical(q) \in Paths
      BY <1>3, <3>1, ReachIsAFile DEF Reach, Canonical
    <3>3. entry'[q] = entry[q] /\ entry'[Canonical(q)] = x
      BY <1>0, <1>3, <3>1, <3>2 DEF Reach
    <3> QED
      BY <1>1, <2>2, <3>3 DEF InputIdentity, Reach, Canonical
  <2> QED
    BY <2>1, <2>2
<1>4. CASE Looks(p)
  BY <1>2, <1>4, LooksOnly
<1>5. CASE TruncateSlot(p) /\ pc[p] = "open_slot"
  <2>1. Reach(Slot(p)) # x
    <3>1. WantsArchive(p)
      BY <1>0, <1>5 DEF WellPlaced
    <3>2. IsFile(Reach(Slot(p)))
      BY <1>5 DEF TruncateSlot
    <3> QED
      BY <1>5, <3>1, <3>2 DEF InputOK
  <2> QED
    BY <1>0, <1>2, <1>5, <2>1 DEF TruncateSlot, SetBytes
<1>6. CASE CreateSlot(p) /\ pc[p] = "open_slot"
  <2>1. PICK i \in Inodes :
          /\ Free(i)
          /\ entry' = [entry EXCEPT ![Canonical(Slot(p))] = i]
          /\ kind' = [kind EXCEPT ![i] = "file"]
          /\ data' = [data EXCEPT ![i] = <<>>]
    BY <1>6 DEF CreateSlot
  <2>2. x # i
    <3>1. CASE inv[p].input = NoPath
      BY <2>1, <3>1 DEF Free, InputIdentity
    <3>2. CASE inv[p].input # NoPath
      BY <1>0, <2>1, <3>2, ReachIsAFile DEF Free, InputIdentity, Reach
    <3> QED
      BY <3>1, <3>2
  <2>3. Slot(p) \in Paths
    BY <1>0, <1>6, SlotIsAName DEF WellPlaced
  <2>4. Canonical(Slot(p)) \in Paths /\ entry[Canonical(Slot(p))] = None
    BY <1>6, <2>3, ReachIsAFile DEF CreateSlot, Reach
  <2>5. InputIdentity(p)' = x
    BY <1>0, <1>3, <2>1, <2>4, CliAssumption
  <2> QED
    BY <1>0, <2>1, <2>2, <2>5
<1>7. CASE OpenSlotFails(p) /\ pc[p] = "open_slot"
  BY <1>2, <1>7 DEF OpenSlotFails, fsVars
<1>8. CASE WriteSlot(p)
  <2>1. hold[p] # x
    BY <1>8 DEF InputOK, WriteSlot
  <2>2. entry' = entry /\ kind' = kind /\ data'[x] = data[x]
    BY <1>0, <1>8, <2>1 DEF WriteSlot, SetBytes, fsVars
  <2> QED
    BY <1>2, <2>2
<1>9. CASE UnlinkSlot(p)
  <2>1. target[p] \in Paths /\ entry[target[p]] \notin Paths
    BY <1>0, <1>9 DEF UnlinkSlot, WellPlaced, TargetOK, SlotReading
  <2>2. entry[target[p]] # x
    BY <1>9 DEF UnlinkSlot, SlotReading, InputOK
  <2>3. /\ kind' = kind /\ data' = data
        /\ entry' = entry \/ entry' = [entry EXCEPT ![target[p]] = None]
    BY <1>9 DEF UnlinkSlot, NameToRemove
  <2> QED
    BY <1>2, <1>3, <2>1, <2>2, <2>3
<1>10. CASE EmitChunk(p)
  <2>1. stdout[p] # x
    BY <1>10 DEF InputOK, EmitChunk
  <2>2. entry' = entry /\ kind' = kind /\ data'[x] = data[x]
    BY <1>0, <1>10, <2>1 DEF EmitChunk, SetBytes, fsVars
  <2> QED
    BY <1>2, <2>2
<1> QED
  BY <1>4, <1>5, <1>6, <1>7, <1>8, <1>9, <1>10 DEF Step, OpenSlot, Looks

\* A run that reads a pipe goes on reading it.
LEMMA PipeKept ==
  ASSUME TypeOK, NEW p \in Procs, Step(p) \/ Crash(p), InputIdentity(p) = Pipe
  PROVE  InputIdentity(p)' = Pipe
<1>1. inv' = inv /\ stdin' = stdin
  BY DEF Step, Crash, EnsureOutputIsNotTheInput, EnsureArchiveIsNotTheInput, OpenInput,
     ReadChunk, Decide, StatSlot, OpenSlot, CheckEmptied, WriteSlot, ResolveSlot,
     ClassifySlot, ProbeSlot, RecheckSlot, UnlinkSlot, EmitChunk, EmitEnds, Announce, argVars
<1>2. inv[p].input = NoPath
  BY ReachIsAFile, InputTypes, CliAssumption DEF InputIdentity, Invocation
<1> QED
  BY <1>1, <1>2 DEF InputIdentity

\* An input that somebody took away does not come back by a step of p.
LEMMA NoneKept ==
  ASSUME TypeOK, AllTargetsOK, NEW p \in Procs, InputOK(p), Step(p) \/ Crash(p),
         Running(p), "input" \notin met[p], InputIdentity(p) = None
  PROVE  InputIdentity(p)' = None
<1>0. /\ entry \in [Paths -> Paths \cup Inodes \cup {None}]
      /\ inv[p].input \in Paths \cup {NoPath} /\ stdin[p] \in Inodes \cup {Pipe}
      /\ WellPlaced(p) /\ TargetOK(p)
      /\ None \notin Paths /\ None \notin Inodes /\ None # Pipe
  BY CliAssumption, InputTypes DEF TypeOK, FilesOK, RunsOK, AllTargetsOK, Invocation
<1>1. inv' = inv /\ stdin' = stdin
  BY DEF Step, Crash, EnsureOutputIsNotTheInput, EnsureArchiveIsNotTheInput, OpenInput,
     ReadChunk, Decide, StatSlot, OpenSlot, CheckEmptied, WriteSlot, ResolveSlot,
     ClassifySlot, ProbeSlot, RecheckSlot, UnlinkSlot, EmitChunk, EmitEnds, Announce, argVars
<1> DEFINE q == inv[p].input
<1>2. q \in Paths /\ Canonical(q) \in Paths /\ entry[Canonical(q)] = None
  BY <1>0, ReachIsAFile DEF InputIdentity, Reach
<1>3. InputNames(p) = {q, Canonical(q)} /\ q # NoPath
  BY <1>2, CliAssumption DEF InputNames
<1> HIDE DEF q
<1>4. CASE entry' = entry
  BY <1>1, <1>4 DEF InputIdentity, Reach, Canonical
<1>5. CASE pc[p] = "open_slot" /\ CreateSlot(p)
  <2>1. WantsArchive(p)
    BY <1>0, <1>5 DEF WellPlaced
  <2>2. Canonical(Slot(p)) \notin InputNames(p)
    BY <1>5, <2>1 DEF InputOK
  <2>3. entry'[q] = entry[q] /\ entry'[Canonical(q)] = None
    BY <1>0, <1>2, <1>3, <1>5, <2>2 DEF CreateSlot
  <2> QED
    BY <1>1, <1>2, <1>3, <2>3 DEF InputIdentity, Reach, Canonical, q
<1>6. CASE target[p] \in Paths /\ entry[target[p]] \notin Paths
           /\ entry' = [entry EXCEPT ![target[p]] = None]
  <2>1. entry'[Canonical(q)] = None
    BY <1>0, <1>2, <1>6
  <2>2. entry[q] \in Paths => entry'[q] = entry[q] /\ Canonical(q) = entry[q]
    BY <1>0, <1>2, <1>6 DEF Canonical
  <2>3. entry[q] \notin Paths => Canonical(q) = q
    BY DEF Canonical
  <2> QED
    BY <1>0, <1>1, <1>3, <2>1, <2>2, <2>3 DEF InputIdentity, Reach, Canonical, q
<1> QED
  BY <1>4, <1>5, <1>6, FourKindsOfSteps DEF AllTargetsOK, SetBytes

\* What others do to the input of p without telling it: they may take it away.  The names
\* that lead to it led to it before, and it is the kind of file it was.
LEMMA OthersKeepInput ==
  ASSUME TypeOK, AllTargetsOK, NEW p \in Procs, NotMine(p), Running(p), "input" \notin met'[p]
  PROVE  /\ "input" \notin met[p]
         /\ InputIdentity(p)' \in {InputIdentity(p), None}
         /\ InputIdentity(p) \in Inodes =>
              /\ kind'[InputIdentity(p)] = kind[InputIdentity(p)]
              /\ \A q \in Paths : entry'[q] = InputIdentity(p) => entry[q] = InputIdentity(p)
         /\ \A q \in Paths : entry'[q] \in Paths => entry'[q] = entry[q]
         /\ \A q \in InputNames(p) : entry'[q] \in {entry[q], None}
<1>0. /\ entry \in [Paths -> Paths \cup Inodes \cup {None}]
      /\ kind \in [Inodes -> {"file", "dir", "special"}]
      /\ inv[p].input \in Paths \cup {NoPath} /\ stdin[p] \in Inodes \cup {Pipe}
      /\ None \notin Paths /\ None \notin Inodes /\ None # Pipe /\ Paths \cap Inodes = {}
      /\ Mine(p)' = Mine(p) /\ met[p] \subseteq met'[p]
  BY CliAssumption, InputTypes, TheOthers DEF TypeOK, FilesOK, RunsOK, Invocation
<1>1. inv'[p] = inv[p] /\ stdin'[p] = stdin[p]
  BY <1>0 DEF Mine
<1>2. ASSUME NEW q \in Paths, entry'[q] # entry[q]
      PROVE  /\ entry'[q] \in Inodes \cup {None}
             /\ entry'[q] # None => entry'[q] # InputIdentity(p) /\ q \notin InputNames(p)
  BY <1>2, OthersNaming
<1>3. \A q \in Paths : entry'[q] \in Paths => entry'[q] = entry[q]
  BY <1>0, <1>2
<1>4. InputNames(p) \subseteq Paths
  BY <1>0, ReachIsAFile DEF InputNames
<1>5. \A q \in InputNames(p) : entry'[q] \in {entry[q], None}
  BY <1>2, <1>4
<1>6. InputIdentity(p) \in Inodes =>
        \A q \in Paths : entry'[q] = InputIdentity(p) => entry[q] = InputIdentity(p)
  BY <1>0, <1>2
<1>7. InputIdentity(p)' \in {InputIdentity(p), None}
  <2>1. CASE inv[p].input = NoPath
    BY <1>1, <2>1 DEF InputIdentity
  <2>2. CASE inv[p].input # NoPath
    <3> DEFINE q == inv[p].input
               c == Canonical(q)
    <3>1. /\ q \in Paths /\ c \in Paths
          /\ entry'[q] \in {entry[q], None} /\ entry'[c] \in {entry[c], None}
      BY <1>0, <1>4, <1>5, <2>2 DEF InputNames
    <3>2. InputIdentity(p) = entry[c]
          /\ InputIdentity(p)' = entry'[IF entry'[q] \in Paths THEN entry'[q] ELSE q]
      BY <1>1, <2>2 DEF InputIdentity, Reach, Canonical
    <3>3. c = IF entry[q] \in Paths THEN entry[q] ELSE q
      BY DEF Canonical
    <3> HIDE DEF q, c
    <3> QED
      BY <1>0, <3>1, <3>2, <3>3
  <2> QED
    BY <2>1, <2>2
<1>8. InputIdentity(p) \in Inodes => kind'[InputIdentity(p)] = kind[InputIdentity(p)]
  <2> SUFFICES ASSUME NEW x \in Inodes, x = InputIdentity(p) PROVE kind'[x] = kind[x]
    OBVIOUS
  <2>1. ~Free(x)
    <3>1. CASE inv[p].input = NoPath
      BY <3>1 DEF Free, InputIdentity
    <3>2. CASE inv[p].input # NoPath
      BY <1>0, <3>2, ReachIsAFile DEF Free, InputIdentity, Reach
    <3> QED
      BY <3>1, <3>2
  <2>2. ASSUME NEW r \in Procs, Step(r) \/ Crash(r) PROVE kind'[x] = kind[x]
    BY <1>0, <2>1, <2>2, FourKindsOfSteps DEF AllTargetsOK, SetBytes, CreateSlot
  <2>3. ASSUME NEW r \in Procs, Launch(r) PROVE kind'[x] = kind[x]
    BY <2>3 DEF Launch
  <2>4. CASE UNCHANGED vars \/ \E from, to \in Paths : Rename(from, to)
    BY <2>4 DEF vars, fsVars, Rename
  <2> QED
    BY <2>2, <2>3, <2>4 DEF NotMine
<1> QED
  BY <1>0, <1>3, <1>5, <1>6, <1>7, <1>8

\* Every step of p keeps what the guards found.
LEMMA OwnStepKeepsInput ==
  ASSUME TypeOK, AllTargetsOK, InputInv, NEW p \in Procs, Step(p) \/ Crash(p)
  PROVE  InputOK(p)'
<1> SUFFICES ASSUME Running(p)', "input" \notin met'[p]
             PROVE  InputOK(p)'
  BY DEF InputOK
<1>0. /\ pc \in [Procs -> Labels] /\ WellPlaced(p) /\ InputOK(p) /\ OutputOK(p)
      /\ stdout[p] \in Inodes \cup {Pipe} /\ TargetOK(p)
      /\ hold \in [Procs -> Inodes \cup {None}]
      /\ target \in [Procs -> Paths \cup {NoPath}]
      /\ Pipe \notin Inodes /\ None \notin Inodes
  BY CliAssumption DEF TypeOK, RunsOK, InputInv, AllTargetsOK
<1>1. Running(p) /\ ~Crash(p)
  BY <1>0 DEF Running, Ended, Step, Crash, EnsureOutputIsNotTheInput,
     EnsureArchiveIsNotTheInput, OpenInput, ReadChunk, Decide, StatSlot, OpenSlot,
     CheckEmptied, WriteSlot, ResolveSlot, ClassifySlot, ProbeSlot, RecheckSlot, UnlinkSlot,
     EmitChunk, EmitEnds, Announce
<1>2. "input" \notin met[p]
  <2>1. met \in [Procs -> SUBSET {"names", "data", "window", "input"}]
    BY DEF TypeOK, HistoryOK
  <2>2. met'[p] \in {met[p], met[p] \ {"window"}}
    <3>1. (\E q, i : MeetNaming(p, q, i)) \/ MeetBytes(p) => met'[p] = met[p]
      BY DEF MeetNaming, MeetBytes
    <3>2. CASE met' \in {met, [met EXCEPT ![p] = @ \ {"window"}]}
      BY <2>1, <3>2
    <3> QED
      BY <3>1, <3>2, FourKindsOfSteps DEF AllTargetsOK, SetBytes, CreateSlot
  <2> QED
    BY <2>1, <2>2
<1>3. inv' = inv /\ stdin' = stdin /\ stdout' = stdout
  BY <1>1 DEF Step, EnsureOutputIsNotTheInput, EnsureArchiveIsNotTheInput, OpenInput,
     ReadChunk, Decide, StatSlot, OpenSlot, CheckEmptied, WriteSlot, ResolveSlot,
     ClassifySlot, ProbeSlot, RecheckSlot, UnlinkSlot, EmitChunk, EmitEnds, Announce, argVars
<1>4. WantsArchive(p)' = WantsArchive(p) /\ Slot(p)' = Slot(p)
  BY <1>3 DEF WantsArchive, Slot
<1>5. entry' = entry /\ kind' = kind =>
        /\ InputIdentity(p)' = InputIdentity(p)
        /\ IsFile(InputIdentity(p))' = IsFile(InputIdentity(p))
        /\ Reach(Slot(p))' = Reach(Slot(p))
        /\ Canonical(Slot(p))' = Canonical(Slot(p))
        /\ InputNames(p)' = InputNames(p)
  BY <1>3 DEF InputIdentity, Reach, Canonical, InputNames, IsFile, Slot
<1>6. CASE EnsureOutputIsNotTheInput(p) \/ EnsureArchiveIsNotTheInput(p) \/ OpenInput(p)
  <2>1. entry' = entry /\ kind' = kind
    BY <1>6 DEF EnsureOutputIsNotTheInput, EnsureArchiveIsNotTheInput, OpenInput, fsVars
  <2>2. CASE EnsureOutputIsNotTheInput(p)
    <3>1. /\ pc[p] = "guard_output" /\ ~OutputIsInput(p)
          /\ pc'[p] = "guard_archive" \/ (pc'[p] = "open_input" /\ ~WantsArchive(p))
      <4>1. pc'[p] # "done" /\ pc \in [Procs -> Labels]
        BY <1>0 DEF Running, Ended
      <4>2. CASE OutputIsInput(p) /\ Quit(p, "bad_input")
        BY <4>1, <4>2 DEF Quit
      <4>3. CASE ~OutputIsInput(p) /\ inv[p].cmd = "compress" /\ Goto(p, "guard_archive")
        BY <2>2, <4>1, <4>3 DEF EnsureOutputIsNotTheInput, Goto
      <4>4. CASE ~OutputIsInput(p) /\ inv[p].cmd # "compress" /\ Goto(p, "open_input")
        BY <2>2, <4>1, <4>4 DEF EnsureOutputIsNotTheInput, Goto, WantsArchive
      <4> QED
        BY <2>2, <4>2, <4>3, <4>4 DEF EnsureOutputIsNotTheInput
    <3>2. InputIdentity(p) \in Inodes => stdout[p] # InputIdentity(p)
      BY <1>0, <3>1 DEF OutputIsInput, OutputOK
    <3>3. /\ pc'[p] \in {"guard_archive", "open_input"}
          /\ WantsArchive(p)' => pc'[p] = "guard_archive"
      BY <1>4, <3>1
    <3>4. InputIdentity(p)' \in Inodes => stdout'[p] # InputIdentity(p)'
      BY <1>3, <1>5, <2>1, <3>2
    <3> QED
      BY <3>3, <3>4 DEF InputOK, SlotReading
  <2>3. CASE EnsureArchiveIsNotTheInput(p)
    <3>1. pc[p] = "guard_archive" /\ ~ArchiveCollides(p) /\ pc'[p] = "open_input"
      BY <1>0, <2>3 DEF EnsureArchiveIsNotTheInput, Goto, Quit, Running, Ended
    <3>2. WantsArchive(p) /\ IsFile(InputIdentity(p)) => Reach(Slot(p)) # InputIdentity(p)
      BY <3>1 DEF ArchiveCollides, WantsArchive
    <3> QED
      BY <3>2, <1>0, <1>1, <1>2, <1>3, <1>4, <1>5, <2>1, <3>1 DEF InputOK, SlotReading
  <2>4. CASE OpenInput(p)
    <3>1. /\ pc[p] = "open_input" /\ pc'[p] = "read"
          /\ InputIdentity(p) = Pipe \/ IsFile(InputIdentity(p))
      BY <1>0, <2>4 DEF OpenInput, Goto, Quit, Running, Ended
    <3>2. WantsArchive(p) => Canonical(Slot(p)) \notin InputNames(p)
      <4> SUFFICES ASSUME WantsArchive(p), inv[p].input # NoPath
                   PROVE  Canonical(Slot(p)) \notin InputNames(p)
        BY DEF InputNames
      <4> DEFINE q == inv[p].input
      <4>1. q \in Paths /\ Slot(p) \in Paths
        BY InputTypes, SlotIsAName DEF Invocation
      <4>2. InputIdentity(p) = entry[Canonical(q)] /\ IsFile(InputIdentity(p))
        BY <3>1, <4>1, ReachIsAFile, CliAssumption DEF InputIdentity, Reach
      <4>3. entry[Canonical(Slot(p))] # entry[Canonical(q)]
        BY <1>1, <1>2, <1>0, <3>1, <4>2 DEF InputOK, Reach
      <4>4. entry[q] \in Paths => Canonical(Slot(p)) # q
        BY <4>1 DEF Canonical, TypeOK, FilesOK
      <4>5. entry[q] \notin Paths => Canonical(q) = q
        BY DEF Canonical
      <4> QED
        BY <4>3, <4>4, <4>5 DEF InputNames
    <3> QED
      BY <3>2, <1>0, <1>1, <1>2, <1>3, <1>4, <1>5, <2>1, <3>1 DEF InputOK, SlotReading
  <2> QED
    BY <1>6, <2>2, <2>3, <2>4
<1>7. CASE ReadChunk(p) \/ Decide(p) \/ StatSlot(p)
  <2>1. entry' = entry /\ kind' = kind
    BY <1>7 DEF ReadChunk, Decide, StatSlot, fsVars
  <2>2. /\ pc[p] \in {"read", "stat_slot"}
        /\ pc'[p] \in {"read", "stat_slot", "open_slot", "resolve_slot", "emit"}
    BY <1>0, <1>7 DEF ReadChunk, Decide, StatSlot, CompressGoesTo, Goto, Quit, Running, Ended
  <2> QED
    BY <1>0, <1>1, <1>2, <1>3, <1>4, <1>5, <2>1, <2>2 DEF InputOK, SlotReading
<1>8. CASE ResolveSlot(p) \/ ClassifySlot(p) \/ ProbeSlot(p) \/ RecheckSlot(p)
  <2>1. entry' = entry /\ kind' = kind
    BY <1>8 DEF ResolveSlot, ClassifySlot, ProbeSlot, RecheckSlot, fsVars
  <2>2. /\ pc[p] \in {"resolve_slot"} \cup SlotReading
        /\ \/ pc'[p] = "emit"
           \/ /\ pc[p] = "resolve_slot" /\ pc'[p] = "classify_slot"
              /\ target'[p] = Canonical(Slot(p))
           \/ pc[p] \in SlotReading /\ pc'[p] \in SlotReading /\ target' = target
    BY <1>0, <1>8 DEF ResolveSlot, ClassifySlot, ProbeSlot, RecheckSlot, Goto, Quit, Running,
       Ended, SlotReading, slotVars
  <2>3. pc[p] = "resolve_slot" => WantsArchive(p)
    BY <1>0 DEF WellPlaced
  <2>4. pc'[p] \in SlotReading /\ InputIdentity(p) \in Inodes =>
          entry[target'[p]] # InputIdentity(p)
    <3>1. pc[p] = "resolve_slot" /\ InputIdentity(p) \in Inodes =>
            entry[Canonical(Slot(p))] # InputIdentity(p)
      BY <1>0, <1>1, <1>2, <2>3 DEF InputOK, Reach
    <3> QED
      BY <1>0, <1>1, <1>2, <2>2, <3>1 DEF InputOK, SlotReading
  <2> QED
    BY <1>0, <1>1, <1>2, <1>3, <1>4, <1>5, <2>1, <2>2, <2>4 DEF InputOK, SlotReading
<1>9. /\ InputIdentity(p)' = InputIdentity(p)
      /\ InputIdentity(p) \in Inodes /\ IsFile(InputIdentity(p)) => IsFile(InputIdentity(p))'
  <2>1. InputIdentity(p) \in Inodes \cup {None, Pipe}
    BY ReachIsAFile, InputTypes DEF InputIdentity, Invocation, TypeOK, RunsOK
  <2>2. CASE InputIdentity(p) = Pipe
    BY <1>0, <2>2, PipeKept
  <2>3. CASE InputIdentity(p) \in Inodes
    <3>1. PICK x \in Inodes : x = InputIdentity(p)
      BY <2>3
    <3>2. InputIdentity(p)' = x /\ kind'[x] = kind[x]
      BY <1>0, <1>1, <1>2, <3>1, OwnInputKept
    <3> QED
      BY <3>1, <3>2 DEF IsFile
  <2>4. CASE InputIdentity(p) = None
    BY <1>0, <1>1, <1>2, <2>4, NoneKept
  <2> QED
    BY <2>1, <2>2, <2>3, <2>4
<1>10. CASE OpenSlot(p)
  <2>1. pc[p] = "open_slot" /\ pc'[p] = "check_emptied" /\ (TruncateSlot(p) \/ CreateSlot(p))
    BY <1>0, <1>10 DEF OpenSlot, TruncateSlot, CreateSlot, OpenSlotFails, Goto, Quit, Running,
       Ended
  <2>2. hold'[p] # InputIdentity(p)
    <3>1. CASE TruncateSlot(p)
      <4>1. WantsArchive(p) /\ IsFile(Reach(Slot(p))) /\ hold'[p] = Reach(Slot(p))
        BY <1>0, <2>1, <3>1 DEF WellPlaced, TruncateSlot
      <4> QED
        BY <1>0, <1>1, <1>2, <2>1, <4>1 DEF InputOK
    <3>2. CASE CreateSlot(p)
      <4>1. Free(hold'[p]) /\ hold'[p] \in Inodes
        BY <1>0, <3>2 DEF CreateSlot
      <4>2. inv[p].input # NoPath => InputIdentity(p) = entry[Canonical(inv[p].input)]
                                     /\ Canonical(inv[p].input) \in Paths
        BY ReachIsAFile, InputTypes DEF InputIdentity, Reach, Invocation
      <4> QED
        BY <1>1, <4>1, <4>2 DEF Free, InputIdentity
    <3> QED
      BY <2>1, <3>1, <3>2
  <2> QED
    BY <1>0, <1>1, <1>2, <1>3, <1>9, <2>1, <2>2 DEF InputOK, SlotReading
<1>11. CASE CheckEmptied(p) \/ WriteSlot(p)
  <2>1. /\ pc[p] \in {"check_emptied", "write_slot"}
        /\ pc'[p] \in {"check_emptied", "write_slot", "emit"}
        /\ pc'[p] # "emit" => hold' = hold
    BY <1>0, <1>11 DEF CheckEmptied, WriteSlot, Goto, Quit, Running, Ended
  <2> QED
    BY <1>0, <1>1, <1>2, <1>3, <1>9, <2>1 DEF InputOK, SlotReading
<1>12. CASE UnlinkSlot(p) \/ EmitChunk(p) \/ EmitEnds(p) \/ Announce(p)
  <2>1. /\ pc[p] \in {"unlink_slot", "emit", "announce"}
        /\ pc'[p] \in {"emit", "announce"}
    BY <1>0, <1>12 DEF UnlinkSlot, RemovalFails, EmitChunk, EmitEnds, AfterEmit, WriteFails,
       Announce, Goto, Quit, Running, Ended
  <2> QED
    BY <1>0, <1>1, <1>2, <1>3, <1>9, <2>1 DEF InputOK, SlotReading
<1> QED
  BY <1>1, <1>6, <1>7, <1>8, <1>10, <1>11, <1>12 DEF Step

\* What the slot leads to after names changed that do not lead to x, it led to before.
LEMMA LeadsThereBefore ==
  ASSUME NEW x \in Inodes, NEW p \in Procs, Slot(p) \in Paths, Slot(p)' = Slot(p),
         Paths \cap Inodes = {}, entry \in [Paths -> Paths \cup Inodes \cup {None}],
         \A q \in Paths : entry'[q] = x => entry[q] = x,
         \A q \in Paths : entry'[q] \in Paths => entry'[q] = entry[q],
         Reach(Slot(p))' = x
  PROVE  Reach(Slot(p)) = x
<1> DEFINE s == Slot(p)
           c == IF entry'[s] \in Paths THEN entry'[s] ELSE s
<1>1. Reach(Slot(p))' = entry'[c] /\ c \in Paths
  BY DEF Reach, Canonical
<1>2. Reach(s) = entry[IF entry[s] \in Paths THEN entry[s] ELSE s]
  BY DEF Reach, Canonical
<1> HIDE DEF s
<1>3. entry[c] = x
  BY <1>1
<1> QED
  BY <1>2, <1>3 DEF s

\* The slot's name stays another than the input's.
LEMMA SlotStaysElsewhere ==
  ASSUME TypeOK, NEW p \in Procs, Slot(p) \in Paths, inv'[p] = inv[p],
         \A q \in Paths : entry'[q] \in Paths => entry'[q] = entry[q],
         \A q \in InputNames(p) : entry'[q] \in {entry[q], None},
         Canonical(Slot(p)) \notin InputNames(p)
  PROVE  (Canonical(Slot(p)) \notin InputNames(p))'
<1> SUFFICES ASSUME inv[p].input # NoPath
             PROVE  (Canonical(Slot(p)) \notin InputNames(p))'
  BY DEF InputNames
<1> DEFINE s == Slot(p)
           n == inv[p].input
<1>0. /\ \A q \in Paths : entry[q] \in Paths => entry[entry[q]] \notin Paths
      /\ None \notin Paths /\ n \in Paths /\ s \in Paths
  BY InputTypes, CliAssumption DEF TypeOK, FilesOK, Invocation
<1>1. InputNames(p) = {n, IF entry[n] \in Paths THEN entry[n] ELSE n}
  BY DEF InputNames, Canonical
<1>2. Canonical(Slot(p)) = IF entry[s] \in Paths THEN entry[s] ELSE s
  BY DEF Canonical
<1>3. InputNames(p)' = {n, IF entry'[n] \in Paths THEN entry'[n] ELSE n}
  BY DEF InputNames, Canonical
<1>4. Canonical(Slot(p))' = IF entry'[s] \in Paths THEN entry'[s] ELSE s
  BY DEF Canonical, Slot
<1>5. entry'[n] \in {entry[n], None}
  BY <1>1
<1> HIDE DEF s, n
<1> QED
  BY <1>0, <1>1, <1>2, <1>3, <1>4, <1>5

\* Every step keeps it for every run.
LEMMA InputStaysOK ==
  ASSUME TypeOK, AllTargetsOK, InputInv, [Next]_vars
  PROVE  InputInv'
<1> SUFFICES ASSUME NEW p \in Procs PROVE OutputOK(p)' /\ AsideOK(p)' /\ InputOK(p)'
  BY DEF InputInv
<1>0. AsideOK(p)'
  BY AsideStaysOK DEF InputInv
<1>1. OutputOK(p)'
  BY OutputStaysOK
<1>2. CASE Launch(p)
  <2>1. pc'[p] = "guard_output"
    BY <1>2 DEF Launch, TypeOK, RunsOK
  <2> QED
    BY <1>0, <1>1, <2>1 DEF InputOK, SlotReading
<1>3. CASE Step(p) \/ Crash(p)
  BY <1>0, <1>1, <1>3, OwnStepKeepsInput
<1>4. CASE NotMine(p)
  <2>1. CASE ~Running(p)' \/ "input" \in met'[p]
    BY <1>0, <1>1, <2>1 DEF InputOK
  <2>2. CASE Running(p)' /\ "input" \notin met'[p]
    <3>1. Mine(p)' = Mine(p)
      BY <1>4, OthersAreOthers
    <3>2. /\ pc'[p] = pc[p] /\ inv'[p] = inv[p] /\ stdin'[p] = stdin[p]
          /\ stdout'[p] = stdout[p] /\ hold'[p] = hold[p] /\ target'[p] = target[p]
      BY <3>1 DEF Mine
    <3>3. Running(p) /\ WantsArchive(p)' = WantsArchive(p) /\ Slot(p)' = Slot(p)
      BY <2>2, <3>2 DEF WantsArchive, Running, Slot
    <3> DEFINE x == InputIdentity(p)
    <3>4. /\ "input" \notin met[p]
          /\ InputIdentity(p)' \in {x, None}
          /\ x \in Inodes =>
               /\ kind'[x] = kind[x]
               /\ \A q \in Paths : entry'[q] = x => entry[q] = x
          /\ \A q \in Paths : entry'[q] \in Paths => entry'[q] = entry[q]
          /\ \A q \in InputNames(p) : entry'[q] \in {entry[q], None}
      BY <1>4, <2>2, <3>3, OthersKeepInput
    <3>5. InputOK(p) /\ WellPlaced(p) /\ None \notin Inodes
      BY CliAssumption DEF InputInv, TypeOK
    <3>6. InputIdentity(p)' \in Inodes => InputIdentity(p)' = x
      BY <3>4, <3>5
    <3>7. x \in Inodes /\ InputIdentity(p)' = x /\ IsFile(InputIdentity(p))' => IsFile(x)
      BY <3>4 DEF IsFile
    <3>8. x \in Inodes /\ InputIdentity(p)' = x /\ IsFile(x) => IsFile(InputIdentity(p))'
      BY <3>4 DEF IsFile
    <3>9. WantsArchive(p) /\ x \in Inodes /\ Reach(Slot(p))' = x => Reach(Slot(p)) = x
      BY <3>3, <3>4, SlotIsAName, LeadsThereBefore, CliAssumption DEF TypeOK, FilesOK
    <3>10. WantsArchive(p) /\ Canonical(Slot(p)) \notin InputNames(p) =>
             (Canonical(Slot(p)) \notin InputNames(p))'
      BY <3>2, <3>4, SlotIsAName, SlotStaysElsewhere
    <3>11. pc[p] \in SlotReading /\ x \in Inodes /\ entry'[target[p]] = x => entry[target[p]] = x
      BY <3>4, <3>5 DEF WellPlaced, SlotReading
    <3>12. pc[p] \in {"check_emptied", "write_slot"} => hold[p] \in Inodes
      BY <3>5 DEF WellPlaced
    <3>13. /\ pc[p] # "guard_output" /\ x \in Inodes => stdout[p] # x
           /\ /\ WantsArchive(p) /\ IsFile(x)
              /\ pc[p] \in {"open_input", "read", "stat_slot", "open_slot", "resolve_slot"}
              => Reach(Slot(p)) # x
           /\ WantsArchive(p) /\ pc[p] \in {"read", "stat_slot", "open_slot"} =>
                Canonical(Slot(p)) \notin InputNames(p)
           /\ /\ pc[p] \notin {"guard_output", "guard_archive", "open_input"}
              /\ x \in Inodes
              => IsFile(x)
           /\ pc[p] \in SlotReading /\ x \in Inodes => entry[target[p]] # x
           /\ pc[p] \in {"check_emptied", "write_slot"} => hold[p] # x
      BY <3>3, <3>4, <3>5 DEF InputOK
    <3>14. IsFile(InputIdentity(p))' => InputIdentity(p)' \in Inodes
      BY DEF IsFile
    <3>15. InputIdentity(p)' \notin Inodes => hold[p] \notin Inodes \/ hold[p] # InputIdentity(p)'
      OBVIOUS
    <3> HIDE DEF x
    <3> DEFINE y == InputIdentity(p)'
    <3>16. y \in Inodes => y = x /\ x \in Inodes
      BY <3>6
    <3> HIDE DEF x
    <3>18. InputOK(p)'
      <4> SUFFICES
            /\ pc'[p] # "guard_output" /\ y \in Inodes => stdout'[p] # y
            /\ /\ WantsArchive(p)' /\ IsFile(InputIdentity(p))'
               /\ pc'[p] \in {"open_input", "read", "stat_slot", "open_slot", "resolve_slot"}
               => Reach(Slot(p))' # y
            /\ WantsArchive(p)' /\ pc'[p] \in {"read", "stat_slot", "open_slot"} =>
                 (Canonical(Slot(p)) \notin InputNames(p))'
            /\ /\ pc'[p] \notin {"guard_output", "guard_archive", "open_input"}
               /\ y \in Inodes
               => IsFile(InputIdentity(p))'
            /\ pc'[p] \in SlotReading /\ y \in Inodes => entry'[target'[p]] # y
            /\ pc'[p] \in {"check_emptied", "write_slot"} => hold'[p] # y
        BY DEF InputOK
      <4>1. pc'[p] # "guard_output" /\ y \in Inodes => stdout'[p] # y
        BY <3>2, <3>13, <3>16
      <4>2. /\ WantsArchive(p)' /\ IsFile(InputIdentity(p))'
            /\ pc'[p] \in {"open_input", "read", "stat_slot", "open_slot", "resolve_slot"}
            => Reach(Slot(p))' # y
        <5> SUFFICES ASSUME WantsArchive(p)', IsFile(InputIdentity(p))',
                       pc'[p] \in {"open_input", "read", "stat_slot", "open_slot", "resolve_slot"},
                       Reach(Slot(p))' = y
                     PROVE  FALSE
          OBVIOUS
        <5>1. y = x /\ x \in Inodes
          BY <3>14, <3>16
        <5>2. IsFile(x) /\ WantsArchive(p)
          BY <3>3, <3>7, <5>1
        <5>3. Reach(Slot(p)) = x
          BY <3>9, <5>1, <5>2
        <5> QED
          BY <3>2, <3>13, <5>2, <5>3
      <4>3. WantsArchive(p)' /\ pc'[p] \in {"read", "stat_slot", "open_slot"} =>
              (Canonical(Slot(p)) \notin InputNames(p))'
        BY <3>2, <3>3, <3>10, <3>13
      <4>4. /\ pc'[p] \notin {"guard_output", "guard_archive", "open_input"}
            /\ y \in Inodes
            => IsFile(InputIdentity(p))'
        BY <3>2, <3>8, <3>13, <3>16
      <4>5. pc'[p] \in SlotReading /\ y \in Inodes => entry'[target'[p]] # y
        BY <3>2, <3>11, <3>13, <3>16
      <4>6. pc'[p] \in {"check_emptied", "write_slot"} => hold'[p] # y
        BY <3>2, <3>12, <3>13, <3>16
      <4> HIDE DEF y
      <4> QED
        BY <4>1, <4>2, <4>3, <4>4, <4>5, <4>6
    <3> QED
      BY <1>0, <1>1, <3>18
  <2> QED
    BY <2>1, <2>2
<1> QED
  BY <1>2, <1>3, <1>4, WhoseStep

\* Nothing runs at the start.
LEMMA InitInputOK == Init => InputInv
BY CliAssumption DEF Init, InputInv, InputOK, OutputOK, AsideOK, SlotReading, Running, Ended

\* A run never changes or unlinks the file it reads, whatever other runs write,
\* create, remove and rename meanwhile, unless somebody gives that file another name, or
\* that name another file: the guards are made once, before the read, and hold until the
\* last write.  (ensure_output_is_not_the_input, ensure_archive_is_not_the_input)
THEOREM TheInputSurvives == Spec => InputSurvives
<1>1. TypeOK /\ AllTargetsOK /\ InputInv /\ [Next]_vars =>
        [\A p \in Procs :
           Acts(p) /\ Running(p) /\ "input" \notin met[p] /\ InputIdentity(p) \in Inodes =>
             LET i == InputIdentity(p)
             IN data'[i] = data[i] /\ InputIdentity(p)' = i]_vars
  <2> SUFFICES ASSUME TypeOK, AllTargetsOK, InputInv, [Next]_vars, NEW p \in Procs,
                      Acts(p), Running(p), "input" \notin met[p],
                      NEW x \in Inodes, x = InputIdentity(p)
               PROVE  data'[x] = data[x] /\ InputIdentity(p)' = x
    OBVIOUS
  <2>1. ~NotMine(p)
    <3>1. ASSUME NotMine(p) PROVE FALSE
      <4>1. Mine(p)' = Mine(p)
        BY <3>1, TheOthers
      <4> QED
        BY <4>1 DEF Mine, Acts
    <3> QED
      BY <3>1
  <2>2. Step(p) \/ Crash(p)
    BY <2>1, WhoseStep DEF Launch
  <2> QED
    BY <2>2, OwnInputKept DEF InputInv
<1>2. TypeOK /\ AllTargetsOK /\ InputInv /\ [Next]_vars => InputInv'
  BY InputStaysOK
<1>3. TypeOK /\ AllTargetsOK /\ [Next]_vars => AllTargetsOK'
  BY TargetsStayOK
<1> QED
  BY <1>1, <1>2, <1>3, InitInputOK, InitTargetsOK, TypeCorrect, PTL DEF Spec, InputSurvives

----------------------------------------------------------------------------
(* The slot after a run nobody interfered with.                             *)

\* The slot holds the archive of the document p has read, or nothing that expands.
Agrees(p) ==
  LET i == Reach(Slot(p))
  IN IF Accepted(buf[p]) THEN IsFile(i) /\ data[i] = ArchiveOf(DocOf(buf[p]))
     ELSE ~(IsFile(i) /\ Decodes(data[i]))

\* The steps from the open of the slot to the last byte of the output, with nobody else
\* changing a file or a name.
SlotOK(p) ==
  WantsArchive(p) /\ met[p] = {} =>
    /\ pc[p] \in {"check_emptied", "write_slot"} =>
         hold[p] = Reach(Slot(p)) /\ IsFile(hold[p]) /\ hold[p] # stdout[p]
    /\ pc[p] = "write_slot" =>
         data[hold[p]] = IF off[p] = 0 THEN <<>> ELSE <<Head_(DocOf(buf[p]))>>
    /\ pc[p] = "emit" => ~IsFile(Reach(Slot(p))) \/ Reach(Slot(p)) # stdout[p]
    /\ pc[p] \in {"emit", "announce"} \/ Spoke(p) => Agrees(p)

SlotInv == \A p \in Procs : SlotOK(p)

\* The archive of a document is one, and it is the document's.
LEMMA ArchivesDecode ==
  ASSUME NEW d
  PROVE  Decodes(ArchiveOf(d)) /\ DocOf(ArchiveOf(d)) = d
BY DEF ArchiveOf, Decodes, DocOf, Head_, Body

\* The two writes of an archive, into an empty file, are the archive.
LEMMA TwoWrites ==
  ASSUME NEW c, NEW e
  PROVE  PutAt(<<>>, 1, c) = <<c>> /\ PutAt(<<c>>, 2, e) = <<c, e>>
<1>1. PutAt(<<>>, 1, c) = <<c>>
  <2>1. PutAt(<<>>, 1, c) = [k \in 1..1 |-> IF k = 1 THEN c ELSE IF k <= 0 THEN <<>>[k] ELSE Hole]
    BY DEF PutAt
  <2> QED
    BY <2>1
<1>2. PutAt(<<c>>, 2, e) = <<c, e>>
  <2>1. PutAt(<<c>>, 2, e) =
          [k \in 1..2 |-> IF k = 2 THEN e ELSE IF k <= 1 THEN <<c>>[k] ELSE Hole]
    BY DEF PutAt
  <2> QED
    BY <2>1
<1> QED
  BY <1>1, <1>2

\* Where p has said nothing and is not about to, there is nothing to agree.
LEMMA NothingToAgree ==
  ASSUME NEW p \in Procs, ~Spoke(p)',
         pc'[p] \notin {"check_emptied", "write_slot", "emit", "announce"}
  PROVE  SlotOK(p)'
BY DEF SlotOK

\* A step that leaves the files alone, and p past its slot.
LEMMA AgreesKept ==
  ASSUME NEW p \in Procs, entry' = entry, kind' = kind, inv' = inv, buf' = buf,
         IsFile(Reach(Slot(p))) => data'[Reach(Slot(p))] = data[Reach(Slot(p))],
         Agrees(p)
  PROVE  Agrees(p)'
<1>1. Reach(Slot(p))' = Reach(Slot(p)) /\ IsFile(Reach(Slot(p)))' = IsFile(Reach(Slot(p)))
  BY DEF Reach, Canonical, Slot, IsFile
<1> QED
  BY <1>1 DEF Agrees

\* p's own steps.
LEMMA OwnStepKeepsSlot ==
  ASSUME TypeOK, AllTargetsOK, InputInv, TruthInv, SlotInv, NEW p \in Procs,
         Step(p) \/ Crash(p)
  PROVE  SlotOK(p)'
<1> SUFFICES ASSUME WantsArchive(p)', met'[p] = {} PROVE SlotOK(p)'
  BY DEF SlotOK
<1>0. /\ pc \in [Procs -> Labels] /\ WellPlaced(p) /\ AsideOK(p) /\ TargetOK(p) /\ Truthful(p)
      /\ exit \in [Procs -> {"none", "success", "bad_input", "corrupt"}]
      /\ hold \in [Procs -> Inodes \cup {None}] /\ off \in [Procs -> 0..2]
      /\ sent \in [Procs -> Seq(Chunk)] /\ buf[p] \in Seq(Chunk)
      /\ stdout[p] \in Inodes \cup {Pipe}
      /\ met \in [Procs -> SUBSET {"names", "data", "window", "input"}]
      /\ entry \in [Paths -> Paths \cup Inodes \cup {None}]
      /\ kind \in [Inodes -> {"file", "dir", "special"}]
      /\ data \in [Inodes -> Seq(Chunk)]
      /\ Pipe \notin Inodes /\ None \notin Inodes /\ Paths \cap Inodes = {} /\ None \notin Paths
  BY CliAssumption DEF TypeOK, FilesOK, RunsOK, HistoryOK, InputInv, AllTargetsOK, TruthInv
<1>1. inv' = inv /\ stdout' = stdout
  BY DEF Step, Crash, EnsureOutputIsNotTheInput, EnsureArchiveIsNotTheInput, OpenInput,
     ReadChunk, Decide, StatSlot, OpenSlot, CheckEmptied, WriteSlot, ResolveSlot,
     ClassifySlot, ProbeSlot, RecheckSlot, UnlinkSlot, EmitChunk, EmitEnds, Announce, argVars
<1>2. WantsArchive(p) /\ WantsArchive(p)' = WantsArchive(p) /\ Slot(p) \in Paths
      /\ Slot(p)' = Slot(p)
  BY <1>1, SlotIsAName DEF WantsArchive, Slot
<1>3. pc[p] \in BeforeOutput => sent[p] = <<>> /\ exit[p] = "none"
  BY <1>0 DEF Truthful, BeforeOutput
<1>4. entry' = entry => Reach(Slot(p))' = Reach(Slot(p))
  BY <1>2 DEF Reach, Canonical
<1>5. CASE \/ EnsureOutputIsNotTheInput(p) \/ EnsureArchiveIsNotTheInput(p)
           \/ OpenInput(p) \/ ReadChunk(p) \/ Decide(p) \/ StatSlot(p) \/ RecheckSlot(p)
  <2>1. sent' = sent /\ pc[p] \in BeforeOutput
    BY <1>5 DEF EnsureOutputIsNotTheInput, EnsureArchiveIsNotTheInput, OpenInput, ReadChunk,
       Decide, StatSlot, RecheckSlot, outVars, BeforeOutput
  <2>2. exit'[p] \in {exit[p], "bad_input", "corrupt"}
    BY <1>0, <1>5 DEF EnsureOutputIsNotTheInput, EnsureArchiveIsNotTheInput, OpenInput, ReadChunk,
       Decide, StatSlot, RecheckSlot, Goto, Quit
  <2>3. pc'[p] \notin {"check_emptied", "write_slot", "emit", "announce"}
    BY <1>0, <1>2, <1>5 DEF EnsureOutputIsNotTheInput, EnsureArchiveIsNotTheInput, OpenInput,
       ReadChunk, Decide, CompressGoesTo, WantsArchive, StatSlot, RecheckSlot, Goto, Quit
  <2>4. ~Spoke(p)'
    BY <1>3, <2>1, <2>2 DEF Spoke
  <2> QED
    BY <2>3, <2>4, NothingToAgree
<1>6. CASE OpenSlot(p)
  <2>0. sent' = sent /\ pc[p] = "open_slot" /\ sent'[p] = <<>> /\ off' = off
    BY <1>3, <1>6 DEF OpenSlot, outVars, BeforeOutput
  <2>1. CASE OpenSlotFails(p)
    <3>1. pc'[p] = "done" /\ exit'[p] = "bad_input"
      BY <1>0, <2>1 DEF OpenSlotFails, Quit
    <3> QED
      BY <2>0, <3>1, NothingToAgree DEF Spoke
  <2>2. CASE TruncateSlot(p)
    <3>1. /\ pc'[p] = "check_emptied" /\ exit' = exit /\ entry' = entry /\ kind' = kind
          /\ met'[p] = met[p] /\ hold'[p] = Reach(Slot(p)) /\ IsFile(Reach(Slot(p)))
      BY <1>0, <2>2 DEF TruncateSlot, SetBytes, MeetBytes, Goto
    <3>2. Reach(Slot(p)) # stdout[p]
      BY <1>0, <1>2, <2>0, <3>1 DEF AsideOK
    <3>3. ~Spoke(p)'
      BY <1>3, <2>0, <3>1 DEF Spoke, BeforeOutput
    <3>4. IsFile(hold[p])'
      BY <3>1 DEF IsFile
    <3> QED
      BY <1>1, <1>4, <3>1, <3>2, <3>3, <3>4 DEF SlotOK
  <2>3. CASE CreateSlot(p)
    <3>1. PICK i \in Inodes :
            /\ Free(i)
            /\ entry' = [entry EXCEPT ![Canonical(Slot(p))] = i]
            /\ kind' = [kind EXCEPT ![i] = "file"]
            /\ hold' = [hold EXCEPT ![p] = i]
      BY <2>3 DEF CreateSlot
    <3>2. pc'[p] = "check_emptied" /\ exit' = exit
      BY <1>0, <2>3 DEF CreateSlot, Goto
    <3>3. hold'[p] = i /\ IsFile(hold[p])'
      BY <1>0, <3>1 DEF IsFile
    <3>4. i # stdout[p]
      BY <2>0, <3>1 DEF Free, Running, Ended
    <3> DEFINE s == Slot(p)
               c == Canonical(s)
    <3>5. /\ s \in Paths /\ c \in Paths /\ entry[c] = None
          /\ c = IF entry[s] \in Paths THEN entry[s] ELSE s
      BY <1>2, <2>3, ReachIsAFile DEF CreateSlot, Reach, Canonical
    <3>6. s' = s
      BY <1>2
    <3> HIDE DEF s, c
    <3>7. Canonical(s)' = c
      <4>1. CASE s = c
        BY <1>0, <3>1, <3>5, <3>6, <4>1 DEF Canonical, s, c
      <4>2. CASE s # c
        BY <1>0, <3>1, <3>5, <3>6, <4>2 DEF Canonical, s, c
      <4> QED
        BY <4>1, <4>2
    <3>8. entry'[c] = i
      BY <1>0, <3>1, <3>5 DEF s, c
    <3>9. Reach(Slot(p))' = i
      BY <3>7, <3>8 DEF Reach, s
    <3>10. ~Spoke(p)'
      BY <1>3, <2>0, <3>2 DEF Spoke, BeforeOutput
    <3> QED
      BY <1>1, <3>2, <3>3, <3>4, <3>9, <3>10 DEF SlotOK
  <2> QED
    BY <1>6, <2>1, <2>2, <2>3 DEF OpenSlot
<1>7. CASE CheckEmptied(p)
  <2>0. /\ sent' = sent /\ pc[p] = "check_emptied" /\ sent'[p] = <<>> /\ off' = off /\ buf' = buf
        /\ entry' = entry /\ kind' = kind /\ data' = data /\ met' = met
    BY <1>3, <1>7 DEF CheckEmptied, outVars, fsVars, histVars, BeforeOutput
  <2>1. CASE pc'[p] = "done" /\ exit'[p] = "bad_input"
    BY <2>0, <2>1, NothingToAgree DEF Spoke
  <2>2. CASE data[hold[p]] = <<>> /\ Goto(p, "write_slot") /\ UNCHANGED hold
    <3>1. hold[p] = Reach(Slot(p)) /\ IsFile(hold[p]) /\ hold[p] # stdout[p]
      BY <1>2, <2>0 DEF SlotInv, SlotOK
    <3>2. off[p] = 0 /\ pc'[p] = "write_slot" /\ exit' = exit
      BY <1>0, <2>0, <2>2 DEF WellPlaced, Goto
    <3>3. ~Spoke(p)'
      BY <1>3, <2>0, <3>2 DEF Spoke, BeforeOutput
    <3>4. hold'[p] = Reach(Slot(p))' /\ IsFile(hold[p])' /\ hold'[p] # stdout'[p]
      BY <1>1, <1>4, <2>0, <2>2, <3>1 DEF IsFile
    <3>5. data'[hold'[p]] = <<>> /\ off'[p] = 0
      BY <2>0, <2>2, <3>2
    <3> QED
      BY <3>2, <3>3, <3>4, <3>5 DEF SlotOK
  <2> QED
    BY <1>0, <1>7, <2>1, <2>2 DEF CheckEmptied, Quit
<1>8. CASE WriteSlot(p)
  <2> DEFINE d == DocOf(buf[p])
             n == off[p] + 1
  <2>0. /\ sent' = sent /\ pc[p] = "write_slot" /\ sent'[p] = <<>> /\ buf' = buf
        /\ Accepted(buf[p]) /\ n \in {1, 2} /\ hold[p] \in Inodes
        /\ off[p] \in {0, 1}
    <3>1. sent' = sent /\ buf' = buf /\ pc[p] = "write_slot"
      BY <1>8 DEF WriteSlot, outVars
    <3>2. off[p] < 2 /\ Accepted(buf[p]) /\ hold[p] \in Inodes
      BY <1>0, <3>1 DEF WellPlaced
    <3>3. off[p] \in {0, 1}
      BY <1>0, <3>2
    <3>4. n \in {1, 2}
      BY <3>3
    <3>5. sent'[p] = <<>>
      BY <1>3, <3>1 DEF BeforeOutput
    <3> QED
      BY <3>1, <3>2, <3>3, <3>4, <3>5
  <2>1. CASE pc'[p] = "done" /\ exit'[p] = "bad_input"
    BY <2>0, <2>1, NothingToAgree DEF Spoke
  <2>2. CASE /\ off' = [off EXCEPT ![p] = n]
             /\ SetBytes(p, hold[p], PutAt(data[hold[p]], n, ArchiveOf(d)[n]))
             /\ \/ n < 2 /\ UNCHANGED <<pc, exit, hold>>
                \/ n = 2 /\ Goto(p, "emit") /\ Close(p)
    <3>1. entry' = entry /\ kind' = kind /\ met'[p] = met[p] /\ off'[p] = n
      BY <1>0, <2>2 DEF SetBytes, MeetBytes
    <3>2. hold[p] = Reach(Slot(p)) /\ IsFile(hold[p]) /\ hold[p] # stdout[p]
      BY <1>2, <2>0, <3>1 DEF SlotInv, SlotOK
    <3>3. data[hold[p]] = IF off[p] = 0 THEN <<>> ELSE <<Head_(d)>>
      BY <1>2, <2>0, <3>1 DEF SlotInv, SlotOK
    <3>4. data'[hold[p]] = PutAt(data[hold[p]], n, ArchiveOf(d)[n])
      BY <1>0, <2>0, <2>2 DEF SetBytes
    <3>5. ArchiveOf(d) = <<Head_(d), Body(d)>>
      BY DEF ArchiveOf
    <3>6. exit' = exit /\ ~Spoke(p)'
      BY <1>3, <2>0, <2>2 DEF Goto, Spoke, BeforeOutput
    <3>7. CASE n = 1
      <4>0. off[p] = 0
        BY <2>0, <3>7
      <4> HIDE DEF n
      <4>1. pc'[p] = "write_slot" /\ hold' = hold
        BY <2>0, <2>2, <3>7
      <4>2. data'[hold'[p]] = <<Head_(d)>> /\ off'[p] # 0 /\ DocOf(buf[p])' = d
        <5>1. ArchiveOf(d)[1] = Head_(d) /\ data[hold[p]] = <<>>
          BY <3>3, <3>5, <4>0
        <5> HIDE DEF d
        <5>2. data'[hold[p]] = PutAt(<<>>, 1, Head_(d))
          BY <3>4, <3>7, <5>1
        <5>3. data'[hold[p]] = <<Head_(d)>>
          BY <5>2, TwoWrites
        <5>4. DocOf(buf[p])' = d
          BY <2>0 DEF d
        <5> QED
          BY <3>1, <3>7, <4>1, <5>3, <5>4
      <4>3. hold'[p] = Reach(Slot(p))' /\ IsFile(hold[p])' /\ hold'[p] # stdout'[p]
        BY <1>1, <1>4, <3>1, <3>2, <4>1 DEF IsFile
      <4> HIDE DEF d
      <4> QED
        BY <3>6, <4>1, <4>2, <4>3 DEF SlotOK
    <3>8. CASE n = 2
      <4>0. off[p] = 1
        BY <2>0, <3>8
      <4> HIDE DEF n
      <4>1. pc'[p] = "emit"
        BY <1>0, <2>0, <2>2, <3>8 DEF Goto
      <4>2. data'[hold[p]] = ArchiveOf(d)
        <5>1. ArchiveOf(d)[2] = Body(d) /\ data[hold[p]] = <<Head_(d)>>
          BY <3>3, <3>5, <4>0
        <5> HIDE DEF d
        <5>2. data'[hold[p]] = PutAt(<<Head_(d)>>, 2, Body(d))
          BY <3>4, <3>8, <5>1
        <5> QED
          BY <3>5, <5>2, TwoWrites
      <4>3. Reach(Slot(p))' = hold[p] /\ kind'[hold[p]] = "file"
        BY <1>4, <3>1, <3>2 DEF IsFile
      <4>4. Agrees(p)'
        BY <2>0, <4>2, <4>3 DEF Agrees, IsFile
      <4>5. Reach(Slot(p))' # stdout'[p]
        BY <1>1, <3>2, <4>3
      <4> HIDE DEF d
      <4> QED
        BY <3>6, <4>1, <4>4, <4>5 DEF SlotOK
    <3> QED
      BY <2>0, <3>7, <3>8
  <2>3. Len(ArchiveOf(d)) = 2
    BY ArchiveHasTwoChunks
  <2> QED
    BY <1>0, <1>8, <2>1, <2>2, <2>3 DEF WriteSlot, Quit
<1>9. CASE ResolveSlot(p) \/ ClassifySlot(p) \/ ProbeSlot(p) \/ UnlinkSlot(p)
  <2>0. /\ sent' = sent /\ sent'[p] = <<>> /\ buf' = buf /\ kind' = kind /\ data' = data
        /\ ~Accepted(buf[p]) /\ pc[p] \in {"resolve_slot"} \cup SlotReading
    BY <1>0, <1>3, <1>9 DEF ResolveSlot, ClassifySlot, ProbeSlot, UnlinkSlot, outVars, fsVars,
       readVars, BeforeOutput, WellPlaced, SlotReading
  <2>1. /\ exit'[p] \in {exit[p], "bad_input"}
        /\ pc'[p] \in {"done", "emit"} \cup SlotReading
        /\ met'[p] = met[p]
    BY <1>0, <1>9 DEF ResolveSlot, ClassifySlot, ProbeSlot, UnlinkSlot, RemovalFails, Goto, Quit,
       SlotReading, histVars, MeetNaming
  <2>2. ~Spoke(p)'
    BY <1>3, <2>0, <2>1 DEF Spoke, BeforeOutput, SlotReading
  <2>3. CASE pc'[p] # "emit"
    BY <2>1, <2>2, <2>3, NothingToAgree DEF SlotReading
  <2>4. CASE pc'[p] = "emit"
    <3> DEFINE s == Slot(p)
               c == Canonical(s)
    <3>1. /\ ~IsFile(Reach(s)) \/ Reach(s) # stdout[p]
          /\ pc[p] \in SlotReading => target[p] = c /\ entry[c] \notin Paths
      BY <1>0, <1>2, <2>0, <2>1 DEF AsideOK, TargetOK
    <3>2. s \in Paths /\ c \in Paths /\ Reach(s) = entry[c]
      BY <1>2, ReachIsAFile DEF Reach
    <3>3. pc[p] \in SlotReading => Reach(target[p]) = Reach(s) /\ entry[target[p]] = Reach(s)
      BY <3>1, <3>2 DEF Reach, Canonical
    <3>4. IsFile(Reach(s)) => Reach(s) # stdout[p]
      BY <3>1
    <3>5. CASE entry' = entry /\ ~(IsFile(Reach(s)) /\ Decodes(data[Reach(s)]))
      <4>1. Reach(Slot(p))' = Reach(s)
        BY <1>4, <3>5
      <4> HIDE DEF s, c
      <4>2. ~Agrees(p)' => FALSE
        BY <2>0, <3>5, <4>1 DEF Agrees, IsFile
      <4>3. ~IsFile(Reach(Slot(p)))' \/ Reach(Slot(p))' # stdout'[p]
        BY <1>1, <2>0, <3>4, <4>1 DEF IsFile
      <4> QED
        BY <2>2, <2>4, <4>2, <4>3 DEF SlotOK
    <3>6. CASE ResolveSlot(p)
      <4>1. entry' = entry /\ Reach(s) = None
        BY <1>0, <2>4, <3>6 DEF ResolveSlot, Goto, Quit, fsVars
      <4> QED
        BY <1>0, <3>5, <4>1 DEF IsFile
    <3>7. CASE ClassifySlot(p)
      <4>1. entry' = entry /\ kind[Reach(s)] = "special"
        BY <1>0, <2>4, <3>3, <3>7 DEF ClassifySlot, Goto, Quit, fsVars, SlotReading
      <4> QED
        BY <3>5, <4>1 DEF IsFile
    <3>8. CASE ProbeSlot(p)
      <4>1. entry' = entry /\ (Reach(s) = None \/ ~OpensWithMagic(data[Reach(s)]))
        BY <1>0, <2>4, <3>3, <3>8 DEF ProbeSlot, Goto, Quit, fsVars, SlotReading
      <4> QED
        BY <1>0, <3>5, <4>1, ArchivesOpenWithMagic DEF IsFile
    <3>9. CASE UnlinkSlot(p)
      <4>1. target[p] = c /\ entry' = [entry EXCEPT ![c] = None]
        BY <1>0, <2>4, <3>1, <3>9 DEF UnlinkSlot, NameToRemove, RemovalFails, Quit, SlotReading
      <4>2. c = IF entry[s] \in Paths THEN entry[s] ELSE s
        BY DEF Canonical
      <4>3. s' = s
        BY <1>2
      <4>5. entry[c] \notin Paths
        BY <3>1, <3>9 DEF UnlinkSlot, SlotReading
      <4> HIDE DEF s, c
      <4>4. Canonical(s)' = c /\ entry'[c] = None
        <5>1. CASE s = c
          BY <1>0, <3>2, <4>1, <4>2, <4>3, <5>1 DEF Canonical
        <5>2. CASE s # c
          BY <1>0, <3>2, <4>1, <4>2, <4>3, <5>2 DEF Canonical
        <5> QED
          BY <1>0, <3>2, <4>1, <5>1, <5>2
      <4>6. Reach(Slot(p))' = None
        BY <4>4 DEF Reach, s
      <4>7. Agrees(p)' /\ ~IsFile(Reach(Slot(p)))'
        BY <1>0, <2>0, <4>6 DEF Agrees, IsFile
      <4> QED
        BY <2>2, <2>4, <4>7 DEF SlotOK
    <3> QED
      BY <1>9, <3>6, <3>7, <3>8, <3>9
  <2> QED
    BY <2>3, <2>4
<1>10. CASE EmitChunk(p) \/ EmitEnds(p) \/ Announce(p) \/ Crash(p)
  <2>0. /\ entry' = entry /\ kind' = kind /\ met'[p] = met[p] /\ buf' = buf
        /\ exit'[p] = "success" /\ pc[p] # "crashed" => pc[p] \in {"emit", "announce"} \/ Spoke(p)
    BY <1>0, <1>10 DEF EmitChunk, EmitEnds, Announce, Crash, fsVars, readVars, histVars, SetBytes,
       MeetBytes, Spoke
  <2>1. /\ pc'[p] \in {"emit", "announce", "done", "crashed"}
        /\ pc'[p] = "emit" => pc[p] = "emit"
        /\ pc'[p] \in {"emit", "announce"} \/ Spoke(p)' =>
             pc[p] \in {"emit", "announce"} \/ Spoke(p)
    BY <1>0, <1>10 DEF EmitChunk, EmitEnds, AfterEmit, WriteFails, Announce, Crash, Goto, Quit,
       Spoke, outVars
  <2>2. SlotOK(p) /\ WantsArchive(p) /\ met[p] = {}
    BY <1>2, <2>0 DEF SlotInv
  <2>3. /\ pc[p] \in {"emit", "announce"} \/ Spoke(p) => Agrees(p)
        /\ pc[p] = "emit" => ~IsFile(Reach(Slot(p))) \/ Reach(Slot(p)) # stdout[p]
    BY <2>2 DEF SlotOK
  <2>4. Reach(Slot(p))' = Reach(Slot(p)) /\ IsFile(Reach(Slot(p)))' = IsFile(Reach(Slot(p)))
    BY <1>1, <1>4, <2>0 DEF IsFile, Reach, Canonical, Slot
  <2>5. IsFile(Reach(Slot(p))) => data'[Reach(Slot(p))] = data[Reach(Slot(p))]
    <3>1. CASE EmitChunk(p) /\ stdout[p] # Pipe
      BY <1>0, <2>3, <3>1 DEF EmitChunk, SetBytes, IsFile
    <3>2. CASE ~(EmitChunk(p) /\ stdout[p] # Pipe)
      BY <1>10, <3>2 DEF EmitChunk, EmitEnds, Announce, Crash, fsVars
    <3> QED
      BY <3>1, <3>2
  <2>6. Agrees(p) => Agrees(p)'
    BY <1>1, <2>0, <2>5, AgreesKept
  <2> QED
    BY <1>1, <2>1, <2>3, <2>4, <2>6 DEF SlotOK
<1> QED
  BY <1>5, <1>6, <1>7, <1>8, <1>9, <1>10 DEF Step

\* Every step keeps it for every run.
LEMMA SlotStaysOK ==
  ASSUME TypeOK, AllTargetsOK, InputInv, TruthInv, SlotInv, [Next]_vars
  PROVE  SlotInv'
<1> SUFFICES ASSUME NEW p \in Procs PROVE SlotOK(p)'
  BY DEF SlotInv
<1>1. CASE Launch(p)
  <2>1. pc'[p] = "guard_output" /\ sent'[p] = <<>> /\ exit'[p] = "none"
    BY <1>1 DEF Launch, TypeOK, RunsOK
  <2> QED
    BY <2>1, NothingToAgree DEF Spoke
<1>2. CASE Step(p) \/ Crash(p)
  BY <1>2, OwnStepKeepsSlot
<1>3. CASE NotMine(p)
  <2> SUFFICES ASSUME met'[p] = {} PROVE SlotOK(p)'
    BY DEF SlotOK
  <2>1. /\ entry' = entry /\ kind' = kind /\ data' = data /\ met[p] = {}
        /\ Mine(p)' = Mine(p)
    BY <1>3, TheOthers
  <2>2. /\ pc'[p] = pc[p] /\ inv'[p] = inv[p] /\ buf'[p] = buf[p] /\ off'[p] = off[p]
        /\ stdout'[p] = stdout[p] /\ hold'[p] = hold[p] /\ sent'[p] = sent[p]
        /\ exit'[p] = exit[p]
    BY <2>1 DEF Mine
  <2>3. /\ Reach(Slot(p))' = Reach(Slot(p)) /\ WantsArchive(p)' = WantsArchive(p)
        /\ Spoke(p)' = Spoke(p)
        /\ IsFile(Reach(Slot(p)))' = IsFile(Reach(Slot(p)))
        /\ IsFile(hold[p])' = IsFile(hold[p])
    BY <2>1, <2>2 DEF Reach, Canonical, IsFile, Slot, WantsArchive, Spoke
  <2>4. Agrees(p)' = Agrees(p)
    BY <2>1, <2>2, <2>3 DEF Agrees
  <2>5. SlotOK(p)
    BY DEF SlotInv
  <2> QED
    BY <2>1, <2>2, <2>3, <2>4, <2>5 DEF SlotOK
<1> QED
  BY <1>1, <1>2, <1>3, WhoseStep

\* "A caller never sees output without its recovery blob", for a run no other actor
\* interfered with: after a rendering the slot expands to that very document, after a
\* passthrough it does not expand, however the run ended.
THEOREM TheSlotAgrees == Spec => []SlotAgreesWithOutput
<1>1. SlotInv => SlotAgreesWithOutput
  BY ArchivesDecode DEF SlotInv, SlotOK, Agrees, SlotAgreesWithOutput
<1>2. TypeOK /\ AllTargetsOK /\ InputInv /\ TruthInv /\ SlotInv /\ [Next]_vars => SlotInv'
  BY SlotStaysOK
<1>3. Init => SlotInv
  BY DEF Init, SlotInv, SlotOK, Spoke
<1>4. TypeOK /\ AllTargetsOK /\ InputInv /\ [Next]_vars => InputInv'
  BY InputStaysOK
<1>5. TypeOK /\ AllTargetsOK /\ [Next]_vars => AllTargetsOK'
  BY TargetsStayOK
<1>6. TypeOK /\ TruthInv /\ [Next]_vars => TruthInv'
  BY TruthIsKept
<1> QED
  BY <1>1, <1>2, <1>3, <1>4, <1>5, <1>6, InitInputOK, InitTargetsOK, InitIsTruthful, TypeCorrect,
     PTL DEF Spec

----------------------------------------------------------------------------
(* Where the payloads come from.                                            *)

\* Every payload of an archive in those bytes is a document of docs.
Sourced(bytes, docs) == \A d \in Docs : Body(d) \in Range(bytes) => d \in docs

\* Every payload on disk, in a pipe, or in a run's memory is of a document an archive was
\* made of; so is what a run is about to archive; and expand speaks of archives only.
SourcesOK ==
  /\ \A i \in Inodes : Sourced(data[i], archived)
  /\ \A v \in Invocations : Sourced(v.piped, archived)
  /\ \A p \in Procs :
       /\ Sourced(buf[p], archived)
       /\ pc[p] \in {"stat_slot", "open_slot", "check_emptied", "write_slot"} =>
            DocOf(buf[p]) \in archived
       /\ inv[p].cmd = "expand" /\ sent[p] # <<>> => Decodes(buf[p])

\* A chunk of sourced bytes that is a payload is one of a document of docs.
LEMMA SourcedAt ==
  ASSUME NEW bytes \in Seq(Chunk), NEW docs, Sourced(bytes, docs),
         NEW k \in 1..Len(bytes), NEW d \in Docs, bytes[k] = Body(d)
  PROVE  d \in docs
<1>1. DOMAIN bytes = 1..Len(bytes)
  BY LenProperties
<1> QED
  BY <1>1 DEF Sourced, Range

\* Bytes with every chunk from sourced bytes, or no payload of another document, are sourced.
LEMMA SourcedByChunks ==
  ASSUME NEW bytes \in Seq(Chunk), NEW docs,
         \A k \in 1..Len(bytes), d \in Docs : bytes[k] = Body(d) => d \in docs
  PROVE  Sourced(bytes, docs)
<1>1. DOMAIN bytes = 1..Len(bytes)
  BY LenProperties
<1> QED
  BY <1>1 DEF Sourced, Range

\* An empty file is.
LEMMA NothingIsSourced ==
  ASSUME NEW docs
  PROVE  Sourced(<<>>, docs)
<1>1. <<>> \in Seq(Chunk) /\ 1..Len(<<>>) = {}
  BY EmptySeq
<1> QED
  BY <1>1, SourcedByChunks

\* A chunk more.
LEMMA AppendIsSourced ==
  ASSUME NEW bytes \in Seq(Chunk), NEW docs, Sourced(bytes, docs), NEW c \in Chunk,
         \A d \in Docs : c = Body(d) => d \in docs
  PROVE  Sourced(Append(bytes, c), docs)
<1> DEFINE more == Append(bytes, c)
<1>1. /\ more \in Seq(Chunk) /\ Len(more) = Len(bytes) + 1 /\ Len(bytes) \in Nat
      /\ \A k \in 1..Len(bytes) : more[k] = bytes[k]
      /\ more[Len(bytes) + 1] = c
  BY AppendProperties, LenProperties
<1> HIDE DEF more
<1>2. ASSUME NEW k \in 1..Len(more), NEW d \in Docs, more[k] = Body(d) PROVE d \in docs
  <2>1. CASE k = Len(bytes) + 1
    BY <1>1, <1>2, <2>1
  <2>2. CASE k # Len(bytes) + 1
    <3>1. k \in 1..Len(bytes)
      BY <1>1, <2>2
    <3> QED
      BY <1>1, <1>2, <3>1, SourcedAt
  <2> QED
    BY <2>1, <2>2
<1> QED
  BY <1>1, <1>2, SourcedByChunks DEF more

\* A positioned write.
LEMMA PutIsSourced ==
  ASSUME NEW bytes \in Seq(Chunk), NEW docs, Sourced(bytes, docs), NEW c \in Chunk,
         NEW n \in Nat \ {0}, \A d \in Docs : c = Body(d) => d \in docs
  PROVE  Sourced(PutAt(bytes, n, c), docs)
<1> DEFINE m == IF Len(bytes) < n THEN n ELSE Len(bytes)
           put == PutAt(bytes, n, c)
<1>1. m \in Nat /\ Len(bytes) \in Nat
  BY LenProperties
<1>2. put \in Seq(Chunk)
  BY PutAtChunks
<1>3. put = [k \in 1..m |-> IF k = n THEN c ELSE IF k <= Len(bytes) THEN bytes[k] ELSE Hole]
  BY DEF PutAt
<1> HIDE DEF m, put
<1>4. Len(put) = m
  BY <1>1, <1>2, <1>3, LenProperties
<1>5. ASSUME NEW k \in 1..Len(put), NEW d \in Docs, put[k] = Body(d) PROVE d \in docs
  <2>1. CASE k = n
    BY <1>3, <1>4, <1>5, <2>1
  <2>2. CASE k # n /\ k <= Len(bytes)
    <3>1. k \in 1..Len(bytes) /\ bytes[k] = Body(d)
      BY <1>1, <1>3, <1>4, <1>5, <2>2
    <3> QED
      BY <3>1, SourcedAt
  <2>3. CASE k # n /\ ~(k <= Len(bytes))
    <3>1. put[k] = Hole
      BY <1>3, <1>4, <2>3
    <3> QED
      BY <1>5, <3>1 DEF Hole, Body
  <2> QED
    BY <2>1, <2>2, <2>3
<1> QED
  BY <1>2, <1>5, SourcedByChunks DEF put

\* Documents are only added.
LEMMA ArchivedGrows ==
  ASSUME TypeOK, [Next]_vars
  PROVE  archived \subseteq archived'
<1>1. ASSUME NEW p \in Procs, Step(p) PROVE archived \subseteq archived'
  BY <1>1 DEF Step, EnsureOutputIsNotTheInput, EnsureArchiveIsNotTheInput, OpenInput,
     ReadChunk, Decide, StatSlot, OpenSlot, TruncateSlot, CreateSlot, OpenSlotFails,
     CheckEmptied, WriteSlot, ResolveSlot, ClassifySlot, ProbeSlot, RecheckSlot, UnlinkSlot,
     EmitChunk, EmitEnds, Announce, SetBytes, histVars
<1> QED
  BY <1>1 DEF Next, Launch, Crash, Rename, histVars, vars

\* A document's payload is told from every other chunk, and from another document's.
LEMMA BodiesDiffer ==
  ASSUME NEW d, NEW e
  PROVE  /\ Body(d) = Body(e) => d = e
         /\ Body(d) \notin {Raw(e), Head_(e), Rendering(e), Report(e), Hole}
BY DEF Body, Raw, Head_, Rendering, Report, Hole

\* What a run writes to its output is sourced.
LEMMA PayloadIsSourced ==
  ASSUME TypeOK, SourcesOK, NEW p \in Procs, pc[p] = "emit",
         NEW k \in 1..Len(Payload(p)), NEW d \in Docs, Payload(p)[k] = Body(d)
  PROVE  d \in archived
<1>0. inv[p].cmd \in Commands /\ buf[p] \in Seq(Chunk) /\ Sourced(buf[p], archived)
  BY InputTypes DEF Invocation, TypeOK, RunsOK, SourcesOK
<1>1. ASSUME NEW c, Payload(p) = <<c>> PROVE c = Body(d)
  <2>1. k = 1
    BY <1>1
  <2> QED
    BY <1>1, <2>1
<1>2. CASE inv[p].cmd = "compress" /\ ~Accepted(buf[p])
  BY <1>0, <1>2, SourcedAt DEF Payload
<1>3. CASE inv[p].cmd = "compress" /\ Accepted(buf[p])
  BY <1>1, <1>3, BodiesDiffer DEF Payload
<1>4. CASE inv[p].cmd = "expand"
  BY <1>1, <1>4, BodiesDiffer DEF Payload
<1>5. CASE inv[p].cmd = "stats"
  BY <1>1, <1>5, BodiesDiffer DEF Payload
<1> QED
  BY <1>0, <1>2, <1>3, <1>4, <1>5 DEF Commands

\* Every step writes only what is sourced.
LEMMA FilesStaySourced ==
  ASSUME TypeOK, SourcesOK, [Next]_vars, NEW j \in Inodes
  PROVE  Sourced(data'[j], archived')
<1>0. /\ data \in [Inodes -> Seq(Chunk)] /\ Sourced(data[j], archived)
      /\ archived \subseteq archived'
  BY ArchivedGrows DEF TypeOK, FilesOK, SourcesOK
<1>1. data'[j] = data[j] => Sourced(data'[j], archived')
  BY <1>0 DEF Sourced
<1>2. data'[j] = <<>> => Sourced(data'[j], archived')
  BY NothingIsSourced
<1>3. ASSUME NEW p \in Procs, Launch(p) PROVE data'[j] \in {data[j], <<>>}
  <2>1. PICK v \in Invocations :
          data' = [i \in Inodes |->
                     IF i \in (IF v.trunc /\ v.stdout # Pipe THEN {Opened(v.stdout)} ELSE {})
                     THEN <<>> ELSE data[i]]
    BY <1>3 DEF Launch
  <2> QED
    BY <2>1
<1>4. ASSUME NEW p \in Procs, OpenSlot(p) PROVE data'[j] \in {data[j], <<>>}
  BY <1>0, <1>4 DEF OpenSlot, TruncateSlot, CreateSlot, OpenSlotFails, SetBytes, fsVars
<1>5. ASSUME NEW p \in Procs, WriteSlot(p) PROVE Sourced(data'[j], archived')
  <2> DEFINE d == DocOf(buf[p])
             n == off[p] + 1
             c == ArchiveOf(d)[n]
  <2>1. /\ hold[p] \in Inodes /\ off[p] \in {0, 1} /\ Accepted(buf[p]) /\ d \in archived
        /\ buf[p] \in Seq(Chunk)
    <3>1. pc[p] = "write_slot" /\ WellPlaced(p) /\ off[p] \in 0..2 /\ buf[p] \in Seq(Chunk)
      BY <1>5 DEF WriteSlot, TypeOK, RunsOK
    <3> QED
      BY <3>1 DEF WellPlaced, SourcesOK
  <2>2. d \in Docs /\ c \in {Head_(d), Body(d)} /\ n \in Nat \ {0}
    BY <2>1, AcceptedIsGood, ArchiveHasTwoChunks
  <2>3. SetBytes(p, hold[p], PutAt(data[hold[p]], n, c)) \/ data' = data
    BY <1>5 DEF WriteSlot, fsVars
  <2> HIDE DEF d, n, c
  <2>4. c \in Chunk /\ (\A e \in Docs : c = Body(e) => e \in archived)
    BY <2>1, <2>2, ChunksOfDocs, BodiesDiffer
  <2>5. Sourced(PutAt(data[hold[p]], n, c), archived)
    BY <1>0, <2>1, <2>2, <2>4, PutIsSourced DEF SourcesOK
  <2>6. data'[j] \in {data[j], PutAt(data[hold[p]], n, c)}
    BY <1>0, <2>1, <2>3 DEF SetBytes
  <2> QED
    BY <1>0, <1>1, <2>5, <2>6 DEF Sourced
<1>6. ASSUME NEW p \in Procs, EmitChunk(p) PROVE Sourced(data'[j], archived')
  <2> DEFINE k == Len(sent[p]) + 1
             c == Payload(p)[k]
             o == stdout[p]
  <2>1. /\ pc[p] = "emit" /\ Payload(p) \in Seq(Chunk) /\ sent[p] \in Seq(Chunk)
        /\ Len(sent[p]) < Len(Payload(p)) /\ o \in Inodes \cup {Pipe}
    BY <1>6, PayloadIsChunks DEF EmitChunk, TypeOK, RunsOK
  <2>2. k \in 1..Len(Payload(p))
    BY <2>1, LenProperties
  <2>3. data' = data \/ (o \in Inodes /\ SetBytes(p, o, Append(data[o], c)))
    BY <1>6, <2>1 DEF EmitChunk, fsVars
  <2> HIDE DEF k, o
  <2>4. c \in Chunk /\ (\A e \in Docs : c = Body(e) => e \in archived)
    BY <2>1, <2>2, ElementOfSeq, PayloadIsSourced
  <2> HIDE DEF c
  <2>5. o \in Inodes => Sourced(Append(data[o], c), archived)
    BY <1>0, <2>4, AppendIsSourced DEF SourcesOK
  <2>6. data'[j] = data[j] \/ (o \in Inodes /\ data'[j] = Append(data[o], c))
    BY <1>0, <2>3 DEF SetBytes
  <2> QED
    BY <1>0, <1>1, <2>5, <2>6 DEF Sourced
<1>7. ASSUME NEW p \in Procs, Step(p) \/ Crash(p), ~OpenSlot(p), ~WriteSlot(p), ~EmitChunk(p)
      PROVE  data' = data
  BY <1>7 DEF Step, Crash, EnsureOutputIsNotTheInput, EnsureArchiveIsNotTheInput, OpenInput,
     ReadChunk, Decide, StatSlot, CheckEmptied, ResolveSlot, ClassifySlot, ProbeSlot,
     RecheckSlot, UnlinkSlot, EmitEnds, Announce, fsVars
<1> QED
  BY <1>1, <1>2, <1>3, <1>4, <1>5, <1>6, <1>7 DEF Next, Rename, vars, fsVars

\* Every step keeps it.
LEMMA SourcesStayOK ==
  ASSUME TypeOK, TruthInv, SourcesOK, [Next]_vars
  PROVE  SourcesOK'
<1>0. archived \subseteq archived'
  BY ArchivedGrows
<1>1. \A i \in Inodes : Sourced(data'[i], archived')
  BY FilesStaySourced
<1>2. \A v \in Invocations : Sourced(v.piped, archived')
  BY <1>0 DEF SourcesOK, Sourced
<1>3. ASSUME NEW p \in Procs, NotMine(p) \/ Launch(p) \/ Step(p) \/ Crash(p)
      PROVE  /\ Sourced(buf'[p], archived')
             /\ pc'[p] \in {"stat_slot", "open_slot", "check_emptied", "write_slot"} =>
                  DocOf(buf'[p]) \in archived'
             /\ inv'[p].cmd = "expand" /\ sent'[p] # <<>> => Decodes(buf'[p])
  <2>0. /\ Sourced(buf[p], archived) /\ Sourced(buf[p], archived')
        /\ pc[p] \in {"stat_slot", "open_slot", "check_emptied", "write_slot"} =>
             DocOf(buf[p]) \in archived
        /\ inv[p].cmd = "expand" /\ sent[p] # <<>> => Decodes(buf[p])
        /\ WellPlaced(p) /\ Truthful(p)
        /\ pc \in [Procs -> Labels] /\ buf \in [Procs -> Seq(Chunk)]
        /\ sent \in [Procs -> Seq(Chunk)] /\ inv \in [Procs -> Invocations]
    BY <1>0 DEF SourcesOK, Sourced, TypeOK, RunsOK, TruthInv
  <2>1. CASE /\ buf'[p] = buf[p] /\ inv'[p] = inv[p]
             /\ sent'[p] = sent[p] \/ inv[p].cmd # "expand" \/ Decodes(buf[p])
             /\ pc'[p] \in {"stat_slot", "open_slot", "check_emptied", "write_slot"} =>
                  \/ pc[p] \in {"stat_slot", "open_slot", "check_emptied", "write_slot"}
                  \/ DocOf(buf[p]) \in archived'
    BY <1>0, <2>0, <2>1
  <2>2. CASE Launch(p)
    <3>1. buf'[p] = <<>> /\ sent'[p] = <<>> /\ pc'[p] = "guard_output"
      BY <2>0, <2>2 DEF Launch
    <3> QED
      BY <3>1, NothingIsSourced
  <2>3. CASE ReadChunk(p)
    <3>1. /\ pc[p] = "read" /\ inv' = inv /\ sent' = sent /\ sent[p] = <<>>
          /\ pc'[p] \in {"read", "done"}
      BY <2>0, <2>3 DEF ReadChunk, Quit, argVars, outVars, Truthful, BeforeOutput
    <3>2. InputBytes(p) \in Seq(Chunk) /\ Sourced(InputBytes(p), archived)
      BY InputTypes DEF InputBytes, SourcesOK, TypeOK, RunsOK
    <3>3. CASE buf' = buf
      BY <2>0, <3>1, <3>3
    <3>4. CASE /\ Len(buf[p]) < Len(InputBytes(p))
               /\ buf' = [buf EXCEPT ![p] = Append(@, InputBytes(p)[Len(@) + 1])]
      <4> DEFINE k == Len(buf[p]) + 1
                 c == InputBytes(p)[k]
      <4>1. k \in 1..Len(InputBytes(p))
        BY <2>0, <3>2, <3>4, LenProperties
      <4>2. c \in Chunk /\ (\A d \in Docs : c = Body(d) => d \in archived)
        BY <3>2, <4>1, ElementOfSeq, SourcedAt
      <4>3. buf'[p] = Append(buf[p], c)
        BY <2>0, <3>4
      <4> HIDE DEF c
      <4>4. Sourced(buf'[p], archived')
        BY <1>0, <2>0, <4>2, <4>3, AppendIsSourced
      <4> QED
        BY <3>1, <4>4
    <3> QED
      BY <2>3, <3>3, <3>4 DEF ReadChunk
  <2>4. CASE Decide(p)
    <3>1. /\ inv' = inv /\ sent' = sent /\ buf' = buf
          /\ pc'[p] \in {"stat_slot", "open_slot", "check_emptied", "write_slot"} =>
               WantsArchive(p) /\ Accepted(buf[p])
      BY <2>0, <2>4 DEF Decide, CompressGoesTo, Goto, Quit, argVars, outVars
    <3>2. WantsArchive(p) /\ Accepted(buf[p]) => DocOf(buf[p]) \in archived'
      BY <2>4 DEF Decide
    <3> QED
      BY <2>1, <3>1, <3>2
  <2>5. CASE EmitChunk(p)
    <3>1. inv' = inv /\ buf' = buf /\ pc' = pc /\ pc[p] = "emit"
      BY <2>5 DEF EmitChunk, argVars, readVars
    <3>2. inv[p].cmd # "expand" \/ Decodes(buf[p])
      BY <2>0, <3>1 DEF WellPlaced
    <3> QED
      BY <2>1, <3>1, <3>2
  <2>6. CASE NotMine(p)
    <3>1. /\ buf'[p] = buf[p] /\ inv'[p] = inv[p] /\ sent'[p] = sent[p] /\ pc'[p] = pc[p]
      BY <2>6, OthersAreOthers DEF Mine
    <3> QED
      BY <2>1, <3>1
  <2>7. CASE \/ EnsureOutputIsNotTheInput(p) \/ EnsureArchiveIsNotTheInput(p) \/ OpenInput(p)
             \/ StatSlot(p) \/ OpenSlot(p) \/ CheckEmptied(p) \/ WriteSlot(p)
    <3>1. buf' = buf /\ inv' = inv /\ sent' = sent
      BY <2>7 DEF EnsureOutputIsNotTheInput, EnsureArchiveIsNotTheInput, OpenInput, StatSlot,
         OpenSlot, CheckEmptied, WriteSlot, argVars, readVars, outVars
    <3>2. pc'[p] \in {"stat_slot", "open_slot", "check_emptied", "write_slot"} =>
            pc[p] \in {"stat_slot", "open_slot", "check_emptied", "write_slot"}
      BY <2>0, <2>7 DEF EnsureOutputIsNotTheInput, EnsureArchiveIsNotTheInput, OpenInput, StatSlot,
         OpenSlot, CheckEmptied, WriteSlot, Goto, Quit
    <3> QED
      BY <2>1, <3>1, <3>2
  <2>8. CASE \/ ResolveSlot(p) \/ ClassifySlot(p) \/ ProbeSlot(p) \/ RecheckSlot(p)
             \/ UnlinkSlot(p) \/ EmitEnds(p) \/ Announce(p) \/ Crash(p)
    <3>1. buf' = buf /\ inv' = inv /\ sent' = sent
      BY <2>8 DEF ResolveSlot, ClassifySlot, ProbeSlot, RecheckSlot, UnlinkSlot, EmitEnds,
         Announce, Crash, argVars, readVars, outVars
    <3>2. pc'[p] \notin {"stat_slot", "open_slot", "check_emptied", "write_slot"}
      BY <2>0, <2>8 DEF ResolveSlot, ClassifySlot, ProbeSlot, RecheckSlot, UnlinkSlot, RemovalFails,
         EmitEnds, AfterEmit, WriteFails, Announce, Crash, Goto, Quit
    <3> QED
      BY <2>1, <3>1, <3>2
  <2> QED
    BY <1>3, <2>2, <2>3, <2>4, <2>5, <2>6, <2>7, <2>8 DEF Step
<1>4. \A p \in Procs : NotMine(p) \/ Launch(p) \/ Step(p) \/ Crash(p)
  BY WhoseStep
<1> QED
  BY <1>1, <1>2, <1>3, <1>4 DEF SourcesOK

\* What was lying around is what archived starts from.
LEMMA InitSourcesOK == Init => SourcesOK
<1> SUFFICES ASSUME Init PROVE SourcesOK
  OBVIOUS
<1>1. archived = {d \in Docs : Body(d) \in LyingAround}
  BY DEF Init
<1>2. \A i \in Inodes : Sourced(data[i], archived)
  BY <1>1 DEF LyingAround, Sourced
<1>3. ASSUME NEW v \in Invocations PROVE Sourced(v.piped, archived)
  <2>1. Range(v.piped) \in {Range(w.piped) : w \in Invocations}
    OBVIOUS
  <2>2. ASSUME NEW x \in Range(v.piped) PROVE x \in LyingAround
    <3> DEFINE All == {Range(w.piped) : w \in Invocations}
    <3>1. \E r \in All : x \in r
      BY <2>1, <2>2
    <3> HIDE DEF All
    <3>2. x \in UNION All
      BY <3>1
    <3> QED
      BY <3>2 DEF LyingAround, All
  <2> QED
    BY <1>1, <2>2 DEF Sourced
<1>4. ASSUME NEW p \in Procs
      PROVE  Sourced(buf[p], archived) /\ pc[p] = "idle" /\ sent[p] = <<>>
  BY NothingIsSourced DEF Init
<1> QED
  BY <1>2, <1>3, <1>4 DEF SourcesOK

\* Two halves of two archives, a half-written one, a hole, or a read that races a rewrite
\* never expand: what expand has read when it lets anything out is one whole archive, of
\* one document that some archive was made of.  (cmd_expand, Compressor::decompress)
THEOREM ExpandsArchivesOnly == Spec => []ExpandsOnlyWhatWasArchived
<1>1. TypeOK /\ TruthInv /\ SourcesOK => ExpandsOnlyWhatWasArchived
  <2> SUFFICES ASSUME TypeOK, TruthInv, SourcesOK, NEW p \in Procs,
                      inv[p].cmd = "expand", sent[p] # <<>>
               PROVE  \E d \in archived : buf[p] = ArchiveOf(d) /\ sent[p] = <<Raw(d)>>
    BY DEF ExpandsOnlyWhatWasArchived
  <2> DEFINE d == DocOf(buf[p])
  <2>1. Decodes(buf[p]) /\ buf[p] \in Seq(Chunk) /\ Sourced(buf[p], archived)
        /\ Truthful(p) /\ sent[p] \in Seq(Chunk)
    BY DEF SourcesOK, TypeOK, RunsOK, TruthInv
  <2>2. d \in Docs /\ Restored(buf[p]) = d
    BY <2>1, DecodedIsADoc
  <2>3. 2 \in 1..Len(buf[p]) /\ buf[p][2] = Body(d)
    BY <2>1 DEF Decodes, DocOf
  <2>4. d \in archived
    <3> HIDE DEF d
    <3> QED
      BY <2>1, <2>2, <2>3, SourcedAt
  <2>5. Payload(p) = <<Raw(d)>>
    BY <2>2 DEF Payload
  <2> HIDE DEF d
  <2>6. Len(Payload(p)) = 1 /\ Payload(p)[1] = Raw(d)
    BY <2>5
  <2>7. \A k \in 1..Len(sent[p]) : k <= 1 /\ sent[p][k] = Payload(p)[k]
    BY <2>1, <2>6 DEF Truthful, SentIsAPrefix
  <2>8. Len(sent[p]) \in Nat /\ Len(sent[p]) # 0
    BY <2>1, LenProperties, EmptySeq
  <2>9. Len(sent[p]) = 1
    <3> DEFINE n == Len(sent[p])
    <3>1. \A k \in 1..n : k <= 1
      BY <2>7
    <3>2. n \in Nat /\ n # 0
      BY <2>8
    <3> HIDE DEF n
    <3>3. n = 1
      BY <3>1, <3>2
    <3> QED
      BY <3>3 DEF n
  <2>10. sent[p][1] = Raw(d)
    BY <2>6, <2>7, <2>9
  <2>11. sent[p] = <<Raw(d)>>
    BY <2>1, <2>9, <2>10
  <2>12. buf[p] = ArchiveOf(d)
    <3>1. Len(buf[p]) = 2 /\ 1 \in 1..Len(buf[p]) /\ buf[p][1].kind = "head"
      BY <2>1 DEF Decodes
    <3>2. buf[p][1] \in Chunk /\ buf[p][1].doc = d
      BY <2>1, <3>1, ElementOfSeq DEF DocOf, d
    <3>3. buf[p][1] = Head_(d)
      BY <3>1, <3>2 DEF Chunk, Hole, Head_
    <3> QED
      BY <2>1, <2>3, <3>1, <3>3 DEF ArchiveOf
  <2> QED
    BY <2>4, <2>11, <2>12
<1>2. TypeOK /\ TruthInv /\ SourcesOK /\ [Next]_vars => SourcesOK'
  BY SourcesStayOK
<1>3. TypeOK /\ TruthInv /\ [Next]_vars => TruthInv'
  BY TruthIsKept
<1> QED
  BY <1>1, <1>2, <1>3, InitSourcesOK, InitIsTruthful, TypeCorrect, PTL DEF Spec

----------------------------------------------------------------------------
(* A run alone keeps the contract of RecoverySlot.                          *)

\* Nobody changes anything under the only process there is.
Undisturbed == met[Observed] = {} /\ moves = 0

LEMMA AloneStaysUndisturbed ==
  ASSUME Procs = {Observed}, MaxMoves = 0, TypeOK, AllTargetsOK, Undisturbed, [Next]_vars
  PROVE  Undisturbed'
<1>0. met \in [Procs -> SUBSET {"names", "data", "window", "input"}] /\ Observed \in Procs
  BY ObservedAssumption DEF TypeOK, HistoryOK
<1>1. ASSUME Launch(Observed) PROVE Undisturbed'
  <2>1. met'[Observed] = {}
    BY <1>0, <1>1 DEF Launch
  <2> QED
    BY <1>1, <2>1 DEF Launch, Undisturbed
<1>2. ASSUME Step(Observed) \/ Crash(Observed) PROVE Undisturbed'
  <2>1. moves' = moves
    BY <1>2 DEF Step, Crash, EnsureOutputIsNotTheInput, EnsureArchiveIsNotTheInput, OpenInput,
       ReadChunk, Decide, StatSlot, OpenSlot, CheckEmptied, WriteSlot, ResolveSlot,
       ClassifySlot, ProbeSlot, RecheckSlot, UnlinkSlot, EmitChunk, EmitEnds, Announce, argVars
  <2>2. MeetBytes(Observed) \/ (\E q, i : MeetNaming(Observed, q, i)) =>
          met'[Observed] = met[Observed]
    BY <1>0 DEF MeetBytes, MeetNaming
  <2>3. met'[Observed] = {}
    <3>1. CASE met' \in {met, [met EXCEPT ![Observed] = @ \ {"window"}]}
      BY <1>0, <3>1 DEF Undisturbed
    <3> QED
      BY <1>0, <1>2, <2>2, <3>1, FourKindsOfSteps
      DEF AllTargetsOK, SetBytes, CreateSlot, Undisturbed
  <2> QED
    BY <2>1, <2>3 DEF Undisturbed
<1>3. ASSUME NEW from \in Paths, NEW to \in Paths, Rename(from, to) PROVE FALSE
  BY <1>3 DEF Rename, Undisturbed
<1>4. CASE UNCHANGED vars
  BY <1>4 DEF vars, argVars, histVars, Undisturbed
<1> QED
  BY <1>1, <1>2, <1>3, <1>4 DEF Next

\* What a slot expands to is a document or nothing.
LEMMA DocInIsADoc ==
  ASSUME TypeOK, NEW q
  PROVE  DocIn(q) \in Docs \cup {NoDoc}
BY DecodedIsADoc DEF DocIn, IsFile, TypeOK, FilesOK

\* A slot that agrees with the run expands to the run's document, or to nothing.
LEMMA AgreeingDocIn ==
  ASSUME NEW p \in Procs, Agrees(p)
  PROVE  DocIn(Slot(p)) = IF Accepted(buf[p]) THEN DocOf(buf[p]) ELSE NoDoc
BY ArchivesDecode DEF Agrees, DocIn

\* The steps of a visible run that stays visible, in terms of the contract.
LEMMA VisibleSteps ==
  ASSUME TypeOK, AllTargetsOK, InputInv, TruthInv, SlotInv, SlotInv', NEW p \in Procs,
         Step(p), met[p] = {}, met'[p] = {}, WantsArchive(p), Running(p)'
  PROVE  /\ WantsArchive(p)' /\ Running(p)
         /\ \/ /\ DocIn(Slot(p))' = DocIn(Slot(p)) /\ sent'[p] = sent[p]
               /\ buf'[p] = buf[p] \/ sent[p] = <<>>
            \/ /\ sent[p] = <<>> /\ sent'[p] = <<>>
               /\ DocIn(Slot(p))' = NoDoc
            \/ /\ sent[p] = <<>> /\ sent'[p] = <<>>
               /\ DocIn(Slot(p)) = NoDoc /\ DocIn(Slot(p))' \in Docs
            \/ /\ sent'[p] # <<>> /\ buf'[p] = buf[p]
               /\ DocIn(Slot(p))' = DocIn(Slot(p))
               /\ DocIn(Slot(p)) = IF Accepted(buf[p]) THEN DocOf(buf[p]) ELSE NoDoc
<1>0. /\ pc \in [Procs -> Labels] /\ WellPlaced(p) /\ InputOK(p) /\ TargetOK(p) /\ Truthful(p)
      /\ SlotOK(p) /\ SlotOK(p)'
      /\ exit \in [Procs -> {"none", "success", "bad_input", "corrupt"}]
      /\ off \in [Procs -> 0..2] /\ hold \in [Procs -> Inodes \cup {None}]
      /\ sent \in [Procs -> Seq(Chunk)] /\ buf[p] \in Seq(Chunk)
      /\ entry \in [Paths -> Paths \cup Inodes \cup {None}]
      /\ data \in [Inodes -> Seq(Chunk)]
      /\ None \notin Inodes /\ None \notin Paths
  BY CliAssumption DEF TypeOK, FilesOK, RunsOK, InputInv, AllTargetsOK, TruthInv, SlotInv
<1>1. inv' = inv
  BY DEF Step, EnsureOutputIsNotTheInput, EnsureArchiveIsNotTheInput, OpenInput,
     ReadChunk, Decide, StatSlot, OpenSlot, CheckEmptied, WriteSlot, ResolveSlot,
     ClassifySlot, ProbeSlot, RecheckSlot, UnlinkSlot, EmitChunk, EmitEnds, Announce, argVars
<1>2. WantsArchive(p)' /\ Slot(p)' = Slot(p) /\ Running(p)
  <2>1. Running(p)
    BY DEF Running, Ended, Step, EnsureOutputIsNotTheInput,
       EnsureArchiveIsNotTheInput, OpenInput, ReadChunk, Decide, StatSlot, OpenSlot,
       CheckEmptied, WriteSlot, ResolveSlot, ClassifySlot, ProbeSlot, RecheckSlot, UnlinkSlot,
       EmitChunk, EmitEnds, Announce
  <2> QED
    BY <1>1, <2>1 DEF WantsArchive, Slot
<1>3. entry' = entry /\ kind' = kind /\ data' = data => DocIn(Slot(p))' = DocIn(Slot(p))
  BY <1>2 DEF DocIn, Reach, Canonical, IsFile
<1>4. pc[p] \in BeforeOutput => sent[p] = <<>>
  BY <1>0 DEF Truthful
<1>5. ~Decodes(<<>>) /\ (\A c : ~Decodes(<<c>>))
  BY DEF Decodes
<1>6. CASE Looks(p)
  <2>1. UNCHANGED <<entry, kind, data>>
    BY <1>6, LooksOnly
  <2>2. /\ sent' = sent
        /\ buf' = buf \/ pc[p] = "read"
    BY <1>6 DEF Looks, EnsureOutputIsNotTheInput, EnsureArchiveIsNotTheInput, OpenInput, ReadChunk,
       Decide, StatSlot, CheckEmptied, ResolveSlot, ClassifySlot, ProbeSlot, RecheckSlot,
       EmitEnds, Announce, Crash, readVars, outVars
  <2> QED
    BY <1>2, <1>3, <1>4, <2>1, <2>2 DEF BeforeOutput
<1>7. CASE OpenSlot(p)
  <2>1. sent' = sent /\ sent[p] = <<>> /\ pc'[p] = "check_emptied"
        /\ (TruncateSlot(p) \/ CreateSlot(p))
    BY <1>0, <1>4, <1>7 DEF OpenSlot, TruncateSlot, CreateSlot, OpenSlotFails, Goto, Quit, Running,
       Ended, outVars, BeforeOutput
  <2>2. hold'[p] = Reach(Slot(p))'
    BY <1>0, <1>2, <2>1 DEF SlotOK
  <2>3. data'[hold'[p]] = <<>>
    <3>1. CASE TruncateSlot(p)
      BY <1>0, <3>1 DEF TruncateSlot, SetBytes, IsFile
    <3>2. CASE CreateSlot(p)
      BY <1>0, <3>2 DEF CreateSlot
    <3> QED
      BY <2>1, <3>1, <3>2
  <2>4. DocIn(Slot(p))' = NoDoc
    BY <1>5, <2>2, <2>3 DEF DocIn
  <2> QED
    BY <1>2, <2>1, <2>4
<1>8. CASE WriteSlot(p)
  <2> DEFINE d == DocOf(buf[p])
  <2>1. /\ sent' = sent /\ sent[p] = <<>> /\ pc[p] = "write_slot" /\ buf' = buf
        /\ pc'[p] \in {"write_slot", "emit"} /\ off'[p] = off[p] + 1
        /\ Accepted(buf[p]) /\ off[p] \in {0, 1}
    <3>1. sent' = sent /\ buf' = buf /\ pc[p] = "write_slot"
      BY <1>8 DEF WriteSlot, outVars
    <3>2. off[p] \in {0, 1} /\ Accepted(buf[p])
      BY <1>0, <3>1 DEF WellPlaced
    <3>3. pc'[p] \in {"write_slot", "emit"} /\ off'[p] = off[p] + 1
      BY <1>0, <1>8 DEF WriteSlot, Goto, Quit, Running, Ended
    <3> QED
      BY <1>4, <3>1, <3>2, <3>3 DEF BeforeOutput
  <2>2. hold[p] = Reach(Slot(p))
        /\ data[hold[p]] = IF off[p] = 0 THEN <<>> ELSE <<Head_(d)>>
    BY <2>1, <1>0 DEF SlotOK
  <2>3. DocIn(Slot(p)) = NoDoc
    BY <1>5, <2>1, <2>2 DEF DocIn
  <2>4. CASE pc'[p] = "emit"
    <3>1. Agrees(p)'
      BY <1>0, <1>2, <2>4 DEF SlotOK
    <3>2. DocIn(Slot(p))' = d
      BY <2>1, <3>1, ArchivesDecode DEF Agrees, DocIn
    <3>3. d \in Docs
      BY <1>0, <2>1, AcceptedIsGood
    <3> QED
      BY <1>2, <2>1, <2>3, <3>2, <3>3
  <2>5. CASE pc'[p] = "write_slot"
    <3>1. hold'[p] = Reach(Slot(p))' /\ data'[hold'[p]] = <<Head_(DocOf(buf'[p]))>>
      BY <1>0, <1>2, <2>1, <2>5 DEF SlotOK
    <3>2. DocIn(Slot(p))' = NoDoc
      BY <1>5, <3>1 DEF DocIn
    <3> QED
      BY <1>2, <2>1, <3>2
  <2> QED
    BY <2>1, <2>4, <2>5
<1>9. CASE UnlinkSlot(p)
  <2>1. sent' = sent /\ sent[p] = <<>> /\ pc'[p] = "emit" /\ buf' = buf /\ ~Accepted(buf[p])
    BY <1>0, <1>4, <1>9 DEF UnlinkSlot, RemovalFails, Quit, Goto, Running, Ended, outVars,
       readVars, BeforeOutput, WellPlaced
  <2>2. Agrees(p)'
    BY <1>0, <1>2, <2>1 DEF SlotOK
  <2>3. DocIn(Slot(p))' = NoDoc
    BY <2>1, <2>2 DEF Agrees, DocIn
  <2> QED
    BY <1>2, <2>1, <2>3
<1>10. CASE EmitChunk(p)
  <2>1. pc[p] = "emit" /\ pc'[p] = "emit" /\ buf' = buf
    BY <1>0, <1>10 DEF EmitChunk, readVars
  <2>2. sent'[p] # <<>>
    <3> DEFINE c == Payload(p)[Len(sent[p]) + 1]
    <3>1. sent'[p] = Append(sent[p], c) /\ sent[p] \in Seq(Chunk)
      BY <1>0, <1>10 DEF EmitChunk
    <3> HIDE DEF c
    <3> QED
      BY <3>1
  <2>3. Agrees(p) /\ Agrees(p)'
    BY <1>0, <1>2, <2>1 DEF SlotOK
  <2>4. DocIn(Slot(p)) = IF Accepted(buf[p]) THEN DocOf(buf[p]) ELSE NoDoc
    BY <2>3, AgreeingDocIn
  <2>5. DocIn(Slot(p))' = IF Accepted(buf[p]) THEN DocOf(buf[p]) ELSE NoDoc
    BY <2>1, <2>3, ArchivesDecode DEF Agrees, DocIn
  <2> QED
    BY <1>2, <2>1, <2>2, <2>4, <2>5
<1> QED
  BY <1>6, <1>7, <1>8, <1>9, <1>10 DEF Step, Looks

\* A run that was not visible and is now has just been launched.
LEMMA AppearsByLaunch ==
  ASSUME TypeOK, NEW p \in Procs, Step(p) \/ Crash(p)
  PROVE  Visible(p)' => Visible(p)
<1>1. inv' = inv
  BY DEF Step, Crash, EnsureOutputIsNotTheInput, EnsureArchiveIsNotTheInput, OpenInput,
     ReadChunk, Decide, StatSlot, OpenSlot, CheckEmptied, WriteSlot, ResolveSlot,
     ClassifySlot, ProbeSlot, RecheckSlot, UnlinkSlot, EmitChunk, EmitEnds, Announce, argVars
<1>2. Running(p)
  BY DEF Running, Ended, Step, Crash, EnsureOutputIsNotTheInput,
     EnsureArchiveIsNotTheInput, OpenInput, ReadChunk, Decide, StatSlot, OpenSlot,
     CheckEmptied, WriteSlot, ResolveSlot, ClassifySlot, ProbeSlot, RecheckSlot, UnlinkSlot,
     EmitChunk, EmitEnds, Announce
<1> QED
  BY <1>1, <1>2 DEF Visible, WantsArchive

\* The contract, as the run's state maps to it.
Shown ==
  IF Visible(Observed) /\ sent[Observed] # <<>>
  THEN IF Accepted(buf[Observed]) THEN DocOf(buf[Observed]) ELSE Passthrough
  ELSE Nothing

InSlot == IF Visible(Observed) THEN DocIn(Slot(Observed)) ELSE NoDoc

\* What a visible run does next is one of the contract's steps, or none.
LEMMA VisibleStepsKeepIt ==
  ASSUME TypeOK, AllTargetsOK, InputInv, TruthInv, SlotInv, SlotInv', Step(Observed),
         met[Observed] = {}, met'[Observed] = {}, Visible(Observed), Visible(Observed)'
  PROVE  \/ InSlot' = InSlot /\ Shown' = Shown
         \/ Shown = Nothing /\ InSlot' = NoDoc /\ Shown' = Shown
         \/ Shown = Nothing /\ InSlot = NoDoc /\ InSlot' \in Docs /\ Shown' = Shown
         \/ /\ Shown = Nothing /\ InSlot' = InSlot
            /\ Shown' = IF InSlot = NoDoc THEN Passthrough ELSE InSlot
<1> DEFINE p == Observed
<1>1. /\ InSlot = DocIn(Slot(p)) /\ InSlot' = DocIn(Slot(p))'
      /\ sent[p] = <<>> => Shown = Nothing
      /\ sent'[p] = <<>> => Shown' = Nothing
      /\ sent[p] # <<>> => Shown = IF Accepted(buf[p]) THEN DocOf(buf[p]) ELSE Passthrough
      /\ sent'[p] # <<>> => Shown' = IF Accepted(buf'[p]) THEN DocOf(buf'[p]) ELSE Passthrough
  BY DEF InSlot, Shown
<1>2. p \in Procs /\ WantsArchive(p) /\ Running(p)' /\ buf[p] \in Seq(Chunk)
  BY ObservedAssumption DEF Visible, TypeOK, RunsOK
<1>3. \/ /\ DocIn(Slot(p))' = DocIn(Slot(p)) /\ sent'[p] = sent[p]
         /\ buf'[p] = buf[p] \/ sent[p] = <<>>
      \/ /\ sent[p] = <<>> /\ sent'[p] = <<>>
         /\ DocIn(Slot(p))' = NoDoc
      \/ /\ sent[p] = <<>> /\ sent'[p] = <<>>
         /\ DocIn(Slot(p)) = NoDoc /\ DocIn(Slot(p))' \in Docs
      \/ /\ sent'[p] # <<>> /\ buf'[p] = buf[p]
         /\ DocIn(Slot(p))' = DocIn(Slot(p))
         /\ DocIn(Slot(p)) = IF Accepted(buf[p]) THEN DocOf(buf[p]) ELSE NoDoc
  BY <1>2, VisibleSteps
<1>4. Accepted(buf[p]) => DocOf(buf[p]) # NoDoc
  BY <1>2, AcceptedIsGood, DocumentsAssumption DEF Docs
<1> HIDE DEF p
<1> QED
  BY <1>1, <1>3, <1>4

\* "So a caller never sees output without its recovery blob": every run that is alone
\* takes its slot from what it held, through nothing that expands, to its own document,
\* lets a rendering out only when the slot expands to that document and a passthrough only
\* when it expands to none, and touches the slot no more.  (cmd_compress)
THEOREM AloneKeepsTheContract ==
  ASSUME Procs = {Observed}, MaxMoves = 0
  PROVE  Spec => KeepsTheContract
<1> DEFINE Phase == IF Visible(Observed) THEN "running" ELSE "over"
<1>1. Init => Contract!Init
  <2>1. Init => ~Visible(Observed)
    BY ObservedAssumption DEF Init, Visible, Running, Ended
  <2> QED
    BY <2>1 DEF Contract!Init
<1>2. /\ TypeOK /\ AllTargetsOK /\ InputInv /\ TruthInv /\ SlotInv /\ SlotInv'
      /\ TypeOK' /\ Undisturbed /\ Undisturbed' /\ [Next]_vars
      => [Contract!Next]_(Contract!vars)
  <2> SUFFICES ASSUME TypeOK, AllTargetsOK, InputInv, TruthInv, SlotInv, SlotInv', TypeOK',
                      Undisturbed, Undisturbed', [Next]_vars
               PROVE  [Contract!Next]_(Contract!vars)
    OBVIOUS
  <2>1. CASE Launch(Observed)
    <3>1. ~Visible(Observed)
      BY <2>1 DEF Launch, Visible
    <3>2. sent'[Observed] = <<>>
      BY <2>1, ObservedAssumption DEF Launch, TypeOK, RunsOK
    <3>3. DocIn(Slot(Observed))' \in Docs \cup {NoDoc}
      BY DecodedIsADoc DEF DocIn, IsFile, TypeOK, FilesOK
    <3>4. Phase = "over" /\ Shown = Nothing /\ Shown' = Nothing /\ InSlot = NoDoc
      BY <3>1, <3>2 DEF Shown, InSlot
    <3>5. CASE Visible(Observed)'
      <4>1. Phase' = "running" /\ InSlot' \in Docs \cup {NoDoc}
        BY <3>3, <3>5 DEF InSlot
      <4> QED
        BY <3>4, <4>1 DEF Contract!Next, Contract!Begin, InSlot, Shown
    <3>6. CASE ~Visible(Observed)'
      <4>1. Phase' = "over" /\ InSlot' = NoDoc
        BY <3>6 DEF InSlot
      <4> QED
        BY <3>4, <4>1 DEF Contract!vars, InSlot, Shown
    <3> QED
      BY <3>5, <3>6
  <2>2. CASE Step(Observed) \/ Crash(Observed)
    <3>1. CASE ~Visible(Observed)
      <4>1. ~Visible(Observed)'
        BY <2>2, <3>1, AppearsByLaunch, ObservedAssumption
      <4> QED
        BY <3>1, <4>1 DEF Contract!vars
    <3>2. CASE Visible(Observed) /\ ~Visible(Observed)'
      BY <3>2 DEF Contract!Next, Contract!End
    <3>3. CASE Visible(Observed) /\ Visible(Observed)'
      <4>1. Step(Observed)
        BY <2>2, <3>3, ObservedAssumption DEF Crash, Visible, Running, Ended, TypeOK, RunsOK
      <4>2. \/ InSlot' = InSlot /\ Shown' = Shown
            \/ Shown = Nothing /\ InSlot' = NoDoc /\ Shown' = Shown
            \/ Shown = Nothing /\ InSlot = NoDoc /\ InSlot' \in Docs /\ Shown' = Shown
            \/ /\ Shown = Nothing /\ InSlot' = InSlot
               /\ Shown' = IF InSlot = NoDoc THEN Passthrough ELSE InSlot
        BY <3>3, <4>1, VisibleStepsKeepIt DEF Undisturbed
      <4>3. Phase = "running" /\ Phase' = "running"
        BY <3>3
      <4>4. CASE InSlot' = InSlot /\ Shown' = Shown
        BY <4>3, <4>4 DEF Contract!vars, InSlot, Shown
      <4>5. CASE Shown = Nothing /\ InSlot' = NoDoc /\ Shown' = Shown
        BY <4>3, <4>5 DEF Contract!Next, Contract!Clear, InSlot, Shown
      <4>6. CASE Shown = Nothing /\ InSlot = NoDoc /\ InSlot' \in Docs /\ Shown' = Shown
        BY <4>3, <4>6 DEF Contract!Next, Contract!Commit, InSlot, Shown
      <4>7. CASE /\ Shown = Nothing /\ InSlot' = InSlot
                 /\ Shown' = IF InSlot = NoDoc THEN Passthrough ELSE InSlot
        BY <4>3, <4>7 DEF Contract!Next, Contract!Show, InSlot, Shown
      <4> QED
        BY <4>2, <4>4, <4>5, <4>6, <4>7
    <3> QED
      BY <3>1, <3>2, <3>3
  <2>3. CASE \E from, to \in Paths : Rename(from, to)
    BY <2>3 DEF Rename, Undisturbed
  <2>4. CASE UNCHANGED vars
    <3>1. Visible(Observed)' = Visible(Observed)
      BY <2>4 DEF vars, argVars, Visible, Running, WantsArchive
    <3>2. Shown' = Shown /\ InSlot' = InSlot
      BY <2>4, <3>1 DEF vars, fsVars, argVars, readVars, outVars, Shown, InSlot, DocIn, Reach,
         Canonical, Slot, IsFile
    <3> QED
      BY <3>1, <3>2 DEF Contract!vars, Shown, InSlot
  <2> QED
    BY <2>1, <2>2, <2>3, <2>4 DEF Next
<1>3. TypeOK /\ AllTargetsOK /\ Undisturbed /\ [Next]_vars => Undisturbed'
  BY AloneStaysUndisturbed
<1>4. Init => Undisturbed
  BY ObservedAssumption DEF Init, Undisturbed
<1>5. TypeOK /\ AllTargetsOK /\ InputInv /\ TruthInv /\ SlotInv /\ [Next]_vars => SlotInv'
  BY SlotStaysOK
<1>6. Init => SlotInv
  BY DEF Init, SlotInv, SlotOK, Spoke
<1>7. TypeOK /\ AllTargetsOK /\ InputInv /\ [Next]_vars => InputInv'
  BY InputStaysOK
<1>8. TypeOK /\ AllTargetsOK /\ [Next]_vars => AllTargetsOK'
  BY TargetsStayOK
<1>9. TypeOK /\ TruthInv /\ [Next]_vars => TruthInv'
  BY TruthIsKept
<1> QED
  BY <1>1, <1>2, <1>3, <1>4, <1>5, <1>6, <1>7, <1>8, <1>9, InitInputOK, InitTargetsOK,
     InitIsTruthful, TypeCorrect, PTL DEF Spec, KeepsTheContract, Contract!Spec
=============================================================================
