------------------------------ MODULE CliRuns ------------------------------
(***************************************************************************)
(* Runs of the tokfold command line over a file system they share.          *)
(*                                                                          *)
(* A run is one process: it is given an invocation, goes through the system *)
(* calls of cmd_compress, cmd_expand or cmd_stats (tokfold-cli/src/main.rs) *)
(* one step at a time, and ends with an exit code, or is killed between two *)
(* steps.  Several runs may be alive at once, and another program may move  *)
(* files while they are; nothing in the code takes a lock.                  *)
(***************************************************************************)
EXTENDS ArchiveBytes, FiniteSets, Functions

CONSTANTS
  Procs,        \* process slots; a slot is reused once its run has ended
  Paths,        \* names in the file system
  Inodes,       \* files: an inode number may be reused once the file is gone
  None,         \* no file, no entry
  NoPath,       \* the option was not given
  Pipe,         \* a standard stream that is a pipe
  Disks,        \* initial file systems: [entry, kind, data]
  Invocations,  \* the command lines (with their redirections) runs may get
  MaxRuns,      \* bound: runs started in all
  MaxMoves,     \* bound: renames by other programs
  Faults,       \* may system calls fail (ENOSPC, EACCES, EIO, ...)?
  Crashes       \* may a run be killed?

VARIABLES
  entry,     \* directory: what each name is (a file, a symlink to a name, nothing)
  kind,      \* what each file is
  data,      \* the bytes of each file, as chunks
  pc,        \* where each run is
  inv,       \* its invocation
  stdin,     \* the file behind its standard input, or Pipe
  stdout,    \* the file behind its standard output, or Pipe
  hold,      \* the file it has open for the input read or the archive write
  buf,       \* what it has read of its input
  off,       \* chunks of the archive it has written
  target,    \* ArchiveSlot::Archive.target
  ident,     \* ArchiveSlot::Archive.identity
  cleared,   \* what clear_stale_archive found (enum Cleared)
  sent,      \* what it has written to standard output
  gone,      \* has the reader of its standard output left?
  told,      \* has it said "no recovery archive written"?
  exit,      \* its exit code
  runs,      \* runs started
  moves,     \* renames by other programs
  met,       \* history: what others changed under each run
  old,       \* history: the archive in its slot when it was launched
  archived   \* history: documents an archive was ever made of, or found as one's payload

fsVars   == <<entry, kind, data>>
argVars  == <<inv, stdin, stdout, runs, moves>>
readVars == <<hold, buf>>
slotVars == <<target, ident, cleared>>
outVars  == <<sent, gone, told>>
histVars == <<met, old, archived>>
vars == <<fsVars, pc, argVars, readVars, off, slotVars, outVars, exit, histVars>>

Commands == {"compress", "expand", "stats"}

Invocation ==
  [cmd     : Commands,
   input   : Paths \cup {NoPath},   \* --input, or standard input
   stdin   : Paths \cup {Pipe},     \* < path, or a pipe ...
   piped   : Seq(Chunk),            \* ... and what the pipe carries
   archive : Paths \cup {NoPath},   \* --archive
   stdout  : Paths \cup {Pipe},     \* > path, >> path, or a pipe
   trunc   : BOOLEAN]               \* > rather than >>

Disk == [entry : [Paths -> Paths \cup Inodes \cup {None}],
         kind  : [Inodes -> {"file", "dir", "special"}],
         data  : [Inodes -> Seq(Chunk)]]

\* A symlink's text is a name that is not itself a symlink: one link deep.
ASSUME CliAssumption ==
  /\ None \notin Paths \cup Inodes
  /\ Paths \cap Inodes = {}
  /\ NoPath \notin Paths
  /\ Pipe \notin Paths \cup Inodes \cup {None}
  /\ Disks \subseteq Disk
  /\ \A k \in Disks, q \in Paths : k.entry[q] \in Paths => k.entry[k.entry[q]] \notin Paths
  /\ Invocations \subseteq Invocation /\ Invocations # {}
  /\ MaxRuns \in Nat /\ MaxMoves \in Nat
  /\ Faults \in BOOLEAN /\ Crashes \in BOOLEAN

----------------------------------------------------------------------------
(* The file system as the program asks it.                                  *)

\* fs::canonicalize: the name a name stands for once its symlink is followed.
Canonical(q) == IF entry[q] \in Paths THEN entry[q] ELSE q

\* fs::metadata, File::open: the file a name reaches, or None (a dangling link too).
Reach(q) == entry[Canonical(q)]

IsFile(i) == i \in Inodes /\ kind[i] = "file"

\* A FIFO with nobody at its other end: an open of it does not return.
Blocks(i) == i \in Inodes /\ kind[i] = "special"

Ended == {"idle", "done", "crashed"}
Running(p) == pc[p] \notin Ended

\* A file no name and no open descriptor refers to: its number may be reused.
Free(i) ==
  /\ \A q \in Paths : entry[q] # i
  /\ \A p \in Procs : Running(p) => i \notin {hold[p], stdin[p], stdout[p]}

\* (dev, ino) of what the run reads: input_identity or stdin_identity.
InputIdentity(p) == IF inv[p].input = NoPath THEN stdin[p] ELSE Reach(inv[p].input)

InputBytes(p) == IF hold[p] = None THEN inv[p].piped ELSE data[hold[p]]

WantsArchive(p) == inv[p].cmd = "compress" /\ inv[p].archive # NoPath

Slot(p) == inv[p].archive

\* What the run owes its standard output.
Payload(p) ==
  CASE inv[p].cmd = "compress" /\ Accepted(buf[p]) -> <<Rendering(DocOf(buf[p]))>>
    [] inv[p].cmd = "compress" /\ ~Accepted(buf[p]) -> buf[p]
    [] inv[p].cmd = "expand" -> <<Raw(Restored(buf[p]))>>
    [] inv[p].cmd = "stats" -> <<Report(DocOf(buf[p]))>>

----------------------------------------------------------------------------
(* Steps of control and their frames.                                       *)

Goto(p, l) == pc' = [pc EXCEPT ![p] = l] /\ UNCHANGED exit

Quit(p, code) == pc' = [pc EXCEPT ![p] = "done"] /\ exit' = [exit EXCEPT ![p] = code]

Close(p) == hold' = [hold EXCEPT ![p] = None]

\* Everyone but p has now met a change of bytes.
MeetBytes(p) == met' = [r \in Procs |-> IF r = p THEN met[r] ELSE met[r] \cup {"data"}]

\* The names through which a run reaches the input it was given by name.
InputNames(p) == IF inv[p].input = NoPath THEN {} ELSE {inv[p].input, Canonical(inv[p].input)}

\* What r meets when another actor gives the name q to file i (None: takes it away):
\* a change of names; in its window, if q is the name it is about to remove; and of its
\* input, if that file has a new name or that name a new file.
MetByNaming(r, q, i) ==
  {"names"} \cup (IF q = target[r] THEN {"window"} ELSE {})
            \cup (IF i # None /\ (i = InputIdentity(r) \/ q \in InputNames(r))
                  THEN {"input"} ELSE {})

MeetNaming(p, q, i) ==
  met' = [r \in Procs |-> IF r = p THEN met[r] ELSE met[r] \cup MetByNaming(r, q, i)]

\* An archive that was rewritten or moved is no longer one left by an earlier run.
Forget(files) == [q \in Procs |-> IF old[q].ino \in files
                                  THEN [old[q] EXCEPT !.ino = None] ELSE old[q]]

\* p changes the bytes of file i.
SetBytes(p, i, bytes) ==
  /\ data' = [data EXCEPT ![i] = bytes]
  /\ MeetBytes(p)
  /\ old' = Forget({i})
  /\ UNCHANGED <<entry, kind, archived>>

\* The chunks on disk and in the pipes before the first run.
LyingAround ==
  (UNION {Range(data[i]) : i \in Inodes}) \cup (UNION {Range(v.piped) : v \in Invocations})

----------------------------------------------------------------------------
Init ==
  /\ \E k \in Disks : entry = k.entry /\ kind = k.kind /\ data = k.data
  /\ pc = [p \in Procs |-> "idle"]
  /\ inv = [p \in Procs |-> CHOOSE v \in Invocations : TRUE]   \* set at launch
  /\ stdin = [p \in Procs |-> Pipe]
  /\ stdout = [p \in Procs |-> Pipe]
  /\ hold = [p \in Procs |-> None]
  /\ buf = [p \in Procs |-> <<>>]
  /\ off = [p \in Procs |-> 0]
  /\ target = [p \in Procs |-> NoPath]
  /\ ident = [p \in Procs |-> None]
  /\ cleared = [p \in Procs |-> "none"]
  /\ sent = [p \in Procs |-> <<>>]
  /\ gone = [p \in Procs |-> FALSE]
  /\ told = [p \in Procs |-> FALSE]
  /\ exit = [p \in Procs |-> "none"]
  /\ runs = 0
  /\ moves = 0
  /\ met = [p \in Procs |-> {}]
  /\ old = [p \in Procs |-> [names |-> {}, ino |-> None]]
  /\ archived = {d \in Docs : Body(d) \in LyingAround}

\* The file behind a redirection, opened by the shell before tokfold starts.
Opened(q) == IF q = Pipe THEN Pipe ELSE Reach(q)

\* The shell starts a run; `>` empties the file before the program exists.
Launch(p) ==
  /\ ~Running(p)
  /\ runs < MaxRuns
  /\ \E v \in Invocations :
       /\ v.stdin = Pipe \/ IsFile(Opened(v.stdin))
       /\ v.stdout = Pipe \/ IsFile(Opened(v.stdout))
       /\ inv' = [inv EXCEPT ![p] = v]
       /\ stdin' = [stdin EXCEPT ![p] = Opened(v.stdin)]
       /\ stdout' = [stdout EXCEPT ![p] = Opened(v.stdout)]
       /\ LET emptied == IF v.trunc /\ v.stdout # Pipe THEN {Opened(v.stdout)} ELSE {}
              left == IF v.archive = NoPath THEN None ELSE Reach(v.archive)
              stale == IsFile(left) /\ left \notin emptied /\ Decodes(data[left])
          IN /\ data' = [i \in Inodes |-> IF i \in emptied THEN <<>> ELSE data[i]]
             /\ met' = [q \in Procs |->
                          IF q = p THEN {}
                          ELSE IF emptied = {} THEN met[q] ELSE met[q] \cup {"data"}]
             /\ old' = [Forget(emptied) EXCEPT
                          ![p] = [names |-> IF stale THEN {v.archive, Canonical(v.archive)}
                                            ELSE {},
                                  ino   |-> IF stale THEN left ELSE None]]
  /\ pc' = [pc EXCEPT ![p] = "guard_output"]
  /\ hold' = [hold EXCEPT ![p] = None]
  /\ buf' = [buf EXCEPT ![p] = <<>>]
  /\ off' = [off EXCEPT ![p] = 0]
  /\ target' = [target EXCEPT ![p] = NoPath]
  /\ ident' = [ident EXCEPT ![p] = None]
  /\ cleared' = [cleared EXCEPT ![p] = "none"]
  /\ sent' = [sent EXCEPT ![p] = <<>>]
  /\ gone' = [gone EXCEPT ![p] = FALSE]
  /\ told' = [told EXCEPT ![p] = FALSE]
  /\ exit' = [exit EXCEPT ![p] = "none"]
  /\ runs' = runs + 1
  /\ UNCHANGED <<entry, kind, moves, archived>>

----------------------------------------------------------------------------
(* The guards, then the input.                                              *)

\* ensure_output_is_not_the_input: standard output is the file being read.
OutputIsInput(p) == IsFile(stdout[p]) /\ stdout[p] = InputIdentity(p)

EnsureOutputIsNotTheInput(p) ==
  /\ pc[p] = "guard_output"
  /\ \/ OutputIsInput(p) /\ Quit(p, "bad_input")
     \/ ~OutputIsInput(p) /\ inv[p].cmd = "compress" /\ Goto(p, "guard_archive")
     \/ ~OutputIsInput(p) /\ inv[p].cmd # "compress" /\ Goto(p, "open_input")
  /\ UNCHANGED <<fsVars, argVars, readVars, off, slotVars, outVars, histVars>>

\* Mutant: the guard compares the two paths as typed.
ArchiveCollidesByName(p) == inv[p].archive # NoPath /\ inv[p].archive = inv[p].input

\* ensure_archive_is_not_the_input: the slot is the file behind standard output,
\* or the file being read.
ArchiveCollides(p) ==
  /\ inv[p].archive # NoPath
  /\ IsFile(Reach(Slot(p)))
  /\ Reach(Slot(p)) \in {stdout[p], InputIdentity(p)}

EnsureArchiveIsNotTheInput(p) ==
  /\ pc[p] = "guard_archive"
  /\ \/ ArchiveCollides(p) /\ Quit(p, "bad_input")
     \/ ~ArchiveCollides(p) /\ Goto(p, "open_input")
  /\ UNCHANGED <<fsVars, argVars, readVars, off, slotVars, outVars, histVars>>

\* read_source opens what it reads: a missing name or a directory is an error;
\* the open of a special file (a FIFO without a writer) does not return.
OpenInput(p) ==
  /\ pc[p] = "open_input"
  /\ LET i == InputIdentity(p)
     IN \/ /\ i = Pipe \/ IsFile(i)
           /\ hold' = [hold EXCEPT ![p] = IF i = Pipe THEN None ELSE i]
           /\ Goto(p, "read")
        \/ /\ i = None \/ (i \in Inodes /\ kind[i] = "dir") \/ (Faults /\ ~Blocks(i))
           /\ Quit(p, "bad_input")
           /\ UNCHANGED hold
  /\ UNCHANGED <<fsVars, argVars, buf, off, slotVars, outVars, histVars>>

\* One read(2) of read_to_end.
ReadChunk(p) ==
  /\ pc[p] = "read"
  /\ \/ /\ Len(buf[p]) < Len(InputBytes(p))
        /\ buf' = [buf EXCEPT ![p] = Append(@, InputBytes(p)[Len(@) + 1])]
        /\ UNCHANGED <<pc, exit, hold>>
     \/ /\ Faults
        /\ Quit(p, "bad_input")
        /\ Close(p)
        /\ UNCHANGED buf
  /\ UNCHANGED <<fsVars, argVars, off, slotVars, outVars, histVars>>

\* Mutant: the rendering goes out before the archive is written.
RenderAtOnce(p) ==
  IF WantsArchive(p) /\ ~Accepted(buf[p]) THEN "resolve_slot" ELSE "emit"

\* What compress does first: settle the slot, if one was given.
CompressGoesTo(p) ==
  IF ~WantsArchive(p) THEN "emit"
  ELSE IF Accepted(buf[p]) THEN "stat_slot" ELSE "resolve_slot"

\* End of input: the engine runs, in memory, and the command takes its branch.
Decide(p) ==
  /\ pc[p] = "read"
  /\ Len(buf[p]) >= Len(InputBytes(p))
  /\ Close(p)
  /\ \/ /\ inv[p].cmd = "compress"
        /\ Goto(p, CompressGoesTo(p))
     \/ /\ inv[p].cmd = "expand" /\ Decodes(buf[p])
        /\ Goto(p, "emit")
     \/ /\ inv[p].cmd = "expand" /\ ~Decodes(buf[p])
        /\ Quit(p, "corrupt")
     \/ /\ inv[p].cmd = "stats" /\ Accepted(buf[p])
        /\ Goto(p, "emit")
     \/ /\ inv[p].cmd = "stats" /\ ~Accepted(buf[p])
        /\ Quit(p, "bad_input")
  /\ archived' = IF WantsArchive(p) /\ Accepted(buf[p])
                 THEN archived \cup {DocOf(buf[p])} ELSE archived
  /\ UNCHANGED <<fsVars, argVars, buf, off, slotVars, outVars, met, old>>

----------------------------------------------------------------------------
(* write_file: stat, open with create and truncate, look whether the open   *)
(* emptied the file, write.  Only a success of all four lets the rendering  *)
(* out.                                                                     *)

\* Mutant: the archive path is opened whatever it is.
AnythingMayBeOpened(i) == TRUE

\* Nothing, a file, or a directory (whose open gives the platform's own error).
MayBeOpened(i) == ~Blocks(i)

StatSlot(p) ==
  /\ pc[p] = "stat_slot"
  /\ \/ MayBeOpened(Reach(Slot(p))) /\ Goto(p, "open_slot")
     \/ (~MayBeOpened(Reach(Slot(p))) \/ Faults) /\ Quit(p, "bad_input")
  /\ UNCHANGED <<fsVars, argVars, readVars, off, slotVars, outVars, histVars>>

\* The file is there: it is emptied.  A special file would block the open.
TruncateSlot(p) ==
  LET i == Reach(Slot(p))
  IN /\ IsFile(i)
     /\ SetBytes(p, i, <<>>)
     /\ hold' = [hold EXCEPT ![p] = i]
     /\ Goto(p, "check_emptied")

\* Nothing is there: a new file is made under the name the path stands for.
CreateSlot(p) ==
  /\ Reach(Slot(p)) = None
  /\ \E i \in Inodes :
       /\ Free(i)
       /\ entry' = [entry EXCEPT ![Canonical(Slot(p))] = i]
       /\ kind' = [kind EXCEPT ![i] = "file"]
       /\ data' = [data EXCEPT ![i] = <<>>]
       /\ hold' = [hold EXCEPT ![p] = i]
       /\ old' = Forget({i})
       /\ MeetNaming(p, Canonical(Slot(p)), i)
  /\ UNCHANGED archived
  /\ Goto(p, "check_emptied")

\* A directory, no room for a file, or any other refusal of the open.
OpenSlotFails(p) ==
  LET i == Reach(Slot(p))
  IN /\ \/ i \in Inodes /\ kind[i] = "dir"
        \/ i = None /\ \A j \in Inodes : ~Free(j)
        \/ Faults /\ ~Blocks(i)
     /\ Quit(p, "bad_input")
     /\ UNCHANGED <<fsVars, hold, histVars>>

OpenSlot(p) ==
  /\ pc[p] = "open_slot"
  /\ TruncateSlot(p) \/ CreateSlot(p) \/ OpenSlotFails(p)
  /\ UNCHANGED <<argVars, buf, off, slotVars, outVars>>

\* Another writer may have put bytes there since the open.
CheckEmptied(p) ==
  /\ pc[p] = "check_emptied"
  /\ \/ /\ data[hold[p]] = <<>>
        /\ Goto(p, "write_slot")
        /\ UNCHANGED hold
     \/ /\ data[hold[p]] # <<>> \/ Faults
        /\ Quit(p, "bad_input")
        /\ Close(p)
  /\ UNCHANGED <<fsVars, argVars, buf, off, slotVars, outVars, histVars>>

\* One write(2) of write_all, at the descriptor's own offset; a failure leaves
\* what is there.
WriteSlot(p) ==
  /\ pc[p] = "write_slot"
  /\ LET archive == ArchiveOf(DocOf(buf[p]))
         n == off[p] + 1
     IN \/ /\ off' = [off EXCEPT ![p] = n]
           /\ SetBytes(p, hold[p], PutAt(data[hold[p]], n, archive[n]))
           /\ \/ n < Len(archive) /\ UNCHANGED <<pc, exit, hold>>
              \/ n = Len(archive) /\ Goto(p, "emit") /\ Close(p)
        \/ /\ Faults
           /\ Quit(p, "bad_input")
           /\ Close(p)
           /\ UNCHANGED <<off, fsVars, histVars>>
  /\ UNCHANGED <<argVars, buf, slotVars, outVars>>

----------------------------------------------------------------------------
(* clear_stale_archive, with inspect_archive_slot spelled out.              *)

Settle(p, found) == cleared' = [cleared EXCEPT ![p] = found]

\* fs::metadata of the path as typed, then fs::canonicalize.
ResolveSlot(p) ==
  /\ pc[p] = "resolve_slot"
  /\ \/ /\ Reach(Slot(p)) = None
        /\ Settle(p, "empty")
        /\ Goto(p, "emit")
        /\ UNCHANGED target
     \/ /\ Reach(Slot(p)) # None
        /\ target' = [target EXCEPT ![p] = Canonical(Slot(p))]
        /\ Goto(p, "classify_slot")
        /\ UNCHANGED cleared
     \/ /\ Faults
        /\ Quit(p, "bad_input")
        /\ UNCHANGED <<target, cleared>>
  /\ UNCHANGED <<fsVars, argVars, readVars, off, ident, outVars, histVars>>

\* fs::symlink_metadata of the target: neither file nor directory is left alone
\* unopened, a target that has vanished meanwhile is an error.
ClassifySlot(p) ==
  /\ pc[p] = "classify_slot"
  /\ LET i == entry[target[p]]
     IN \/ /\ i \in Inodes /\ kind[i] \in {"file", "dir"}
           /\ Goto(p, "probe_slot")
           /\ UNCHANGED cleared
        \/ /\ i \in Inodes /\ kind[i] = "special"
           /\ Settle(p, "foreign")
           /\ Goto(p, "emit")
        \/ /\ i = None \/ Faults
           /\ Quit(p, "bad_input")
           /\ UNCHANGED cleared
  /\ UNCHANGED <<fsVars, argVars, readVars, off, target, ident, outVars, histVars>>

\* Open the target, read four bytes, and keep the identity of the open file.
ProbeSlot(p) ==
  /\ pc[p] = "probe_slot"
  /\ LET i == Reach(target[p])
     IN \/ /\ i = None
           /\ Settle(p, "empty")
           /\ Goto(p, "emit")
           /\ UNCHANGED ident
        \/ /\ IsFile(i) /\ ~OpensWithMagic(data[i])
           /\ Settle(p, "foreign")
           /\ Goto(p, "emit")
           /\ UNCHANGED ident
        \/ /\ IsFile(i) /\ OpensWithMagic(data[i])
           /\ ident' = [ident EXCEPT ![p] = i]
           /\ Goto(p, "recheck_slot")
           /\ UNCHANGED cleared
        \/ /\ (i \in Inodes /\ kind[i] = "dir") \/ (Faults /\ ~Blocks(i))
           /\ Quit(p, "bad_input")
           /\ UNCHANGED <<ident, cleared>>
  /\ UNCHANGED <<fsVars, argVars, readVars, off, target, outVars, histVars>>

\* Mutant: no second look before the removal.
NeverReplaced(p) == TRUE

\* removal_is_still_the_inspected_file
StillTheInspected(p) == Reach(target[p]) = ident[p]

RecheckSlot(p) ==
  /\ pc[p] = "recheck_slot"
  /\ \/ /\ StillTheInspected(p)
        /\ Goto(p, "unlink_slot")
        /\ met' = [met EXCEPT ![p] = @ \ {"window"}]
     \/ /\ ~StillTheInspected(p)
        /\ Quit(p, "bad_input")
        /\ UNCHANGED met
  /\ UNCHANGED <<fsVars, argVars, readVars, off, slotVars, outVars, old, archived>>

\* Mutant: the removal is given the path as typed.
TypedName(p) == Slot(p)

\* Mutant: a removal that fails is a clear slot.
RemovalErrorIgnored(p) == Goto(p, "emit")

\* The removal is given the resolved name: fs::remove_file does not follow links.
NameToRemove(p) == target[p]

\* A removal that fails ends the run before anything was emitted.
RemovalFails(p) == Quit(p, "bad_input")

\* fs::remove_file takes the name away, whatever it names by now.
UnlinkSlot(p) ==
  /\ pc[p] = "unlink_slot"
  /\ LET i == entry[NameToRemove(p)]
     IN \/ /\ i # None /\ ~(i \in Inodes /\ kind[i] = "dir")
           /\ entry' = [entry EXCEPT ![NameToRemove(p)] = None]
           /\ Settle(p, "removed")
           /\ Goto(p, "emit")
           /\ MeetNaming(p, NameToRemove(p), None)
        \/ /\ i = None \/ (i \in Inodes /\ kind[i] = "dir") \/ Faults
           /\ RemovalFails(p)
           /\ UNCHANGED <<entry, cleared, met>>
  /\ UNCHANGED <<kind, data, argVars, readVars, off, target, ident, outVars, old, archived>>

----------------------------------------------------------------------------
(* write_stdout, and the announcement after it.                             *)

\* One write(2) of write_all: to a pipe, or appended to the file behind it.
EmitChunk(p) ==
  /\ pc[p] = "emit"
  /\ Len(sent[p]) < Len(Payload(p))
  /\ LET c == Payload(p)[Len(sent[p]) + 1]
     IN /\ sent' = [sent EXCEPT ![p] = Append(@, c)]
        /\ \/ /\ stdout[p] = Pipe
              /\ UNCHANGED <<fsVars, histVars>>
           \/ /\ stdout[p] # Pipe
              /\ SetBytes(p, stdout[p], Append(data[stdout[p]], c))
  /\ UNCHANGED <<pc, exit, argVars, readVars, off, slotVars, gone, told>>

AfterEmit(p) ==
  IF inv[p].cmd = "compress" /\ ~Accepted(buf[p])
  THEN Goto(p, "announce") ELSE Quit(p, "success")

\* Mutant: a failed write to standard output is no error.
WriteErrorSwallowed(p) == Quit(p, "success")

\* Any other failure is reported, also the EBADF that std's own handle swallows.
WriteFails(p) == Quit(p, "bad_input")

\* The whole payload is out, the reader has gone (no error), or the write fails.
EmitEnds(p) ==
  /\ pc[p] = "emit"
  /\ \/ /\ Len(sent[p]) = Len(Payload(p))
        /\ AfterEmit(p)
        /\ UNCHANGED gone
     \/ /\ Len(sent[p]) < Len(Payload(p))
        /\ stdout[p] = Pipe
        /\ gone' = [gone EXCEPT ![p] = TRUE]
        /\ AfterEmit(p)
     \/ /\ Len(sent[p]) < Len(Payload(p))
        /\ Faults
        /\ WriteFails(p)
        /\ UNCHANGED gone
  /\ UNCHANGED <<fsVars, argVars, readVars, off, slotVars, sent, told, histVars>>

\* "passing input through", and announce_no_archive when a slot was given.
Announce(p) ==
  /\ pc[p] = "announce"
  /\ told' = [told EXCEPT ![p] = WantsArchive(p)]
  /\ Quit(p, "success")
  /\ UNCHANGED <<fsVars, argVars, readVars, off, slotVars, sent, gone, histVars>>

----------------------------------------------------------------------------
(* What happens to a run from outside.                                      *)

\* A signal (SIGKILL, SIGXFSZ, ...) ends the run between two system calls.
Crash(p) ==
  /\ Crashes
  /\ Running(p)
  /\ pc' = [pc EXCEPT ![p] = "crashed"]
  /\ Close(p)
  /\ UNCHANGED <<fsVars, argVars, buf, off, slotVars, outVars, exit, histVars>>

\* Another program renames one file onto a name.
Rename(from, to) ==
  /\ moves < MaxMoves
  /\ entry[from] \in Inodes
  /\ entry[to] # entry[from]
  /\ ~(entry[to] \in Inodes /\ kind[entry[to]] = "dir")
  /\ entry' = [entry EXCEPT ![to] = entry[from], ![from] = None]
  /\ moves' = moves + 1
  /\ met' = [p \in Procs |-> met[p] \cup MetByNaming(p, from, None)
                                   \cup MetByNaming(p, to, entry[from])]
  /\ old' = Forget({entry[from], Reach(to)})
  /\ UNCHANGED <<kind, data, pc, inv, stdin, stdout, runs, readVars, off,
                 slotVars, outVars, exit, archived>>

Step(p) ==
  \/ EnsureOutputIsNotTheInput(p) \/ EnsureArchiveIsNotTheInput(p)
  \/ OpenInput(p) \/ ReadChunk(p) \/ Decide(p)
  \/ StatSlot(p) \/ OpenSlot(p) \/ CheckEmptied(p) \/ WriteSlot(p)
  \/ ResolveSlot(p) \/ ClassifySlot(p) \/ ProbeSlot(p) \/ RecheckSlot(p) \/ UnlinkSlot(p)
  \/ EmitChunk(p) \/ EmitEnds(p) \/ Announce(p)

Next ==
  \/ \E p \in Procs : Launch(p) \/ Step(p) \/ Crash(p)
  \/ \E from, to \in Paths : Rename(from, to)

Spec == Init /\ [][Next]_vars

\* The operating system schedules every process that is not blocked.
FairSpec == Spec /\ \A p \in Procs : WF_vars(Step(p))

----------------------------------------------------------------------------
(* Properties.                                                              *)

Labels == Ended \cup
  {"guard_output", "guard_archive", "open_input", "read",
   "stat_slot", "open_slot", "check_emptied", "write_slot",
   "resolve_slot", "classify_slot", "probe_slot", "recheck_slot", "unlink_slot",
   "emit", "announce"}

\* What the steps of write_file, clear_stale_archive and write_stdout rely on: an open
\* descriptor, a resolved target, an input the engine has accepted or refused.
WellPlaced(p) ==
  /\ pc[p] \in {"stat_slot", "open_slot", "check_emptied", "write_slot"} =>
       WantsArchive(p) /\ Accepted(buf[p])
  /\ pc[p] \in {"resolve_slot", "classify_slot", "probe_slot", "recheck_slot", "unlink_slot"} =>
       WantsArchive(p) /\ ~Accepted(buf[p])
  /\ pc[p] \in {"check_emptied", "write_slot"} => hold[p] \in Inodes
  /\ pc[p] \in {"guard_output", "guard_archive", "open_input", "read",
               "stat_slot", "open_slot", "check_emptied"} => off[p] = 0
  /\ pc[p] = "write_slot" => off[p] < 2
  /\ pc[p] \in {"classify_slot", "probe_slot", "recheck_slot", "unlink_slot"} =>
       target[p] \in Paths
  /\ pc[p] = "emit" /\ inv[p].cmd = "expand" => Decodes(buf[p])
  /\ pc[p] = "emit" /\ inv[p].cmd = "stats" => Accepted(buf[p])

FilesOK ==
  /\ entry \in [Paths -> Paths \cup Inodes \cup {None}]
  /\ \A q \in Paths : entry[q] \in Paths => entry[entry[q]] \notin Paths
  /\ kind \in [Inodes -> {"file", "dir", "special"}]
  /\ data \in [Inodes -> Seq(Chunk)]

RunsOK ==
  /\ pc \in [Procs -> Labels]
  /\ inv \in [Procs -> Invocations]
  /\ stdin \in [Procs -> Inodes \cup {Pipe}]
  /\ stdout \in [Procs -> Inodes \cup {Pipe}]
  /\ hold \in [Procs -> Inodes \cup {None}]
  /\ buf \in [Procs -> Seq(Chunk)]
  /\ off \in [Procs -> 0..2]
  /\ target \in [Procs -> Paths \cup {NoPath}]
  /\ ident \in [Procs -> Inodes \cup {None}]
  /\ cleared \in [Procs -> {"none", "empty", "removed", "foreign"}]
  /\ sent \in [Procs -> Seq(Chunk)]
  /\ gone \in [Procs -> BOOLEAN]
  /\ told \in [Procs -> BOOLEAN]
  /\ exit \in [Procs -> {"none", "success", "bad_input", "corrupt"}]

HistoryOK ==
  /\ runs \in 0..MaxRuns
  /\ moves \in 0..MaxMoves
  /\ met \in [Procs -> SUBSET {"names", "data", "window", "input"}]
  /\ old \in [Procs -> [names : SUBSET Paths, ino : Inodes \cup {None}]]
  /\ archived \subseteq Docs

\* Type invariant: the range of every variable, and WellPlaced.
TypeOK == FilesOK /\ RunsOK /\ HistoryOK /\ \A p \in Procs : WellPlaced(p)

\* p has let something out, or has reported success.
Spoke(p) == sent[p] # <<>> \/ exit[p] = "success"

\* "An archive that outlives its run": once a compress given --archive has emitted a
\* byte or exited 0, neither the slot as typed nor the file it stood for at launch
\* leads to the archive an earlier run left there.  Holds with runs interleaved over
\* one slot, killed runs, failing system calls and files moved by others.
\* (cmd_compress, clear_stale_archive, write_file)
NoStaleArchive ==
  \A p \in Procs : WantsArchive(p) /\ Spoke(p) /\ old[p].ino \in Inodes =>
    \A q \in old[p].names : Reach(q) # old[p].ino

\* Two halves of two archives, a half-written one, a hole, or a read that races a
\* rewrite never expand: where expand lets anything out, what it has read, in however
\* many reads, is one whole archive, of one document that some archive was made of, and
\* that document is all it lets out.  (cmd_expand, Compressor::decompress)
ExpandsOnlyWhatWasArchived ==
  \A p \in Procs : inv[p].cmd = "expand" /\ sent[p] # <<>> =>
    \E d \in archived : buf[p] = ArchiveOf(d) /\ sent[p] = <<Raw(d)>>

\* "A caller never sees output without its recovery blob", for a run no other actor
\* interfered with: after a rendering the slot expands to that very document, and
\* after a passthrough it does not expand at all, however the run ended.
SlotAgreesWithOutput ==
  \A p \in Procs :
    WantsArchive(p) /\ Spoke(p) /\ met[p] = {} =>
      LET i == Reach(Slot(p))
      IN IF Accepted(buf[p])
         THEN IsFile(i) /\ Decodes(data[i]) /\ DocOf(data[i]) = DocOf(buf[p])
         ELSE ~(IsFile(i) /\ Decodes(data[i]))

\* The exit code and the last line on standard error tell the truth: success means
\* the whole payload was taken or the reader left, exit 3 and a failure before the slot
\* was settled mean nothing was emitted, and "no recovery archive written" is
\* said only after the passthrough and never after an archive was written.
ExitsTellTheTruth ==
  \A p \in Procs :
    /\ exit[p] = "success" => gone[p] \/ sent[p] = Payload(p)
    /\ exit[p] = "corrupt" => inv[p].cmd = "expand" /\ sent[p] = <<>>
    /\ sent[p] # <<>> /\ WantsArchive(p) =>
         off[p] = Len(ArchiveOf(NoDoc)) \/ cleared[p] # "none"
    /\ told[p] =>
         /\ gone[p] \/ sent[p] = Payload(p)
         /\ off[p] = 0 /\ cleared[p] # "none"

\* A step taken by p itself (no two consecutive states of a run are alike).
Acts(p) == <<pc[p], buf[p], off[p], sent[p]>>' # <<pc[p], buf[p], off[p], sent[p]>>

\* A run never changes or unlinks the file it reads, whatever other runs write, create,
\* remove and rename meanwhile: the guards are made once, before the read, and must hold
\* until the last write.  The one exception is an actor that gives that file another
\* name, or that name another file: the slot may then be a name of the input.
\* (ensure_output_is_not_the_input, ensure_archive_is_not_the_input)
InputSurvives ==
  [][\A p \in Procs :
       Acts(p) /\ Running(p) /\ "input" \notin met[p] /\ InputIdentity(p) \in Inodes =>
         LET i == InputIdentity(p)
         IN data'[i] = data[i] /\ InputIdentity(p)' = i]_vars

\* Only a rejected run takes a name away, and no other than the one its archive path was
\* resolved to; what it takes it from is the regular file whose magic it read, unless
\* another actor re-bound that very name after its identity was checked again.  Every
\* other name, the symlink it was given included, stays.
\* (clear_stale_archive, removal_is_still_the_inspected_file)
UnlinksOnlyTheInspected ==
  [][\A p \in Procs, q \in Paths :
       Acts(p) /\ Running(p) /\ entry[q] # None /\ entry'[q] = None =>
         /\ ~Accepted(buf[p]) /\ q = target[p]
         /\ "window" \in met[p] \/ (entry[q] = ident[p] /\ IsFile(ident[p]))]_vars

\* "So a caller never sees output without its recovery blob": when the first byte of
\* the rendering leaves, the slot holds that document's archive.  Not so when another
\* run over the same slot steps in between the archive and the rendering.
\* (the comment in cmd_compress)
NoRenderingWithoutItsArchive ==
  [][\A p \in Procs :
       /\ Acts(p) /\ WantsArchive(p) /\ Accepted(buf[p])
       /\ sent[p] = <<>> /\ sent'[p] # <<>>
       => LET i == Reach(Slot(p))
          IN IsFile(i) /\ Decodes(data[i]) /\ DocOf(data[i]) = DocOf(buf[p])]_vars

\* Every run ends, whatever it finds in its slot: a FIFO there is recognised before it
\* is opened; only an input the user named that is itself one can keep a run waiting.
\* (write_file, inspect_archive_slot, read_source)
EveryRunEnds ==
  \A p \in Procs :
    Running(p) ~> ~Running(p) \/ (pc[p] = "open_input" /\ Blocks(InputIdentity(p)))
=============================================================================
