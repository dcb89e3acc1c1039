----------------------------- MODULE MCCliRuns -----------------------------
(* Small file systems and command lines for CliRuns. *)
EXTENDS CliContract, TLC

CONSTANTS slot, link, src, i1, i2, i3, g1, g2, b1, b2

AnyOrder == Permutations(Procs)

MCPaths  == {slot, link, src}
MCInodes == {i1, i2, i3}
MCGood   == {g1, g2}
MCBad    == {b1, b2}
MCNotes  == {b2}

DiskOf(e, k, d) == [entry |-> e, kind |-> k, data |-> d]

Command(c, in, file, bytes, arc, out, tr) ==
  [cmd |-> c, input |-> in, stdin |-> file, piped |-> bytes,
   archive |-> arc, stdout |-> out, trunc |-> tr]

Piped(c, bytes, arc) == Command(c, NoPath, Pipe, bytes, arc, Pipe, FALSE)
Named(c, in, arc)    == Command(c, in, Pipe, <<>>, arc, Pipe, FALSE)

\* One run at a time over every kind of slot, reached by its name, through a symlink
\* (dangling or not) or as a hard link of the input; inputs by name, by redirection
\* and by pipe; output to a pipe, or into a file that may be the input or the slot.
SoloDisks ==
  { DiskOf([q \in MCPaths |-> IF q = slot THEN s ELSE IF q = link THEN l ELSE i2],
           [i \in MCInodes |-> IF i = i1 THEN k ELSE "file"],
           [i \in MCInodes |-> IF i = i1 THEN (IF k = "file" THEN b ELSE <<>>)
                               ELSE IF i = i2 THEN c ELSE <<>>]) :
      s \in {i1, None}, l \in {slot, i2}, k \in {"file", "dir", "special"},
      b \in {<<>>, ArchiveOf(g2), <<Head_(g2)>>, <<Raw(b1)>>, <<Raw(b2)>>},
      c \in {<<Raw(g1)>>, <<Raw(b2)>>, ArchiveOf(g1)} }

SoloInvocations ==
  {Named("compress", src, a) : a \in {NoPath, slot, link, src}}
  \cup {Command("compress", NoPath, src, <<>>, a, o, t) :
          a \in {slot, link}, o \in {Pipe, src, slot}, t \in BOOLEAN}
  \cup {Piped("compress", b, slot) : b \in {<<Raw(g1)>>, <<Raw(b1)>>, <<>>}}
  \cup {Named("expand", q, NoPath) : q \in {slot, src}}
  \cup {Command("expand", NoPath, slot, <<>>, NoPath, src, FALSE),
        Named("stats", src, NoPath)}

\* Runs over one slot: two documents, a rejected one, a reader, the name typed
\* or a symlink; the slot may hold an archive of an earlier run, or not exist.
RaceDisks ==
  { DiskOf([q \in MCPaths |-> IF q = slot THEN s ELSE IF q = link THEN slot ELSE i2],
           [i \in MCInodes |-> "file"],
           [i \in MCInodes |-> IF i = i1 /\ s = i1 THEN ArchiveOf(g2)
                               ELSE IF i = i2 THEN ArchiveOf(g1) ELSE <<>>]) :
      s \in {i1, None} }

RaceInvocations ==
  {Piped("compress", b, slot) : b \in {<<Raw(g1)>>, <<Raw(b1)>>}}
  \cup {Piped("compress", <<Raw(g2)>>, link),
        Named("expand", slot, NoPath)}

\* Two runs and another program that renames a file: the input may be one of the names
\* moved, and one run's input may be the other's slot.
MovedInvocations ==
  {Piped("compress", b, link) : b \in {<<Raw(g1)>>, <<Raw(b1)>>}}
  \cup {Named("compress", src, slot), Named("compress", slot, src),
        Named("compress", slot, link)}
=============================================================================
