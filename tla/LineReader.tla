----------------------------- MODULE LineReader -----------------------------
(***************************************************************************)
(* tokfold-mcp's framing (stdio.rs: read_line, skip_to_newline): a stream   *)
(* of bytes cut into lines whose message is bounded, the terminator and a   *)
(* CR before it left out.  The client writes a byte at a time and may stop  *)
(* for as long as it likes anywhere in a line.                              *)
(***************************************************************************)
EXTENDS Naturals, Sequences, SequencesExt

CONSTANTS
  Limit,      \* MAX_LINE_BYTES
  MaxBytes    \* bound: bytes the client writes

ASSUME LineAssumption == Limit \in Nat /\ MaxBytes \in Nat

Bytes == {"a", "invalid", "cr", "lf"}   \* a letter, a byte no UTF-8 text has, CR, LF

VARIABLES
  written,  \* history: every byte the client wrote
  open,     \* the client has not closed its end
  todo,     \* written and not yet consumed
  buffer,   \* read_line's buffer
  where,    \* "reading", "judging", "skipping", "eof" or "failed"
  out       \* history: what read_line returned, in order

clientVars == <<written, open>>
readerVars == <<todo, buffer, where, out>>
lineVars == <<clientVars, readerVars>>

LineInit ==
  /\ written = <<>> /\ open = TRUE
  /\ todo = <<>> /\ buffer = <<>> /\ where = "reading" /\ out = <<>>

WriteByte ==
  /\ open /\ Len(written) < MaxBytes
  /\ \E b \in Bytes : written' = Append(written, b) /\ todo' = Append(todo, b)
  /\ UNCHANGED <<open, buffer, where, out>>

CloseStream == open /\ open' = FALSE /\ UNCHANGED <<written, readerVars>>

----------------------------------------------------------------------------
\* Room for the framing, a CR and the LF, so that a message of exactly the limit is read
\* whole under either line ending.
Framing == 2

\* What `take` lets read_until see of one line.
Cap == Limit + Framing

\* read_until takes one byte: it stops after an LF, and at the cap.
ReadByte ==
  /\ where = "reading" /\ todo # <<>>
  /\ buffer' = Append(buffer, Head(todo))
  /\ todo' = Tail(todo)
  /\ where' = IF Head(todo) = "lf" \/ Len(buffer') = Cap THEN "judging" ELSE "reading"
  /\ UNCHANGED <<clientVars, out>>

EndOfStream ==
  /\ where = "reading" /\ todo = <<>> /\ ~open
  /\ where' = IF buffer = <<>> THEN "eof" ELSE "judging"
  /\ UNCHANGED <<clientVars, todo, buffer, out>>

Deliver(line) ==
  /\ out' = Append(out, line)
  /\ buffer' = <<>>
  /\ where' = "reading"

IsTerminated(bytes) == bytes # <<>> /\ Last(bytes) = "lf"

\* The terminator, and a CR before it, are framing; an unterminated line has none.
Stripped(bytes) ==
  LET line == Front(bytes)
  IN IF ~IsTerminated(bytes) THEN bytes
     ELSE IF line # <<>> /\ Last(line) = "cr" THEN Front(line) ELSE line

IsUtf8(bytes) == "invalid" \notin ToSet(bytes)

\* Mutant: what is left of a line that hit the cap is not thrown away.
NothingLeftOver == FALSE

\* The line was cut: by the cap, or (harmlessly) by the end of the stream.
LeftOver == ~IsTerminated(buffer)

\* The bound is judged on the stripped length, UTF-8 only within it.
Judge ==
  /\ where = "judging"
  /\ LET message == Stripped(buffer)
     IN \/ /\ Len(message) > Limit /\ LeftOver
           /\ where' = "skipping"
           /\ buffer' = <<>>
           /\ UNCHANGED out
        \/ Len(message) > Limit /\ ~LeftOver /\ Deliver([kind |-> "too_long", text |-> <<>>])
        \/ Len(message) <= Limit /\ ~IsUtf8(message)
             /\ Deliver([kind |-> "not_utf8", text |-> <<>>])
        \/ Len(message) <= Limit /\ IsUtf8(message)
             /\ Deliver([kind |-> "text", text |-> message])
  /\ UNCHANGED <<clientVars, todo>>

\* Mutant: the whole chunk is consumed.
ConsumedWithTheRest(available) == Len(available)

\* How much of a chunk skip_to_newline consumes: up to and including the first LF.
Consumed(available) ==
  IF "lf" \in ToSet(available) THEN SelectInSeq(available, LAMBDA b : b = "lf")
  ELSE Len(available)

\* One turn of skip_to_newline; how much fill_buf has is up to the operating system.
Skip ==
  /\ where = "skipping"
  /\ \/ \E n \in 1..Len(todo) :
          LET available == SubSeq(todo, 1, n)
          IN /\ todo' = SubSeq(todo, Consumed(available) + 1, Len(todo))
             /\ IF "lf" \in ToSet(available) THEN Deliver([kind |-> "too_long", text |-> <<>>])
                ELSE UNCHANGED <<buffer, where, out>>
     \/ /\ todo = <<>> /\ ~open
        /\ Deliver([kind |-> "too_long", text |-> <<>>])
        /\ UNCHANGED todo
  /\ UNCHANGED clientVars

\* The stream reports an error: while skipping, an interrupted read is one too.
ReadError ==
  /\ where \in {"reading", "skipping"}
  /\ where' = "failed"
  /\ UNCHANGED <<clientVars, todo, buffer, out>>

Reads == ReadByte \/ EndOfStream \/ Judge \/ Skip

LineNext == WriteByte \/ CloseStream \/ Reads \/ ReadError

\* The server's thread reads whenever there is something to read.
LineSpec == LineInit /\ [][LineNext]_lineVars /\ WF_lineVars(Reads)

----------------------------------------------------------------------------
(* Properties.                                                              *)

\* The lines of a stream, by definition: the bytes up to an LF after the LF before it, and
\* what follows the last LF once the stream is closed.
LineEnds(bytes, closed) ==
  {k \in DOMAIN bytes : bytes[k] = "lf" \/ (closed /\ k = Len(bytes))}

LineTo(bytes, ends, end) == SubSeq(bytes, Max({0} \cup {k \in ends : k < end}) + 1, end)

Verdict(bytes) ==
  LET message == Stripped(bytes)
  IN [kind |-> IF Len(message) > Limit THEN "too_long"
               ELSE IF IsUtf8(message) THEN "text" ELSE "not_utf8",
      text |-> IF Len(message) <= Limit /\ IsUtf8(message) THEN message ELSE <<>>]

\* Type invariant, with the bound on memory: however long a line is, no more than the
\* limit and its framing is ever held, and what is handed on is within the limit.
\* (take, in read_line)
LineTypeOK ==
  /\ written \in Seq(Bytes) /\ Len(written) <= MaxBytes
  /\ open \in BOOLEAN
  /\ todo \in Seq(Bytes)
  /\ buffer \in Seq(Bytes) /\ Len(buffer) <= Limit + 2
  /\ where \in {"reading", "judging", "skipping", "eof", "failed"}
  /\ out \in Seq([kind : {"text", "not_utf8", "too_long"},
                 text : {t \in Seq(Bytes) : Len(t) <= Limit}])

\* What read_line returns is the stream's lines, in order, one for one and judged on the
\* message alone: a line that is too long, or not text, never swallows or splits a
\* neighbour, wherever the cap or a chunk happened to cut it.
\* (read_line, skip_to_newline)
ReadsTheLines ==
  LET ends == LineEnds(written, ~open)
  IN \A n \in DOMAIN out : \E end \in ends :
       /\ Cardinality({k \in ends : k <= end}) = n
       /\ out[n] = Verdict(LineTo(written, ends, end))

\* A line that is terminated is returned, even if the client then writes no more and
\* waits; one that is not is returned when the client closes, so none is missing at the
\* end.  (read_until stops at the LF, and skip_to_newline consumes no more and does not
\* wait for more)
EveryLineIsRead ==
  \A n \in 1..(MaxBytes + 1) :
    Cardinality(LineEnds(written, ~open)) >= n ~> Len(out) >= n \/ where = "failed"
=============================================================================
