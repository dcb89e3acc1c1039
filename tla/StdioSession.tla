---------------------------- MODULE StdioSession ----------------------------
(***************************************************************************)
(* A client and `tokfold mcp` over two pipes: the loop of stdio.rs (serve,  *)
(* handle, write_line, write_error) around the Server of McpServer.  One    *)
(* thread reads a line, handles it, writes and flushes the reply, and reads *)
(* the next; the client is another process.  LineReader shows that what the *)
(* loop reads are the client's lines, so here a line is sent whole.         *)
(***************************************************************************)
EXTENDS McpServer, SequencesExt

CONSTANTS
  InRoom,    \* lines the stdin pipe and the reader's buffer hold together
  OutRoom,   \* replies the stdout pipe holds
  Manners,   \* how clients may behave: see Client
  Quotas,    \* how many lines a client may have to send
  Troubles   \* may the streams fail?

ASSUME SessionAssumption ==
  /\ InRoom \in Nat \ {0} /\ OutRoom \in Nat \ {0}
  /\ Manners \subseteq {"waits", "drains", "bursts"}
  /\ Quotas \subseteq 0..MaxLines
  /\ Troubles \in BOOLEAN

VARIABLES
  manner,   \* waits for each answer, reads while it writes, or writes all and then reads
  quota,    \* the lines it has to send
  asked,    \* what it sent, in order
  inbox,    \* indexes into asked: sent and not yet read
  shut,     \* it closed the server's stdin
  left,     \* it closed its end of the server's stdout
  outbox,   \* replies written and not yet read by the client
  seen,     \* replies it read
  step,     \* "read", "handle", "write", "flush", "ok" or "err"
  now,      \* the line the loop is at: an index into asked, or 0
  held      \* replies in the loop's BufWriter

clientState == <<manner, quota, asked, shut, left, seen>>
loopState == <<step, now, held>>
sessionVars == <<serverVars, clientState, loopState, inbox, outbox>>

Garbled == {"not_utf8", "too_long"}   \* lines that never reach the server
Wire == Line \cup [kind : Garbled, items : {<<>>}]

SessionInit ==
  /\ ServerInit
  /\ manner \in Manners /\ quota \in Quotas
  /\ asked = <<>> /\ inbox = <<>> /\ shut = FALSE /\ left = FALSE
  /\ outbox = <<>> /\ seen = <<>>
  /\ step = "read" /\ now = 0 /\ held = <<>>

Over == step \in {"ok", "err"}

----------------------------------------------------------------------------
(* The client.                                                              *)

\* Blank lines and lines of notifications are owed nothing, any other line one frame.
OwedAFrame(l) ==
  \/ l.kind \in Garbled \cup {"unparsable"}
  \/ l.kind = "message" /\ Owed(l) # <<>>
  \/ l.kind = "batch" /\ (Owed(l) # <<>> \/ l.items = <<>>)

Indexes(ls) == [k \in DOMAIN ls |-> k]
OwingLines(ls) == {k \in DOMAIN ls : OwedAFrame(ls[k])}

OwedOf(ls) == Picked(Indexes(ls), OwingLines(ls))

MaySend ==
  /\ ~shut /\ Len(asked) < quota /\ Len(inbox) < InRoom
  /\ manner = "waits" => Len(seen) = Len(OwedOf(asked))

Send ==
  /\ MaySend
  /\ \E l \in Wire : asked' = Append(asked, l)
  /\ inbox' = Append(inbox, Len(asked) + 1)
  /\ UNCHANGED <<serverVars, manner, quota, shut, left, seen, loopState, outbox>>

\* End of the session, or of the client; what is in the pipe can still be read.
Shut ==
  /\ ~shut
  /\ shut' = TRUE
  /\ UNCHANGED <<serverVars, manner, quota, asked, left, seen, loopState, inbox, outbox>>

ReadReply ==
  /\ ~left /\ outbox # <<>>
  /\ manner = "bursts" => shut \/ Len(asked) = quota
  /\ seen' = Append(seen, Head(outbox))
  /\ outbox' = Tail(outbox)
  /\ UNCHANGED <<serverVars, manner, quota, asked, shut, left, loopState, inbox>>

\* It stops listening; what it did not read is lost.
Leave ==
  /\ ~left
  /\ left' = TRUE
  /\ UNCHANGED <<serverVars, manner, quota, asked, shut, seen, loopState, inbox, outbox>>

----------------------------------------------------------------------------
(* serve                                                                    *)

Hold(frame_) == held' = Append(held, frame_) /\ step' = "write"

\* A line that is not text, or too long, is answered without the server.
ReadLine ==
  /\ step = "read" /\ inbox # <<>>
  /\ now' = Head(inbox)
  /\ inbox' = Tail(inbox)
  /\ LET l == asked[now']
     IN \/ /\ l.kind \in Garbled
           /\ Hold([of |-> now', answers |-> <<>>])
           /\ UNCHANGED serverVars
        \/ /\ l.kind \notin Garbled
           /\ Take(l)
           /\ step' = "handle"
           /\ UNCHANGED held
  /\ UNCHANGED <<clientState, outbox>>

\* A read of no bytes.
Eof ==
  /\ step = "read" /\ inbox = <<>> /\ shut
  /\ step' = "ok"
  /\ UNCHANGED <<serverVars, clientState, now, held, inbox, outbox>>

ReadFails ==
  /\ Troubles /\ step = "read"
  /\ step' = "err"
  /\ UNCHANGED <<serverVars, clientState, now, held, inbox, outbox>>

\* One step of handle: handle_line, or the bulkhead around it.
HandleLine ==
  /\ step = "handle"
  /\ Handle
  /\ \/ phase' = "answered" /\ reply' # Silence /\ Hold([of |-> now, answers |-> reply'.answers])
     \/ phase' = "answered" /\ reply' = Silence /\ step' = "read" /\ UNCHANGED held
     \/ phase' = "handling" /\ UNCHANGED <<step, held>>
  /\ UNCHANGED <<clientState, now, inbox, outbox>>

\* Mutant: a reply is left in the buffer for the next one.
ReplyStaysHeld == FALSE

\* write_line ends with a flush.
Flushes == TRUE

\* write_all, into the BufWriter.
WriteAll ==
  /\ step = "write"
  /\ step' = IF Flushes THEN "flush" ELSE "read"
  /\ UNCHANGED <<serverVars, clientState, now, held, inbox, outbox>>

\* flush: blocks while the pipe is full, and done with the line when all is in the pipe.
Flush ==
  /\ step = "flush" /\ ~left /\ Len(outbox) < OutRoom
  /\ outbox' = Append(outbox, Head(held))
  /\ held' = Tail(held)
  /\ step' = IF held' = <<>> THEN "read" ELSE "flush"
  /\ UNCHANGED <<serverVars, clientState, now, inbox>>

\* Mutant: any failure is taken for the client's leaving.
AnyFailureIsADisconnect(failure) == TRUE

IsDisconnect(failure) == failure = "broken_pipe"

\* Mutant: a reply that could not be written is tried again.
TryAgain(failure) == IF IsDisconnect(failure) THEN "flush" ELSE "err"

\* The client is gone (a normal end), or the stream fails: a lost reply is reported.
EndedBy(failure) == IF IsDisconnect(failure) THEN "ok" ELSE "err"

FlushFailsWith(failure) ==
  /\ step = "flush"
  /\ step' = EndedBy(failure)
  /\ UNCHANGED <<serverVars, clientState, now, held, inbox, outbox>>

FlushMeetsNobody == left /\ FlushFailsWith("broken_pipe")
FlushFails == Troubles /\ ~left /\ \E failure \in {"no_space", "io_error"} : FlushFailsWith(failure)

Serve == ReadLine \/ Eof \/ HandleLine \/ WriteAll \/ Flush \/ FlushMeetsNobody

\* Nobody has anything left to do.
Rest == Over /\ (left \/ outbox = <<>>) /\ UNCHANGED sessionVars

SessionNext ==
  \/ Send \/ Shut \/ ReadReply \/ Leave
  \/ Serve \/ ReadFails \/ FlushFails
  \/ Rest

\* The server's thread runs, and no stream ever has to fail; a client that reads goes on
\* reading, and one that is to write all before it reads goes on writing.
SessionSpec ==
  /\ SessionInit /\ [][SessionNext]_sessionVars
  /\ WF_sessionVars(Serve)
  /\ WF_sessionVars(ReadReply)
  /\ WF_sessionVars(manner = "bursts" /\ Send)

----------------------------------------------------------------------------
(* Properties.                                                              *)

ReplyOf(frames) == [k \in DOMAIN frames |-> frames[k].of]

Sent == [of : Nat, answers : Seq(AnswerRecord)]

\* Type invariant: what waits in the pipe are the last lines sent, the loop is at the one
\* before them, and it holds a frame exactly while it writes one.
SessionTypeOK ==
  /\ ServerTypeOK
  /\ manner \in Manners /\ quota \in Quotas
  /\ asked \in Seq(Wire) /\ Len(asked) <= quota
  /\ inbox \in Seq(Nat) /\ Len(inbox) <= InRoom /\ Len(inbox) <= Len(asked)
  /\ \A k \in 1..Len(inbox) : inbox[k] = Len(asked) - Len(inbox) + k
  /\ now = Len(asked) - Len(inbox)
  /\ outbox \in Seq(Sent) /\ Len(outbox) <= OutRoom /\ seen \in Seq(Sent)
  /\ held \in Seq(Sent) /\ Len(held) <= 1
  /\ step \in {"read", "handle"} => held = <<>>
  /\ step \in {"write", "flush"} => held # <<>>
  /\ shut \in BOOLEAN /\ left \in BOOLEAN
  /\ step \in {"read", "handle", "write", "flush", "ok", "err"}

\* The frames that leave are, in the order of the lines, one for each line that is owed
\* one and none for the others: a pipelining client that counts frames stays in step,
\* whatever panicked, was refused or was not text in between.
\* (serve, handle, write_error)
InStep == IsPrefix(ReplyOf(seen \o outbox \o held), OwedOf(asked))

\* Ok means that no reply was lost: whatever was read off stdin and was owed a frame has
\* it in the pipe, unless the client itself stopped listening.  (serve: "every other
\* write failure is returned, because it means a reply was lost")
OkLosesNothing ==
  step = "ok" =>
    left \/ (inbox = <<>> /\ ReplyOf(seen \o outbox) = OwedOf(asked))

\* Every answer arrives, with nothing more to push it out: for a client that sends one
\* line and waits, for one that reads while it writes, and for one that reads only after
\* a burst no longer than what the two pipes and the server hold together; or the loop
\* has ended with an error.
\* (write_line's flush: "a buffered reply is a hang"; serve: "the client must read while
\* it writes", and the threshold it names; handle's bulkhead)
EveryAnswerArrives ==
  \A n \in 1..MaxLines : Len(OwedOf(asked)) >= n ~> Len(seen) >= n \/ left \/ step = "err"

\* Once the client closes the server's stdin the loop ends, whatever it was in the middle
\* of.  (serve; the client shuts a stdio server down that way)
SessionEnds == shut ~> Over
=============================================================================
