----------------------------- MODULE McpServer -----------------------------
(***************************************************************************)
(* tokfold-mcp's Server: one line in, at most one line out.  A batch is     *)
(* handled member by member against what its reply frame has left, so each  *)
(* member is a step, and a panic contained by the transport may come        *)
(* between any two.                                                         *)
(***************************************************************************)
EXTENDS JsonRpc

CONSTANTS
  Limits,      \* values max_message_bytes may have been given
  Batches,     \* the lines that are arrays
  Messages,    \* the lines that are one value
  Silence,     \* no reply
  NoLine,      \* no line being handled
  NoVersion,   \* negotiated_version is None
  MaxLines,    \* bound: lines handled in all
  Panics       \* may the handling of a line panic?

ASSUME ServerAssumption ==
  /\ Limits \subseteq Nat
  /\ Messages \subseteq Message
  /\ Batches \subseteq Seq(Message)
  /\ NoVersion \notin Legacy
  /\ MaxLines \in Nat
  /\ Panics \in BOOLEAN

VARIABLES
  max,          \* Server::max_message_bytes, fixed when the server is built
  handshaked,   \* Server::handshaked
  negotiated,   \* Server::negotiated_version
  line,         \* the line being handled, or answered last
  phase,        \* "idle", "handling" or "answered"
  at,           \* the member of a batch to handle next
  frame,        \* length of the reply array so far
  answers,      \* what is in it
  reply,        \* what handle_line returned
  lines         \* lines taken

connection == <<handshaked, negotiated>>
array == <<frame, answers>>
serverVars == <<max, connection, line, phase, at, array, reply, lines>>

Line == [kind : {"blank", "unparsable"}, items : {<<>>}]
        \cup {[kind |-> "message", items |-> <<m>>] : m \in Messages}
        \cup {[kind |-> "batch", items |-> b] : b \in Batches}

ServerInit ==
  /\ max \in Limits
  /\ handshaked = FALSE
  /\ negotiated = NoVersion
  /\ line = NoLine
  /\ phase = "idle"
  /\ at = 1
  /\ frame = 1
  /\ answers = <<>>
  /\ reply = Silence
  /\ lines = 0

\* handle_line is called.
Take(l) ==
  /\ phase # "handling"
  /\ lines < MaxLines
  /\ line' = l
  /\ phase' = "handling"
  /\ at' = 1
  /\ frame' = 1   \* "["
  /\ answers' = <<>>
  /\ reply' = Silence
  /\ lines' = lines + 1
  /\ UNCHANGED <<max, connection>>

----------------------------------------------------------------------------
(* What a line may be answered with.                                        *)

Single(answer) == [array |-> FALSE, answers |-> <<answer>>, width |-> answer.width]

Finish(r) == phase' = "answered" /\ reply' = r /\ UNCHANGED <<max, line, at, array, lines>>

Refuse(id, what) == Finish(Single(RenderBounded(Answer(id, what, BodyWidth[what]), max)))

\* A blank line is not answered, a line that is not JSON is refused.
Blank ==
  /\ phase = "handling" /\ line.kind = "blank"
  /\ Finish(Silence)
  /\ UNCHANGED connection

Unparsable ==
  /\ phase = "handling" /\ line.kind = "unparsable"
  /\ Refuse(NoId, "parse_error")
  /\ UNCHANGED connection

\* Mutant: a handshake may be made again.
ShakeAgain(m) ==
  IF Decodable(m) /\ ~IsNotification(m) /\ MetadataAccepted(m) /\ m.method = "initialize"
  THEN handshaked' = TRUE /\ negotiated' = Agreed(m)
  ELSE UNCHANGED connection

\* The only state dispatch changes: the first initialize that reaches its handler.
Shake(m) ==
  IF Decodable(m) /\ ~IsNotification(m) /\ RealAnswer(m, handshaked).what = "handshake"
  THEN handshaked' = TRUE /\ negotiated' = Agreed(m)
  ELSE UNCHANGED connection

\* Mutant: only a well-formed notification is left unanswered.
OnlyProperNotifications(m) == IsNotification(m) /\ Decodable(m)

\* handle_message returns None.
Unanswered(m) == IsNotification(m)

HandleSingle ==
  /\ phase = "handling" /\ line.kind = "message"
  /\ LET m == line.items[1]
     IN /\ Shake(m)
        /\ IF Unanswered(m) THEN Finish(Silence)
           ELSE Finish(Single(RenderBounded(RealAnswer(m, handshaked), max)))

----------------------------------------------------------------------------
(* handle_batch                                                             *)

EmptyBatch ==
  /\ phase = "handling" /\ line = [kind |-> "batch", items |-> <<>>]
  /\ Refuse(NoId, "invalid_request")
  /\ UNCHANGED connection

\* The comma in front of every member but the first.
Comma == IF answers = <<>> THEN 0 ELSE 1

\* Mutant: nothing is kept for the closing bracket.
RoomWithoutBracket == Minus(max, frame + Comma)

\* What the array has left for this member, once its comma and the bracket are in.
Room == Minus(max, frame + Comma + 1)

\* The members are handled in order, notifications in silence; a member whose answer
\* does not fit, not even as a refusal, takes the whole array with it.
HandleMember ==
  /\ phase = "handling" /\ line.kind = "batch" /\ at <= Len(line.items)
  /\ LET m == line.items[at]
         fitted == RenderMember(RealAnswer(m, handshaked), Room, max)
     IN /\ Shake(m)
        /\ \/ /\ Unanswered(m)
              /\ at' = at + 1
              /\ UNCHANGED <<max, line, phase, array, reply, lines>>
           \/ /\ ~Unanswered(m) /\ fitted.width <= Room
              /\ frame' = frame + Comma + fitted.width
              /\ answers' = Append(answers, fitted)
              /\ at' = at + 1
              /\ UNCHANGED <<max, line, phase, reply, lines>>
           \/ /\ ~Unanswered(m) /\ fitted.width > Room
              /\ Finish(Single(RenderBounded(Answer(NoId, "oversize", OversizeBody(max)), max)))

\* The array with its bracket.
Closed == [array |-> TRUE, answers |-> answers, width |-> frame + 1]

CloseBatch ==
  /\ phase = "handling" /\ line.kind = "batch" /\ line.items # <<>> /\ at > Len(line.items)
  /\ IF answers = <<>> THEN Finish(Silence) ELSE Finish(Closed)
  /\ UNCHANGED connection

----------------------------------------------------------------------------
(* stdio.rs handle, around handle_line: a panic is answered, not fatal.     *)

\* Mutant: the rescue frame is addressed to nobody.
RecoverNothing == NoId

\* recover_id reads the line again; an array has no id of its own.
RecoverId == IF line.kind = "message" THEN ReadId(line.items[1]) ELSE NoId

\* The handling of the current message panics, before or after its state change.
Panic ==
  /\ Panics
  /\ phase = "handling" /\ line.kind \in {"message", "batch"} /\ at <= Len(line.items)
  /\ LET m == line.items[at]
     IN /\ ~Unanswered(m) /\ Decodable(m)
        /\ Shake(m) \/ UNCHANGED connection
  /\ Refuse(RecoverId, "internal_error")

Handle ==
  \/ Blank \/ Unparsable \/ HandleSingle
  \/ EmptyBatch \/ HandleMember \/ CloseBatch
  \/ Panic

ServerNext == (\E l \in Line : Take(l)) \/ Handle

ServerSpec == ServerInit /\ [][ServerNext]_serverVars

----------------------------------------------------------------------------
(* Properties.                                                              *)

AnswerRecord == [id : Ids \cup {NoId}, what : Codes \cup Results \cup Tool \cup {"oversize"},
                 width : Nat]
Reply == [array : BOOLEAN, answers : Seq(AnswerRecord), width : Nat]

ASSUME SilenceAssumption == Silence \notin Reply

\* Type invariant: the range of every variable, and the handshake flag and the
\* revision agree, after a panic too.
ServerTypeOK ==
  /\ max \in Limits
  /\ handshaked \in BOOLEAN
  /\ negotiated \in Legacy \cup {NoVersion}
  /\ handshaked <=> negotiated # NoVersion
  /\ line \in Line \cup {NoLine}
  /\ phase \in {"idle", "handling", "answered"}
  /\ phase # "idle" => line \in Line
  /\ at \in Nat \ {0}
  /\ frame \in Nat \ {0}
  /\ answers \in Seq(AnswerRecord)
  /\ reply \in Reply \cup {Silence}
  /\ lines \in 0..MaxLines

\* What s holds at the given places, in order; PickedUpTo(s, places)[n] of its first n.
PickedUpTo(s, places) ==
  LET upto[n \in 0..Len(s)] ==
        IF n = 0 THEN <<>>
        ELSE IF n \in places THEN Append(upto[n - 1], s[n]) ELSE upto[n - 1]
  IN upto
Picked(s, places) == PickedUpTo(s, places)[Len(s)]

\* The members of a line that are owed an answer, in order.
Owing(l) == {i \in DOMAIN l.items : ~IsNotification(l.items[i])}
Owed(l) == Picked(l.items, Owing(l))

\* The bytes of an array up to its n-th answer and the comma after that.
Taken(given) ==
  LET taken[n \in 0..Len(given)] ==
        IF n = 0 THEN 1 ELSE taken[n - 1] + given[n].width + 1
  IN taken

\* The room the k-th answer of a frame had, and the width of a refusal in that place.
RoomOf(r, k) == IF r.array THEN Minus(max, Taken(r.answers)[k - 1] + 1) ELSE max
RefusalOf(r, k) ==
  IF r.array THEN OversizeMemberBody(RoomOf(r, k), max) ELSE OversizeBody(max)

\* The k-th answer of a frame is addressed to m, or to nobody as the refusal of an answer
\* in a place too narrow for the refusal and its id.
AddressedTo(r, k, m) ==
  \/ r.answers[k].id = ReadId(m)
  \/ /\ r.answers[k].id = NoId /\ r.answers[k].what = "oversize"
     /\ RefusalOf(r, k) + IdField(ReadId(m)) > RoomOf(r, k)

\* The floor the documentation names: from 95 bytes on no frame is wider than the
\* limit, batches whose refusals starve each other included.
\* (render_within, handle_batch, with_max_message_bytes)
FramesFit ==
  phase = "answered" /\ reply # Silence /\ max >= 95 => reply.width <= max

\* Silence is for blank lines and lines of notifications; every other line has one
\* frame, with one answer per member in the order they came, each addressed to its own
\* member, or to nobody only where the id could not be read or its refusal not be
\* fitted; or a single answer to nobody, for a line that could not be parsed, an empty
\* batch, a batch that did not fit or a batch that panicked.
\* (handle_line, handle_batch, fit_member, handle, recover_id)
OneAnswerEach ==
  phase = "answered" =>
    \/ /\ reply = Silence
       /\ line.kind = "blank" \/ (line.items # <<>> /\ Owed(line) = <<>>)
    \/ /\ reply # Silence /\ Owed(line) # <<>>
       /\ reply.array = (line.kind = "batch")
       /\ Len(reply.answers) = Len(Owed(line))
       /\ \A k \in 1..Len(Owed(line)) : AddressedTo(reply, k, Owed(line)[k])
    \/ /\ reply # Silence /\ ~reply.array
       /\ Len(reply.answers) = 1 /\ reply.answers[1].id = NoId
       /\ \/ line.kind = "unparsable" \/ line = [kind |-> "batch", items |-> <<>>]
          \/ /\ line.kind = "batch" /\ Owed(line) # <<>>
             /\ reply.answers[1].what \in {"oversize", "internal_error"}

\* A client told that its handshake succeeded was told the revision that stands, and
\* it was the only one told so on that line, whatever else the batch carried.
\* (initialize, handle_batch)
HandshakeIsTheOneTold ==
  phase = "answered" /\ reply # Silence =>
    \A k \in DOMAIN reply.answers :
      reply.answers[k].what = "handshake" =>
        /\ negotiated = Agreed(Owed(line)[k])
        /\ \A j \in DOMAIN reply.answers : reply.answers[j].what = "handshake" => j = k

\* The connection is negotiated once: no later line, batch member or panic changes it.
HandshakeOnce == [][handshaked => UNCHANGED connection]_serverVars
=============================================================================
