------------------------------ MODULE JsonRpc ------------------------------
(***************************************************************************)
(* JSON-RPC messages as the MCP server tells them apart, the answer each    *)
(* one deserves, and the frame an answer becomes when room is short.        *)
(* (tokfold-mcp: jsonrpc.rs, and check_request_metadata, tools_list and     *)
(* tools_call of server.rs)                                                 *)
(*                                                                          *)
(* Text is abstracted to its width in bytes: the width of a frame is the    *)
(* width of its body and of the `"id":...,` field, and the widths of the    *)
(* refusals are the program's own, digits of the numbers they quote         *)
(* included.                                                                *)
(***************************************************************************)
EXTENDS Naturals, Sequences

CONSTANTS
  Ids,       \* request ids: a string, or an integer that fits an i64
  NoId,      \* an answer that is addressed to nobody
  IdWidth,   \* bytes of each id, quotes included
  BodyWidth, \* bytes of each answer but its id field, for the answers of fixed width
  Legacy,    \* the protocol revisions with a handshake
  LatestLegacy

ASSUME JsonRpcAssumption ==
  /\ NoId \notin Ids
  /\ IdWidth \in [Ids -> Nat \ {0}]
  /\ LatestLegacy \in Legacy

Codes   == {"parse_error", "invalid_request", "method_not_found", "invalid_params",
            "unsupported_version", "internal_error"}
Results == {"discovery", "handshake", "pong", "catalogue"}
Tool    == {"tool_result", "tool_error"}   \* a result with isError false or true

ASSUME WidthAssumption == BodyWidth \in [Codes \cup Results -> Nat \ {0}]

Message ==
  [shape   : {"object", "other"},
   id      : Ids \cup {"absent", "null", "unusable"},   \* unusable: a float, a container
   jsonrpc : BOOLEAN,                                   \* exactly "2.0"
   method  : {"server/discover", "initialize", "ping", "tools/list", "tools/call",
              "unknown", "unusable"},
   params  : {"absent", "object", "other"},             \* null counts as absent
   meta    : {"absent", "not_an_object", "no_version", "version_not_a_string",
              "unsupported", "legacy", "modern", "modern_without_capabilities"},
   asks    : Legacy \cup {"other"},                     \* params.protocolVersion
   cursor  : BOOLEAN,                                   \* params.cursor, not null
   call    : {"malformed", "succeeds", "fails"},        \* what tools::call makes of it
   size    : Nat \ {0}]                                 \* bytes of a tool's answer

\* A message with no id is never answered, even when it is malformed.
IsNotification(m) == m.shape = "object" /\ m.id = "absent"

\* read_id: the id a refusal may be addressed to.
ReadId(m) == IF m.shape = "object" /\ m.id \in Ids THEN m.id ELSE NoId

\* decode_request
Decodable(m) ==
  /\ m.shape = "object"
  /\ m.jsonrpc
  /\ m.method # "unusable"
  /\ m.id \in Ids \cup {"absent"}
  /\ m.params # "other"

Meta(m) == IF m.params = "object" THEN m.meta ELSE "absent"

\* check_request_metadata accepts: no revision, or one that is served, and for a modern
\* one the client capabilities too.
MetadataAccepted(m) == Meta(m) \in {"absent", "no_version", "legacy", "modern"}

\* tools_call: a failure inside a tool is a result, a malformed call is an error.
Called(call) ==
  CASE call = "malformed" -> "invalid_params"
    [] call = "succeeds"  -> "tool_result"
    [] call = "fails"     -> "tool_error"

\* What dispatch answers, given whether a handshake was completed before.
Dispatched(m, handshaked) ==
  CASE ~MetadataAccepted(m) ->
         IF Meta(m) = "unsupported" THEN "unsupported_version" ELSE "invalid_params"
    [] MetadataAccepted(m) /\ m.method = "server/discover" -> "discovery"
    [] MetadataAccepted(m) /\ m.method = "initialize" ->
         IF handshaked THEN "invalid_request" ELSE "handshake"
    [] MetadataAccepted(m) /\ m.method = "ping" -> "pong"
    [] MetadataAccepted(m) /\ m.method = "tools/list" ->
         IF m.params = "object" /\ m.cursor THEN "invalid_params" ELSE "catalogue"
    [] MetadataAccepted(m) /\ m.method = "tools/call" ->
         IF m.params = "object" THEN Called(m.call) ELSE "invalid_params"
    [] MetadataAccepted(m) /\ m.method = "unknown" -> "method_not_found"

\* initialize: the requested revision when it has a handshake, else the newest that has.
Agreed(m) == IF m.params = "object" /\ m.asks \in Legacy THEN m.asks ELSE LatestLegacy

----------------------------------------------------------------------------
(* Answers and their width.                                                 *)

\* Decimal digits of a limit or a remainder (limits of 10^8 bytes and more are not used).
Digits(n) ==
  CASE n < 10 -> 1
    [] 10 <= n /\ n < 100 -> 2
    [] 100 <= n /\ n < 1000 -> 3
    [] 1000 <= n /\ n < 10000 -> 4
    [] 10000 <= n /\ n < 100000 -> 5
    [] 100000 <= n /\ n < 1000000 -> 6
    [] 1000000 <= n /\ n < 10000000 -> 7
    [] n >= 10000000 -> 8

Minus(a, b) == IF a < b THEN 0 ELSE a - b   \* usize::saturating_sub

\* `"id":`, the id, and a comma.
IdField(id) == IF id = NoId THEN 0 ELSE 6 + IdWidth[id]

Answer(id, what, body) == [id |-> id, what |-> what, width |-> body + IdField(id)]

\* The answer to a message that is not a notification.
RealAnswer(m, handshaked) ==
  LET what == IF Decodable(m) THEN Dispatched(m, handshaked) ELSE "invalid_request"
  IN Answer(ReadId(m), what, IF what \in Tool THEN m.size ELSE BodyWidth[what])

\* Mutant: the refusal is sent with its id whether or not that fits.
RenderAddressed(answer, room, body) ==
  IF answer.width <= room THEN answer ELSE Answer(answer.id, "oversize", body)

\* render_within: the answer, else the refusal addressed to its id, else without an id
\* however little room there is.
RenderWithin(answer, room, body) ==
  CASE answer.width <= room -> answer
    [] answer.width > room /\ body + IdField(answer.id) <= room ->
         Answer(answer.id, "oversize", body)
    [] answer.width > room /\ body + IdField(answer.id) > room ->
         Answer(NoId, "oversize", body)

\* oversize_error, oversize_error_within: the numbers they quote make their width.
OversizeBody(max) == 93 + Digits(max)
OversizeMemberBody(room, max) == 117 + Digits(room) + Digits(max)

RenderBounded(answer, max) == RenderWithin(answer, max, OversizeBody(max))
RenderMember(answer, room, max) == RenderWithin(answer, room, OversizeMemberBody(room, max))
=============================================================================
