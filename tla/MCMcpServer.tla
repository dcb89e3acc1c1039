---------------------------- MODULE MCMcpServer ----------------------------
(* Small sets of messages and limits for McpServer. *)
EXTENDS McpServer, SequencesExt

CONSTANTS one, three, wide, v1, v2

MCIds == {one, three, wide}
\* One-digit ids, and a string of 300 bytes.
MCIdWidth == [i \in MCIds |-> IF i = wide THEN 302 ELSE 1]
MCLegacy == {v1, v2}

\* The widths of the program's own answers (the tests pin 143 for a ping with the id 1,
\* and the catalogue starves a batch at the limits it does).
MCBodyWidth ==
  [w \in Codes \cup Results |->
     CASE w = "pong" -> 136
       [] w = "catalogue" -> 2514
       [] w \in {"discovery", "handshake"} -> 1400
       [] OTHER -> 90]

Msg(id, method, meta, asks) ==
  [shape |-> "object", id |-> id, jsonrpc |-> TRUE, method |-> method, params |-> "object",
   meta |-> meta, asks |-> asks, cursor |-> FALSE, call |-> "succeeds", size |-> 500]

Ping(id)    == Msg(id, "ping", "absent", "other")
List(id)    == [Ping(id) EXCEPT !.method = "tools/list"]
Init1(id)   == Msg(id, "initialize", "legacy", v1)
Init2(id)   == Msg(id, "initialize", "absent", "other")
Note        == Msg("absent", "initialize", "absent", v1)

\* Every shape of message a line may hold.
MCMessages ==
  {Ping(one), List(wide), Init1(one), Init2(wide), Note,
   [Ping(one) EXCEPT !.method = "unknown"],
   [Ping(one) EXCEPT !.method = "server/discover", !.meta = "modern"],
   [List(one) EXCEPT !.cursor = TRUE]}
  \cup {[Ping(three) EXCEPT !.method = "tools/call", !.call = c] :
          c \in {"malformed", "succeeds", "fails"}}
  \cup {[Ping(i) EXCEPT !.jsonrpc = FALSE] : i \in {"absent", "null", "unusable", wide}}
  \cup {[Ping(one) EXCEPT !.meta = x] :
          x \in {"not_an_object", "no_version", "version_not_a_string", "unsupported",
                 "modern_without_capabilities"}}
  \cup {[Ping(one) EXCEPT !.shape = "other"], [Ping(one) EXCEPT !.params = "other"],
        [Ping(one) EXCEPT !.method = "unusable"]}

BatchMembers ==
  {Ping(one), List(wide), Init1(one), Init2(three), Note, [Ping("null") EXCEPT !.jsonrpc = FALSE]}

\* The batches the tests measure.
WideInTheMiddle == <<Ping(one), List(wide), Ping(three)>>
WideAtTheEnd    == <<Ping(one), Ping(three), List(wide)>>

MCBatches == UNION {[1..n -> BatchMembers] : n \in 0..3} \cup {WideInTheMiddle, WideAtTheEnd}

\* Limits on both sides of every width there is, and of every boundary the tests found.
MCLimits ==
  {64, 94, 95, 102, 103, 142, 143, 260, 640, 1700, 6000, 100000}
  \cup {392, 393, 399, 400, 412, 413, 576, 577, 700, 701, 707, 708, 720, 721,
        2967, 2968, 3092, 3093, 3099, 3100, 3111, 3112}

----------------------------------------------------------------------------
Collapsed == reply # Silence /\ ~reply.array

Panicked ==
  reply # Silence /\ \E k \in DOMAIN reply.answers : reply.answers[k].what = "internal_error"

\* The windows the tests pin, at the limits on both sides of their bounds: a larger limit
\* collapses a batch that a smaller one answered, twice when the wide member is in the
\* middle and never when it is last; and the three regimes below a ping's own 143 bytes.
\* (handle_batch's running budget and render_within's ladder, against
\* a_larger_limit_can_collapse_a_batch_that_a_smaller_one_answered and
\* a_limit_below_a_real_answer_refuses_in_three_measurably_different_ways)
MeasuredWindows ==
  phase = "answered" /\ ~Panicked =>
    /\ line.items = WideInTheMiddle /\ max >= 95 =>
         (Collapsed <=> max < 393 \/ max \in 577..700 \/ max \in 2968..3092)
    /\ line.items = WideAtTheEnd /\ max >= 95 => (Collapsed <=> max < 413)
    /\ line.items = WideInTheMiddle /\ ~Collapsed =>
         /\ reply.answers[1].what = "pong" \/ max < 393
         /\ (reply.answers[2].id = wide) <=> (max \in 701..2967 \/ max >= 3093)
         /\ (reply.answers[3].what = "pong") <=>
              (max \in 413..576 \/ max \in 721..2967 \/ max >= 3112)
         /\ (reply.answers[3].id = three) <=>
              (max \in 400..576 \/ max \in 708..2967 \/ max >= 3100)
    /\ line = [kind |-> "message", items |-> <<Ping(one)>>] =>
         /\ (reply.answers[1].what = "pong") <=> max >= 143
         /\ (reply.answers[1].id = one) <=> max >= 103
         /\ (reply.width <= max) <=> max >= 95
=============================================================================
