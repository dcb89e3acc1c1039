--------------------------- MODULE MCStdioSession ---------------------------
(* A few lines and small pipes for StdioSession. *)
EXTENDS StdioSession

CONSTANTS one, two, v1

MCIds == {one, two}
MCIdWidth == [i \in MCIds |-> 1]
MCLegacy == {v1}
MCBodyWidth == [w \in Codes \cup Results |-> 90]

Msg(id, method) ==
  [shape |-> "object", id |-> id, jsonrpc |-> TRUE, method |-> method, params |-> "object",
   meta |-> "absent", asks |-> v1, cursor |-> FALSE, call |-> "succeeds", size |-> 500]

\* A request, and a message that is owed nothing although it is malformed.
MCMessages == {Msg(one, "initialize"), [Msg("absent", "ping") EXCEPT !.jsonrpc = FALSE]}

MCBatches == {<<Msg(one, "ping"), Msg(two, "initialize")>>}

\* One line in each pipe and one in the server's hands: the longest burst that may wait.
MCQuotas == {InRoom + OutRoom + 1}
=============================================================================
