---------------------------- MODULE MCSelection ----------------------------
(* Three encoders, small estimates and every order for Selection. *)
EXTENDS Selection

CONSTANTS declined, unset, none

MCIds == 1..3
MCInputs ==
  {[fits |-> TRUE, utf8 |-> TRUE, json |-> "valid", before |-> b, after |-> a] :
     b \in {0, 2, 3, 10000}, a \in [MCIds -> {0, 1, 2, 9999, declined}]}
  \cup {[fits |-> f, utf8 |-> u, json |-> j, before |-> 1, after |-> [i \in MCIds |-> 0]] :
          f \in BOOLEAN, u \in BOOLEAN, j \in {"valid", "invalid", "too_deep"}}
MCOrders == {<<>>, <<1>>, <<1, 2>>, <<2, 0, 1>>, <<3, 1, 2>>, <<2, 3, 2, 1>>}
MCOverrides == {0, 1, 5000, 10001, unset}
=============================================================================
