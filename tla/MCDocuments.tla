---------------------------- MODULE MCDocuments ----------------------------
(* Every short input, and arrays of objects long enough to make tables, for Documents. *)
EXTENDS JsonReader

\* "exact" tells key lists apart; "length" makes those of one length collide.
MCHash(h, keys) == IF h = "exact" THEN keys ELSE <<ToString(Len(keys))>>

\* "c" is an escaped spelling of "a".
MCMeaning == [s \in {"a", "b", "c"} |-> IF s = "b" THEN "b" ELSE "a"]

\* A reader that runs out of depth, one that runs out of values, one that cannot read "c".
MCReaders ==
  {[max_depth |-> 2, max_nodes |-> 99, unreadable |-> {}],
   [max_depth |-> 4, max_nodes |-> 6, unreadable |-> {}],
   [max_depth |-> 4, max_nodes |-> 99, unreadable |-> {"c"}]}

Member(k, v) == <<k, ":">> \o v
Object(members) == <<"{">> \o Join(members) \o <<"}">>
Array(elements) == <<"[">> \o Join(elements) \o <<"]">>

A == Object(<<Member("a", <<"1">>)>>)
B == Object(<<Member("b", <<"a">>)>>)
AB == Object(<<Member("a", <<"1">>), Member("b", <<"[", "1", ",", "a", "]">>)>>)
BA == Object(<<Member("b", <<"1">>), Member("a", <<"1">>)>>)
AA == Object(<<Member("a", <<"c">>), Member("a", Object(<<>>))>>)
Nested == Object(<<Member("a", Array(<<A, A>>))>>)
Elements == {A, B, AB, BA, AA, Nested, Object(<<>>), <<"1">>, Array(<<A, A>>)}

Arrays == {Array(s) : s \in UNION {[1..n -> Elements] : n \in 2..3}}
Fours == {Array(s) : s \in [1..4 -> {A, B, AB, Object(<<>>)}]}
Around(a) == Object(<<Member("a", <<"1">>), Member("b", a), Member("a", a)>>)

\* Cut short at every token, and with every token put in the place of another.
Long == Array(<<AB, Nested>>)

MCStarts ==
  {<<>>} \cup Arrays \cup Fours
  \cup {Around(Array(s)) : s \in [1..2 -> Elements]}
  \cup {SubSeq(Long, 1, k) : k \in 1..Len(Long)}
  \cup {[Long EXCEPT ![k] = t] : k \in 1..Len(Long), t \in Token}
  \cup {Array(<<Array(s), <<"1">>, Array(s)>>) : s \in [1..2 -> Elements]}
=============================================================================
