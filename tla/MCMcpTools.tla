---------------------------- MODULE MCMcpTools ----------------------------
(* Short documents over sixteen byte values for McpTools. *)
EXTENDS McpTools

CONSTANT declined

MCMagic == <<5, 4, 7, 6>>

Fingerprint(d) ==
  LET code == FoldLeft(LAMBDA sum, b : ((17 * sum) + b + 1) % 256, 0, d)
  IN <<code % 16, code \div 16>>

\* Documents that no encoder helps, that one helps, and that the second helps more; that
\* are not JSON, nest too deeply, are too long or not UTF-8; lengths of one, two and three
\* groups.
MCDocuments ==
  {<<>>, <<1>>, <<4>>, <<15>>, <<0, 0, 0, 1>>, <<0, 3, 3, 3, 1, 0, 0, 1>>, [k \in 1..64 |-> 1]}

MCIsUtf8(d) == \A k \in DOMAIN d : d[k] # 15
MCParsed(d) ==
  IF d = <<>> THEN "invalid_json" ELSE IF d = <<4>> THEN "depth_exceeded" ELSE "valid"

\* A 0 is white space; the second encoder folds the 3s, where there are any.
MCTokens(text) == Len(text)
MCBodyOf(e, d) ==
  CASE e = 1 -> SelectSeq(d, LAMBDA b : b # 0)
    [] e = 2 -> IF \E k \in DOMAIN d : d[k] = 3 THEN SelectSeq(d, LAMBDA b : b \notin {0, 3})
                ELSE declined

\* A 3 is spelled as an escape of two bytes.
MCSpelled(text) == Len(text) + Cardinality({k \in DOMAIN text : text[k] = 3})

\* Two changes where archives are short.
MCMaxDamage(d) == IF Len(d) <= 1 /\ d # <<4>> THEN 2 ELSE 1
=============================================================================
