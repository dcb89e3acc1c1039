----------------------------- MODULE JsonReader -----------------------------
(***************************************************************************)
(* The recursive-descent reader of the MCP server and its writer            *)
(* (tokfold-mcp: json.rs), over the same tokens as the tape parser. What    *)
(* happens inside a token is in JsonText.                                   *)
(***************************************************************************)
EXTENDS Documents

CONSTANTS
  Meaning,  \* what a string lexeme stands for, as one of its spellings
  Readers   \* readers by their limits, and by the lexemes their scanners refuse

ASSUME JsonReaderAssumption ==
  /\ Meaning \in [Strings -> Strings]
  /\ \A s \in Strings : Meaning[Meaning[s]] = Meaning[s] /\ Meaning[EmitString[s]] = Meaning[s]
  /\ \A r \in Readers :
       /\ r.max_depth \in 0..MaxDepth /\ r.max_nodes \in Nat
       /\ r.unreadable \subseteq Strings \cup Scalars

-----------------------------------------------------------------------------
(* Parser: where it stands, the containers around it, the values so far.    *)

ScalarValue(text) == [type |-> "scalar", text |-> text]
StringValue(s) == [type |-> "string", text |-> Meaning[s]]
ArrayValue(items) == [type |-> "array", items |-> items]
ObjectValue(entries) == [type |-> "object", entries |-> entries]

Start == [pos |-> 1, depth |-> 0, nodes |-> 0]
Bumped(p) == [p EXCEPT !.pos = @ + 1]

Peek(doc, p) == IF p.pos \in DOMAIN doc THEN doc[p.pos] ELSE EndOfInput

Gives(p, value) == [ok |-> TRUE, p |-> p, value |-> value]
Fails(p) == [ok |-> FALSE, p |-> p]

\* Mutant: equal keys are found next to each other alone.
HasAdjacentDuplicate(entries) ==
  \E k \in 1..(Len(entries) - 1) : entries[k][1] = entries[k + 1][1]

\* has_duplicate_key: of the strings the keys stand for.
HasDuplicateKey(entries) ==
  Cardinality({entries[k][1] : k \in DOMAIN entries}) # Len(entries)

RECURSIVE ParseValue(_, _, _), ParseItems(_, _, _, _), ParseEntries(_, _, _, _)

\* nested: the limit is held once the bracket is consumed.
ParseNested(r, doc, p) ==
  LET inside == [Bumped(p) EXCEPT !.depth = @ + 1]
      close  == IF Peek(doc, p) = "[" THEN "]" ELSE "}"
      empty  == IF close = "]" THEN ArrayValue(<<>>) ELSE ObjectValue(<<>>)
      body   == IF close = "]" THEN ParseItems(r, doc, inside, <<>>)
                               ELSE ParseEntries(r, doc, inside, <<>>)
      result == IF Peek(doc, inside) = close THEN Gives(Bumped(inside), empty) ELSE body
  IN IF p.depth >= r.max_depth THEN Fails(Bumped(p))
     ELSE [result EXCEPT !.p.depth = p.depth]

\* parse_value: one more value, over the budget before it is looked at.
ParseValue(r, doc, before) ==
  LET p == [before EXCEPT !.nodes = @ + 1]
      t == Peek(doc, p)
  IN CASE p.nodes > r.max_nodes -> Fails(p)
       [] p.nodes <= r.max_nodes /\ t \in {"[", "{"} -> ParseNested(r, doc, p)
       [] p.nodes <= r.max_nodes /\ t \in Strings \ r.unreadable ->
            Gives(Bumped(p), StringValue(t))
       [] p.nodes <= r.max_nodes /\ t \in Scalars \ r.unreadable ->
            Gives(Bumped(p), ScalarValue(t))
       [] OTHER -> Fails(p)

\* The loop of parse_array: a value, then a comma or the end.
ParseItems(r, doc, p, items) ==
  LET item  == ParseValue(r, doc, p)
      after == Peek(doc, item.p)
      more  == Append(items, item.value)
  IN CASE ~item.ok -> item
       [] item.ok /\ after = "," -> ParseItems(r, doc, Bumped(item.p), more)
       [] item.ok /\ after = "]" -> Gives(Bumped(item.p), ArrayValue(more))
       [] OTHER -> Fails(item.p)

\* The loop of parse_object: a key, a colon and a value; repeated keys are looked for once
\* the object is closed.
ParseEntries(r, doc, p, entries) ==
  LET key   == Peek(doc, p)
      colon == Bumped(p)
      value == ParseValue(r, doc, Bumped(colon))
      after == Peek(doc, value.p)
      more  == Append(entries, <<Meaning[key], value.value>>)
  IN CASE key \notin Strings \ r.unreadable -> Fails(p)
       [] key \in Strings \ r.unreadable /\ Peek(doc, colon) # ":" -> Fails(colon)
       [] key \in Strings \ r.unreadable /\ Peek(doc, colon) = ":" ->
            CASE ~value.ok -> value
              [] value.ok /\ after = "," -> ParseEntries(r, doc, Bumped(value.p), more)
              [] value.ok /\ after = "}" ->
                   IF HasDuplicateKey(more) THEN Fails(Bumped(value.p))
                   ELSE Gives(Bumped(value.p), ObjectValue(more))
              [] OTHER -> Fails(value.p)

\* parse_bounded: one value and nothing after it.
ParseBounded(r, doc) ==
  LET result == ParseValue(r, doc, Start)
  IN IF result.ok /\ Peek(doc, result.p) # EndOfInput THEN Fails(result.p) ELSE result

-----------------------------------------------------------------------------
(* Display for Value: compact, every string in the writer's own spelling.   *)

RECURSIVE Written(_)

Written(value) ==
  CASE value.type \in {"scalar", "string"} -> <<value.text>>
    [] value.type = "array" ->
         <<"[">> \o Join([k \in DOMAIN value.items |-> Written(value.items[k])]) \o <<"]">>
    [] value.type = "object" ->
         <<"{">> \o Join([k \in DOMAIN value.entries |->
                            <<value.entries[k][1], ":">> \o Written(value.entries[k][2])])
                 \o <<"}">>

-----------------------------------------------------------------------------
(* Properties *)

\* The tokens as far as they are disclosed.
Shown == IF Last1(input) = EndOfInput THEN Document ELSE input

\* What a reader must not pass, by the token at which it shows: more values than its
\* budget, more containers than its limit, a lexeme it cannot read, the end of an object in
\* which two keys mean the same.
StartsValue(i) == nodes[i].kind \notin Closed \cup {"key"}

TooMany(r, k) ==
  Cardinality({i \in 1..Len(nodes) : StartsValue(i) /\ nodes[i].at <= k}) > r.max_nodes

TooDeep(r, k) == Len(Unclosed(Prefix(k))) > r.max_depth

StartOf(end) ==
  Max({i \in 1..(end - 1) : nodes[i].kind = "object" /\ nodes[i].depth = nodes[end].depth})

Repeats(k) ==
  \E end \in 1..Len(nodes) :
    /\ nodes[end].kind = "object_end" /\ nodes[end].at = k
    /\ LET keys == KeysAt(StartOf(end))
       IN \E a, b \in DOMAIN keys : a # b /\ Meaning[keys[a]] = Meaning[keys[b]]

Troubles(r) ==
  {k \in 1..Len(Shown) :
     TooMany(r, k) \/ TooDeep(r, k) \/ Shown[k] \in r.unreadable \/ Repeats(k)}

\* The reader takes the documents the tape takes, less those that pass its own limits or
\* repeat a key in any spelling, refuses every other line at the token where the first
\* reason for it shows, never builds more values than its budget, and what it took is
\* written back as it was, but for the spelling of strings (json.rs:346-361, 393-402).
ReaderDecides ==
  outcome # "parsing" =>
    \A r \in Readers :
      LET result == ParseBounded(r, Shown)
          reasons == Troubles(r) \cup (IF outcome = "tape" THEN {} ELSE {pos})
      IN /\ result.ok <=> reasons = {}
         /\ ~result.ok => result.p.pos \in {Min(reasons), Min(reasons) + 1}
         /\ result.ok =>
              /\ result.p.nodes <= r.max_nodes /\ result.p.depth = 0
              /\ Written(result.value) =
                   [k \in DOMAIN Document |->
                      IF Document[k] \in Strings THEN Meaning[Document[k]] ELSE Document[k]]
=============================================================================
