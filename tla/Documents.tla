----------------------------- MODULE Documents -----------------------------
(***************************************************************************)
(* What a tape is for: the JSON grammar it decides, and the two encoders    *)
(* that walk it, e1_minify and e2_tabular (tokfold-core). A rendering is a  *)
(* sequence of tokens: E2 copies lexemes, E1 spells strings canonically.    *)
(***************************************************************************)
EXTENDS Tape, Integers, FiniteSets, SequencesExt, FiniteSetsExt, TLC

CONSTANTS
  EmitString,  \* how E1 spells a string (JsonText has the spelling character by character)
  Hashers,     \* the hash functions to consider for shape_hash
  Hash(_, _)   \* Hash(h, keys): the hash of an ordered key list

ASSUME DocumentsAssumption ==
  /\ Strings # {}
  /\ EmitString \in [Strings -> Strings]
  /\ \A s \in Strings : EmitString[EmitString[s]] = EmitString[s]

Last1(s) == s[Len(s)]
Closed == {"object_end", "array_end"}

-----------------------------------------------------------------------------
(* The minifying walk, which E1 and the cells and surroundings of E2 share *)

\* The separator before a value, before a key: a comma after the first in its container.
Comma(frames) == IF Last1(frames).seen THEN <<",">> ELSE <<>>

SeparatorBefore(kind, frames) ==
  IF frames = <<>> THEN <<>>
  ELSE IF kind = "key" \/ (kind \notin Closed /\ Last1(frames).array)
       THEN Comma(frames) ELSE <<>>

FramesAfter(kind, frames) ==
  LET seen == IF frames = <<>> \/ (kind # "key" /\ ~Last1(frames).array) THEN frames
              ELSE [frames EXCEPT ![Len(frames)].seen = TRUE]
  IN CASE kind \in Closed -> SubSeq(frames, 1, Len(frames) - 1)
       [] kind \in Containers -> Append(seen, [array |-> kind = "array", seen |-> FALSE])
       [] OTHER -> seen

\* The tokens of a node itself; spell[s] is how a string is spelled.
Spelling(node, doc, spell) ==
  CASE node.kind = "object"     -> <<"{">>
    [] node.kind = "object_end" -> <<"}">>
    [] node.kind = "array"      -> <<"[">>
    [] node.kind = "array_end"  -> <<"]">>
    [] node.kind = "key"        -> <<spell[doc[node.at]], ":">>
    [] node.kind = "string"     -> <<spell[doc[node.at]]>>
    [] OTHER                    -> <<doc[node.at]>>

Emit(walk, node, doc, spell) ==
  [out |-> walk.out \o SeparatorBefore(node.kind, walk.frames) \o Spelling(node, doc, spell),
   frames |-> FramesAfter(node.kind, walk.frames)]

NothingOut == [out |-> <<>>, frames |-> <<>>]

Verbatim == [s \in Strings |-> s]

\* The walk after each node of a tape, the first of them before any.
Walks(tape, doc, spell) ==
  LET walk[k \in 0..Len(tape)] ==
        IF k = 0 THEN NothingOut ELSE Emit(walk[k - 1], tape[k], doc, spell)
  IN walk

Walk(tape, doc, spell) == Walks(tape, doc, spell)[Len(tape)]

\* emit_compact: the nodes lo..hi as minified JSON, lexemes copied.
Compact(tape, doc, lo, hi) == Walk(SubSeq(tape, lo, hi), doc, Verbatim).out

\* E1's rendering.
Minify(tape, doc) == Walk(tape, doc, EmitString).out

-----------------------------------------------------------------------------
(* E2: which arrays become tables *)

FrameOf(kind, i) ==
  [array |-> kind = "array", start |-> i, keys |-> <<>>, allObjects |-> TRUE,
   elements |-> 0, shapes |-> <<>>]

\* intern: one more of a hash seen before, or a new shape with this element's keys.
Intern(shapes, hash, keys) ==
  IF \E k \in DOMAIN shapes : shapes[k].hash = hash
  THEN [k \in DOMAIN shapes |->
          IF shapes[k].hash = hash THEN [shapes[k] EXCEPT !.count = @ + 1] ELSE shapes[k]]
  ELSE Append(shapes, [hash |-> hash, count |-> 1, header |-> keys])

\* An element that is not an object, one that is, in the frame of an array.
OtherElement(frame) ==
  IF frame.array
  THEN [frame EXCEPT !.elements = @ + 1, !.allObjects = FALSE] ELSE frame

ObjectElement(frame, h, keys) ==
  IF frame.array
  THEN [frame EXCEPT !.elements = @ + 1, !.shapes = Intern(@, Hash(h, keys), keys)]
  ELSE frame

\* Mutant: the later shape wins a tie.
DominantLater(shapes) ==
  shapes[CHOOSE k \in DOMAIN shapes :
           \A j \in DOMAIN shapes :
             shapes[k].count > shapes[j].count
             \/ (shapes[k].count = shapes[j].count /\ k >= j)]

\* finish_array: the shape of the highest count, the earlier on a tie, must repeat and have
\* keys to hoist.
Dominant(shapes) ==
  shapes[CHOOSE k \in DOMAIN shapes :
           \A j \in DOMAIN shapes :
             shapes[k].count > shapes[j].count
             \/ (shapes[k].count = shapes[j].count /\ k <= j)]

Qualifies(frame) ==
  /\ frame.allObjects
  /\ frame.elements >= 2
  /\ Dominant(frame.shapes).count >= 2
  /\ Dominant(frame.shapes).header # <<>>

\* The innermost open frame, if any, becomes this one.
OnTop(frames, frame) ==
  IF frames = <<>> THEN frames ELSE [frames EXCEPT ![Len(frames)] = frame]

\* One turn of analyze: the open frames and the plans made so far.
AnalyzeNode(acc, tape, doc, h, i) ==
  LET node == tape[i]
      done == Last1(acc.frames)
      rest == SubSeq(acc.frames, 1, Len(acc.frames) - 1)
      plan == [start |-> done.start, end |-> i, header |-> Dominant(done.shapes).header]
  IN CASE node.kind \in Containers ->
            [acc EXCEPT !.frames = Append(@, FrameOf(node.kind, i))]
       [] node.kind = "key" ->
            [acc EXCEPT !.frames =
               OnTop(@, [done EXCEPT !.keys = Append(@, doc[node.at])])]
       [] node.kind \in {"string", "scalar"} ->
            [acc EXCEPT !.frames = OnTop(@, OtherElement(done))]
       [] node.kind = "object_end" ->
            [acc EXCEPT !.frames =
               OnTop(rest, ObjectElement(Last1(rest), h, done.keys))]
       [] node.kind = "array_end" ->
            [frames |-> OnTop(rest, OtherElement(Last1(rest))),
             plans |-> IF Qualifies(done) THEN acc.plans \cup {plan} ELSE acc.plans]

Analyze(tape, doc, h) ==
  FoldLeft(LAMBDA acc, i : AnalyzeNode(acc, tape, doc, h, i),
           [frames |-> <<>>, plans |-> {}], [i \in 1..Len(tape) |-> i]).plans

-----------------------------------------------------------------------------
(* E2: the table block *)

\* The last node of the value that starts at v: itself, or the matching end.
ValueEnd(tape, v) ==
  IF tape[v].kind \notin Containers THEN v
  ELSE LET Balance(k) ==
             FoldLeft(LAMBDA d, n : IF n.kind \in Containers THEN d + 1
                                    ELSE IF n.kind \in Closed THEN d - 1 ELSE d,
                      0, SubSeq(tape, v, k))
       IN CHOOSE k \in v..Len(tape) :
            Balance(k) = 0 /\ \A j \in v..(k - 1) : Balance(j) # 0

\* The direct children between two node indices, as <<key, first, last>>; arrays have no keys.
ChildrenOf(tape, doc, lo, hi) ==
  LET Step(acc, i) ==
        IF i <= acc.last THEN acc
        ELSE IF tape[i].kind = "key" THEN [acc EXCEPT !.key = doc[tape[i].at]]
        ELSE [last |-> ValueEnd(tape, i), key |-> "",
              list |-> Append(acc.list, <<acc.key, i, ValueEnd(tape, i)>>)]
  IN FoldLeft(Step, [last |-> lo, key |-> "", list |-> <<>>],
              [k \in 1..(hi - lo - 1) |-> lo + k]).list

KeysOf(members) == [k \in DOMAIN members |-> members[k][1]]

\* The lists, one after the other with a comma between.
Join(lists) ==
  FoldLeft(LAMBDA out, l : IF out = <<>> THEN l ELSE out \o <<",">> \o l, <<>>, lists)

CellsOf(tape, doc, members) ==
  [k \in DOMAIN members |-> Compact(tape, doc, members[k][2], members[k][3])]

\* Mutant: as many keys as the header has make a plain row.
MatchesByCount(members, header) == Len(members) = Len(header)

\* members_match_header: keys are compared, not their hash.
MembersMatchHeader(members, header) == KeysOf(members) = header

Row(tape, doc, lo, hi, header) ==
  LET members == ChildrenOf(tape, doc, lo, hi)
      cells == CellsOf(tape, doc, members)
      pairs == [k \in DOMAIN members |-> <<members[k][1], ":">> \o cells[k]]
  IN IF MembersMatchHeader(members, header)
     THEN <<"+", "[">> \o Join(cells) \o <<"]", "\n">>
     ELSE <<"*", "{">> \o Join(pairs) \o <<"}", "\n">>

\* emit_table: the header line, which counts the rows, then a row for every element.
Table(tape, doc, plan) ==
  LET elements == ChildrenOf(tape, doc, plan.start, plan.end)
      header == [k \in DOMAIN plan.header |-> <<plan.header[k]>>]
  IN <<"\n", "#", ToString(Len(elements)), "[">> \o Join(header) \o <<"]", "\n">>
     \o FlattenSeq([k \in DOMAIN elements |->
                      Row(tape, doc, elements[k][2], elements[k][3], plan.header)])

\* render: minified JSON with a table in the place of every planned array the walk reaches;
\* what is inside such an array is skipped, plans and all.
RenderNode(walk, tape, doc, plans, i) ==
  IF i <= walk.skip THEN walk
  ELSE LET mine == {p \in plans : p.start = i}
           next == Emit(walk, tape[i], doc, Verbatim)
       IN IF mine = {}
          THEN [skip |-> walk.skip, out |-> next.out, frames |-> next.frames]
          ELSE LET plan == CHOOSE p \in mine : TRUE
               IN [skip |-> plan.end,
                   out |-> walk.out \o SeparatorBefore("array", walk.frames)
                           \o Table(tape, doc, plan),
                   frames |-> SubSeq(FramesAfter("array", walk.frames),
                                     1, Len(walk.frames))]

Tabular(tape, doc, h) ==
  LET plans == Analyze(tape, doc, h)
  IN FoldLeft(LAMBDA walk, i : RenderNode(walk, tape, doc, plans, i),
              [skip |-> 0, out |-> <<>>, frames |-> <<>>],
              [i \in 1..Len(tape) |-> i]).out

\* render declines a document without a table.
Declines(tape, doc, h) == Analyze(tape, doc, h) = {}

-----------------------------------------------------------------------------
(* References: the JSON grammar, and a reader of the table block *)

\* The questions a derivation answers: whether the tokens i..j are a value, the elements of
\* an array, the members of an object.
Intervals(doc) == {"value", "elements", "members"} \X (1..Len(doc) + 2) \X (0..Len(doc))

\* The answer to one of them, read off the grammar, from those about shorter intervals.
Derived(doc, derives, x) ==
  LET i == x[2]
      j == x[3]
      Split(what, from) ==
        \/ derives[<<"value", from, j>>]
        \/ \E k \in (from + 1)..(j - 1) :
             /\ doc[k] = ","
             /\ derives[<<"value", from, k - 1>>]
             /\ derives[<<what, k + 1, j>>]
  IN CASE x[1] = "value" ->
            \/ i = j /\ doc[i] \in Strings \cup Scalars
            \/ /\ i < j /\ doc[i] = "[" /\ doc[j] = "]"
               /\ j = i + 1 \/ derives[<<"elements", i + 1, j - 1>>]
            \/ /\ i < j /\ doc[i] = "{" /\ doc[j] = "}"
               /\ j = i + 1 \/ derives[<<"members", i + 1, j - 1>>]
       [] x[1] = "elements" -> i <= j /\ Split("elements", i)
       [] x[1] = "members" ->
            /\ i + 2 <= j /\ doc[i] \in Strings /\ doc[i + 1] = ":"
            /\ Split("members", i + 2)

Derivation(doc) ==
  LET derives[x \in Intervals(doc)] == Derived(doc, derives, x) IN derives

\* doc is a JSON value.
IsJson(doc) == doc # <<>> /\ Derivation(doc)[<<"value", 1, Len(doc)>>]

\* The brackets that would close what the tokens leave open, innermost first.
UnclosedAfter(open, t) ==
  CASE t = "{" -> <<"}">> \o open
    [] t = "[" -> <<"]">> \o open
    [] t \in {"}", "]"} /\ open # <<>> -> Tail(open)
    [] OTHER -> open

Unclosed(tokens) ==
  LET open[k \in 0..Len(tokens)] ==
        IF k = 0 THEN <<>> ELSE UnclosedAfter(open[k - 1], tokens[k])
  IN open[Len(tokens)]

\* Some document begins with these tokens: one that ends as soon as it can is enough.
BeginsSomeJson(tokens) ==
  \E s \in Strings :
    \E fill \in {<<>>, <<s>>, <<":", s>>, <<s, ":", s>>} :
      IsJson(tokens \o fill \o Unclosed(tokens))

\* The fields of a bracketed list, at its own level.
Fields(list) ==
  LET inner == SubSeq(list, 2, Len(list) - 1)
      Step(acc, t) ==
        IF t = "," /\ acc.depth = 0 THEN [acc EXCEPT !.parts = Append(@, <<>>)]
        ELSE [depth |-> CASE t \in {"{", "["} -> acc.depth + 1
                          [] t \in {"}", "]"} -> acc.depth - 1
                          [] OTHER -> acc.depth,
              parts |-> [acc.parts EXCEPT ![Len(acc.parts)] = Append(@, t)]]
  IN IF inner = <<>> THEN <<>>
     ELSE FoldLeft(Step, [depth |-> 0, parts |-> << <<>> >>], inner).parts

Lines(body) ==
  FoldLeft(LAMBDA lines, t : IF t = "\n" THEN Append(lines, <<>>)
                             ELSE [lines EXCEPT ![Len(lines)] = Append(@, t)],
           << <<>> >>, body)

Opens(line, marks) == line # <<>> /\ line[1] \in marks
Corrupt == <<"corrupt">>

\* A row, paired with the header's keys when it is a plain one.
RowText(row, keys) ==
  LET cells == Fields(Tail(row))
      pairs == [k \in DOMAIN cells |-> keys[k] \o <<":">> \o cells[k]]
  IN IF Opens(row, {"*"}) THEN Tail(row)
     ELSE IF Opens(row, {"+"}) /\ Len(cells) = Len(keys)
          THEN <<"{">> \o Join(pairs) \o <<"}">>
          ELSE Corrupt

\* The document a rendering stands for: a header's count says how many lines are its rows,
\* and no other line is one.
ReadTables(body) ==
  LET lines == Lines(body)
      read[i \in 1..(2 * Len(body) + 2)] ==
        IF i > Len(lines) THEN <<>>
        ELSE IF Opens(lines[i], {"+", "*"}) THEN Corrupt
        ELSE IF ~Opens(lines[i], {"#"}) THEN lines[i] \o read[i + 1]
        ELSE LET count == CHOOSE c \in 0..Len(body) : ToString(c) = lines[i][2]
                 keys == Fields(SubSeq(lines[i], 3, Len(lines[i])))
             IN IF i + count > Len(lines) THEN Corrupt
                ELSE <<"[">> \o Join([r \in 1..count |-> RowText(lines[i + r], keys)])
                     \o <<"]">> \o read[i + 1 + count]
  IN read[1]

-----------------------------------------------------------------------------
(* Properties *)

Document == SubSeq(input, 1, Len(input) - 1)
Prefix(k) == SubSeq(input, 1, k)

\* parse decides the JSON grammar, within the depth limit, and stops where it must
\* (tape.rs:161-194): it returns a tape for the documents of the grammar, rejects at the
\* first token no document could have there, and exceeds the depth at the first container
\* too deep.
DecidesTheGrammar ==
  /\ outcome = "tape" => IsJson(Document)
  /\ outcome = "invalid" =>
       /\ BeginsSomeJson(Prefix(pos - 1))
       /\ IF input[pos] = EndOfInput THEN ~IsJson(Prefix(pos - 1))
                                     ELSE ~BeginsSomeJson(Prefix(pos))
  /\ outcome = "too_deep" =>
       /\ BeginsSomeJson(Prefix(pos))
       /\ Len(Unclosed(Prefix(pos))) = MaxDepth + 1
  /\ outcome # "parsing" =>
       \A k \in 1..(pos - 1) : Len(Unclosed(Prefix(k))) <= MaxDepth

\* The end node of a start node, and the values and keys right inside it.
EndNode(i) ==
  CHOOSE k \in i..Len(nodes) :
    /\ nodes[k].depth = nodes[i].depth /\ nodes[k].kind = EndOf(nodes[i].kind)
    /\ \A j \in (i + 1)..(k - 1) : nodes[j].depth > nodes[i].depth

Inside(i) == {k \in (i + 1)..(EndNode(i) - 1) : nodes[k].depth = nodes[i].depth + 1}
ValuesOf(i) == {k \in Inside(i) : nodes[k].kind \notin Closed \cup {"key"}}
KeysAt(i) ==
  LET keys == SetToSortSeq({k \in Inside(i) : nodes[k].kind = "key"}, <)
  IN [k \in DOMAIN keys |-> input[nodes[keys[k]].at]]

\* The tape keeps the document (tape.rs:1-42): walking it gives back every token in its
\* order, duplicate keys included, each start node carries the exact number of its members
\* or elements, and each key stands right before its value. E1's rendering differs in the
\* spelling of strings alone, keys and values alike (e1_minify.rs:36-53).
TapeKeepsTheDocument ==
  outcome = "tape" =>
    /\ Compact(nodes, Document, 1, Len(nodes)) = Document
    /\ Minify(nodes, Document) =
         [k \in DOMAIN Document |->
            IF Document[k] \in Strings THEN EmitString[Document[k]] ELSE Document[k]]
    /\ \A i \in 1..Len(nodes) :
         /\ nodes[i].kind \in Containers => nodes[i].count = Cardinality(ValuesOf(i))
         /\ nodes[i].kind = "key" => nodes[i + 1].kind \notin Closed \cup {"key"}

\* A tbl body is self-contained (e2_tabular.rs:96-105): read by its own grammar alone, with
\* the rows its header counts, it is the document again, even when two key lists collide in
\* shape_hash.
TablesReadBack ==
  outcome = "tape" =>
    \A h \in Hashers :
      Declines(nodes, Document, h)
      \/ ReadTables(Tabular(nodes, Document, h)) = Document

\* The arrays that become tables are those of at least two elements, all objects, whose
\* most frequent key list repeats and is not empty (e2_tabular.rs:126-134), the earliest
\* such list when two are as frequent; lists that collide count as one, under the keys of
\* the first.
SharesKeys(i, j, h) ==
  LET Alike(a, b) == Hash(h, KeysAt(a)) = Hash(h, KeysAt(b))
      Count(a) == Cardinality({b \in ValuesOf(i) : Alike(a, b)})
  IN /\ KeysAt(j) # <<>> /\ Count(j) >= 2
     /\ \A k \in ValuesOf(i) : Count(k) < Count(j) \/ (Count(k) = Count(j) /\ j <= k)

TablesWhereShapesRepeat ==
  outcome = "tape" =>
    \A h \in Hashers :
      LET arrays == {i \in 1..Len(nodes) :
                       /\ nodes[i].kind = "array"
                       /\ \A k \in ValuesOf(i) : nodes[k].kind = "object"}
      IN Analyze(nodes, Document, h) =
           {[start |-> i, end |-> EndNode(i),
             header |-> KeysAt(CHOOSE j \in ValuesOf(i) : SharesKeys(i, j, h))] :
              i \in {a \in arrays : \E j \in ValuesOf(a) : SharesKeys(a, j, h)}}
=============================================================================
