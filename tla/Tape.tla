-------------------------------- MODULE Tape --------------------------------
(***************************************************************************)
(* tape::parse (tokfold-core): the loop that reads a JSON document with an  *)
(* explicit stack of open containers and emits the flat tape of nodes. The  *)
(* input is a sequence of tokens, insignificant whitespace between them; it *)
(* is disclosed as the parser looks at it, so every input is explored       *)
(* without being written out first.                                         *)
(***************************************************************************)
EXTENDS Naturals, Sequences

CONSTANTS
  Strings,    \* string lexemes scan_string accepts
  Scalars,    \* number lexemes scan_number accepts, and null, true, false
  Broken,     \* what no arm of the parser accepts, or a scanner refuses part-way
  EndOfInput,
  MaxDepth,   \* max_depth
  MaxTokens,  \* bound: an input is disclosed up to this many tokens
  Starts      \* the known beginnings of the inputs; <<>> leaves all to disclosure

Punctuation == {"{", "}", "[", "]", ",", ":"}
Token == Punctuation \cup Strings \cup Scalars \cup Broken

ASSUME TapeAssumption ==
  /\ MaxDepth \in Nat /\ MaxTokens \in Nat
  /\ Strings \cap (Punctuation \cup Scalars \cup Broken) = {}
  /\ Scalars \cap (Punctuation \cup Broken) = {}
  /\ Broken \cap Punctuation = {}
  /\ EndOfInput \notin Token
  /\ Starts \subseteq Seq(Token)

VARIABLES
  input,    \* the tokens disclosed so far
  pos,      \* the token the parser stands at; where it rejects, when it does
  state,    \* what the state machine expects next
  stack,    \* open containers, the innermost last
  nodes,    \* the tape
  outcome   \* "parsing", "tape", "invalid" or "too_deep"

vars == <<input, pos, state, stack, nodes, outcome>>

ArrayStates == {"ArrayFirst", "ArrayNext"}
ObjectStates == {"ObjectFirst", "ObjectKey", "ObjectNext"}
States == {"Value", "End"} \cup ArrayStates \cup ObjectStates

Containers == {"object", "array"}
EndOf(kind) == IF kind = "object" THEN "object_end" ELSE "array_end"
Kinds == {"scalar", "string", "key"} \cup Containers \cup {"object_end", "array_end"}

\* A node: its kind, its span (here the token it points at), the children back-patched
\* into a start, and the number of containers around it.
Node == [kind : Kinds, at : Nat, count : Nat, depth : Nat]
Frame == [kind : Containers, start : Nat, count : Nat]

NodeAt(kind, at, depth) == [kind |-> kind, at |-> at, count |-> 0, depth |-> depth]

Top == stack[Len(stack)]
Popped == SubSeq(stack, 1, Len(stack) - 1)

\* One more member or element of the innermost container, if there is one.
Counted ==
  IF stack = <<>> THEN stack ELSE [stack EXCEPT ![Len(stack)].count = @ + 1]

AfterValue(frames) ==
  IF frames = <<>> THEN "End"
  ELSE IF frames[Len(frames)].kind = "array" THEN "ArrayNext" ELSE "ObjectNext"

-----------------------------------------------------------------------------
(* What the parser looks at *)

Disclosed(k) == k <= Len(input)
Under == input[pos]
ReadsKey == state \in {"ObjectFirst", "ObjectKey"} /\ Under \in Strings

\* An iteration looks at the token under pos and, when it reads a key, at the next one.
Looks == Disclosed(pos) /\ (ReadsKey => Disclosed(pos + 1))

\* The input was there all along: the next of its tokens, or its end, comes into view.
Disclose ==
  /\ outcome = "parsing" /\ ~Looks
  /\ \E t \in (IF Len(input) < MaxTokens THEN Token ELSE {}) \cup {EndOfInput} :
       input' = Append(input, t)
  /\ UNCHANGED <<pos, state, stack, nodes, outcome>>

At(s) == outcome = "parsing" /\ state = s /\ Looks

-----------------------------------------------------------------------------
(* The arms of the loop *)

\* Mutant: the limit is held against the containers already open.
OpenPastTheLimit(token, kind, first) ==
  /\ At("Value") /\ Under = token
  /\ IF Len(stack) > MaxDepth
     THEN outcome' = "too_deep" /\ UNCHANGED <<pos, state, stack, nodes>>
     ELSE /\ nodes' = Append(nodes, NodeAt(kind, pos, Len(stack)))
          /\ stack' = Append(stack, [kind |-> kind, start |-> Len(nodes) + 1, count |-> 0])
          /\ pos' = pos + 1
          /\ state' = first
          /\ UNCHANGED outcome
  /\ UNCHANGED input

\* open_container: the depth limit first, then the start node, its count still 0, and a frame.
OpenContainer(token, kind, first) ==
  /\ At("Value") /\ Under = token
  /\ IF Len(stack) + 1 > MaxDepth
     THEN outcome' = "too_deep" /\ UNCHANGED <<pos, state, stack, nodes>>
     ELSE /\ nodes' = Append(nodes, NodeAt(kind, pos, Len(stack)))
          /\ stack' = Append(stack, [kind |-> kind, start |-> Len(nodes) + 1, count |-> 0])
          /\ pos' = pos + 1
          /\ state' = first
          /\ UNCHANGED outcome
  /\ UNCHANGED input

ReadScalar ==
  /\ At("Value") /\ Under \in Strings \cup Scalars
  /\ nodes' = Append(nodes, NodeAt(IF Under \in Strings THEN "string" ELSE "scalar",
                                   pos, Len(stack)))
  /\ pos' = pos + 1
  /\ state' = AfterValue(stack)
  /\ UNCHANGED <<input, stack, outcome>>

\* Mutant: the frame is popped and its count never reaches the start node.
CloseUnpatched ==
  /\ \/ At("ArrayFirst") /\ Under = "]"
     \/ At("ArrayNext") /\ Under = "]"
     \/ At("ObjectFirst") /\ Under = "}"
     \/ At("ObjectNext") /\ Under = "}"
  /\ stack' = Popped
  /\ nodes' = Append(nodes, NodeAt(EndOf(Top.kind), pos, Len(stack) - 1))
  /\ pos' = pos + 1
  /\ state' = AfterValue(stack')
  /\ UNCHANGED <<input, outcome>>

\* close_container: pop, patch the count into the start node, emit the end node. With no
\* frame to pop it does nothing.
CloseContainer ==
  /\ \/ At("ArrayFirst") /\ Under = "]"
     \/ At("ArrayNext") /\ Under = "]"
     \/ At("ObjectFirst") /\ Under = "}"
     \/ At("ObjectNext") /\ Under = "}"
  /\ IF stack = <<>>
     THEN UNCHANGED <<stack, nodes>>
     ELSE /\ stack' = Popped
          /\ nodes' = Append([nodes EXCEPT ![Top.start].count = Top.count],
                             NodeAt(EndOf(Top.kind), pos, Len(stack) - 1))
  /\ pos' = pos + 1
  /\ state' = AfterValue(stack')
  /\ UNCHANGED <<input, outcome>>

\* Anything but the bracket that ends it: the first element, counted, then read as a value
\* from the same position.
FirstElement ==
  /\ At("ArrayFirst") /\ Under \notin {"]", EndOfInput}
  /\ stack' = Counted
  /\ state' = "Value"
  /\ UNCHANGED <<input, pos, nodes, outcome>>

NextElement ==
  /\ At("ArrayNext") /\ Under = ","
  /\ stack' = Counted
  /\ pos' = pos + 1
  /\ state' = "Value"
  /\ UNCHANGED <<input, nodes, outcome>>

\* Mutant: after a comma, an object may also close.
NextMemberOrEnd ==
  /\ At("ObjectNext") /\ Under = ","
  /\ pos' = pos + 1
  /\ state' = "ObjectFirst"
  /\ UNCHANGED <<input, stack, nodes, outcome>>

NextMember ==
  /\ At("ObjectNext") /\ Under = ","
  /\ pos' = pos + 1
  /\ state' = "ObjectKey"
  /\ UNCHANGED <<input, stack, nodes, outcome>>

\* read_key: the key's node, its member counted, then the colon that must follow.
ReadKey ==
  /\ At("ObjectFirst") \/ At("ObjectKey")
  /\ Under \in Strings
  /\ nodes' = Append(nodes, NodeAt("key", pos, Len(stack)))
  /\ stack' = Counted
  /\ IF input[pos + 1] = ":"
     THEN pos' = pos + 2 /\ state' = "Value" /\ UNCHANGED outcome
     ELSE pos' = pos + 1 /\ outcome' = "invalid" /\ UNCHANGED state
  /\ UNCHANGED input

\* Every other token, the end of the input included, is rejected where it stands.
Expected(s) ==
  CASE s = "Value"       -> {"{", "["} \cup Strings \cup Scalars
    [] s = "ArrayFirst"  -> Token
    [] s = "ArrayNext"   -> {",", "]"}
    [] s = "ObjectFirst" -> {"}"} \cup Strings
    [] s = "ObjectKey"   -> Strings
    [] s = "ObjectNext"  -> {",", "}"}
    [] s = "End"         -> {EndOfInput}

Reject ==
  /\ \E s \in States : At(s) /\ Under \notin Expected(s)
  /\ outcome' = "invalid"
  /\ UNCHANGED <<input, pos, state, stack, nodes>>

Finish ==
  /\ At("End") /\ Under = EndOfInput
  /\ outcome' = "tape"
  /\ UNCHANGED <<input, pos, state, stack, nodes>>

-----------------------------------------------------------------------------

Init ==
  /\ input \in Starts
  /\ pos = 1
  /\ state = "Value"
  /\ stack = <<>>
  /\ nodes = <<>>
  /\ outcome = "parsing"

Next ==
  \/ Disclose
  \/ OpenContainer("{", "object", "ObjectFirst")
  \/ OpenContainer("[", "array", "ArrayFirst")
  \/ ReadScalar \/ CloseContainer
  \/ FirstElement \/ NextElement
  \/ ReadKey \/ NextMember
  \/ Reject \/ Finish

Spec == Init /\ [][Next]_vars

-----------------------------------------------------------------------------
(* Properties *)

TapeTypes ==
  /\ input \in Seq(Token \cup {EndOfInput})
  /\ pos \in Nat \ {0}
  /\ state \in States
  /\ stack \in Seq(Frame)
  /\ nodes \in Seq(Node)
  /\ outcome \in {"parsing", "tape", "invalid", "too_deep"}

\* Each open frame, the outermost first, points at its own start node: of its kind, as deep
\* as its place in the stack, and later on the tape than the frame around it.
FramesPointAtStarts ==
  \A k \in 1..Len(stack) :
    /\ stack[k].start \in 1..Len(nodes)
    /\ nodes[stack[k].start].kind = stack[k].kind
    /\ nodes[stack[k].start].depth = k - 1
    /\ \A j \in 1..(k - 1) : stack[j].start < stack[k].start

\* The machine's state and the innermost frame agree.
StateAgreesWithStack ==
  /\ state \in ArrayStates => stack # <<>> /\ Top.kind = "array"
  /\ state \in ObjectStates => stack # <<>> /\ Top.kind = "object"
  /\ state = "End" => stack = <<>>

\* The depth limit bounds the open containers and the depth every node reports.
DepthIsBounded ==
  /\ Len(stack) <= MaxDepth
  /\ \A i \in 1..Len(nodes) : nodes[i].depth <= MaxDepth

\* close_container relies on its caller for a matching frame (tape.rs:414): whatever the
\* input, a closing bracket closes the frame of its own kind, its count is patched into that
\* frame's start node and no other, no container opens past the limit, and a tape is
\* returned only when nothing is left open.
ClosesWhatIsOpen ==
  /\ TapeTypes
  /\ FramesPointAtStarts
  /\ StateAgreesWithStack
  /\ DepthIsBounded
  /\ outcome = "tape" => stack = <<>>
=============================================================================
