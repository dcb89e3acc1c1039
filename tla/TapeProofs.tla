----------------------------- MODULE TapeProofs -----------------------------
(***************************************************************************)
(* The parser's stack, tape and state agree, for any input and limit, the    *)
(* tape keeps the document, whatever it is, and the parser decides the JSON  *)
(* grammar, for any lexemes and any depth limit.  The grammar is a recursion *)
(* over intervals of a document; it is turned into what is left to read from *)
(* a place on, in the parser's state and with its open containers, and then  *)
(* followed one token after the other.                                       *)
(***************************************************************************)
EXTENDS Documents, SequenceTheorems, FiniteSetTheorems, WellFoundedInduction, TLAPS

\* Counting a member changes no frame's kind or start, and no length.
LEMMA CountedKeepsFrames ==
  ASSUME stack \in Seq(Frame)
  PROVE  /\ Counted \in Seq(Frame)
         /\ Len(Counted) = Len(stack)
         /\ \A k \in 1..Len(stack) :
              Counted[k].kind = stack[k].kind /\ Counted[k].start = stack[k].start
<1>1. CASE stack = <<>>
  BY <1>1 DEF Counted
<1>2. CASE stack # <<>>
  <2>1. /\ Len(stack) \in Nat \ {0} /\ DOMAIN stack = 1..Len(stack)
        /\ \A k \in 1..Len(stack) : stack[k] \in Frame
    BY <1>2, EmptySeq, LenProperties, SMT
  <2> DEFINE last == [Top EXCEPT !.count = Top.count + 1]
  <2>0. Top \in Frame
    BY <2>1 DEF Top
  <2>2. last \in Frame /\ last.kind = Top.kind /\ last.start = Top.start
    BY <2>0, SMT DEF Frame
  <2>3. Counted = [stack EXCEPT ![Len(stack)] = last]
    BY <1>2 DEF Counted, Top
  <2> HIDE DEF last
  <2>4. /\ Counted \in Seq(Frame) /\ Len(Counted) = Len(stack)
        /\ \A k \in 1..Len(stack) :
             Counted[k] = IF k = Len(stack) THEN last ELSE stack[k]
    BY <2>1, <2>2, <2>3, ExceptSeq, SMT
  <2>5. \A k \in 1..Len(stack) :
          Counted[k].kind = stack[k].kind /\ Counted[k].start = stack[k].start
    BY <2>2, <2>4 DEF Top
  <2> QED
    BY <2>4, <2>5
<1> QED
  BY <1>1, <1>2

\* The frames but the innermost, untouched.
LEMMA PoppedKeepsFrames ==
  ASSUME stack \in Seq(Frame), stack # <<>>
  PROVE  /\ Popped \in Seq(Frame)
         /\ Len(Popped) = Len(stack) - 1
         /\ \A k \in 1..(Len(stack) - 1) : Popped[k] = stack[k]
         /\ Top \in Frame /\ Len(stack) \in Nat \ {0}
<1>1. Len(stack) \in Nat \ {0} /\ \A k \in 1..Len(stack) : stack[k] \in Frame
  BY EmptySeq, LenProperties, SMT
<1>2. /\ Popped \in Seq(Frame)
      /\ Len(Popped) = Len(stack) - 1
      /\ \A k \in 1..(Len(stack) - 1) : Popped[k] = stack[k]
  <2> DEFINE n == Len(stack) - 1
  <2>1. n \in Int /\ 1 \in Int /\ \A i \in 1..n : stack[i] \in Frame
    BY <1>1, SMT
  <2> HIDE DEF n
  <2>2. /\ SubSeq(stack, 1, n) \in Seq(Frame)
        /\ Len(SubSeq(stack, 1, n)) = IF 1 <= n THEN n - 1 + 1 ELSE 0
        /\ \A k \in 1..(n - 1 + 1) : SubSeq(stack, 1, n)[k] = stack[1 + k - 1]
    BY <2>1, SubSeqProperties
  <2>3. n \in Nat /\ n - 1 + 1 = n
    BY <1>1, SMT DEF n
  <2>4. \A k \in 1..n : SubSeq(stack, 1, n)[k] = stack[k]
    <3> TAKE k \in 1..n
    <3>1. k \in 1..(n - 1 + 1) /\ 1 + k - 1 = k
      BY <2>3, SMT
    <3> QED
      BY <2>2, <3>1
  <2>5. Len(SubSeq(stack, 1, n)) = n
    BY <2>2, <2>3, SMT
  <2> QED
    BY <2>2, <2>4, <2>5 DEF Popped, n
<1> QED
  BY <1>1, <1>2 DEF Top

\* A node appended is of the type, and the others stay where they are.
LEMMA NodeAppended ==
  ASSUME nodes \in Seq(Node), NEW kind \in Kinds, NEW d \in Nat, NEW at \in Nat
  PROVE  LET longer == Append(nodes, NodeAt(kind, at, d))
         IN /\ longer \in Seq(Node)
            /\ Len(longer) = Len(nodes) + 1
            /\ \A i \in 1..Len(nodes) : longer[i] = nodes[i]
            /\ longer[Len(nodes) + 1].kind = kind
            /\ longer[Len(nodes) + 1].depth = d
<1> DEFINE new == NodeAt(kind, at, d)
<1>1. new \in Node /\ new.kind = kind /\ new.depth = d
  BY DEF Node, NodeAt
<1> HIDE DEF new
<1>2. Len(nodes) \in Nat
  BY LenProperties
<1>3. /\ Append(nodes, new) \in Seq(Node)
      /\ Len(Append(nodes, new)) = Len(nodes) + 1
      /\ \A i \in 1..Len(nodes) : Append(nodes, new)[i] = nodes[i]
      /\ Append(nodes, new)[Len(nodes) + 1] = new
  BY <1>1, AppendProperties, SMT
<1> QED
  BY <1>1, <1>3 DEF new

\* After a value the state is the one the innermost open frame calls for.
LEMMA AfterValueAgrees ==
  ASSUME NEW frames \in Seq(Frame)
  PROVE  /\ AfterValue(frames) \in {"End", "ArrayNext", "ObjectNext"}
         /\ AfterValue(frames) = "End" => frames = <<>>
         /\ AfterValue(frames) = "ArrayNext" =>
              frames # <<>> /\ frames[Len(frames)].kind = "array"
         /\ AfterValue(frames) = "ObjectNext" =>
              frames # <<>> /\ frames[Len(frames)].kind = "object"
<1>1. frames # <<>> => frames[Len(frames)] \in Frame
  BY EmptySeq, LenProperties, SMT
<1> QED
  BY <1>1 DEF AfterValue, Frame, Containers

\* The first state.
LEMMA AtFirst == Init => ClosesWhatIsOpen
<1> SUFFICES ASSUME Init PROVE ClosesWhatIsOpen
  OBVIOUS
<1>1. TapeTypes
  <2>1. input \in Seq(Token \cup {EndOfInput})
    BY TapeAssumption, SMT DEF Init
  <2> QED
    BY <2>1, EmptySeq DEF Init, TapeTypes, States
<1>2. Len(stack) = 0 /\ Len(nodes) = 0
  BY EmptySeq DEF Init
<1>3. FramesPointAtStarts /\ DepthIsBounded
  BY <1>2, TapeAssumption, SMT DEF FramesPointAtStarts, DepthIsBounded
<1>4. StateAgreesWithStack
  BY DEF Init, StateAgreesWithStack, ArrayStates, ObjectStates
<1> QED
  BY <1>1, <1>3, <1>4 DEF ClosesWhatIsOpen, Init

\* A step that keeps the frames it leaves, and the nodes there were, but for counts.
LEMMA FramesKept ==
  ASSUME TapeTypes, FramesPointAtStarts, DepthIsBounded,
         TapeTypes',
         Len(stack') <= Len(stack),
         \A k \in 1..Len(stack') :
           stack'[k].kind = stack[k].kind /\ stack'[k].start = stack[k].start,
         Len(nodes') \in {Len(nodes), Len(nodes) + 1},
         \A i \in 1..Len(nodes) :
           nodes'[i].kind = nodes[i].kind /\ nodes'[i].depth = nodes[i].depth,
         Len(nodes') = Len(nodes) + 1 => nodes'[Len(nodes) + 1].depth <= MaxDepth
  PROVE  FramesPointAtStarts' /\ DepthIsBounded'
<1>1. Len(stack) \in Nat /\ Len(stack') \in Nat /\ Len(nodes) \in Nat
  BY LenProperties DEF TapeTypes
<1>2. FramesPointAtStarts'
  <2> SUFFICES ASSUME NEW k \in 1..Len(stack')
               PROVE  /\ stack'[k].start \in 1..Len(nodes')
                      /\ nodes'[stack'[k].start].kind = stack'[k].kind
                      /\ nodes'[stack'[k].start].depth = k - 1
                      /\ \A j \in 1..(k - 1) : stack'[j].start < stack'[k].start
    BY DEF FramesPointAtStarts
  <2>1. /\ k \in 1..Len(stack)
        /\ 1..(k - 1) \subseteq 1..Len(stack') /\ 1..Len(nodes) \subseteq 1..Len(nodes')
    BY <1>1, SMT
  <2>2. /\ stack[k].start \in 1..Len(nodes)
        /\ nodes[stack[k].start].kind = stack[k].kind
        /\ nodes[stack[k].start].depth = k - 1
        /\ \A j \in 1..(k - 1) : stack[j].start < stack[k].start
    BY <2>1 DEF FramesPointAtStarts
  <2>3. stack'[k].kind = stack[k].kind /\ stack'[k].start = stack[k].start
    OBVIOUS
  <2>4. \A j \in 1..(k - 1) : stack'[j].start = stack[j].start
    BY <2>1
  <2> QED
    BY <2>1, <2>2, <2>3, <2>4
<1>3. DepthIsBounded'
  <2>1. Len(stack') <= MaxDepth
    BY <1>1, TapeAssumption, SMT DEF DepthIsBounded
  <2>2. \A i \in 1..Len(nodes') : nodes'[i].depth <= MaxDepth
    BY <1>1, SMT DEF DepthIsBounded
  <2> QED
    BY <2>1, <2>2 DEF DepthIsBounded
<1> QED
  BY <1>2, <1>3

\* Opening: the new frame points at the node just appended.
LEMMA OpenKeeps ==
  ASSUME ClosesWhatIsOpen, NEW token, NEW kind \in Containers,
         NEW first \in {"ArrayFirst", "ObjectFirst"},
         first = IF kind = "array" THEN "ArrayFirst" ELSE "ObjectFirst",
         OpenContainer(token, kind, first)
  PROVE  ClosesWhatIsOpen'
<1>1. CASE Len(stack) + 1 > MaxDepth
  BY <1>1 DEF OpenContainer, At, ClosesWhatIsOpen, TapeTypes, FramesPointAtStarts,
              StateAgreesWithStack, DepthIsBounded, Top
<1>2. CASE ~(Len(stack) + 1 > MaxDepth)
  <2> DEFINE frame == [kind |-> kind, start |-> Len(nodes) + 1, count |-> 0]
  <2>1. /\ Len(stack) \in Nat /\ Len(nodes) \in Nat
        /\ nodes' = Append(nodes, NodeAt(kind, pos, Len(stack)))
        /\ stack' = Append(stack, frame)
        /\ pos' = pos + 1 /\ state' = first /\ outcome' = outcome /\ input' = input
        /\ outcome = "parsing"
    BY <1>2, LenProperties DEF OpenContainer, At, ClosesWhatIsOpen, TapeTypes
  <2>2. frame \in Frame /\ frame.kind = kind /\ frame.start = Len(nodes) + 1
    BY <2>1, SMT DEF Frame
  <2> HIDE DEF frame
  <2>3. /\ nodes' \in Seq(Node) /\ Len(nodes') = Len(nodes) + 1
        /\ \A i \in 1..Len(nodes) : nodes'[i] = nodes[i]
        /\ nodes'[Len(nodes) + 1].kind = kind
        /\ nodes'[Len(nodes) + 1].depth = Len(stack)
    <3>1. kind \in Kinds /\ pos \in Nat /\ nodes \in Seq(Node)
      BY DEF ClosesWhatIsOpen, TapeTypes, Kinds
    <3> QED
      BY <2>1, <3>1, NodeAppended
  <2>4. /\ stack' \in Seq(Frame) /\ Len(stack') = Len(stack) + 1
        /\ \A k \in 1..Len(stack) : stack'[k] = stack[k]
        /\ stack'[Len(stack) + 1] = frame
    BY <2>1, <2>2, AppendProperties, SMT DEF ClosesWhatIsOpen, TapeTypes
  <2>5. TapeTypes'
    BY <2>1, <2>3, <2>4 DEF ClosesWhatIsOpen, TapeTypes, States, ArrayStates, ObjectStates
  <2>6. FramesPointAtStarts'
    <3> SUFFICES ASSUME NEW k \in 1..Len(stack')
                 PROVE  /\ stack'[k].start \in 1..Len(nodes')
                        /\ nodes'[stack'[k].start].kind = stack'[k].kind
                        /\ nodes'[stack'[k].start].depth = k - 1
                        /\ \A j \in 1..(k - 1) : stack'[j].start < stack'[k].start
      BY DEF FramesPointAtStarts
    <3>0. \A j \in 1..Len(stack) :
            /\ stack[j].start \in 1..Len(nodes)
            /\ nodes[stack[j].start].kind = stack[j].kind
            /\ nodes[stack[j].start].depth = j - 1
            /\ \A l \in 1..(j - 1) : stack[l].start < stack[j].start
      BY DEF ClosesWhatIsOpen, FramesPointAtStarts
    <3>1. CASE k \in 1..Len(stack)
      <4>1. 1..(k - 1) \subseteq 1..Len(stack)
        BY <2>1, <3>1, SMT
      <4>2. stack'[k] = stack[k] /\ \A j \in 1..(k - 1) : stack'[j] = stack[j]
        BY <2>4, <3>1, <4>1
      <4>3. stack[k].start \in 1..Len(nodes') /\ nodes'[stack[k].start] = nodes[stack[k].start]
        BY <2>1, <2>3, <3>0, <3>1, SMT
      <4> QED
        BY <3>0, <3>1, <4>2, <4>3
    <3>2. CASE k = Len(stack) + 1
      <4>1. \A j \in 1..(k - 1) : stack'[j].start < Len(nodes) + 1
        BY <2>1, <2>4, <3>0, <3>2, SMT
      <4> QED
        BY <2>1, <2>2, <2>3, <2>4, <3>2, <4>1, SMT
    <3> QED
      BY <2>1, <2>4, <3>1, <3>2, SMT
  <2>7. DepthIsBounded'
    <3>1. Len(stack') <= MaxDepth
      BY <1>2, <2>1, <2>4, TapeAssumption, SMT
    <3>2. \A i \in 1..Len(nodes') : nodes'[i].depth <= MaxDepth
      BY <1>2, <2>1, <2>3, TapeAssumption, SMT DEF ClosesWhatIsOpen, DepthIsBounded
    <3> QED
      BY <3>1, <3>2 DEF DepthIsBounded
  <2>8. StateAgreesWithStack'
    <3>1. stack' # <<>> /\ stack'[Len(stack')].kind = kind
      BY <2>1, <2>2, <2>4, EmptySeq, SMT
    <3>2. /\ state' \in ArrayStates => kind = "array"
          /\ state' \in ObjectStates => kind = "object"
          /\ state' # "End"
      BY <2>1, SMT DEF ArrayStates, ObjectStates, Containers
    <3>3. Top' = stack'[Len(stack')]
      BY DEF Top
    <3> QED
      BY <3>1, <3>2, <3>3 DEF StateAgreesWithStack
  <2> QED
    BY <2>1, <2>5, <2>6, <2>7, <2>8 DEF ClosesWhatIsOpen
<1> QED
  BY <1>1, <1>2

\* A step that appends one node at the depth of the stack, or none, and leaves the frames,
\* or counts one more member in the innermost.
LEMMA SameFrames ==
  ASSUME ClosesWhatIsOpen, TapeTypes',
         stack' \in {stack, Counted},
         nodes' = nodes \/ \E kind \in Kinds :
                             nodes' = Append(nodes, NodeAt(kind, pos, Len(stack)))
  PROVE  /\ FramesPointAtStarts' /\ DepthIsBounded'
         /\ (stack' = <<>>) = (stack = <<>>)
         /\ stack # <<>> => Top'.kind = Top.kind
<1>1. /\ Len(stack) \in Nat /\ Len(nodes) \in Nat
      /\ stack \in Seq(Frame) /\ nodes \in Seq(Node)
  BY LenProperties DEF ClosesWhatIsOpen, TapeTypes
<1>2. /\ Len(stack') = Len(stack)
      /\ \A k \in 1..Len(stack) :
           stack'[k].kind = stack[k].kind /\ stack'[k].start = stack[k].start
  BY <1>1, CountedKeepsFrames
<1>3. /\ Len(nodes') \in {Len(nodes), Len(nodes) + 1}
      /\ \A i \in 1..Len(nodes) :
           nodes'[i].kind = nodes[i].kind /\ nodes'[i].depth = nodes[i].depth
      /\ Len(nodes') = Len(nodes) + 1 => nodes'[Len(nodes) + 1].depth <= MaxDepth
  <2>1. CASE nodes' = nodes
    BY <1>1, <2>1, SMT
  <2>2. CASE \E kind \in Kinds : nodes' = Append(nodes, NodeAt(kind, pos, Len(stack)))
    <3>1. PICK kind \in Kinds : nodes' = Append(nodes, NodeAt(kind, pos, Len(stack)))
      BY <2>2
    <3>2. /\ Len(nodes') = Len(nodes) + 1
          /\ \A i \in 1..Len(nodes) : nodes'[i] = nodes[i]
          /\ nodes'[Len(nodes) + 1].depth = Len(stack)
      BY <1>1, <3>1, NodeAppended DEF ClosesWhatIsOpen, TapeTypes
    <3> QED
      BY <1>1, <3>2 DEF ClosesWhatIsOpen, DepthIsBounded
  <2> QED
    BY <2>1, <2>2
<1>4. FramesPointAtStarts' /\ DepthIsBounded'
  <2>1. Len(stack') <= Len(stack)
    BY <1>1, <1>2, SMT
  <2>2. \A k \in 1..Len(stack') :
          stack'[k].kind = stack[k].kind /\ stack'[k].start = stack[k].start
    BY <1>2
  <2> QED
    BY <1>3, <2>1, <2>2, FramesKept DEF ClosesWhatIsOpen
<1>5. (stack' = <<>>) = (stack = <<>>)
  BY <1>1, <1>2, EmptySeq DEF TapeTypes
<1>6. stack # <<>> => Top'.kind = Top.kind
  <2>1. stack # <<>> => Len(stack) \in 1..Len(stack)
    BY <1>1, EmptySeq, SMT
  <2> QED
    BY <1>2, <2>1 DEF Top
<1> QED
  BY <1>4, <1>5, <1>6

\* Closing: the frames below stay, one start node has its count, and the state is the one
\* the frame around calls for.
LEMMA CloseKeeps == ClosesWhatIsOpen /\ CloseContainer => ClosesWhatIsOpen'
<1> SUFFICES ASSUME ClosesWhatIsOpen, CloseContainer PROVE ClosesWhatIsOpen'
  OBVIOUS
<1>1. stack # <<>> /\ outcome = "parsing"
  BY DEF CloseContainer, At, ClosesWhatIsOpen, StateAgreesWithStack, ArrayStates, ObjectStates
<1>2. stack \in Seq(Frame) /\ nodes \in Seq(Node) /\ pos \in Nat \ {0}
  BY DEF ClosesWhatIsOpen, TapeTypes
<1>3. /\ Popped \in Seq(Frame) /\ Len(Popped) = Len(stack) - 1
      /\ \A k \in 1..(Len(stack) - 1) : Popped[k] = stack[k]
      /\ Top \in Frame /\ Len(stack) \in Nat \ {0} /\ Len(nodes) \in Nat
  BY <1>1, <1>2, PoppedKeepsFrames, LenProperties
<1>4. Top.start \in 1..Len(nodes)
  BY <1>3, SMT DEF ClosesWhatIsOpen, FramesPointAtStarts, Top
<1> DEFINE patched == [nodes EXCEPT ![Top.start].count = Top.count]
           start == [nodes[Top.start] EXCEPT !.count = Top.count]
           end == NodeAt(EndOf(Top.kind), pos, Len(stack) - 1)
<1>5. /\ stack' = Popped /\ nodes' = Append(patched, end)
      /\ pos' = pos + 1 /\ state' = AfterValue(Popped)
      /\ input' = input /\ outcome' = outcome
  BY <1>1 DEF CloseContainer
<1>6. /\ start \in Node /\ start.kind = nodes[Top.start].kind
      /\ start.depth = nodes[Top.start].depth
  <2>1. nodes[Top.start] \in Node /\ Top.count \in Nat
    BY <1>2, <1>3, <1>4, SMT DEF Frame
  <2> QED
    BY <2>1, SMT DEF Node
<1>7. /\ patched \in Seq(Node) /\ Len(patched) = Len(nodes)
      /\ \A i \in 1..Len(nodes) :
           patched[i].kind = nodes[i].kind /\ patched[i].depth = nodes[i].depth
  <2>1. patched = [nodes EXCEPT ![Top.start] = start]
    OBVIOUS
  <2> HIDE DEF start, patched
  <2>2. /\ patched \in Seq(Node) /\ Len(patched) = Len(nodes)
        /\ \A i \in 1..Len(nodes) :
             patched[i] = IF i = Top.start THEN start ELSE nodes[i]
    BY <1>2, <1>4, <1>6, <2>1, ExceptSeq
  <2> QED
    BY <1>6, <2>2
<1>8. end \in Node /\ end.depth = Len(stack) - 1
  <2>1. EndOf(Top.kind) \in Kinds
    BY DEF EndOf, Kinds
  <2>2. Len(stack) - 1 \in Nat /\ pos \in Nat
    BY <1>2, <1>3, SMT
  <2> QED
    BY <2>1, <2>2 DEF Node, NodeAt
<1> HIDE DEF patched, start, end
<1>9. /\ nodes' \in Seq(Node) /\ Len(nodes') = Len(nodes) + 1
      /\ \A i \in 1..Len(nodes) : nodes'[i] = patched[i]
      /\ nodes'[Len(nodes) + 1] = end
  BY <1>5, <1>7, <1>8, AppendProperties, SMT
<1>10. TapeTypes'
  BY <1>2, <1>3, <1>5, <1>9, AfterValueAgrees
     DEF ClosesWhatIsOpen, TapeTypes, States, ArrayStates, ObjectStates
<1>11. FramesPointAtStarts' /\ DepthIsBounded'
  <2>1. Len(stack') <= Len(stack)
    BY <1>3, <1>5, SMT
  <2>2. \A k \in 1..Len(stack') :
          stack'[k].kind = stack[k].kind /\ stack'[k].start = stack[k].start
    BY <1>3, <1>5
  <2>3. \A i \in 1..Len(nodes) :
          nodes'[i].kind = nodes[i].kind /\ nodes'[i].depth = nodes[i].depth
    BY <1>7, <1>9
  <2>4. Len(stack) - 1 <= MaxDepth
    BY <1>3, TapeAssumption, SMT DEF ClosesWhatIsOpen, DepthIsBounded
  <2> QED
    BY <1>8, <1>9, <1>10, <2>1, <2>2, <2>3, <2>4, FramesKept DEF ClosesWhatIsOpen
<1>12. StateAgreesWithStack'
  <2>1. state' = AfterValue(stack') /\ stack' \in Seq(Frame) /\ Top' = stack'[Len(stack')]
    BY <1>3, <1>5 DEF Top
  <2> QED
    BY <2>1, AfterValueAgrees DEF StateAgreesWithStack, ArrayStates, ObjectStates
<1> QED
  BY <1>1, <1>5, <1>10, <1>11, <1>12 DEF ClosesWhatIsOpen

\* Every step keeps the property.
LEMMA EveryStepKeeps == ClosesWhatIsOpen /\ [Next]_vars => ClosesWhatIsOpen'
<1> SUFFICES ASSUME ClosesWhatIsOpen, [Next]_vars PROVE ClosesWhatIsOpen'
  OBVIOUS
<1> USE DEF At
<1>0. /\ stack \in Seq(Frame) /\ nodes \in Seq(Node) /\ pos \in Nat \ {0}
      /\ Len(stack) \in Nat
  BY LenProperties DEF ClosesWhatIsOpen, TapeTypes
<1>1. CASE Disclose
  <2>1. input' \in Seq(Token \cup {EndOfInput})
    <3>1. PICK t \in Token \cup {EndOfInput} : input' = Append(input, t)
      BY <1>1 DEF Disclose
    <3> QED
      BY <3>1, AppendProperties DEF ClosesWhatIsOpen, TapeTypes
  <2> QED
    BY <1>1, <2>1 DEF Disclose, ClosesWhatIsOpen, TapeTypes, FramesPointAtStarts,
                      StateAgreesWithStack, DepthIsBounded, Top
<1>2. CASE OpenContainer("{", "object", "ObjectFirst")
  BY <1>2, OpenKeeps DEF Containers
<1>3. CASE OpenContainer("[", "array", "ArrayFirst")
  BY <1>3, OpenKeeps DEF Containers
<1>4. CASE ReadScalar
  <2> DEFINE kind == IF Under \in Strings THEN "string" ELSE "scalar"
  <2>1. kind \in Kinds
    BY DEF Kinds
  <2>2. /\ nodes' = Append(nodes, NodeAt(kind, pos, Len(stack)))
        /\ stack' = stack /\ input' = input /\ outcome' = outcome
        /\ pos' = pos + 1 /\ state' = AfterValue(stack) /\ outcome = "parsing"
    BY <1>4 DEF ReadScalar
  <2> HIDE DEF kind
  <2>3. nodes' \in Seq(Node)
    BY <1>0, <2>1, <2>2, NodeAppended
  <2>4. TapeTypes'
    BY <1>0, <2>2, <2>3, AfterValueAgrees
       DEF ClosesWhatIsOpen, TapeTypes, States, ArrayStates, ObjectStates
  <2>5. FramesPointAtStarts' /\ DepthIsBounded'
    BY <2>1, <2>2, <2>4, SameFrames
  <2>6. StateAgreesWithStack'
    BY <1>0, <2>2, AfterValueAgrees DEF StateAgreesWithStack, ArrayStates, ObjectStates, Top
  <2> QED
    BY <2>2, <2>4, <2>5, <2>6 DEF ClosesWhatIsOpen
<1>5. CASE CloseContainer
  BY <1>5, CloseKeeps
<1>6. CASE FirstElement \/ NextElement \/ NextMember
  <2>1. /\ stack' \in {stack, Counted} /\ nodes' = nodes /\ outcome' = outcome
        /\ input' = input /\ pos' \in {pos, pos + 1} /\ outcome = "parsing"
        /\ \/ state' = "Value"
           \/ state' = "ObjectKey" /\ stack # <<>> /\ Top.kind = "object"
    BY <1>6 DEF FirstElement, NextElement, NextMember, ClosesWhatIsOpen,
                StateAgreesWithStack, ObjectStates
  <2>2. TapeTypes'
    BY <1>0, <2>1, CountedKeepsFrames DEF ClosesWhatIsOpen, TapeTypes, States, ObjectStates
  <2>3. /\ FramesPointAtStarts' /\ DepthIsBounded'
        /\ (stack' = <<>>) = (stack = <<>>)
        /\ stack # <<>> => Top'.kind = Top.kind
    BY <2>1, <2>2, SameFrames
  <2>4. StateAgreesWithStack'
    BY <2>1, <2>3 DEF StateAgreesWithStack, ArrayStates, ObjectStates
  <2> QED
    BY <2>1, <2>2, <2>3, <2>4 DEF ClosesWhatIsOpen
<1>7. CASE ReadKey
  <2>1. /\ stack' = Counted /\ nodes' = Append(nodes, NodeAt("key", pos, Len(stack)))
        /\ input' = input /\ pos' \in {pos + 1, pos + 2}
        /\ state' \in {state, "Value"} /\ outcome' \in {"parsing", "invalid"}
        /\ state \in ObjectStates
    BY <1>7 DEF ReadKey, ObjectStates
  <2>2. "key" \in Kinds /\ pos \in Nat
    BY <1>0 DEF Kinds
  <2>3. nodes' \in Seq(Node)
    BY <1>0, <2>1, <2>2, NodeAppended
  <2>4. TapeTypes'
    BY <1>0, <2>1, <2>3, CountedKeepsFrames DEF ClosesWhatIsOpen, TapeTypes, States
  <2>5. /\ FramesPointAtStarts' /\ DepthIsBounded'
        /\ (stack' = <<>>) = (stack = <<>>)
        /\ stack # <<>> => Top'.kind = Top.kind
    BY <2>1, <2>2, <2>4, SameFrames
  <2>6. StateAgreesWithStack'
    BY <2>1, <2>5 DEF ClosesWhatIsOpen, StateAgreesWithStack, ArrayStates, ObjectStates
  <2> QED
    BY <2>1, <2>4, <2>5, <2>6 DEF ClosesWhatIsOpen
<1>8. CASE Reject \/ Finish
  <2>1. /\ UNCHANGED <<input, pos, state, stack, nodes>>
        /\ outcome' = "invalid" \/ (outcome' = "tape" /\ state = "End")
    BY <1>8 DEF Reject, Finish
  <2> QED
    BY <2>1 DEF ClosesWhatIsOpen, TapeTypes, FramesPointAtStarts, StateAgreesWithStack,
                DepthIsBounded, Top
<1>9. CASE UNCHANGED vars
  BY <1>9 DEF vars, ClosesWhatIsOpen, TapeTypes, FramesPointAtStarts, StateAgreesWithStack,
              DepthIsBounded, Top
<1> QED
  BY <1>1, <1>2, <1>3, <1>4, <1>5, <1>6, <1>7, <1>8, <1>9 DEF Next

\* Whatever the input and the limit, the parser closes the frames it opened, in order, each
\* by its own bracket, holds the depth limit, and returns a tape only with nothing open.
THEOREM ParserClosesWhatIsOpen == Spec => []ClosesWhatIsOpen
<1>1. Init => ClosesWhatIsOpen
  BY AtFirst
<1>2. ClosesWhatIsOpen /\ [Next]_vars => ClosesWhatIsOpen'
  BY EveryStepKeeps
<1> QED
  BY <1>1, <1>2, PTL DEF Spec

\* The branch of close_container for an empty stack is never taken (tape.rs:414), and the
\* bracket is that of the frame it pops.
THEOREM ClosesItsOwn ==
  Spec => [][CloseContainer =>
               /\ stack # <<>>
               /\ Under = (IF Top.kind = "array" THEN "]" ELSE "}")]_vars
<1>1. ClosesWhatIsOpen /\ [Next]_vars =>
        [CloseContainer => /\ stack # <<>>
                           /\ Under = (IF Top.kind = "array" THEN "]" ELSE "}")]_vars
  BY DEF ClosesWhatIsOpen, StateAgreesWithStack, ArrayStates, ObjectStates,
         CloseContainer, At, vars
<1> QED
  BY <1>1, ParserClosesWhatIsOpen, PTL DEF Spec

-----------------------------------------------------------------------------
(* The minifying walk, one node after the other *)

\* Induction, as a fact about sets of numbers.
LEMMA EveryNumber ==
  ASSUME NEW S, 0 \in S, \A n \in Nat : n \in S => n + 1 \in S
  PROVE  Nat \subseteq S
<1> DEFINE below == OpToRel(<, Nat)
           T == Nat \ S
<1>1. IsWellFoundedOn(below, Nat)
  BY NatLessThanWellFounded
<1>2. \A j \in Nat, k \in Nat : j < k => <<j, k>> \in below
  BY DEF OpToRel
<1> HIDE DEF below
<1>3. ASSUME T # {} PROVE FALSE
  <2>1. PICK k \in T : \A j \in T : ~ (<<j, k>> \in below)
    BY <1>1, <1>3, WFMin
  <2>2. k \in Nat /\ k # 0
    OBVIOUS
  <2>3. k - 1 \in Nat /\ k - 1 < k /\ (k - 1) + 1 = k
    BY <2>2
  <2>4. k - 1 \in T
    BY <2>3
  <2> QED
    BY <1>2, <2>1, <2>2, <2>3, <2>4
<1> QED
  BY <1>3

\* f starts with base, and its k-th value is what next makes of the one before.
Unrolls(f, n, base, next) ==
  f[0] = base /\ \A k \in 0..n : k # 0 => f[k] = next[k][f[k - 1]]

\* Recursion over numbers, with its steps given as a function.
LEMMA ByRecursion ==
  ASSUME NEW A, NEW base \in A, NEW next \in [Nat -> [A -> A]], NEW n \in Nat
  PROVE  \E f \in [0..n -> A] : Unrolls(f, n, base, next)
<1> DEFINE Good(f, m) == Unrolls(f, m, base, next)
           S == {m \in Nat : \E f \in [0..m -> A] : Good(f, m)}
<1>1. 0 \in S
  <2> DEFINE g == [k \in 0..0 |-> base]
  <2>1. g \in [0..0 -> A] /\ Good(g, 0)
    BY DEF Unrolls
  <2> HIDE DEF g, Good
  <2> QED
    BY <2>1
<1>2. ASSUME NEW m \in Nat, m \in S PROVE m + 1 \in S
  <2>1. PICK f \in [0..m -> A] : Good(f, m)
    BY <1>2
  <2> DEFINE x == next[m + 1][f[m]]
             g == [k \in 0..m + 1 |-> IF k = m + 1 THEN x ELSE f[k]]
  <2>2. x \in A
    <3>1. m + 1 \in Nat /\ f[m] \in A
      BY <2>1
    <3>2. next[m + 1] \in [A -> A]
      BY <3>1
    <3> QED
      BY <3>1, <3>2
  <2> HIDE DEF x
  <2>3. g \in [0..m + 1 -> A] /\ g[m + 1] = x /\ \A k \in 0..m : g[k] = f[k]
    BY <2>2
  <2> HIDE DEF g
  <2> USE DEF x
  <2>4. ASSUME NEW k \in 0..m + 1, k # 0 PROVE g[k] = next[k][g[k - 1]]
    <3>1. CASE k = m + 1
      <4>1. k - 1 = m /\ m \in 0..m
        BY <3>1
      <4> QED
        BY <2>3, <3>1, <4>1
    <3>2. CASE k \in 0..m
      <4>1. k - 1 \in 0..m
        BY <2>4, <3>2
      <4>2. f[k] = next[k][f[k - 1]]
        BY <2>1, <2>4, <3>2 DEF Unrolls
      <4> QED
        BY <2>3, <3>2, <4>1, <4>2
    <3> QED
      BY <3>1, <3>2
  <2>5. Good(g, m + 1)
    BY <2>1, <2>3, <2>4 DEF Unrolls
  <2> HIDE DEF Good
  <2>6. \E h \in [0..m + 1 -> A] : Good(h, m + 1)
    BY <2>3, <2>5
  <2>7. m + 1 \in Nat
    OBVIOUS
  <2> QED
    BY <2>6, <2>7
<1> HIDE DEF S
<1>3. Nat \subseteq S
  BY <1>1, <1>2, EveryNumber
<1> QED
  BY <1>3 DEF S

\* The frame of a container the walk is in, and what the walk has come to.
WalkFrame == [array : BOOLEAN, seen : BOOLEAN]
WalkStates == [out : Seq(Token), frames : Seq(WalkFrame)]

\* The node stands for a token of its kind.
ReadsToken(node, doc) ==
  /\ node.kind \in Kinds
  /\ node.kind \in {"string", "key"} => doc[node.at] \in Strings
  /\ node.kind = "scalar" => doc[node.at] \in Scalars

ReadsTokens(tape, doc) == \A i \in 1..Len(tape) : ReadsToken(tape[i], doc)

\* The first n nodes of two tapes are of the same kinds and stand for the same tokens.
SameNodes(n, tape, doc, other, doc2) ==
  /\ n \in Nat /\ n <= Len(tape) /\ n <= Len(other)
  /\ \A i \in 1..n : other[i].kind = tape[i].kind /\ doc2[other[i].at] = doc[tape[i].at]

\* The frames but the last, and the last one marked: what a node does to them.
LEMMA FramesPop ==
  ASSUME NEW A, NEW s \in Seq(A)
  PROVE  /\ SubSeq(s, 1, Len(s) - 1) \in Seq(A)
         /\ s # <<>> => /\ Len(s) \in Nat \ {0}
                        /\ Len(SubSeq(s, 1, Len(s) - 1)) = Len(s) - 1
                        /\ \A k \in 1..(Len(s) - 1) : SubSeq(s, 1, Len(s) - 1)[k] = s[k]
                        /\ Last1(s) = s[Len(s)] /\ Last1(s) \in A
<1> DEFINE n == Len(s)
           m == n - 1
<1>1. n \in Nat /\ \A i \in 1..n : s[i] \in A
  BY LenProperties
<1> HIDE DEF n
<1>2. m \in Int /\ 1 \in Int /\ \A i \in 1..m : s[i] \in A
  BY <1>1
<1>3. m - 1 + 1 = m /\ \A i \in Int : 1 + i - 1 = i
  BY <1>2
<1>4. 1 <= m => m = m - 1 + 1
  BY <1>2
<1> HIDE DEF m
<1>5. /\ SubSeq(s, 1, m) \in Seq(A)
      /\ Len(SubSeq(s, 1, m)) = IF 1 <= m THEN m - 1 + 1 ELSE 0
      /\ \A k \in 1..(m - 1 + 1) : SubSeq(s, 1, m)[k] = s[1 + k - 1]
  BY <1>2, SubSeqProperties
<1>6. \A k \in 1..m : SubSeq(s, 1, m)[k] = s[k]
  BY <1>3, <1>5
<1>7. s # <<>> => n # 0
  BY EmptySeq DEF n
<1>8. s # <<>> => Len(SubSeq(s, 1, m)) = m
  BY <1>1, <1>3, <1>5, <1>7 DEF m
<1>9. s # <<>> => Last1(s) = s[n] /\ Last1(s) \in A
  BY <1>1, <1>7 DEF Last1, n
<1> QED
  BY <1>1, <1>5, <1>6, <1>7, <1>8, <1>9 DEF m, n

\* The frames with the last one marked as having a member.
LEMMA FramesSeen ==
  ASSUME NEW s \in Seq(WalkFrame), s # <<>>
  PROVE  LET t == [s EXCEPT ![Len(s)].seen = TRUE]
         IN /\ t \in Seq(WalkFrame) /\ Len(t) = Len(s)
            /\ \A k \in 1..Len(s) : t[k].array = s[k].array
            /\ \A k \in 1..Len(s) : t[k].seen = IF k = Len(s) THEN TRUE ELSE s[k].seen
<1> DEFINE n == Len(s)
           last == [s[n] EXCEPT !.seen = TRUE]
           t == [s EXCEPT ![n] = last]
<1>1. n \in Nat \ {0} /\ \A i \in 1..n : s[i] \in WalkFrame
  BY EmptySeq, LenProperties
<1>2. s[n] \in WalkFrame
  BY <1>1
<1>3. last \in WalkFrame /\ last.array = s[n].array /\ last.seen = TRUE
  BY <1>2 DEF WalkFrame
<1>4. [s EXCEPT ![Len(s)].seen = TRUE] = t
  OBVIOUS
<1> HIDE DEF last
<1>5. n \in 1..n
  BY <1>1
<1>6. /\ t \in Seq(WalkFrame) /\ Len(t) = Len(s)
      /\ \A j \in 1..n : t[j] = IF j = n THEN last ELSE s[j]
  BY <1>3, <1>5, ExceptSeq
<1> HIDE DEF t, n
<1>7. \A k \in 1..n : t[k].array = s[k].array /\ t[k].seen = IF k = n THEN TRUE ELSE s[k].seen
  BY <1>3, <1>6
<1> QED
  BY <1>4, <1>6, <1>7 DEF n

\* The frames after a node are frames again.
LEMMA FramesAfterTyped ==
  ASSUME NEW kind \in Kinds, NEW frames \in Seq(WalkFrame)
  PROVE  FramesAfter(kind, frames) \in Seq(WalkFrame)
<1> DEFINE seen == IF frames = <<>> \/ (kind # "key" /\ ~Last1(frames).array) THEN frames
              ELSE [frames EXCEPT ![Len(frames)].seen = TRUE]
           new == [array |-> kind = "array", seen |-> FALSE]
<1>1. seen \in Seq(WalkFrame)
  BY FramesSeen, Zenon
<1>2. new \in WalkFrame
  BY DEF WalkFrame
<1>3. SubSeq(frames, 1, Len(frames) - 1) \in Seq(WalkFrame)
  BY FramesPop
<1>4. FramesAfter(kind, frames) = 
         CASE kind \in Closed -> SubSeq(frames, 1, Len(frames) - 1)
           [] kind \in Containers -> Append(seen, new)
           [] OTHER -> seen
  BY DEF FramesAfter
<1> HIDE DEF seen, new
<1>5. Append(seen, new) \in Seq(WalkFrame)
  BY <1>1, <1>2, AppendProperties
<1>6. kind \in Closed => kind \notin Containers
  BY DEF Closed, Containers
<1> QED
  BY ONLY <1>1, <1>3, <1>4, <1>5, <1>6, Zenon

\* The sequences of no, one and two elements.
LEMMA ShortSequences ==
  ASSUME NEW A
  PROVE  /\ <<>> \in Seq(A)
         /\ \A x \in A : /\ <<x>> \in Seq(A) /\ Len(<<x>>) = 1 /\ <<x>>[1] = x
         /\ \A x \in A, y \in A : /\ <<x, y>> \in Seq(A) /\ Len(<<x, y>>) = 2
                                  /\ <<x, y>>[1] = x /\ <<x, y>>[2] = y
OBVIOUS

\* A node that stands for a token of its kind takes a walk to a walk.
LEMMA EmitTyped ==
  ASSUME NEW doc, NEW spell \in [Strings -> Strings], NEW node, ReadsToken(node, doc),
         NEW walk \in WalkStates
  PROVE  Emit(walk, node, doc, spell) \in WalkStates
<1> DEFINE t == Spelling(node, doc, spell)
           c == SeparatorBefore(node.kind, walk.frames)
<1>1. walk.out \in Seq(Token) /\ walk.frames \in Seq(WalkFrame)
  BY DEF WalkStates
<1>2. "{" \in Token /\ "}" \in Token /\ "[" \in Token /\ "]" \in Token
      /\ "," \in Token /\ ":" \in Token
  BY DEF Token, Punctuation
<1>3. c \in Seq(Token)
  <2>1. <<",">> \in Seq(Token) /\ <<>> \in Seq(Token)
    BY <1>2, ShortSequences, Zenon
  <2>2. c \in {<<>>, <<",">>}
    BY Zenon DEF SeparatorBefore, Comma
  <2> HIDE DEF c
  <2> QED
    BY <2>1, <2>2
<1>4. t \in Seq(Token)
  <2>1. CASE node.kind \in {"object", "object_end", "array", "array_end"}
    <3>1. t = <<"{">> \/ t = <<"}">> \/ t = <<"[">> \/ t = <<"]">>
      BY <2>1 DEF Spelling
    <3> HIDE DEF t
    <3>2. /\ <<"{">> \in Seq(Token) /\ <<"}">> \in Seq(Token)
          /\ <<"[">> \in Seq(Token) /\ <<"]">> \in Seq(Token)
      BY <1>2, ShortSequences, Zenon
    <3> QED
      BY <3>1, <3>2, Zenon
  <2>2. CASE node.kind \in {"key", "string"}
    <3> DEFINE word == spell[doc[node.at]]
    <3>1. word \in Token
      BY <2>2 DEF ReadsToken, Token
    <3>2. t = <<word, ":">> \/ t = <<word>>
      BY <2>2 DEF Spelling
    <3> HIDE DEF word, t
    <3>3. <<word, ":">> \in Seq(Token) /\ <<word>> \in Seq(Token)
      BY <1>2, <3>1, ShortSequences, Zenon
    <3> QED
      BY <3>2, <3>3
  <2>3. CASE node.kind = "scalar"
    <3> DEFINE word == doc[node.at]
    <3>1. word \in Token
      BY <2>3 DEF ReadsToken, Token
    <3>2. t = <<word>>
      BY <2>3 DEF Spelling
    <3> HIDE DEF word, t
    <3> QED
      BY <3>1, <3>2
  <2> QED
    BY <2>1, <2>2, <2>3 DEF ReadsToken, Kinds, Containers
<1>5. walk.out \o c \o t \in Seq(Token)
  <2> HIDE DEF c, t
  <2>1. walk.out \o c \in Seq(Token)
    BY <1>1, <1>3, ConcatProperties
  <2> QED
    BY <1>4, <2>1, ConcatProperties
<1>6. FramesAfter(node.kind, walk.frames) \in Seq(WalkFrame)
  BY <1>1, FramesAfterTyped DEF ReadsToken
<1> QED
  BY <1>5, <1>6 DEF Emit, WalkStates

\* The walk after each node is what the node makes of the walk before.
LEMMA WalksStepwise ==
  ASSUME NEW A, NEW tape \in Seq(A), NEW doc, NEW spell \in [Strings -> Strings],
         ReadsTokens(tape, doc)
  PROVE  LET w == Walks(tape, doc, spell)
         IN /\ w[0] = NothingOut
            /\ \A k \in 1..Len(tape) : w[k] = Emit(w[k - 1], tape[k], doc, spell)
            /\ \A k \in 0..Len(tape) : w[k] \in WalkStates
<1> DEFINE n == Len(tape)
           next == [k \in Nat |-> [x \in WalkStates |->
                      IF k \in 1..n THEN Emit(x, tape[k], doc, spell) ELSE x]]
           w == Walks(tape, doc, spell)
<1>0. n \in Nat
  BY LenProperties
<1>1. \A k \in 1..n, x \in WalkStates : Emit(x, tape[k], doc, spell) \in WalkStates
  BY EmitTyped DEF ReadsTokens
<1>2. next \in [Nat -> [WalkStates -> WalkStates]]
  BY <1>1
<1>3. \A k \in 1..n, x \in WalkStates : next[k][x] = Emit(x, tape[k], doc, spell)
  BY <1>0
<1>4. NothingOut \in WalkStates
  BY EmptySeq DEF NothingOut, WalkStates
<1> HIDE DEF next, n
<1>5. PICK f \in [0..n -> WalkStates] : Unrolls(f, n, NothingOut, next)
  BY <1>0, <1>2, <1>4, ByRecursion, Zenon
<1>6. ASSUME NEW k \in 0..n
      PROVE  f[k] = IF k = 0 THEN NothingOut ELSE Emit(f[k - 1], tape[k], doc, spell)
  <2>1. CASE k = 0
    BY <1>5, <2>1 DEF Unrolls
  <2>2. CASE k # 0
    <3>1. k \in 1..n /\ k - 1 \in 0..n
      BY <1>0, <2>2
    <3>2. f[k] = next[k][f[k - 1]] /\ f[k - 1] \in WalkStates
      BY <1>5, <2>2, <3>1 DEF Unrolls
    <3> QED
      BY <1>3, <2>2, <3>1, <3>2
  <2> QED
    BY <2>1, <2>2
<1>7. f = [k \in 0..n |-> IF k = 0 THEN NothingOut ELSE Emit(f[k - 1], tape[k], doc, spell)]
  BY <1>6
<1>8. w = [k \in 0..n |-> IF k = 0 THEN NothingOut ELSE Emit(w[k - 1], tape[k], doc, spell)]
  <2>1. \E g : g = [k \in 0..n |->
                      IF k = 0 THEN NothingOut ELSE Emit(g[k - 1], tape[k], doc, spell)]
    BY <1>7, Zenon
  <2> QED
    BY <2>1, Zenon DEF Walks, n
<1> HIDE DEF w
<1>9. \A k \in 0..n : w[k] = IF k = 0 THEN NothingOut ELSE Emit(w[k - 1], tape[k], doc, spell)
  BY <1>8, Zenon
<1>10. w[0] = NothingOut
  BY <1>0, <1>9
<1>11. \A k \in 1..n : w[k] = Emit(w[k - 1], tape[k], doc, spell)
  <2> TAKE k \in 1..n
  <2>1. k \in 0..n /\ k # 0
    BY <1>0
  <2> QED
    BY <1>9, <2>1
<1> DEFINE S == {k \in Nat : k <= n => w[k] \in WalkStates}
<1>12. 0 \in S
  BY <1>4, <1>10
<1>13. ASSUME NEW k \in Nat, k \in S PROVE k + 1 \in S
  <2>1. CASE k + 1 <= n
    <3>1. k + 1 \in 1..n /\ (k + 1) - 1 = k /\ k <= n
      BY <1>0, <2>1
    <3>2. w[k + 1] = Emit(w[k], tape[k + 1], doc, spell) /\ w[k] \in WalkStates
      BY <1>11, <1>13, <3>1
    <3> QED
      BY <1>1, <3>1, <3>2
  <2> QED
    BY <2>1
<1>14. Nat \subseteq S
  <2> HIDE DEF S
  <2> QED
    BY <1>12, <1>13, EveryNumber
<1>15. \A k \in 0..n : w[k] \in WalkStates
  BY <1>0, <1>14
<1> QED
  BY <1>10, <1>11, <1>15 DEF w, n

\* Tapes that agree on kinds and tokens, their places on the tape and counts aside, are
\* walked alike.
LEMMA WalkedAlike ==
  ASSUME NEW A, NEW tape \in Seq(A), NEW other \in Seq(A), NEW doc, NEW doc2,
         NEW spell \in [Strings -> Strings], NEW n, SameNodes(n, tape, doc, other, doc2),
         ReadsTokens(tape, doc), ReadsTokens(other, doc2)
  PROVE  Walks(other, doc2, spell)[n] = Walks(tape, doc, spell)[n]
<1> DEFINE v == Walks(tape, doc, spell)
           w == Walks(other, doc2, spell)
           S == {k \in Nat : k <= n => w[k] = v[k]}
<1>1. /\ v[0] = NothingOut /\ \A k \in 1..Len(tape) : v[k] = Emit(v[k - 1], tape[k], doc, spell)
      /\ w[0] = NothingOut
      /\ \A k \in 1..Len(other) : w[k] = Emit(w[k - 1], other[k], doc2, spell)
  BY WalksStepwise, Zenon
<1>2. \A x : \A i \in 1..n : Emit(x, other[i], doc2, spell) = Emit(x, tape[i], doc, spell)
  BY DEF Emit, Spelling, SameNodes
<1>3. n \in Nat /\ n <= Len(tape) /\ n <= Len(other) /\ Len(tape) \in Nat /\ Len(other) \in Nat
  BY LenProperties DEF SameNodes
<1> HIDE DEF v, w
<1>4. 0 \in S
  BY <1>1
<1>5. ASSUME NEW k \in Nat, k \in S PROVE k + 1 \in S
  <2>1. CASE k + 1 <= n
    <3>1. /\ k + 1 \in 1..n /\ k + 1 \in 1..Len(tape) /\ k + 1 \in 1..Len(other)
          /\ (k + 1) - 1 = k /\ k <= n
      BY <1>3, <2>1
    <3>2. w[k] = v[k]
      BY <1>5, <3>1
    <3>3. v[k + 1] = Emit(v[k], tape[k + 1], doc, spell)
      BY <1>1, <3>1
    <3>4. w[k + 1] = Emit(w[k], other[k + 1], doc2, spell)
      BY <1>1, <3>1
    <3>5. w[k + 1] = v[k + 1]
      BY <1>2, <3>1, <3>2, <3>3, <3>4
    <3> QED
      BY <3>5
  <2> QED
    BY <2>1
<1>6. Nat \subseteq S
  <2> HIDE DEF S
  <2> QED
    BY <1>4, <1>5, EveryNumber
<1> QED
  BY <1>3, <1>6 DEF v, w

-----------------------------------------------------------------------------
(* The frames of the walk and the stack of the parser *)

\* The walk's frames are those of the stack: each of its kind, and marked as having a
\* member unless the parser is about to read its first.
Follows(frames, stk, st) ==
  /\ Len(frames) = Len(stk)
  /\ \A k \in 1..Len(stk) : frames[k].array = (stk[k].kind = "array")
  /\ \A k \in 1..Len(stk) :
       \/ k < Len(stk)
       \/ st \in {"ArrayNext", "ObjectNext", "ObjectKey"}
       \/ st = "Value" /\ stk[k].kind = "object"
       => frames[k].seen
  /\ \A k \in 1..Len(stk) :
       k = Len(stk) /\ st \in {"ArrayFirst", "ObjectFirst"} => ~frames[k].seen

\* A comma read that the walk has yet to write.
PendingComma(frames, stk, st) ==
  IF \/ st = "ObjectKey"
     \/ st = "Value" /\ stk # <<>> /\ stk[Len(stk)].kind = "array" /\ Last1(frames).seen
  THEN <<",">> ELSE <<>>

\* The frames once a node that is no end has been counted in.
Marked(kind, frames) ==
  IF frames = <<>> \/ (kind # "key" /\ ~Last1(frames).array) THEN frames
  ELSE [frames EXCEPT ![Len(frames)].seen = TRUE]

\* A value marks the array it is in, and in an object its key has.
LEMMA ValueMarks ==
  ASSUME NEW frames \in Seq(WalkFrame), NEW stk \in Seq(Frame), Follows(frames, stk, "Value"),
         NEW kind, kind \notin Closed \cup {"key"}
  PROVE  LET seen == Marked(kind, frames)
         IN /\ seen \in Seq(WalkFrame) /\ Len(seen) = Len(stk)
            /\ \A k \in 1..Len(stk) : seen[k].array = (stk[k].kind = "array") /\ seen[k].seen
<1> DEFINE seen == Marked(kind, frames)
<1>a. seen = IF frames = <<>> \/ (kind # "key" /\ ~Last1(frames).array) THEN frames
             ELSE [frames EXCEPT ![Len(frames)].seen = TRUE]
  BY Zenon DEF Marked
<1> SUFFICES /\ seen \in Seq(WalkFrame) /\ Len(seen) = Len(stk)
             /\ \A k \in 1..Len(stk) : seen[k].array = (stk[k].kind = "array") /\ seen[k].seen
  OBVIOUS
<1> HIDE DEF seen
<1>0. Len(frames) = Len(stk) /\ Len(stk) \in Nat
  BY LenProperties DEF Follows
<1>1. CASE frames = <<>>
  <2>1. Len(frames) = 0 /\ seen = frames
    BY <1>1, <1>a, EmptySeq
  <2> QED
    BY <1>0, <2>1
<1>2. CASE frames # <<>> /\ ~Last1(frames).array
  <2>1. seen = frames /\ Len(frames) \in Nat \ {0}
    BY <1>2, <1>a, EmptySeq
  <2>2. stk[Len(stk)].kind = "object"
    <3>1. Len(stk) \in 1..Len(stk)
      BY <1>0, <2>1
    <3>2. stk[Len(stk)].kind # "array"
      BY <1>0, <1>2, <3>1 DEF Follows, Last1
    <3> QED
      <4>1. stk[Len(stk)] \in Frame
        BY <3>1, ElementOfSeq
      <4> QED
        BY <3>2, <4>1 DEF Frame, Containers
  <2>3. \A k \in 1..Len(stk) : k < Len(stk) \/ k = Len(stk)
    BY <1>0
  <2> QED
    BY <1>0, <2>1, <2>2, <2>3 DEF Follows
<1>3. CASE frames # <<>> /\ Last1(frames).array
  <2>1. seen = [frames EXCEPT ![Len(frames)].seen = TRUE]
    BY <1>3, <1>a
  <2>2. /\ seen \in Seq(WalkFrame) /\ Len(seen) = Len(frames)
        /\ \A k \in 1..Len(frames) : seen[k].array = frames[k].array
        /\ \A k \in 1..Len(frames) :
             seen[k].seen = IF k = Len(frames) THEN TRUE ELSE frames[k].seen
    <3> DEFINE t == [frames EXCEPT ![Len(frames)].seen = TRUE]
    <3>1. /\ t \in Seq(WalkFrame) /\ Len(t) = Len(frames)
          /\ \A k \in 1..Len(frames) : t[k].array = frames[k].array
          /\ \A k \in 1..Len(frames) :
               t[k].seen = IF k = Len(frames) THEN TRUE ELSE frames[k].seen
      BY <1>3, FramesSeen, Zenon
    <3> HIDE DEF t
    <3>2. seen = t
      BY <2>1 DEF t
    <3> QED
      BY <3>1, <3>2
  <2>3. \A k \in 1..Len(stk) : k < Len(stk) \/ k = Len(stk)
    BY <1>0
  <2> QED
    BY <1>0, <2>2, <2>3 DEF Follows
<1> QED
  BY <1>1, <1>2, <1>3

\* A container opened: its own frame is new, and the one around it is marked.
LEMMA FollowsOpen ==
  ASSUME NEW frames \in Seq(WalkFrame), NEW stk \in Seq(Frame), Follows(frames, stk, "Value"),
         NEW frame \in Frame, NEW first \in {"ArrayFirst", "ObjectFirst"}
  PROVE  Follows(FramesAfter(frame.kind, frames), Append(stk, frame), first)
<1> DEFINE kind == frame.kind
           seen == Marked(kind, frames)
           new == [array |-> kind = "array", seen |-> FALSE]
           f == Append(seen, new)
           s == Append(stk, frame)
           n == Len(stk)
<1>0. kind \in Containers /\ kind \notin Closed \cup {"key"}
  BY DEF Frame, Containers, Closed
<1>1. FramesAfter(kind, frames) = f
  BY <1>0 DEF FramesAfter, Marked
<1>2. new \in WalkFrame /\ new.array = (kind = "array") /\ new.seen = FALSE
  BY DEF WalkFrame
<1>3. n \in Nat
  BY LenProperties
<1> HIDE DEF new, kind
<1>4. /\ seen \in Seq(WalkFrame) /\ Len(seen) = n
      /\ \A k \in 1..n : seen[k].array = (stk[k].kind = "array") /\ seen[k].seen
  BY <1>0, ValueMarks, Zenon
<1> HIDE DEF seen
<1>5. /\ Len(f) = n + 1 /\ f[n + 1] = new /\ \A k \in 1..n : f[k] = seen[k]
  BY <1>2, <1>4, AppendProperties
<1>6. /\ Len(s) = n + 1 /\ s[n + 1] = frame /\ \A k \in 1..n : s[k] = stk[k]
  BY AppendProperties
<1> HIDE DEF f, s, n
<1>7. ASSUME NEW k \in 1..(n + 1)
      PROVE  /\ f[k].array = (s[k].kind = "array")
             /\ k < n + 1 => f[k].seen
             /\ k = n + 1 => ~f[k].seen
  <2>1. CASE k = n + 1
    <3>1. f[k] = new /\ s[k] = frame /\ ~(k < n + 1)
      BY <1>3, <1>5, <1>6, <2>1
    <3> QED
      BY <1>2, <3>1 DEF kind
  <2>2. CASE k # n + 1
    <3>1. k \in 1..n
      BY <1>3, <2>2
    <3> QED
      BY <1>4, <1>5, <1>6, <2>2, <3>1
  <2> QED
    BY <2>1, <2>2
<1>8. Follows(f, s, first)
  BY <1>5, <1>6, <1>7 DEF Follows
<1> QED
  BY <1>1, <1>8 DEF kind, s

\* A string or a scalar read: the frame it is in is marked.
LEMMA FollowsScalar ==
  ASSUME NEW frames \in Seq(WalkFrame), NEW stk \in Seq(Frame), Follows(frames, stk, "Value"),
         NEW kind \in {"string", "scalar"}
  PROVE  Follows(FramesAfter(kind, frames), stk, AfterValue(stk))
<1> DEFINE seen == Marked(kind, frames)
<1>1. kind \notin Closed \cup {"key"} /\ kind \notin Closed /\ kind \notin Containers
  BY DEF Containers, Closed
<1>2. FramesAfter(kind, frames) = seen
  BY <1>1 DEF FramesAfter, Marked
<1>3. /\ seen \in Seq(WalkFrame) /\ Len(seen) = Len(stk)
      /\ \A k \in 1..Len(stk) : seen[k].array = (stk[k].kind = "array") /\ seen[k].seen
  BY <1>1, ValueMarks, Zenon
<1>4. AfterValue(stk) \notin {"ArrayFirst", "ObjectFirst"}
  BY DEF AfterValue
<1> HIDE DEF seen
<1> QED
  BY <1>2, <1>3, <1>4 DEF Follows

\* A container closed: the frames around it were marked by it.
LEMMA FollowsClose ==
  ASSUME NEW frames \in Seq(WalkFrame), NEW stk \in Seq(Frame), stk # <<>>,
         NEW st, Follows(frames, stk, st), NEW kind \in Closed,
         NEW rest, rest = SubSeq(stk, 1, Len(stk) - 1)
  PROVE  Follows(FramesAfter(kind, frames), rest, AfterValue(rest))
<1> DEFINE f == SubSeq(frames, 1, Len(frames) - 1)
           n == Len(stk)
<1>1. FramesAfter(kind, frames) = f
  BY DEF FramesAfter, Closed, Containers
<1>2. n \in Nat \ {0} /\ Len(frames) = n
  BY EmptySeq DEF Follows
<1>3. frames # <<>>
  BY <1>2, EmptySeq
<1>4. Len(f) = n - 1 /\ \A k \in 1..(n - 1) : f[k] = frames[k]
  BY <1>2, <1>3, FramesPop
<1>5. Len(rest) = n - 1 /\ \A k \in 1..(n - 1) : rest[k] = stk[k]
  BY FramesPop
<1>6. AfterValue(rest) \notin {"ArrayFirst", "ObjectFirst"}
  BY DEF AfterValue
<1> HIDE DEF f
<1>7. \A k \in 1..(n - 1) : k \in 1..n /\ k < n
  BY <1>2
<1>8. \A k \in 1..(n - 1) : f[k].array = (rest[k].kind = "array") /\ f[k].seen
  BY <1>4, <1>5, <1>7 DEF Follows
<1> QED
  BY <1>1, <1>4, <1>5, <1>6, <1>8 DEF Follows

\* A key marks the object it is in.
LEMMA FollowsKey ==
  ASSUME NEW frames \in Seq(WalkFrame), NEW stk \in Seq(Frame), stk # <<>>,
         NEW st, Follows(frames, stk, st), stk[Len(stk)].kind = "object",
         NEW counted, Len(counted) = Len(stk),
         \A k \in 1..Len(stk) : counted[k].kind = stk[k].kind
  PROVE  Follows(FramesAfter("key", frames), counted, "Value")
<1> DEFINE f == [frames EXCEPT ![Len(frames)].seen = TRUE]
           n == Len(stk)
<1>2. n \in Nat \ {0} /\ Len(frames) = n
  BY EmptySeq DEF Follows
<1>3. frames # <<>>
  BY <1>2, EmptySeq
<1>1. FramesAfter("key", frames) = f
  BY <1>3 DEF FramesAfter, Containers, Closed
<1>4. /\ Len(f) = n
      /\ \A k \in 1..n : f[k].array = frames[k].array
      /\ \A k \in 1..n : f[k].seen = IF k = n THEN TRUE ELSE frames[k].seen
  <2>1. /\ Len(f) = Len(frames)
        /\ \A k \in 1..Len(frames) : f[k].array = frames[k].array
        /\ \A k \in 1..Len(frames) :
             f[k].seen = IF k = Len(frames) THEN TRUE ELSE frames[k].seen
    BY <1>3, FramesSeen, Zenon
  <2> HIDE DEF f
  <2> QED
    BY <1>2, <2>1
<1> HIDE DEF f
<1>5. \A k \in 1..n : k < n \/ k = n
  BY <1>2
<1>6. \A k \in 1..n : f[k].array = (counted[k].kind = "array") /\ f[k].seen
  BY <1>4, <1>5 DEF Follows
<1> QED
  BY <1>1, <1>4, <1>6 DEF Follows

-----------------------------------------------------------------------------
(* The tokens the walk has written and those the parser has read *)

\* What the input is made of, and how the walk spells it.
Words == Token \cup {EndOfInput}

SpelledToken(t, spell) == IF t \in Strings THEN spell[t] ELSE t

Spelled(tokens, spell) == [k \in DOMAIN tokens |-> SpelledToken(tokens[k], spell)]

\* The walk over the tape writes what was read up to p, but for a comma still to come.
Tells(tape, doc, p, stk, st, spell) ==
  LET walk == Walk(tape, doc, spell)
  IN /\ Spelled(SubSeq(doc, 1, p - 1), spell) = walk.out \o PendingComma(walk.frames, stk, st)
     /\ Follows(walk.frames, stk, st)

\* Spelling keeps a sequence's length and its words.
LEMMA SpelledTyped ==
  ASSUME NEW spell \in [Strings -> Strings], NEW tokens \in Seq(Words)
  PROVE  /\ Spelled(tokens, spell) \in Seq(Words)
         /\ Len(Spelled(tokens, spell)) = Len(tokens)
         /\ \A k \in 1..Len(tokens) :
              Spelled(tokens, spell)[k] = SpelledToken(tokens[k], spell)
<1> DEFINE n == Len(tokens)
           s == [k \in 1..n |-> SpelledToken(tokens[k], spell)]
<1>1. n \in Nat /\ DOMAIN tokens = 1..n /\ \A k \in 1..n : tokens[k] \in Words
  BY LenProperties
<1>2. \A t \in Words : SpelledToken(t, spell) \in Words
  BY DEF SpelledToken, Words, Token
<1>3. Spelled(tokens, spell) = s
  BY <1>1 DEF Spelled
<1>4. s \in [1..n -> Words]
  BY <1>1, <1>2
<1>5. s \in Seq(Words) /\ Len(s) = n
  BY <1>1, <1>4
<1>6. \A k \in 1..n : s[k] = SpelledToken(tokens[k], spell)
  OBVIOUS
<1> HIDE DEF s, n
<1> QED
  BY <1>3, <1>5, <1>6 DEF n

\* One more token read is one more token spelled.
LEMMA SpelledGrows ==
  ASSUME NEW spell \in [Strings -> Strings], NEW doc \in Seq(Words), NEW p \in 1..Len(doc)
  PROVE  /\ Spelled(SubSeq(doc, 1, p), spell)
              = Spelled(SubSeq(doc, 1, p - 1), spell) \o <<SpelledToken(doc[p], spell)>>
         /\ Spelled(SubSeq(doc, 1, p - 1), spell) \in Seq(Words)
         /\ SpelledToken(doc[p], spell) \in Words
<1> DEFINE n == Len(doc)
           s == SubSeq(doc, 1, p)
           t == SubSeq(doc, 1, p - 1)
           w == SpelledToken(doc[p], spell)
           u == Spelled(t, spell) \o <<w>>
           v == Spelled(s, spell)
<1>1. n \in Nat /\ p \in 1..n /\ \A i \in 1..n : doc[i] \in Words
  BY LenProperties
<1> HIDE DEF n
<1>2. w \in Words
  BY <1>1 DEF SpelledToken, Words, Token
<1>3. s \in Seq(Words) /\ Len(s) = p /\ \A i \in 1..p : s[i] = doc[i]
  <2>1. 1 \in Int /\ p \in Int /\ p - 1 + 1 = p /\ 1 <= p /\ \A i \in 1..p : 1 + i - 1 = i
    BY <1>1
  <2>2. \A i \in 1..p : doc[i] \in Words
    BY <1>1
  <2>3. /\ s \in Seq(Words) /\ Len(s) = IF 1 <= p THEN p - 1 + 1 ELSE 0
        /\ \A i \in 1..(p - 1 + 1) : s[i] = doc[1 + i - 1]
    BY <2>1, <2>2, SubSeqProperties
  <2> HIDE DEF s
  <2> QED
    BY <2>1, <2>3
<1>4. t \in Seq(Words) /\ Len(t) = p - 1 /\ \A i \in 1..(p - 1) : t[i] = doc[i]
  <2> DEFINE q == p - 1
  <2>1. 1 \in Int /\ q \in Nat /\ q - 1 + 1 = q /\ \A i \in 1..q : 1 + i - 1 = i
    BY <1>1
  <2>2. \A i \in 1..q : doc[i] \in Words
    BY <1>1
  <2> HIDE DEF q
  <2>3. /\ SubSeq(doc, 1, q) \in Seq(Words)
        /\ Len(SubSeq(doc, 1, q)) = IF 1 <= q THEN q - 1 + 1 ELSE 0
        /\ \A i \in 1..(q - 1 + 1) : SubSeq(doc, 1, q)[i] = doc[1 + i - 1]
    BY <2>1, <2>2, SubSeqProperties
  <2>4. Len(SubSeq(doc, 1, q)) = q
    BY <2>1, <2>3
  <2>5. \A i \in 1..q : SubSeq(doc, 1, q)[i] = doc[i]
    BY <2>1, <2>3
  <2> QED
    BY <2>3, <2>4, <2>5 DEF q
<1> HIDE DEF s, t
<1>5. v \in Seq(Words) /\ Len(v) = p /\ \A i \in 1..p : v[i] = SpelledToken(s[i], spell)
  BY <1>3, SpelledTyped
<1>6. /\ Spelled(t, spell) \in Seq(Words) /\ Len(Spelled(t, spell)) = p - 1
      /\ \A i \in 1..(p - 1) : Spelled(t, spell)[i] = SpelledToken(t[i], spell)
  BY <1>4, SpelledTyped
<1>7. <<w>> \in Seq(Words) /\ Len(<<w>>) = 1 /\ <<w>>[1] = w
  <2> HIDE DEF w
  <2> QED
    BY <1>2, ShortSequences, Zenon
<1>8. /\ u \in Seq(Words) /\ Len(u) = (p - 1) + 1
      /\ \A i \in 1..((p - 1) + 1) :
           u[i] = IF i <= p - 1 THEN Spelled(t, spell)[i] ELSE <<w>>[i - (p - 1)]
  <2> DEFINE a == Spelled(t, spell)
             b == <<w>>
  <2> HIDE DEF a, b
  <2>1. /\ a \o b \in Seq(Words) /\ Len(a \o b) = Len(a) + Len(b)
        /\ \A i \in 1 .. Len(a) + Len(b) : (a \o b)[i] = IF i <= Len(a) THEN a[i] ELSE b[i - Len(a)]
    BY <1>6, <1>7, ConcatProperties DEF a, b
  <2>2. Len(a) = p - 1 /\ Len(b) = 1
    BY <1>6, <1>7 DEF a, b
  <2> QED
    BY <2>1, <2>2 DEF a, b
<1> HIDE DEF u, v
<1>9. ASSUME NEW i \in 1..p PROVE v[i] = u[i]
  <2>1. CASE i = p
    <3>1. ~(i <= p - 1) /\ i - (p - 1) = 1 /\ i \in 1..((p - 1) + 1)
      BY <1>1, <2>1
    <3>2. u[i] = w
      BY <1>7, <1>8, <3>1
    <3> QED
      BY <1>3, <1>5, <2>1, <3>2 DEF w
  <2>2. CASE i # p
    <3>1. i <= p - 1 /\ i \in 1..(p - 1) /\ i \in 1..((p - 1) + 1)
      BY <1>1, <2>2
    <3> QED
      BY <1>3, <1>4, <1>5, <1>6, <1>8, <3>1
  <2> QED
    BY <2>1, <2>2
<1>10. Len(u) = p /\ Len(v) = p
  BY <1>1, <1>5, <1>8
<1>11. v = u
  BY <1>5, <1>8, <1>9, <1>10, SeqEqual
<1> QED
  BY <1>2, <1>6, <1>11 DEF u, v, w, s, t

\* The comma the walk writes before a node is the one the parser has read.
LEMMA SeparatorIsPending ==
  ASSUME NEW frames \in Seq(WalkFrame), NEW stk \in Seq(Frame), NEW st, NEW kind,
         Follows(frames, stk, st),
         \/ st = "Value" /\ kind \notin Closed \cup {"key"}
         \/ /\ kind = "key" /\ st \in {"ObjectFirst", "ObjectKey"}
            /\ stk # <<>> /\ stk[Len(stk)].kind = "object"
         \/ kind \in Closed /\ st \in {"ArrayFirst", "ArrayNext", "ObjectFirst", "ObjectNext"}
  PROVE  SeparatorBefore(kind, frames) = PendingComma(frames, stk, st)
<1>0. Len(frames) = Len(stk) /\ Len(stk) \in Nat
  BY LenProperties DEF Follows
<1>1. (frames = <<>>) <=> (stk = <<>>)
  BY <1>0, EmptySeq
<1>2. stk # <<>> => /\ Len(stk) \in 1..Len(stk)
                    /\ Last1(frames).array = (stk[Len(stk)].kind = "array")
  BY <1>0, EmptySeq DEF Follows, Last1
<1>3. CASE st = "Value" /\ kind \notin Closed \cup {"key"}
  BY <1>1, <1>2, <1>3 DEF SeparatorBefore, PendingComma, Comma
<1>4. CASE /\ kind = "key" /\ st \in {"ObjectFirst", "ObjectKey"}
           /\ stk # <<>> /\ stk[Len(stk)].kind = "object"
  <2>1. Last1(frames).seen = (st = "ObjectKey")
    <3>1. Last1(frames) \in WalkFrame
      BY <1>1, <1>4, FramesPop
    <3>2. st = "ObjectKey" => Last1(frames).seen
      BY <1>0, <1>2, <1>4 DEF Follows, Last1
    <3>3. st = "ObjectFirst" => ~Last1(frames).seen
      BY <1>0, <1>2, <1>4 DEF Follows, Last1
    <3> QED
      BY <1>4, <3>1, <3>2, <3>3 DEF WalkFrame
  <2>2. PendingComma(frames, stk, st) = IF st = "ObjectKey" THEN <<",">> ELSE <<>>
    BY <1>4 DEF PendingComma
  <2>3. SeparatorBefore(kind, frames) = IF Last1(frames).seen THEN <<",">> ELSE <<>>
    BY <1>1, <1>4 DEF SeparatorBefore, Comma
  <2> QED
    BY <2>1, <2>2, <2>3
<1>5. CASE kind \in Closed /\ st \in {"ArrayFirst", "ArrayNext", "ObjectFirst", "ObjectNext"}
  <2>1. kind # "key"
    BY <1>5 DEF Closed
  <2> QED
    BY <1>5, <2>1 DEF SeparatorBefore, PendingComma
<1> QED
  BY <1>3, <1>4, <1>5

\* One node more: the walk writes its words after the comma that was due.
LEMMA TellsNode ==
  ASSUME NEW spell \in [Strings -> Strings], NEW doc \in Seq(Words), NEW p, NEW q,
         NEW tape \in Seq(Node), NEW longer \in Seq(Node), Len(longer) = Len(tape) + 1,
         \A i \in 1..Len(tape) : longer[i].kind = tape[i].kind /\ longer[i].at = tape[i].at,
         ReadsTokens(longer, doc),
         NEW stk, NEW st, NEW stk2, NEW st2, NEW node, node = longer[Len(tape) + 1],
         Tells(tape, doc, p, stk, st, spell),
         NEW frames, frames = Walk(tape, doc, spell).frames,
         SeparatorBefore(node.kind, frames) = PendingComma(frames, stk, st),
         Spelled(SubSeq(doc, 1, q - 1), spell)
           = Spelled(SubSeq(doc, 1, p - 1), spell) \o Spelling(node, doc, spell),
         Follows(FramesAfter(node.kind, frames), stk2, st2),
         PendingComma(FramesAfter(node.kind, frames), stk2, st2) = <<>>
  PROVE  Tells(longer, doc, q, stk2, st2, spell)
<1> DEFINE n == Len(tape)
           v == Walks(tape, doc, spell)
           w == Walks(longer, doc, spell)
<1>0. n \in Nat /\ n + 1 \in Nat /\ Len(longer) = n + 1 /\ n <= n + 1 /\ 1..n \subseteq 1..(n + 1)
  BY LenProperties
<1> HIDE DEF n
<1>1. ReadsTokens(tape, doc)
  <2>1. ASSUME NEW i \in 1..Len(tape) PROVE ReadsToken(tape[i], doc)
    <3>1. ReadsToken(longer[i], doc) /\ longer[i].kind = tape[i].kind
          /\ longer[i].at = tape[i].at
      BY <1>0, <2>1 DEF n, ReadsTokens
    <3> QED
      BY <3>1 DEF ReadsToken
  <2> QED
    BY <2>1 DEF ReadsTokens
<1>2. w[n] = v[n]
  <2>1. SameNodes(n, tape, doc, longer, doc)
    BY <1>0 DEF n, SameNodes
  <2> QED
    BY <1>1, <2>1, WalkedAlike
<1>3. w[n + 1] = Emit(w[n], node, doc, spell) /\ w[n + 1] \in WalkStates
  <2>1. /\ \A k \in 1..Len(longer) : w[k] = Emit(w[k - 1], longer[k], doc, spell)
        /\ \A k \in 0..Len(longer) : w[k] \in WalkStates
    BY WalksStepwise, Zenon
  <2>2. n + 1 \in 1..Len(longer) /\ n + 1 \in 0..Len(longer) /\ (n + 1) - 1 = n
    BY <1>0
  <2> HIDE DEF w
  <2> QED
    BY <2>1, <2>2 DEF n
<1> DEFINE before == v[n]
           after == w[n + 1]
<1>4. Walk(tape, doc, spell) = before /\ Walk(longer, doc, spell) = after
  BY <1>0 DEF Walk, n
<1> HIDE DEF v, w
<1>5. after = Emit(before, node, doc, spell) /\ after.out \in Seq(Token)
  BY <1>2, <1>3 DEF WalkStates
<1> HIDE DEF before, after
<1>6. /\ Spelled(SubSeq(doc, 1, p - 1), spell) = before.out \o PendingComma(before.frames, stk, st)
      /\ frames = before.frames
  BY <1>4 DEF Tells
<1>7. /\ after.frames = FramesAfter(node.kind, frames)
      /\ after.out = before.out \o SeparatorBefore(node.kind, frames) \o Spelling(node, doc, spell)
  BY <1>5, <1>6 DEF Emit
<1>8. after.out = Spelled(SubSeq(doc, 1, q - 1), spell)
  BY <1>6, <1>7
<1>9. after.out \o <<>> = after.out
  BY <1>5, ConcatEmptySeq
<1> QED
  BY <1>4, <1>7, <1>8, <1>9 DEF Tells



\* Every node stands for a token already passed, of its kind.
StandForTokens(tape, doc, p) ==
  \A i \in 1..Len(tape) : tape[i].at \in 1..(p - 1) /\ ReadsToken(tape[i], doc)

\* The end of the input comes last and is never passed.
EndIsLast(doc, p) ==
  /\ p <= Len(doc) + 1
  /\ \A k \in 1..Len(doc) : doc[k] = EndOfInput => k = Len(doc) /\ p <= k

\* Until the input is rejected, walking the tape writes what was read, however strings are
\* spelled.
WalkTells ==
  /\ EndIsLast(input, pos)
  /\ StandForTokens(nodes, input, pos)
  /\ outcome # "invalid" =>
       \A spell \in [Strings -> Strings] : Tells(nodes, input, pos, stack, state, spell)

\* What a tape stands for stays behind the parser.
LEMMA StandStill ==
  ASSUME NEW tape, NEW doc, NEW p \in Nat, NEW q \in Nat, p <= q, StandForTokens(tape, doc, p)
  PROVE  StandForTokens(tape, doc, q)
<1>1. 1..(p - 1) \subseteq 1..(q - 1)
  OBVIOUS
<1> QED
  BY <1>1 DEF StandForTokens

\* A tape with one more node stands for one more token.
LEMMA StandForOneMore ==
  ASSUME NEW tape \in Seq(Node), NEW longer, NEW doc, NEW p \in Nat \ {0}, NEW q \in Nat, p < q,
         StandForTokens(tape, doc, p),
         Len(longer) = Len(tape) + 1,
         \A i \in 1..Len(tape) : longer[i].kind = tape[i].kind /\ longer[i].at = tape[i].at,
         longer[Len(tape) + 1].at = p, ReadsToken(longer[Len(tape) + 1], doc)
  PROVE  StandForTokens(longer, doc, q)
<1>1. Len(tape) \in Nat
  BY LenProperties
<1>2. ASSUME NEW i \in 1..Len(longer)
      PROVE  longer[i].at \in 1..(q - 1) /\ ReadsToken(longer[i], doc)
  <2>1. CASE i = Len(tape) + 1
    <3>1. p \in 1..(q - 1)
      OBVIOUS
    <3> QED
      BY <2>1, <3>1
  <2>2. CASE i # Len(tape) + 1
    <3>1. i \in 1..Len(tape)
      BY <1>1, <2>2
    <3>2. tape[i].at \in 1..(p - 1) /\ ReadsToken(tape[i], doc)
      BY <3>1 DEF StandForTokens
    <3>3. longer[i].kind = tape[i].kind /\ longer[i].at = tape[i].at
      BY <3>1
    <3>4. 1..(p - 1) \subseteq 1..(q - 1)
      OBVIOUS
    <3> QED
      BY <3>2, <3>3, <3>4 DEF ReadsToken
  <2> QED
    BY <2>1, <2>2
<1> QED
  BY <1>2 DEF StandForTokens

\* The parser goes past a token that is not the end of the input.
LEMMA EndPassed ==
  ASSUME NEW doc \in Seq(Words), NEW p \in 1..Len(doc), EndIsLast(doc, p), doc[p] # EndOfInput
  PROVE  EndIsLast(doc, p + 1)
<1> DEFINE n == Len(doc)
<1>1. n \in Nat /\ p \in 1..n
  BY LenProperties
<1> HIDE DEF n
<1>2. ASSUME NEW k \in 1..n, doc[k] = EndOfInput PROVE k = n /\ p + 1 <= k
  <2>1. k = n /\ p <= k
    BY <1>2 DEF EndIsLast, n
  <2>2. p # k
    BY <1>2
  <2> QED
    BY <1>1, <2>1, <2>2
<1>3. p + 1 <= n + 1
  BY <1>1
<1> QED
  BY <1>2, <1>3 DEF EndIsLast, n

\* What comes into view changes nothing of what was read.
LEMMA TellsOn ==
  ASSUME NEW doc \in Seq(Words), NEW t \in Words, NEW p \in 1..(Len(doc) + 1),
         NEW tape \in Seq(Node), StandForTokens(tape, doc, p)
  PROVE  LET more == Append(doc, t)
         IN /\ StandForTokens(tape, more, p)
            /\ \A k \in 1..Len(doc) : more[k] = doc[k]
            /\ SubSeq(more, 1, p - 1) = SubSeq(doc, 1, p - 1)
            /\ \A stk, st : \A spell \in [Strings -> Strings] :
                 Tells(tape, doc, p, stk, st, spell) => Tells(tape, more, p, stk, st, spell)
<1> DEFINE n == Len(doc)
           more == Append(doc, t)
           m == p - 1
<1>1. n \in Nat /\ m \in 0..n
  BY LenProperties
<1>2. Len(more) = n + 1 /\ \A k \in 1..n : more[k] = doc[k]
  BY AppendProperties
<1> HIDE DEF more, n
<1>3. \A i \in 1..Len(tape) : tape[i].at \in 1..n /\ more[tape[i].at] = doc[tape[i].at]
  <2>1. 1..m \subseteq 1..n
    BY <1>1
  <2> QED
    BY <1>2, <2>1 DEF StandForTokens
<1>4. ReadsTokens(tape, doc) /\ ReadsTokens(tape, more)
  BY <1>3 DEF StandForTokens, ReadsTokens, ReadsToken
<1>5. StandForTokens(tape, more, p)
  BY <1>4 DEF StandForTokens, ReadsTokens
<1>6. SubSeq(more, 1, m) = SubSeq(doc, 1, m)
  <2>1. \A i \in 1..m : more[1 + i - 1] = doc[1 + i - 1]
    <3> TAKE i \in 1..m
    <3>1. 1 + i - 1 \in 1..n
      BY <1>1
    <3> QED
      BY <1>2, <3>1
  <2>2. m \in Int /\ 1 \in Int /\ m - 1 + 1 = m /\ \A i \in 1..m : 1 + i - 1 = i /\ i \in 1..n
    BY <1>1
  <2> HIDE DEF m
  <2>3. /\ SubSeq(doc, 1, m) \in Seq(Words) /\ SubSeq(more, 1, m) \in Seq(Words)
        /\ Len(SubSeq(doc, 1, m)) = Len(SubSeq(more, 1, m))
        /\ Len(SubSeq(doc, 1, m)) = IF 1 <= m THEN m - 1 + 1 ELSE 0
        /\ \A i \in 1..m : SubSeq(doc, 1, m)[i] = doc[i] /\ SubSeq(more, 1, m)[i] = more[i]
    <3>1. \A i \in 1..m : doc[i] \in Words /\ more[i] \in Words
      BY <1>2, <2>2, ElementOfSeq DEF n
    <3> QED
      BY <2>2, <3>1, SubSeqProperties
  <2>4. \A i \in 1..Len(SubSeq(doc, 1, m)) : SubSeq(doc, 1, m)[i] = SubSeq(more, 1, m)[i]
    <3>1. Len(SubSeq(doc, 1, m)) = m
      BY <1>1, <2>3
    <3> QED
      BY <1>2, <2>2, <2>3, <3>1
  <2> QED
    BY <2>3, <2>4, SeqEqual
<1>7. ASSUME NEW spell \in [Strings -> Strings]
      PROVE  Walk(tape, more, spell) = Walk(tape, doc, spell)
  <2>1. SameNodes(Len(tape), tape, doc, tape, more)
    BY <1>3, LenProperties DEF SameNodes
  <2> QED
    BY <1>4, <2>1, WalkedAlike DEF Walk
<1>8. \A stk, st : \A spell \in [Strings -> Strings] :
         Tells(tape, doc, p, stk, st, spell) => Tells(tape, more, p, stk, st, spell)
  BY <1>6, <1>7 DEF Tells
<1> QED
  BY <1>2, <1>5, <1>6, <1>8 DEF more, n

\* Before the first token.
LEMMA TellsAtFirst ==
  ASSUME NEW doc, NEW spell \in [Strings -> Strings]
  PROVE  Tells(<<>>, doc, 1, <<>>, "Value", spell)
<1>1. <<>> \in Seq(Node) /\ Len(<<>>) = 0
  BY EmptySeq
<1>2. ReadsTokens(<<>>, doc)
  BY <1>1 DEF ReadsTokens
<1>3. Walk(<<>>, doc, spell) = NothingOut
  BY <1>1, <1>2, WalksStepwise DEF Walk
<1>4. SubSeq(doc, 1, 1 - 1) = <<>>
  BY SubSeqEmpty
<1>5. Spelled(<<>>, spell) = <<>>
  <2>1. <<>> \in Seq(Words)
    BY EmptySeq
  <2>2. Spelled(<<>>, spell) \in Seq(Words) /\ Len(Spelled(<<>>, spell)) = 0
    BY <1>1, <2>1, SpelledTyped
  <2> QED
    BY <2>2, EmptySeq
<1>6. <<>> \o <<>> = <<>>
  BY <1>1, ConcatEmptySeq
<1>7. PendingComma(<<>>, <<>>, "Value") = <<>>
  BY DEF PendingComma
<1>8. Follows(<<>>, <<>>, "Value")
  BY <1>1 DEF Follows
<1>9. NothingOut.out = <<>> /\ NothingOut.frames = <<>>
  BY DEF NothingOut
<1> QED
  BY <1>3, <1>4, <1>5, <1>6, <1>7, <1>8, <1>9 DEF Tells

\* A node that is due after what was read, in the state the parser is in.
Due(kind, stk, st) ==
  \/ st = "Value" /\ kind \notin Closed \cup {"key"}
  \/ /\ kind = "key" /\ st \in {"ObjectFirst", "ObjectKey"}
     /\ stk # <<>> /\ stk[Len(stk)].kind = "object"
  \/ kind \in Closed /\ st \in {"ArrayFirst", "ArrayNext", "ObjectFirst", "ObjectNext"}

\* A tape with one node more; the others keep their kinds and tokens.
Grows(longer, tape, node) ==
  /\ longer \in Seq(Node) /\ Len(longer) = Len(tape) + 1 /\ node = longer[Len(tape) + 1]
  /\ \A i \in 1..Len(tape) : longer[i].kind = tape[i].kind /\ longer[i].at = tape[i].at

\* What is read from p to q is what the node stands for.
ReadAs(doc, p, q, node, spell) ==
  Spelled(SubSeq(doc, 1, q - 1), spell)
    = Spelled(SubSeq(doc, 1, p - 1), spell) \o Spelling(node, doc, spell)

\* A node of this kind keeps the walk's frames those of the stack, with no comma due.
KeepsStep(kind, stk, st, stk2, st2) ==
  \A frames \in Seq(WalkFrame) :
    Follows(frames, stk, st) =>
      /\ Follows(FramesAfter(kind, frames), stk2, st2)
      /\ PendingComma(FramesAfter(kind, frames), stk2, st2) = <<>>

\* A node that was due, read as its tokens, keeps the walk in step with the parser.
LEMMA NodeTells ==
  ASSUME NEW doc \in Seq(Words), NEW p \in 1..Len(doc), NEW q \in Nat, p < q,
         NEW tape \in Seq(Node), NEW stk \in Seq(Frame), NEW node, NEW longer,
         Grows(longer, tape, node), node.at = p, ReadsToken(node, doc),
         StandForTokens(tape, doc, p)
  PROVE  /\ StandForTokens(longer, doc, q)
         /\ \A st, stk2, st2 : \A spell \in [Strings -> Strings] :
              /\ Tells(tape, doc, p, stk, st, spell) /\ Due(node.kind, stk, st)
              /\ ReadAs(doc, p, q, node, spell) /\ KeepsStep(node.kind, stk, st, stk2, st2)
              => Tells(longer, doc, q, stk2, st2, spell)
<1>0. /\ longer \in Seq(Node) /\ Len(longer) = Len(tape) + 1 /\ node = longer[Len(tape) + 1]
      /\ \A i \in 1..Len(tape) : longer[i].kind = tape[i].kind /\ longer[i].at = tape[i].at
  BY DEF Grows
<1>1. p \in Nat \ {0}
  BY LenProperties
<1>2. StandForTokens(longer, doc, q)
  BY <1>0, <1>1, StandForOneMore
<1>3. ReadsTokens(tape, doc) /\ ReadsTokens(longer, doc)
  BY <1>2 DEF StandForTokens, ReadsTokens
<1>4. ASSUME NEW spell \in [Strings -> Strings], NEW st, NEW stk2, NEW st2,
             Tells(tape, doc, p, stk, st, spell), Due(node.kind, stk, st),
             ReadAs(doc, p, q, node, spell), KeepsStep(node.kind, stk, st, stk2, st2)
      PROVE  Tells(longer, doc, q, stk2, st2, spell)
  <2> DEFINE frames == Walk(tape, doc, spell).frames
  <2>1. frames \in Seq(WalkFrame)
    <3>1. Len(tape) \in 0..Len(tape)
      BY LenProperties
    <3>2. Walk(tape, doc, spell) \in WalkStates
      BY <1>3, <3>1, WalksStepwise DEF Walk
    <3> QED
      BY <3>2 DEF WalkStates
  <2>2. Follows(frames, stk, st)
    BY <1>4 DEF Tells
  <2>3. frames = Walk(tape, doc, spell).frames
    OBVIOUS
  <2> HIDE DEF frames
  <2>4. SeparatorBefore(node.kind, frames) = PendingComma(frames, stk, st)
    BY <1>4, <2>1, <2>2, SeparatorIsPending DEF Due
  <2>5. /\ Follows(FramesAfter(node.kind, frames), stk2, st2)
        /\ PendingComma(FramesAfter(node.kind, frames), stk2, st2) = <<>>
    BY <1>4, <2>1, <2>2 DEF KeepsStep
  <2>6. Spelled(SubSeq(doc, 1, q - 1), spell)
          = Spelled(SubSeq(doc, 1, p - 1), spell) \o Spelling(node, doc, spell)
    BY <1>4 DEF ReadAs
  <2>7. tape \in Seq(Node) /\ doc \in Seq(Words) /\ spell \in [Strings -> Strings]
        /\ Tells(tape, doc, p, stk, st, spell)
    BY <1>4
  <2> QED
    BY ONLY <1>0, <1>3, <2>3, <2>4, <2>5, <2>6, <2>7, TellsNode
<1> QED
  BY <1>2, <1>4

\* Strings, scalars, punctuation and the end of the input are told apart.
LEMMA TokensApart ==
  /\ Strings \cap Scalars = {}
  /\ \A t \in Punctuation : t \notin Strings /\ t # EndOfInput
  /\ \A t \in Strings \cup Scalars : t # EndOfInput
BY TapeAssumption DEF Token

\* What the parser's types say of the walk's.
LEMMA TypesHold ==
  ASSUME ClosesWhatIsOpen
  PROVE  /\ input \in Seq(Words) /\ nodes \in Seq(Node) /\ stack \in Seq(Frame)
         /\ pos \in Nat \ {0} /\ Len(input) \in Nat /\ Len(nodes) \in Nat /\ Len(stack) \in Nat
BY LenProperties DEF ClosesWhatIsOpen, TapeTypes, Words

\* A node spelled as the token under the parser is read as it.
LEMMA OneTokenRead ==
  ASSUME NEW doc \in Seq(Words), NEW p \in 1..Len(doc), NEW spell \in [Strings -> Strings],
         NEW node, Spelling(node, doc, spell) = <<SpelledToken(doc[p], spell)>>
  PROVE  ReadAs(doc, p, p + 1, node, spell)
<1>1. Len(doc) \in Nat
  BY LenProperties
<1>2. (p + 1) - 1 = p
  BY <1>1
<1> QED
  BY <1>2, SpelledGrows DEF ReadAs

\* The walk over a tape with one more container open.
LEMMA OpenTold ==
  ASSUME NEW doc \in Seq(Words), NEW p \in 1..Len(doc), NEW tape \in Seq(Node),
         NEW stk \in Seq(Frame), NEW kind \in Containers,
         NEW first \in {"ArrayFirst", "ObjectFirst"},
         NEW frame \in Frame, frame.kind = kind, NEW d \in Nat,
         doc[p] = IF kind = "object" THEN "{" ELSE "[",
         StandForTokens(tape, doc, p), NEW longer, longer = Append(tape, NodeAt(kind, p, d))
  PROVE  /\ StandForTokens(longer, doc, p + 1)
         /\ \A spell \in [Strings -> Strings] :
              Tells(tape, doc, p, stk, "Value", spell) =>
                Tells(longer, doc, p + 1, Append(stk, frame), first, spell)
<1> DEFINE node == NodeAt(kind, p, d)
           n == Len(tape)
           q == p + 1
<1>0. Len(doc) \in Nat /\ n \in Nat /\ p \in 1..Len(doc)
  BY LenProperties
<1> HIDE DEF n
<1>1. n \in Nat /\ p \in Nat \ {0} /\ q \in Nat /\ p < q /\ q - 1 = p
  BY ONLY <1>0
<1>2. doc[p] \in Punctuation /\ doc[p] \notin Strings
  BY TokensApart DEF Punctuation
<1>3. kind \in Kinds /\ kind \notin {"string", "key", "scalar"} /\ kind \notin Closed
  BY DEF Kinds, Containers, Closed
<1>4. node \in Node /\ node.kind = kind /\ node.at = p
  BY <1>1, <1>3 DEF Node, NodeAt
<1>5. ReadsToken(node, doc)
  BY <1>3, <1>4 DEF ReadsToken
<1>6. \A spell : Spelling(node, doc, spell) = <<doc[p]>>
  BY <1>4 DEF Spelling, Containers
<1> HIDE DEF node, n, q
<1>7. Grows(longer, tape, node)
  <2>1. tape \in Seq(Node) /\ longer = Append(tape, node)
    BY DEF node
  <2>2. /\ longer \in Seq(Node) /\ Len(longer) = n + 1 /\ longer[n + 1] = node
        /\ \A i \in 1..n : longer[i] = tape[i]
    BY ONLY <1>4, <2>1, AppendProperties DEF n
  <2> QED
    BY <2>2 DEF n, Grows
<1>8. /\ StandForTokens(longer, doc, q)
      /\ \A st, stk2, st2 : \A spell \in [Strings -> Strings] :
              /\ Tells(tape, doc, p, stk, st, spell) /\ Due(node.kind, stk, st)
              /\ ReadAs(doc, p, q, node, spell) /\ KeepsStep(node.kind, stk, st, stk2, st2)
              => Tells(longer, doc, q, stk2, st2, spell)
  <2>1. /\ doc \in Seq(Words) /\ p \in 1..Len(doc) /\ tape \in Seq(Node) /\ stk \in Seq(Frame)
        /\ StandForTokens(tape, doc, p)
    OBVIOUS
  <2> QED
    BY ONLY <1>1, <1>4, <1>5, <1>7, <2>1, NodeTells
<1>9. \A spell \in [Strings -> Strings] : ReadAs(doc, p, q, node, spell)
  <2> TAKE spell \in [Strings -> Strings]
  <2>1. Spelling(node, doc, spell) = <<SpelledToken(doc[p], spell)>>
    BY <1>2, <1>6 DEF SpelledToken
  <2> QED
    BY <2>1, OneTokenRead DEF q
<1>10. KeepsStep(kind, stk, "Value", Append(stk, frame), first)
  BY FollowsOpen DEF KeepsStep, PendingComma
<1>11. Due(kind, stk, "Value")
  BY <1>3 DEF Due
<1> QED
  BY <1>4, <1>8, <1>9, <1>10, <1>11 DEF q

\* Two tapes of the same kinds, at the same tokens.
SameTokens(base, tape) ==
  /\ Len(base) = Len(tape)
  /\ \A i \in 1..Len(tape) : base[i].kind = tape[i].kind /\ base[i].at = tape[i].at

\* The same for a node appended to a tape that may have had a count patched.
LEMMA AppendedTells ==
  ASSUME NEW doc \in Seq(Words), NEW p \in 1..Len(doc), NEW q \in Nat, p < q,
         NEW tape \in Seq(Node), NEW base \in Seq(Node), SameTokens(base, tape),
         NEW stk \in Seq(Frame), NEW node \in Node, node.at = p, ReadsToken(node, doc),
         StandForTokens(tape, doc, p), NEW longer, longer = Append(base, node)
  PROVE  /\ StandForTokens(longer, doc, q)
         /\ \A st, stk2, st2 : \A spell \in [Strings -> Strings] :
              /\ Tells(tape, doc, p, stk, st, spell) /\ Due(node.kind, stk, st)
              /\ ReadAs(doc, p, q, node, spell) /\ KeepsStep(node.kind, stk, st, stk2, st2)
              => Tells(longer, doc, q, stk2, st2, spell)
<1> DEFINE n == Len(tape)
<1>1. Grows(longer, tape, node)
  <2>1. base \in Seq(Node) /\ node \in Node /\ longer = Append(base, node) /\ Len(base) = n
        /\ \A i \in 1..n : base[i].kind = tape[i].kind /\ base[i].at = tape[i].at
    BY DEF SameTokens
  <2> HIDE DEF n
  <2>2. /\ longer \in Seq(Node) /\ Len(longer) = n + 1 /\ longer[n + 1] = node
        /\ \A i \in 1..n : longer[i] = base[i]
    BY ONLY <2>1, AppendProperties
  <2> QED
    BY <2>1, <2>2 DEF n, Grows
<1>2. /\ doc \in Seq(Words) /\ p \in 1..Len(doc) /\ q \in Nat /\ p < q /\ tape \in Seq(Node)
      /\ stk \in Seq(Frame) /\ node.at = p /\ ReadsToken(node, doc)
      /\ StandForTokens(tape, doc, p)
  OBVIOUS
<1> QED
  BY ONLY <1>1, <1>2, NodeTells

\* After a value no comma is pending.
LEMMA AfterValueNoComma ==
  ASSUME NEW frames, NEW stk, NEW stk2
  PROVE  PendingComma(frames, stk2, AfterValue(stk)) = <<>>
BY DEF PendingComma, AfterValue

\* The walk over a tape with one more string or scalar.
LEMMA ScalarTold ==
  ASSUME NEW doc \in Seq(Words), NEW p \in 1..Len(doc), NEW tape \in Seq(Node),
         NEW stk \in Seq(Frame), NEW d \in Nat, doc[p] \in Strings \cup Scalars,
         NEW kind, kind = IF doc[p] \in Strings THEN "string" ELSE "scalar",
         StandForTokens(tape, doc, p), NEW longer, longer = Append(tape, NodeAt(kind, p, d))
  PROVE  /\ StandForTokens(longer, doc, p + 1)
         /\ \A spell \in [Strings -> Strings] :
              Tells(tape, doc, p, stk, "Value", spell) =>
                Tells(longer, doc, p + 1, stk, AfterValue(stk), spell)
<1> DEFINE node == NodeAt(kind, p, d)
           q == p + 1
           st2 == AfterValue(stk)
<1>0. Len(doc) \in Nat /\ p \in 1..Len(doc)
  BY LenProperties
<1>1. p \in Nat \ {0} /\ q \in Nat /\ p < q
  BY ONLY <1>0
<1>2. kind \in {"string", "scalar"} /\ kind \in Kinds /\ kind \notin Closed \cup {"key"}
  BY DEF Kinds, Closed
<1>3. node \in Node /\ node.kind = kind /\ node.at = p
  BY <1>1, <1>2 DEF Node, NodeAt
<1>4. ReadsToken(node, doc)
  BY <1>2, <1>3, TokensApart DEF ReadsToken
<1>5. \A spell : Spelling(node, doc, spell) = <<SpelledToken(doc[p], spell)>>
  BY <1>3, TokensApart DEF Spelling, SpelledToken
<1>6. longer = Append(tape, node)
  OBVIOUS
<1> HIDE DEF node, st2
<1>7. /\ StandForTokens(longer, doc, q)
      /\ \A st, stk2, st3 : \A spell \in [Strings -> Strings] :
              /\ Tells(tape, doc, p, stk, st, spell) /\ Due(node.kind, stk, st)
              /\ ReadAs(doc, p, q, node, spell) /\ KeepsStep(node.kind, stk, st, stk2, st3)
              => Tells(longer, doc, q, stk2, st3, spell)
  <2>1. /\ doc \in Seq(Words) /\ tape \in Seq(Node) /\ stk \in Seq(Frame)
        /\ StandForTokens(tape, doc, p) /\ SameTokens(tape, tape)
    BY DEF SameTokens
  <2> HIDE DEF q
  <2> QED
    BY ONLY <1>0, <1>1, <1>3, <1>4, <1>6, <2>1, AppendedTells
<1>8. \A spell \in [Strings -> Strings] : ReadAs(doc, p, q, node, spell)
  BY <1>5, OneTokenRead
<1>9. KeepsStep(kind, stk, "Value", stk, st2)
  BY <1>2, FollowsScalar, AfterValueNoComma DEF KeepsStep, st2
<1>10. Due(kind, stk, "Value")
  BY <1>2 DEF Due
<1> QED
  BY <1>3, <1>7, <1>8, <1>9, <1>10 DEF q, st2

\* The walk over a tape with a container closed.
LEMMA CloseTold ==
  ASSUME NEW doc \in Seq(Words), NEW p \in 1..Len(doc), NEW tape \in Seq(Node),
         NEW base \in Seq(Node), SameTokens(base, tape), NEW stk \in Seq(Frame), stk # <<>>,
         NEW d \in Nat, NEW kind \in Containers, doc[p] = (IF kind = "object" THEN "}" ELSE "]"),
         NEW rest, rest = SubSeq(stk, 1, Len(stk) - 1),
         StandForTokens(tape, doc, p),
         NEW longer, longer = Append(base, NodeAt(EndOf(kind), p, d)),
         NEW st \in {"ArrayFirst", "ArrayNext", "ObjectFirst", "ObjectNext"}
  PROVE  /\ StandForTokens(longer, doc, p + 1)
         /\ \A spell \in [Strings -> Strings] :
              Tells(tape, doc, p, stk, st, spell) =>
                Tells(longer, doc, p + 1, rest, AfterValue(rest), spell)
<1> DEFINE end == EndOf(kind)
           node == NodeAt(end, p, d)
           q == p + 1
           st2 == AfterValue(rest)
<1>0. Len(doc) \in Nat /\ p \in 1..Len(doc)
  BY LenProperties
<1>1. p \in Nat \ {0} /\ q \in Nat /\ p < q
  BY ONLY <1>0
<1>2. end \in Closed /\ end \in Kinds /\ end \notin {"key", "string", "scalar"}
      /\ (end = "object_end" <=> kind = "object")
  BY DEF Kinds, Closed, EndOf, Containers
<1>3. node \in Node /\ node.kind = end /\ node.at = p
  BY <1>1, <1>2 DEF Node, NodeAt
<1>4. ReadsToken(node, doc)
  BY <1>2, <1>3 DEF ReadsToken
<1>5. \A spell : Spelling(node, doc, spell) = <<SpelledToken(doc[p], spell)>>
  <2>1. doc[p] \notin Strings
    BY TokensApart DEF Punctuation
  <2>2. node.kind = IF kind = "object" THEN "object_end" ELSE "array_end"
    BY <1>3 DEF EndOf
  <2> HIDE DEF node, end
  <2>3. \A spell : Spelling(node, doc, spell) = <<doc[p]>>
    BY <2>2 DEF Spelling
  <2> QED
    BY <2>1, <2>3 DEF SpelledToken
<1>6. longer = Append(base, node)
  OBVIOUS
<1> HIDE DEF node, st2, end
<1>7. /\ StandForTokens(longer, doc, q)
      /\ \A st1, stk2, st3 : \A spell \in [Strings -> Strings] :
              /\ Tells(tape, doc, p, stk, st1, spell) /\ Due(node.kind, stk, st1)
              /\ ReadAs(doc, p, q, node, spell) /\ KeepsStep(node.kind, stk, st1, stk2, st3)
              => Tells(longer, doc, q, stk2, st3, spell)
  <2>1. /\ doc \in Seq(Words) /\ tape \in Seq(Node) /\ stk \in Seq(Frame) /\ base \in Seq(Node)
        /\ StandForTokens(tape, doc, p) /\ SameTokens(base, tape)
    OBVIOUS
  <2> HIDE DEF q
  <2> QED
    BY ONLY <1>0, <1>1, <1>3, <1>4, <1>6, <2>1, AppendedTells
<1>8. \A spell \in [Strings -> Strings] : ReadAs(doc, p, q, node, spell)
  BY <1>5, OneTokenRead
<1>9. KeepsStep(end, stk, st, rest, st2)
  BY <1>2, FollowsClose, AfterValueNoComma DEF KeepsStep, st2
<1>10. Due(end, stk, st)
  BY <1>2 DEF Due
<1> QED
  BY <1>3, <1>7, <1>8, <1>9, <1>10 DEF q, st2

\* Two tokens, one after the other.
LEMMA TwoInOrder ==
  ASSUME NEW A, NEW x \in A, NEW y \in A
  PROVE  <<x>> \o <<y>> = <<x, y>>
<1> DEFINE s == <<x>> \o <<y>>
           t == <<x, y>>
<1>1. /\ <<x>> \in Seq(A) /\ Len(<<x>>) = 1 /\ <<x>>[1] = x
      /\ <<y>> \in Seq(A) /\ Len(<<y>>) = 1 /\ <<y>>[1] = y
      /\ t \in Seq(A) /\ Len(t) = 2 /\ t[1] = x /\ t[2] = y
  BY ShortSequences
<1>2. s \in Seq(A) /\ Len(s) = 2 /\ s[1] = x /\ s[2] = y
  <2> DEFINE a == <<x>>
             b == <<y>>
  <2>1. a \in Seq(A) /\ b \in Seq(A) /\ Len(a) = 1 /\ Len(b) = 1 /\ a[1] = x /\ b[1] = y
    BY <1>1
  <2> HIDE DEF a, b
  <2>2. /\ a \o b \in Seq(A) /\ Len(a \o b) = 2
        /\ \A i \in 1..2 : (a \o b)[i] = IF i <= 1 THEN a[i] ELSE b[i - 1]
    BY ONLY <2>1, ConcatProperties, SMTT(40), ZenonT(40)
  <2>3. (a \o b)[1] = x /\ (a \o b)[2] = y
    BY <2>1, <2>2
  <2> QED
    BY <2>2, <2>3 DEF a, b
<1> HIDE DEF s, t
<1>3. \A i \in 1..Len(s) : s[i] = t[i]
  BY <1>1, <1>2
<1>4. s = t
  BY <1>1, <1>2, <1>3, SeqEqual
<1> QED
  BY <1>4 DEF s, t

\* Two tokens appended one after the other.
LEMMA TwoMore ==
  ASSUME NEW A, NEW s \in Seq(A), NEW x \in A, NEW y \in A
  PROVE  (s \o <<x>>) \o <<y>> = s \o <<x, y>>
<1> DEFINE t == <<x>>
           u == <<y>>
           v == <<x, y>>
<1>1. t \in Seq(A) /\ u \in Seq(A)
  BY ShortSequences
<1>2. t \o u = v
  BY TwoInOrder
<1> HIDE DEF t, u, v
<1>3. (s \o t) \o u = s \o (t \o u)
  BY ONLY s \in Seq(A), <1>1, ConcatAssociative
<1> QED
  BY ONLY <1>2, <1>3 DEF t, u, v

\* The walk over a tape with one more key, its colon read.
LEMMA KeyTold ==
  ASSUME NEW doc \in Seq(Words), NEW p \in 1..Len(doc), p + 1 \in 1..Len(doc),
         NEW tape \in Seq(Node), NEW stk \in Seq(Frame), stk # <<>>,
         stk[Len(stk)].kind = "object", NEW d \in Nat,
         doc[p] \in Strings, doc[p + 1] = ":",
         NEW counted, Len(counted) = Len(stk),
         \A k \in 1..Len(stk) : counted[k].kind = stk[k].kind,
         StandForTokens(tape, doc, p), NEW longer, longer = Append(tape, NodeAt("key", p, d)),
         NEW st \in {"ObjectFirst", "ObjectKey"}
  PROVE  /\ StandForTokens(longer, doc, p + 2)
         /\ \A spell \in [Strings -> Strings] :
              Tells(tape, doc, p, stk, st, spell) =>
                Tells(longer, doc, p + 2, counted, "Value", spell)
<1> DEFINE node == NodeAt("key", p, d)
           q == p + 2
<1>0. Len(doc) \in Nat /\ p \in 1..Len(doc)
  BY LenProperties
<1>1. p \in Nat \ {0} /\ q \in Nat /\ p < q /\ q - 1 = p + 1 /\ (p + 1) - 1 = p
  BY ONLY <1>0
<1>2. node \in Node /\ node.kind = "key" /\ node.at = p
  BY <1>1 DEF Node, NodeAt, Kinds
<1>3. ReadsToken(node, doc)
  BY <1>2 DEF ReadsToken, Kinds
<1>4. longer = Append(tape, node)
  OBVIOUS
<1>5. \A spell \in [Strings -> Strings] : ReadAs(doc, p, q, node, spell)
  <2> TAKE spell \in [Strings -> Strings]
  <2> DEFINE a == Spelled(SubSeq(doc, 1, p - 1), spell)
             word == spell[doc[p]]
  <2>1. /\ Spelled(SubSeq(doc, 1, p), spell) = a \o <<SpelledToken(doc[p], spell)>>
        /\ a \in Seq(Words)
    BY SpelledGrows
  <2>2. Spelled(SubSeq(doc, 1, p + 1), spell)
          = Spelled(SubSeq(doc, 1, (p + 1) - 1), spell) \o <<SpelledToken(doc[p + 1], spell)>>
    BY SpelledGrows, Zenon
  <2>3. SpelledToken(doc[p], spell) = word /\ SpelledToken(doc[p + 1], spell) = ":"
    BY TokensApart DEF SpelledToken, Punctuation
  <2>4. Spelling(node, doc, spell) = <<word, ":">>
    BY <1>2 DEF Spelling
  <2>5. word \in Words /\ ":" \in Words
    BY DEF Words, Token, Punctuation
  <2> DEFINE colon == ":"
  <2> HIDE DEF a, word, colon
  <2>6. (a \o <<word>>) \o <<colon>> = a \o <<word, colon>>
    <3>1. colon \in Words
      BY <2>5 DEF colon
    <3> QED
      BY ONLY <2>1, <2>5, <3>1, TwoMore, SMTT(40), ZenonT(40)
  <2>7. Spelled(SubSeq(doc, 1, q - 1), spell) = (a \o <<word>>) \o <<colon>>
    BY <1>1, <2>1, <2>2, <2>3 DEF colon
  <2> QED
    BY <2>4, <2>6, <2>7 DEF ReadAs, a, colon
<1> HIDE DEF node
<1>6. /\ StandForTokens(longer, doc, q)
      /\ \A st1, stk2, st3 : \A spell \in [Strings -> Strings] :
              /\ Tells(tape, doc, p, stk, st1, spell) /\ Due(node.kind, stk, st1)
              /\ ReadAs(doc, p, q, node, spell) /\ KeepsStep(node.kind, stk, st1, stk2, st3)
              => Tells(longer, doc, q, stk2, st3, spell)
  <2>1. /\ doc \in Seq(Words) /\ tape \in Seq(Node) /\ stk \in Seq(Frame)
        /\ StandForTokens(tape, doc, p) /\ SameTokens(tape, tape)
    BY DEF SameTokens
  <2> HIDE DEF q
  <2> QED
    BY ONLY <1>0, <1>1, <1>2, <1>3, <1>4, <2>1, AppendedTells
<1>7. KeepsStep("key", stk, st, counted, "Value")
  <2> SUFFICES ASSUME NEW frames \in Seq(WalkFrame), Follows(frames, stk, st)
               PROVE  /\ Follows(FramesAfter("key", frames), counted, "Value")
                      /\ PendingComma(FramesAfter("key", frames), counted, "Value") = <<>>
    BY DEF KeepsStep
  <2>1. Follows(FramesAfter("key", frames), counted, "Value")
    BY FollowsKey
  <2>2. counted[Len(counted)].kind = "object"
    <3>1. Len(stk) \in 1..Len(stk)
      BY EmptySeq
    <3> QED
      BY <3>1
  <2>3. PendingComma(FramesAfter("key", frames), counted, "Value") = <<>>
    BY <2>2 DEF PendingComma
  <2> QED
    BY <2>1, <2>3
<1>8. Due("key", stk, st)
  BY DEF Due
<1> QED
  BY <1>2, <1>5, <1>6, <1>7, <1>8 DEF q

\* Frames of the same kinds, in the same number.
SameKinds(frames, stk) ==
  Len(frames) = Len(stk) /\ \A k \in 1..Len(stk) : frames[k].kind = stk[k].kind

\* From one state to the next with no node in between.
Proceeds(stk, st, st2) ==
  \/ /\ st \in {"ArrayFirst", "ArrayNext"} /\ st2 = "Value"
     /\ stk[Len(stk)].kind = "array"
  \/ st = "ObjectNext" /\ st2 = "ObjectKey"

\* The walk's frames do not change with a count, nor when an element or a member is next.
LEMMA FollowsOn ==
  ASSUME NEW frames \in Seq(WalkFrame), NEW stk \in Seq(Frame), stk # <<>>,
         NEW st, NEW st2, Follows(frames, stk, st), Proceeds(stk, st, st2),
         NEW counted, SameKinds(counted, stk)
  PROVE  /\ Follows(frames, counted, st2)
         /\ PendingComma(frames, stk, st) = <<>>
         /\ st = "ArrayFirst" => PendingComma(frames, counted, st2) = <<>>
         /\ st # "ArrayFirst" => PendingComma(frames, counted, st2) = <<",">>
<1> DEFINE n == Len(stk)
<1>1. n \in Nat \ {0} /\ n \in 1..n /\ Len(frames) = n
  BY EmptySeq DEF Follows
<1>2. \A k \in 1..n : k < n \/ k = n
  BY <1>1
<1>3. \A k \in 1..n : k < n => frames[k].seen
  BY DEF Follows
<1>4. CASE st \in {"ArrayFirst", "ArrayNext"} /\ st2 = "Value" /\ stk[n].kind = "array"
  <2>0. Len(counted) = n /\ \A k \in 1..n : counted[k].kind = stk[k].kind
    BY DEF SameKinds
  <2>1. Follows(frames, counted, st2)
    <3>1. \A k \in 1..n : counted[k].kind = "object" => k < n
      BY <1>2, <1>4, <2>0
    <3>2. \A k \in 1..n : frames[k].array = (counted[k].kind = "array")
      BY <2>0 DEF Follows
    <3> QED
      BY <1>1, <1>3, <1>4, <2>0, <3>1, <3>2 DEF Follows
  <2>2. Last1(frames) = frames[n] /\ frames[n] \in WalkFrame
    BY <1>1, ElementOfSeq DEF Last1
  <2>3. frames[n].seen = (st = "ArrayNext")
    <3>1. st = "ArrayNext" => frames[n].seen
      BY <1>1, <1>4 DEF Follows
    <3>2. st = "ArrayFirst" => ~frames[n].seen
      BY <1>1, <1>4 DEF Follows
    <3> QED
      BY <1>4, <2>2, <3>1, <3>2 DEF WalkFrame
  <2>4. counted # <<>> /\ counted[Len(counted)].kind = "array"
    BY <1>1, <1>4, <2>0, EmptySeq
  <2> QED
    BY <1>4, <2>1, <2>2, <2>3, <2>4 DEF PendingComma
<1>5. CASE st = "ObjectNext" /\ st2 = "ObjectKey"
  <2>0. Len(counted) = n /\ \A k \in 1..n : counted[k].kind = stk[k].kind
    BY DEF SameKinds
  <2>1. \A k \in 1..n : frames[k].array = (counted[k].kind = "array") /\ frames[k].seen
    BY <1>5, <2>0 DEF Follows
  <2>2. Follows(frames, counted, st2)
    BY <1>1, <1>5, <2>0, <2>1 DEF Follows
  <2> QED
    BY <1>5, <2>2 DEF PendingComma
<1> QED
  BY <1>4, <1>5 DEF Proceeds

\* The first element is where the bracket left the parser; another one, or another member,
\* comes after a comma.
LEMMA NextTold ==
  ASSUME NEW doc \in Seq(Words), NEW p \in 1..Len(doc), NEW tape \in Seq(Node),
         StandForTokens(tape, doc, p),
         NEW stk \in Seq(Frame), stk # <<>>, NEW st, NEW st2, Proceeds(stk, st, st2),
         NEW counted, SameKinds(counted, stk),
         NEW q, IF st = "ArrayFirst" THEN q = p ELSE q = p + 1 /\ doc[p] = ",",
         NEW spell \in [Strings -> Strings], Tells(tape, doc, p, stk, st, spell)
  PROVE  Tells(tape, doc, q, counted, st2, spell)
<1> DEFINE walk == Walk(tape, doc, spell)
<1>1. Len(tape) \in Nat /\ Len(doc) \in Nat
  BY LenProperties
<1>2. walk \in WalkStates
  <2>1. ReadsTokens(tape, doc)
    BY DEF StandForTokens, ReadsTokens
  <2>2. Len(tape) \in 0..Len(tape)
    BY ONLY <1>1
  <2> QED
    BY <2>1, <2>2, WalksStepwise DEF Walk
<1>3. Follows(walk.frames, stk, st)
      /\ Spelled(SubSeq(doc, 1, p - 1), spell) = walk.out \o PendingComma(walk.frames, stk, st)
  BY DEF Tells
<1> DEFINE frames == walk.frames
           out == walk.out
<1>4. frames \in Seq(WalkFrame) /\ out \in Seq(Token)
  BY <1>2 DEF WalkStates
<1>5. Tells(tape, doc, q, counted, st2, spell) <=>
        /\ Spelled(SubSeq(doc, 1, q - 1), spell) = out \o PendingComma(frames, counted, st2)
        /\ Follows(frames, counted, st2)
  BY DEF Tells
<1>6. Follows(frames, stk, st)
      /\ Spelled(SubSeq(doc, 1, p - 1), spell) = out \o PendingComma(frames, stk, st)
  BY <1>3
<1> HIDE DEF walk, frames, out
<1>7. /\ Follows(frames, counted, st2)
      /\ PendingComma(frames, stk, st) = <<>>
      /\ st = "ArrayFirst" => PendingComma(frames, counted, st2) = <<>>
      /\ st # "ArrayFirst" => PendingComma(frames, counted, st2) = <<",">>
  <2>1. /\ stk \in Seq(Frame) /\ stk # <<>> /\ SameKinds(counted, stk)
        /\ Proceeds(stk, st, st2)
    OBVIOUS
  <2> QED
    BY ONLY <1>4, <1>6, <2>1, FollowsOn
<1>8. CASE st = "ArrayFirst"
  BY <1>5, <1>6, <1>7, <1>8
<1>9. CASE st # "ArrayFirst"
  <2>1. q = p + 1 /\ doc[p] = ","
    BY <1>9
  <2>2. q - 1 = p
    <3>1. p \in 1..Len(doc) /\ Len(doc) \in Nat
      BY <1>1
    <3>2. q = p + 1
      BY <2>1
    <3> QED
      BY ONLY <3>1, <3>2
  <2>3. SpelledToken(doc[p], spell) = ","
    BY <2>1, TokensApart DEF SpelledToken, Punctuation
  <2>4. Spelled(SubSeq(doc, 1, p), spell) = Spelled(SubSeq(doc, 1, p - 1), spell) \o <<",">>
    BY <2>3, SpelledGrows
  <2>5. out \o <<>> = out
    BY <1>4, ConcatEmptySeq
  <2> QED
    BY <1>5, <1>6, <1>7, <1>9, <2>2, <2>4, <2>5
<1> QED
  BY <1>8, <1>9



\* Before anything is read the walk is in step.
LEMMA WalkAtFirst == Init => WalkTells
<1> SUFFICES ASSUME Init PROVE WalkTells
  OBVIOUS
<1>1. input \in Seq(Token) /\ pos = 1 /\ nodes = <<>> /\ stack = <<>> /\ state = "Value"
  BY TapeAssumption DEF Init
<1>2. Len(input) \in Nat /\ \A k \in 1..Len(input) : input[k] \in Token
  BY <1>1, LenProperties
<1>3. EndIsLast(input, pos)
  BY <1>1, <1>2, TapeAssumption DEF EndIsLast
<1>4. StandForTokens(nodes, input, pos)
  BY <1>1, EmptySeq DEF StandForTokens
<1>5. \A spell \in [Strings -> Strings] : Tells(nodes, input, pos, stack, state, spell)
  BY <1>1, TellsAtFirst
<1> QED
  BY <1>3, <1>4, <1>5 DEF WalkTells

\* Nothing of the input has been passed when it ends.
LEMMA NoEndYet ==
  ASSUME ClosesWhatIsOpen, EndIsLast(input, pos), ~Looks
  PROVE  \A k \in 1..Len(input) : input[k] # EndOfInput
<1>1. Len(input) \in Nat /\ pos \in Nat \ {0}
  BY TypesHold
<1> SUFFICES ASSUME NEW k \in 1..Len(input), input[k] = EndOfInput PROVE FALSE
  OBVIOUS
<1>2. k = Len(input) /\ pos <= k
  BY DEF EndIsLast
<1>3. ReadsKey /\ ~(pos + 1 <= Len(input))
  BY <1>1, <1>2 DEF Looks, Disclosed
<1>4. pos = k
  BY <1>1, <1>2, <1>3
<1>5. input[pos] \in Strings
  BY <1>3 DEF ReadsKey, Under
<1> QED
  BY <1>4, <1>5, TokensApart

\* More input in view changes nothing of what was read.
LEMMA DiscloseTells == ClosesWhatIsOpen /\ WalkTells /\ Disclose => WalkTells'
<1> SUFFICES ASSUME ClosesWhatIsOpen, WalkTells, Disclose PROVE WalkTells'
  OBVIOUS
<1>0. /\ input \in Seq(Words) /\ nodes \in Seq(Node) /\ stack \in Seq(Frame)
      /\ pos \in Nat \ {0} /\ Len(input) \in Nat
  BY TypesHold
<1>1. PICK t \in Words : input' = Append(input, t)
  BY DEF Disclose, Words
<1>2. UNCHANGED <<pos, state, stack, nodes, outcome>> /\ outcome = "parsing" /\ ~Looks
  BY DEF Disclose
<1>3. EndIsLast(input, pos) /\ StandForTokens(nodes, input, pos)
      /\ \A spell \in [Strings -> Strings] : Tells(nodes, input, pos, stack, state, spell)
  BY <1>2 DEF WalkTells
<1>4. \A k \in 1..Len(input) : input[k] # EndOfInput
  BY <1>2, <1>3, NoEndYet
<1> DEFINE more == Append(input, t)
<1>5. pos \in 1..(Len(input) + 1)
  BY <1>0, <1>3 DEF EndIsLast
<1>6. /\ StandForTokens(nodes, more, pos)
      /\ \A k \in 1..Len(input) : more[k] = input[k]
      /\ \A stk, st : \A spell \in [Strings -> Strings] :
           Tells(nodes, input, pos, stk, st, spell) => Tells(nodes, more, pos, stk, st, spell)
  BY <1>0, <1>3, <1>5, TellsOn
<1>7. Len(more) = Len(input) + 1
  BY <1>0, AppendProperties
<1> HIDE DEF more
<1>8. EndIsLast(more, pos)
  <2> DEFINE n == Len(input)
  <2>1. n \in Nat /\ pos \in 1..(n + 1) /\ Len(more) = n + 1
        /\ \A k \in 1..n : more[k] # EndOfInput
    BY <1>0, <1>4, <1>5, <1>6, <1>7
  <2> HIDE DEF n
  <2>2. ASSUME NEW k \in 1..(n + 1), more[k] = EndOfInput PROVE k = n + 1 /\ pos <= k
    BY ONLY <2>1, <2>2
  <2>3. pos <= (n + 1) + 1
    BY ONLY <2>1
  <2> QED
    BY <2>1, <2>2, <2>3 DEF EndIsLast
<1>9. \A spell \in [Strings -> Strings] : Tells(nodes, more, pos, stack, state, spell)
  BY <1>3, <1>6
<1>10. input' = more
  BY <1>1 DEF more
<1> QED
  BY <1>2, <1>6, <1>8, <1>9, <1>10 DEF WalkTells

\* A position not past the end.
LEMMA WithinInput ==
  ASSUME NEW p \in Nat \ {0}, NEW n \in Nat, p <= n
  PROVE  p \in 1..n
OBVIOUS

\* Opening a container keeps the walk in step.
LEMMA OpenTells ==
  ASSUME ClosesWhatIsOpen, WalkTells, NEW token, NEW kind \in Containers,
         token = (IF kind = "object" THEN "{" ELSE "["),
         NEW first \in {"ArrayFirst", "ObjectFirst"},
         OpenContainer(token, kind, first)
  PROVE  WalkTells'
<1>0. /\ input \in Seq(Words) /\ nodes \in Seq(Node) /\ stack \in Seq(Frame)
      /\ pos \in Nat \ {0} /\ Len(input) \in Nat /\ Len(nodes) \in Nat /\ Len(stack) \in Nat
  BY TypesHold
<1>1. /\ outcome = "parsing" /\ state = "Value" /\ pos <= Len(input) /\ input[pos] = token
      /\ input' = input
  BY DEF OpenContainer, At, Looks, Disclosed, Under
<1>2. EndIsLast(input, pos) /\ StandForTokens(nodes, input, pos)
      /\ \A spell \in [Strings -> Strings] : Tells(nodes, input, pos, stack, "Value", spell)
  BY <1>1 DEF WalkTells
<1>3. CASE Len(stack) + 1 > MaxDepth
  <2>1. UNCHANGED <<input, pos, state, stack, nodes>>
    BY <1>3 DEF OpenContainer
  <2> QED
    BY <1>1, <1>2, <2>1 DEF WalkTells
<1>4. CASE ~(Len(stack) + 1 > MaxDepth)
  <2> DEFINE start == Len(nodes) + 1
             frame == [kind |-> kind, start |-> start, count |-> 0]
             longer == Append(nodes, NodeAt(kind, pos, Len(stack)))
             more == Append(stack, frame)
  <2>1. /\ nodes' = longer /\ stack' = more /\ pos' = pos + 1 /\ state' = first
    BY <1>4 DEF OpenContainer
  <2>2. start \in Nat
    BY ONLY <1>0
  <2> HIDE DEF start
  <2>3. frame \in Frame /\ frame.kind = kind
    BY <2>2 DEF Frame
  <2>4. pos \in 1..Len(input)
    BY <1>0, <1>1, WithinInput
  <2>5. input[pos] # EndOfInput
    BY <1>1, TokensApart DEF Punctuation
  <2>6. EndIsLast(input, pos + 1)
    BY <1>0, <1>2, <2>4, <2>5, EndPassed
  <2>7. longer = Append(nodes, NodeAt(kind, pos, Len(stack))) /\ more = Append(stack, frame)
    OBVIOUS
  <2> HIDE DEF frame, longer, more
  <2>8. /\ StandForTokens(longer, input, pos + 1)
        /\ \A spell \in [Strings -> Strings] :
             Tells(nodes, input, pos, stack, "Value", spell) =>
               Tells(longer, input, pos + 1, Append(stack, frame), first, spell)
    BY <1>0, <1>1, <1>2, <2>3, <2>4, <2>7, OpenTold, SMTT(40), ZenonT(40)
  <2> QED
    BY <1>1, <1>2, <2>1, <2>6, <2>7, <2>8 DEF WalkTells
<1> QED
  BY <1>3, <1>4

\* Reading a string or a scalar keeps the walk in step.
LEMMA ScalarTells == ClosesWhatIsOpen /\ WalkTells /\ ReadScalar => WalkTells'
<1> SUFFICES ASSUME ClosesWhatIsOpen, WalkTells, ReadScalar PROVE WalkTells'
  OBVIOUS
<1>0. /\ input \in Seq(Words) /\ nodes \in Seq(Node) /\ stack \in Seq(Frame)
      /\ pos \in Nat \ {0} /\ Len(input) \in Nat /\ Len(nodes) \in Nat /\ Len(stack) \in Nat
  BY TypesHold
<1> DEFINE kind == IF input[pos] \in Strings THEN "string" ELSE "scalar"
           longer == Append(nodes, NodeAt(kind, pos, Len(stack)))
<1>1. /\ outcome = "parsing" /\ state = "Value" /\ pos <= Len(input)
      /\ input[pos] \in Strings \cup Scalars
      /\ input' = input /\ stack' = stack /\ nodes' = longer /\ pos' = pos + 1
      /\ state' = AfterValue(stack)
  BY DEF ReadScalar, At, Looks, Disclosed, Under
<1>2. EndIsLast(input, pos) /\ StandForTokens(nodes, input, pos)
      /\ \A spell \in [Strings -> Strings] : Tells(nodes, input, pos, stack, "Value", spell)
  BY <1>1 DEF WalkTells
<1>3. pos \in 1..Len(input)
  BY <1>0, <1>1
<1>4. input[pos] # EndOfInput
  BY <1>1, TokensApart
<1>5. EndIsLast(input, pos + 1)
  BY <1>0, <1>2, <1>3, <1>4, EndPassed
<1>6. longer = Append(nodes, NodeAt(kind, pos, Len(stack)))
      /\ kind = IF input[pos] \in Strings THEN "string" ELSE "scalar"
  OBVIOUS
<1> HIDE DEF kind, longer
<1>7. /\ StandForTokens(longer, input, pos + 1)
      /\ \A spell \in [Strings -> Strings] :
           Tells(nodes, input, pos, stack, "Value", spell) =>
             Tells(longer, input, pos + 1, stack, AfterValue(stack), spell)
  BY <1>0, <1>1, <1>2, <1>3, <1>6, ScalarTold
<1> QED
  BY <1>1, <1>2, <1>5, <1>7 DEF WalkTells

\* A closing bracket finds the frame of its kind.
LEMMA CloseFinds ==
  ASSUME ClosesWhatIsOpen, CloseContainer
  PROVE  /\ stack # <<>> /\ Top \in Frame /\ Top.start \in 1..Len(nodes) /\ Top.count \in Nat
         /\ nodes[Top.start].kind = Top.kind /\ nodes[Top.start].depth = Len(stack) - 1
         /\ outcome = "parsing" /\ pos <= Len(input)
         /\ state \in {"ArrayFirst", "ArrayNext", "ObjectFirst", "ObjectNext"}
         /\ input[pos] = (IF Top.kind = "object" THEN "}" ELSE "]")
         /\ stack' = Popped
         /\ nodes' = Append([nodes EXCEPT ![Top.start].count = Top.count],
                            NodeAt(EndOf(Top.kind), pos, Len(stack) - 1))
         /\ input' = input /\ pos' = pos + 1 /\ state' = AfterValue(Popped)
         /\ outcome' = outcome
<1>1. /\ stack # <<>>
      /\ state \in {"ArrayFirst", "ArrayNext"} => Top.kind = "array"
      /\ state \in {"ObjectFirst", "ObjectNext"} => Top.kind = "object"
  BY DEF CloseContainer, At, ClosesWhatIsOpen, StateAgreesWithStack, ArrayStates, ObjectStates
<1>2. /\ outcome = "parsing" /\ pos <= Len(input)
      /\ \/ state \in {"ArrayFirst", "ArrayNext"} /\ input[pos] = "]"
         \/ state \in {"ObjectFirst", "ObjectNext"} /\ input[pos] = "}"
  BY DEF CloseContainer, At, Looks, Disclosed, Under
<1>3. /\ stack' = Popped
      /\ nodes' = Append([nodes EXCEPT ![Top.start].count = Top.count],
                         NodeAt(EndOf(Top.kind), pos, Len(stack) - 1))
      /\ input' = input /\ pos' = pos + 1 /\ state' = AfterValue(Popped)
      /\ outcome' = outcome
  BY <1>1 DEF CloseContainer
<1>4. stack \in Seq(Frame)
  BY TypesHold
<1>5. Top \in Frame /\ Len(stack) \in 1..Len(stack)
  BY <1>1, <1>4, PoppedKeepsFrames
<1>6. Top.start \in 1..Len(nodes) /\ nodes[Top.start].kind = Top.kind
      /\ nodes[Top.start].depth = Len(stack) - 1
  BY <1>5 DEF ClosesWhatIsOpen, FramesPointAtStarts, Top
<1>7. Top.count \in Nat
  BY <1>5 DEF Frame
<1>8. input[pos] = IF Top.kind = "object" THEN "}" ELSE "]"
  BY <1>1, <1>2
<1> QED
  BY <1>1, <1>2, <1>3, <1>5, <1>6, <1>7, <1>8

\* Patching a count.
LEMMA Patched ==
  ASSUME NEW tape \in Seq(Node), NEW i \in 1..Len(tape), NEW c \in Nat
  PROVE  LET base == [tape EXCEPT ![i].count = c]
         IN /\ base \in Seq(Node) /\ Len(base) = Len(tape)
            /\ \A k \in 1..Len(tape) :
                 /\ base[k].kind = tape[k].kind /\ base[k].at = tape[k].at
                 /\ base[k].depth = tape[k].depth
                 /\ base[k].count = IF k = i THEN c ELSE tape[k].count
<1> DEFINE node == [tape[i] EXCEPT !.count = c]
           base == [tape EXCEPT ![i] = node]
<1>1. tape[i] \in Node
  BY ElementOfSeq
<1>2. node \in Node /\ node.kind = tape[i].kind /\ node.at = tape[i].at
      /\ node.depth = tape[i].depth /\ node.count = c
  BY <1>1 DEF Node
<1>3. [tape EXCEPT ![i].count = c] = base
  OBVIOUS
<1> HIDE DEF node
<1>4. /\ base \in Seq(Node) /\ Len(base) = Len(tape)
      /\ \A k \in 1..Len(tape) : base[k] = IF k = i THEN node ELSE tape[k]
  BY <1>2, ExceptSeq
<1> HIDE DEF base
<1>5. \A k \in 1..Len(tape) :
        /\ base[k].kind = tape[k].kind /\ base[k].at = tape[k].at
        /\ base[k].depth = tape[k].depth
        /\ base[k].count = IF k = i THEN c ELSE tape[k].count
  BY <1>2, <1>4
<1> QED
  BY <1>3, <1>4, <1>5

\* Closing a container keeps the walk in step.
LEMMA CloseTells == ClosesWhatIsOpen /\ WalkTells /\ CloseContainer => WalkTells'
<1> SUFFICES ASSUME ClosesWhatIsOpen, WalkTells, CloseContainer PROVE WalkTells'
  OBVIOUS
<1>0. /\ input \in Seq(Words) /\ nodes \in Seq(Node) /\ stack \in Seq(Frame)
      /\ pos \in Nat \ {0} /\ Len(input) \in Nat /\ Len(nodes) \in Nat /\ Len(stack) \in Nat
  BY TypesHold
<1> DEFINE kind == Top.kind
           d == Len(stack) - 1
           base == [nodes EXCEPT ![Top.start].count = Top.count]
           longer == Append(base, NodeAt(EndOf(kind), pos, d))
<1>1. /\ stack # <<>> /\ Top \in Frame /\ Top.start \in 1..Len(nodes) /\ Top.count \in Nat
      /\ outcome = "parsing" /\ pos <= Len(input)
      /\ state \in {"ArrayFirst", "ArrayNext", "ObjectFirst", "ObjectNext"}
      /\ input[pos] = (IF kind = "object" THEN "}" ELSE "]")
      /\ stack' = Popped /\ nodes' = longer
      /\ input' = input /\ pos' = pos + 1 /\ state' = AfterValue(Popped)
      /\ outcome' = outcome
  BY CloseFinds
<1>2. EndIsLast(input, pos) /\ StandForTokens(nodes, input, pos)
      /\ \A spell \in [Strings -> Strings] : Tells(nodes, input, pos, stack, state, spell)
  BY <1>1 DEF WalkTells
<1>3. pos \in 1..Len(input) /\ kind \in Containers
  <2>1. pos \in 1..Len(input)
    BY <1>0, <1>1, WithinInput
  <2>2. kind \in Containers
    BY <1>1 DEF Frame
  <2> QED
    BY <2>1, <2>2
<1>4. input[pos] # EndOfInput
  BY <1>1, TokensApart DEF Punctuation
<1>5. EndIsLast(input, pos + 1)
  BY <1>0, <1>2, <1>3, <1>4, EndPassed
<1>6. /\ base \in Seq(Node) /\ Len(base) = Len(nodes)
      /\ \A i \in 1..Len(nodes) : base[i].kind = nodes[i].kind /\ base[i].at = nodes[i].at
  <2> DEFINE i0 == Top.start
             c0 == Top.count
  <2>1. nodes \in Seq(Node) /\ i0 \in 1..Len(nodes) /\ c0 \in Nat
    BY <1>0, <1>1
  <2>2. base = [nodes EXCEPT ![i0].count = c0]
    OBVIOUS
  <2> HIDE DEF i0, c0, base
  <2> QED
    BY ONLY <2>1, <2>2, Patched
<1>b. SameTokens(base, nodes)
  BY <1>6 DEF SameTokens
<1>7. d \in Nat
  <2>1. Len(stack) # 0
    BY <1>0, <1>1, EmptySeq
  <2> QED
    BY <1>0, <2>1
<1>8. longer = Append(base, NodeAt(EndOf(kind), pos, d))
      /\ Popped = SubSeq(stack, 1, Len(stack) - 1)
  BY DEF Popped
<1> DEFINE rest == Popped
           st == state
<1>9. rest = SubSeq(stack, 1, Len(stack) - 1)
      /\ st \in {"ArrayFirst", "ArrayNext", "ObjectFirst", "ObjectNext"}
      /\ stack # <<>> /\ input[pos] = (IF kind = "object" THEN "}" ELSE "]")
      /\ longer = Append(base, NodeAt(EndOf(kind), pos, d))
  BY <1>1, <1>8
<1> HIDE DEF kind, longer, base, d, rest, st
<1>10. /\ StandForTokens(longer, input, pos + 1)
       /\ \A spell \in [Strings -> Strings] :
            Tells(nodes, input, pos, stack, st, spell) =>
              Tells(longer, input, pos + 1, rest, AfterValue(rest), spell)
  <2>1. /\ input \in Seq(Words) /\ pos \in 1..Len(input) /\ nodes \in Seq(Node)
        /\ base \in Seq(Node) /\ stack \in Seq(Frame) /\ d \in Nat /\ kind \in Containers
    BY <1>0, <1>3, <1>6, <1>7
  <2>2. SameTokens(base, nodes) /\ StandForTokens(nodes, input, pos)
    BY <1>2, <1>b
  <2> QED
    BY ONLY <1>9, <2>1, <2>2, CloseTold, ZenonT(60)
<1> QED
  BY <1>1, <1>2, <1>5, <1>10 DEF WalkTells, rest, st

\* Going on to an element or a member: a comma, if any, is left to be written.
LEMMA NextTells ==
  ASSUME ClosesWhatIsOpen, WalkTells, FirstElement \/ NextElement \/ NextMember
  PROVE  WalkTells'
<1>0. /\ input \in Seq(Words) /\ nodes \in Seq(Node) /\ stack \in Seq(Frame)
      /\ pos \in Nat \ {0} /\ Len(input) \in Nat /\ Len(nodes) \in Nat /\ Len(stack) \in Nat
  BY TypesHold
<1>1. /\ outcome = "parsing" /\ pos <= Len(input) /\ stack # <<>>
      /\ input' = input /\ nodes' = nodes /\ outcome' = outcome
      /\ stack' \in {stack, Counted}
      /\ Proceeds(stack, state, state')
  BY DEF FirstElement, NextElement, NextMember, At, Looks, Disclosed, Proceeds,
         ClosesWhatIsOpen, StateAgreesWithStack, ArrayStates, ObjectStates, Top
<1>2. /\ (state = "ArrayFirst" /\ pos' = pos)
         \/ (state # "ArrayFirst" /\ pos' = pos + 1 /\ input[pos] = ",")
  BY DEF FirstElement, NextElement, NextMember, At, Under
<1>3. EndIsLast(input, pos) /\ StandForTokens(nodes, input, pos)
      /\ \A spell \in [Strings -> Strings] : Tells(nodes, input, pos, stack, state, spell)
  BY <1>1 DEF WalkTells
<1>4. pos \in 1..Len(input)
  BY <1>0, <1>1, WithinInput
<1>5. SameKinds(stack', stack)
  BY <1>0, <1>1, CountedKeepsFrames DEF SameKinds
<1> DEFINE q == pos'
           counted == stack'
           st == state
           st2 == state'
<1>6. /\ IF st = "ArrayFirst" THEN q = pos ELSE q = pos + 1 /\ input[pos] = ","
      /\ Proceeds(stack, st, st2) /\ SameKinds(counted, stack)
  BY <1>1, <1>2, <1>5
<1>7. EndIsLast(input, q)
  <2>1. CASE q = pos
    BY <1>3, <2>1
  <2>2. CASE q = pos + 1 /\ input[pos] = ","
    <3>1. input[pos] # EndOfInput
      BY <2>2, TokensApart DEF Punctuation
    <3> QED
      BY <1>0, <1>3, <1>4, <2>2, <3>1, EndPassed
  <2> QED
    BY <1>6, <2>1, <2>2
<1>8. StandForTokens(nodes, input, q)
  <2>0. q = pos \/ q = pos + 1
    BY <1>2
  <2>1. q \in Nat /\ pos \in Nat /\ pos <= q
    BY ONLY <1>0, <2>0
  <2> QED
    BY <1>3, <2>1, StandStill
<1>9. \A spell \in [Strings -> Strings] : Tells(nodes, input, pos, stack, st, spell)
  BY <1>3
<1> HIDE DEF q, counted, st, st2
<1>10. ASSUME NEW spell \in [Strings -> Strings]
       PROVE  Tells(nodes, input, q, counted, st2, spell)
  BY ONLY <1>0, <1>1, <1>3, <1>4, <1>6, <1>9, spell \in [Strings -> Strings], NextTold
<1> QED
  BY <1>1, <1>7, <1>8, <1>10 DEF WalkTells, q, counted, st2

\* A key, and the colon after it.
LEMMA KeyTells ==
  ASSUME ClosesWhatIsOpen, WalkTells, ReadKey
  PROVE  WalkTells'
<1>0. /\ input \in Seq(Words) /\ nodes \in Seq(Node) /\ stack \in Seq(Frame)
      /\ pos \in Nat \ {0} /\ Len(input) \in Nat /\ Len(nodes) \in Nat /\ Len(stack) \in Nat
  BY TypesHold
<1> DEFINE d == Len(stack)
           longer == Append(nodes, NodeAt("key", pos, d))
           st == state
           counted == Counted
<1>1. /\ outcome = "parsing" /\ pos <= Len(input) /\ pos + 1 <= Len(input) /\ stack # <<>>
      /\ stack[Len(stack)].kind = "object" /\ st \in {"ObjectFirst", "ObjectKey"}
      /\ input[pos] \in Strings
      /\ input' = input /\ nodes' = longer /\ stack' = counted
  BY DEF ReadKey, At, Looks, Disclosed, ReadsKey, Under,
         ClosesWhatIsOpen, StateAgreesWithStack, ObjectStates, Top
<1>2. \/ input[pos + 1] = ":" /\ pos' = pos + 2 /\ state' = "Value" /\ outcome' = outcome
      \/ pos' = pos + 1 /\ outcome' = "invalid"
  BY DEF ReadKey
<1>3. EndIsLast(input, pos) /\ StandForTokens(nodes, input, pos)
      /\ \A spell \in [Strings -> Strings] : Tells(nodes, input, pos, stack, st, spell)
  BY <1>1 DEF WalkTells
<1>4. pos \in 1..Len(input) /\ pos + 1 \in 1..Len(input)
  <2>1. pos + 1 \in Nat \ {0}
    BY ONLY <1>0
  <2> QED
    BY <1>0, <1>1, <2>1, WithinInput
<1>5. Len(counted) = Len(stack) /\ \A k \in 1..Len(stack) : counted[k].kind = stack[k].kind
  BY <1>0, CountedKeepsFrames
<1>6. EndIsLast(input, pos + 1)
  <2>1. input[pos] # EndOfInput
    BY <1>1, TokensApart
  <2> QED
    BY <1>0, <1>3, <1>4, <2>1, EndPassed
<1>7. longer = Append(nodes, NodeAt("key", pos, d)) /\ d \in Nat /\ d = Len(stack)
  BY <1>0
<1> HIDE DEF d, longer, st, counted
<1>8. CASE input[pos + 1] = ":" /\ pos' = pos + 2 /\ state' = "Value" /\ outcome' = outcome
  <2>1. input[pos + 1] # EndOfInput
    BY <1>8, TokensApart DEF Punctuation
  <2>2. EndIsLast(input, pos + 2)
    <3> DEFINE q == pos + 1
    <3>1. q \in 1..Len(input) /\ EndIsLast(input, q) /\ input[q] # EndOfInput
      BY <1>4, <1>6, <2>1
    <3>2. q + 1 = pos + 2
      BY ONLY <1>0
    <3> HIDE DEF q
    <3>3. EndIsLast(input, q + 1)
      BY ONLY <1>0, <3>1, EndPassed
    <3> QED
      BY <3>2, <3>3
  <2>3. /\ StandForTokens(longer, input, pos + 2)
        /\ \A spell \in [Strings -> Strings] :
             Tells(nodes, input, pos, stack, st, spell) =>
               Tells(longer, input, pos + 2, counted, "Value", spell)
    BY ONLY <1>0, <1>1, <1>3, <1>4, <1>5, <1>7, <1>8, KeyTold
  <2> QED
    BY <1>1, <1>3, <1>8, <2>2, <2>3 DEF WalkTells
<1>9. CASE pos' = pos + 1 /\ outcome' = "invalid"
  <2> DEFINE node == NodeAt("key", pos, d)
  <2>1. node \in Node /\ node.kind = "key" /\ node.at = pos
    BY <1>0, <1>7 DEF NodeAt, Node, Kinds
  <2>2. ReadsToken(node, input)
    BY <1>1, <2>1 DEF ReadsToken, Kinds
  <2>3. longer = Append(nodes, node)
    BY <1>7
  <2> HIDE DEF node
  <2>4. /\ Len(longer) = Len(nodes) + 1 /\ longer[Len(nodes) + 1] = node
        /\ \A i \in 1..Len(nodes) : longer[i] = nodes[i]
    BY <1>0, <2>1, <2>3, AppendProperties
  <2>5. pos + 1 \in Nat /\ pos < pos + 1
    BY ONLY <1>0
  <2>6. StandForTokens(longer, input, pos + 1)
    BY <1>0, <1>3, <2>1, <2>2, <2>4, <2>5, StandForOneMore
  <2> QED
    BY <1>1, <1>6, <1>9, <2>6 DEF WalkTells
<1> QED
  BY <1>2, <1>8, <1>9

\* Every step keeps the walk in step.
LEMMA WalkStepTells == ClosesWhatIsOpen /\ WalkTells /\ [Next]_vars => WalkTells'
<1> SUFFICES ASSUME ClosesWhatIsOpen, WalkTells, [Next]_vars PROVE WalkTells'
  OBVIOUS
<1>1. CASE Disclose
  BY <1>1, DiscloseTells
<1>2. CASE OpenContainer("{", "object", "ObjectFirst")
  BY <1>2, OpenTells DEF Containers
<1>3. CASE OpenContainer("[", "array", "ArrayFirst")
  BY <1>3, OpenTells DEF Containers
<1>4. CASE ReadScalar
  BY <1>4, ScalarTells
<1>5. CASE CloseContainer
  BY <1>5, CloseTells
<1>6. CASE FirstElement \/ NextElement \/ NextMember
  BY <1>6, NextTells
<1>7. CASE ReadKey
  BY <1>7, KeyTells
<1>8. CASE Reject \/ Finish
  <2>1. UNCHANGED <<input, pos, state, stack, nodes>> /\ outcome = "parsing"
    BY <1>8 DEF Reject, Finish, At
  <2> QED
    BY <2>1 DEF WalkTells
<1>9. CASE UNCHANGED vars
  BY <1>9 DEF vars, WalkTells
<1> QED
  BY <1>1, <1>2, <1>3, <1>4, <1>5, <1>6, <1>7, <1>8, <1>9 DEF Next

-----------------------------------------------------------------------------
(* The counts of the containers, and the keys *)

\* The values right inside the container node i, up to node n.
ValuesUpTo(tape, i, n) ==
  {k \in (i + 1)..n : tape[k].depth = tape[i].depth + 1 /\ tape[k].kind \notin Closed \cup {"key"}}

\* Node i is still open and c values stand right inside it.
Counts(tape, i, c) ==
  /\ \A j \in (i + 1)..Len(tape) : tape[j].depth > tape[i].depth
  /\ c = Cardinality(ValuesUpTo(tape, i, Len(tape)))

\* Node i is closed by node e, and carries the number of the values between.
ClosedAt(tape, i, e) ==
  /\ e \in (i + 1)..Len(tape)
  /\ tape[e].depth = tape[i].depth /\ tape[e].kind = EndOf(tape[i].kind)
  /\ \A j \in (i + 1)..(e - 1) : tape[j].depth > tape[i].depth
  /\ tape[i].count = Cardinality(ValuesUpTo(tape, i, e - 1))

\* A tape with one more node, the others of the kind and depth they had.
AddsNode(longer, tape, node) ==
  /\ longer \in Seq(Node) /\ Len(longer) = Len(tape) + 1 /\ node = longer[Len(tape) + 1]
  /\ \A i \in 1..Len(tape) : longer[i].kind = tape[i].kind /\ longer[i].depth = tape[i].depth

\* Each open frame points at its start.
Starts1(tape, stk) ==
  \A k \in 1..Len(stk) : stk[k].start \in 1..Len(tape) /\ tape[stk[k].start].depth = k - 1

\* A node that starts a value: no key and no end.
IsValue(node) == node.kind \notin Closed \cup {"key"}

\* Each open frame has counted its values, the innermost one more when a value is due.
OpenCounts(tape, stk, st) ==
  \A k \in 1..Len(stk) :
    /\ k < Len(stk) \/ st # "Value" => Counts(tape, stk[k].start, stk[k].count)
    /\ k = Len(stk) /\ st = "Value" => Counts(tape, stk[k].start, stk[k].count - 1)

\* Each container is open or carries its count.
AllCounted(tape, stk) ==
  \A i \in 1..Len(tape) :
    tape[i].kind \in Containers =>
      \/ \E k \in 1..Len(stk) : stk[k].start = i
      \/ \E e \in 1..Len(tape) : ClosedAt(tape, i, e)

\* A key stands right before its value, or its value is what is due.
KeysPrecede(tape, st) ==
  \A i \in 1..Len(tape) :
    tape[i].kind = "key" =>
      /\ i = Len(tape) => st = "Value"
      /\ i # Len(tape) => tape[i + 1].kind \notin Closed \cup {"key"}

\* The values of a container can be counted.
LEMMA ValuesFinite ==
  ASSUME NEW tape, NEW i \in Nat, NEW n \in Nat
  PROVE  IsFiniteSet(ValuesUpTo(tape, i, n)) /\ Cardinality(ValuesUpTo(tape, i, n)) \in Nat
<1>1. IsFiniteSet((i + 1)..n)
  BY FS_Interval
<1>2. ValuesUpTo(tape, i, n) \subseteq (i + 1)..n
  BY DEF ValuesUpTo
<1> QED
  BY <1>1, <1>2, FS_Subset, FS_CardinalityType

\* A node more changes nothing of the values before it.
LEMMA ValuesKept ==
  ASSUME NEW tape \in Seq(Node), NEW longer, NEW node, AddsNode(longer, tape, node),
         NEW i \in 1..Len(tape), NEW n \in 0..Len(tape)
  PROVE  ValuesUpTo(longer, i, n) = ValuesUpTo(tape, i, n)
<1>1. Len(tape) \in Nat
  BY LenProperties
<1>2. (i + 1)..n \subseteq 1..Len(tape)
  BY ONLY <1>1, i \in 1..Len(tape), n \in 0..Len(tape)
<1>3. \A k \in (i + 1)..n : longer[k].kind = tape[k].kind /\ longer[k].depth = tape[k].depth
  BY <1>2 DEF AddsNode
<1>4. longer[i].depth = tape[i].depth
  BY DEF AddsNode
<1> QED
  BY <1>3, <1>4 DEF ValuesUpTo

\* One more node, deeper than node i: one more value when it is one right inside.
LEMMA OneMoreCounted ==
  ASSUME NEW tape \in Seq(Node), NEW longer, NEW node, AddsNode(longer, tape, node),
         NEW i \in 1..Len(tape), NEW c, Counts(tape, i, c), node.depth > tape[i].depth
  PROVE  /\ node.depth = tape[i].depth + 1 /\ IsValue(node) => Counts(longer, i, c + 1)
         /\ ~(node.depth = tape[i].depth + 1 /\ IsValue(node)) => Counts(longer, i, c)
<1> DEFINE n == Len(tape)
           old == ValuesUpTo(tape, i, n)
           new == ValuesUpTo(longer, i, n + 1)
<1>1. n \in Nat /\ i \in 1..n /\ i \in Nat /\ n \in 0..n
  BY LenProperties
<1>2. Len(longer) = n + 1 /\ node = longer[n + 1] /\ longer[i].depth = tape[i].depth
      /\ \A j \in 1..n : longer[j].depth = tape[j].depth
  BY DEF AddsNode
<1>3. ValuesUpTo(longer, i, n) = old
  BY <1>1, ValuesKept
<1>4. IsFiniteSet(old) /\ Cardinality(old) = c
  BY <1>1, ValuesFinite DEF Counts
<1> HIDE DEF n
<1>5. /\ (i + 1)..(n + 1) = ((i + 1)..n) \cup {n + 1}
      /\ n + 1 \notin (i + 1)..n
      /\ (i + 1)..n \subseteq 1..n
  BY ONLY <1>1
<1>6. n + 1 \notin old
  BY <1>5 DEF ValuesUpTo
<1>7. /\ node.depth = tape[i].depth + 1 /\ IsValue(node) => new = old \cup {n + 1}
      /\ ~(node.depth = tape[i].depth + 1 /\ IsValue(node)) => new = old
  <2>1. new = ValuesUpTo(longer, i, n)
              \cup {k \in {n + 1} : longer[k].depth = longer[i].depth + 1
                                    /\ longer[k].kind \notin Closed \cup {"key"}}
    BY <1>5 DEF ValuesUpTo
  <2> QED
    BY <1>2, <1>3, <2>1 DEF IsValue
<1>8. \A j \in (i + 1)..(n + 1) : longer[j].depth > longer[i].depth
  <2>1. \A j \in (i + 1)..n : longer[j].depth > longer[i].depth
    BY <1>2, <1>5 DEF Counts, n
  <2>2. longer[n + 1].depth > longer[i].depth
    BY <1>2
  <2> QED
    BY <1>5, <2>1, <2>2
<1>9. Cardinality(old \cup {n + 1}) = c + 1
  BY <1>4, <1>6, FS_AddElement
<1> HIDE DEF old, new
<1>10. /\ Cardinality(new) = c + 1 => Counts(longer, i, c + 1)
       /\ Cardinality(new) = c => Counts(longer, i, c)
  BY <1>2, <1>8 DEF Counts, new
<1> QED
  BY <1>4, <1>7, <1>9, <1>10

\* A container closed stays closed, with its count.
LEMMA ClosedStays ==
  ASSUME NEW tape \in Seq(Node), NEW longer, NEW node, AddsNode(longer, tape, node),
         NEW i \in 1..Len(tape), NEW e, ClosedAt(tape, i, e), longer[i].count = tape[i].count
  PROVE  ClosedAt(longer, i, e)
<1> DEFINE n == Len(tape)
<1>1. n \in Nat /\ i \in 1..n /\ e \in (i + 1)..n /\ Len(longer) = n + 1
  BY LenProperties DEF ClosedAt, AddsNode
<1>2. \A j \in 1..n : longer[j].kind = tape[j].kind /\ longer[j].depth = tape[j].depth
  BY DEF AddsNode
<1> HIDE DEF n
<1>3. e \in 1..n /\ e - 1 \in 0..n /\ e \in (i + 1)..(n + 1) /\ (i + 1)..(e - 1) \subseteq 1..n
  BY ONLY <1>1
<1>4. ValuesUpTo(longer, i, e - 1) = ValuesUpTo(tape, i, e - 1)
  BY <1>3, ValuesKept DEF n
<1> QED
  BY <1>1, <1>2, <1>3, <1>4 DEF ClosedAt

\* A value read where one is due.
LEMMA ValueCounted ==
  ASSUME NEW tape \in Seq(Node), NEW longer, NEW node, AddsNode(longer, tape, node),
         NEW stk \in Seq(Frame), Starts1(tape, stk), OpenCounts(tape, stk, "Value"),
         node.depth = Len(stk), IsValue(node), NEW st2, st2 # "Value"
  PROVE  OpenCounts(longer, stk, st2)
<1> SUFFICES ASSUME NEW k \in 1..Len(stk)
             PROVE  Counts(longer, stk[k].start, stk[k].count)
  BY DEF OpenCounts
<1> DEFINE i == stk[k].start
           c == stk[k].count
           n == Len(stk)
<1>1. n \in Nat /\ k \in 1..n
  BY LenProperties
<1>2. i \in 1..Len(tape) /\ tape[i].depth = k - 1 /\ node.depth = n
  BY DEF Starts1
<1>3. c \in Nat
  <2>1. stk[k] \in Frame
    BY ElementOfSeq
  <2> QED
    BY <2>1 DEF Frame
<1>4. /\ k < n => Counts(tape, i, c)
      /\ k = n => Counts(tape, i, c - 1)
  BY DEF OpenCounts
<1> HIDE DEF n, i, c
<1>5. /\ node.depth > tape[i].depth
      /\ k = n => node.depth = tape[i].depth + 1
      /\ k < n => node.depth # tape[i].depth + 1
      /\ k = n \/ k < n
      /\ c - 1 + 1 = c
  BY ONLY <1>1, <1>2, <1>3
<1>6. CASE k = n
  <2>1. Counts(longer, i, c - 1 + 1)
    BY <1>2, <1>4, <1>5, <1>6, OneMoreCounted
  <2> QED
    BY <1>5, <2>1 DEF i, c
<1>7. CASE k < n
  <2>1. Counts(longer, i, c)
    BY <1>2, <1>4, <1>5, <1>7, OneMoreCounted
  <2> QED
    BY <2>1 DEF i, c
<1> QED
  BY <1>5, <1>6, <1>7

\* A key, or an end, read where no value is due: the counts stay.
LEMMA OthersCounted ==
  ASSUME NEW tape \in Seq(Node), NEW longer, NEW node, AddsNode(longer, tape, node),
         NEW stk \in Seq(Frame), Starts1(tape, stk),
         NEW rest, Len(rest) \in Nat, Len(rest) <= Len(stk),
         \A k \in 1..Len(rest) : rest[k] = stk[k],
         NEW st, st # "Value", OpenCounts(tape, stk, st),
         node.depth = Len(rest), ~IsValue(node), NEW st2, st2 # "Value"
  PROVE  OpenCounts(longer, rest, st2)
<1> SUFFICES ASSUME NEW k \in 1..Len(rest)
             PROVE  Counts(longer, rest[k].start, rest[k].count)
  BY DEF OpenCounts
<1> DEFINE i == stk[k].start
           c == stk[k].count
           n == Len(rest)
<1>0. Len(stk) \in Nat
  BY LenProperties
<1>1. n \in Nat /\ k \in 1..n /\ k \in 1..Len(stk)
  BY <1>0
<1>2. i \in 1..Len(tape) /\ tape[i].depth = k - 1 /\ node.depth = n /\ rest[k] = stk[k]
  BY <1>1 DEF Starts1
<1>3. Counts(tape, i, c)
  BY <1>1 DEF OpenCounts
<1> HIDE DEF n, i, c
<1>4. node.depth > tape[i].depth
  BY ONLY <1>1, <1>2
<1>5. Counts(longer, i, c)
  BY <1>2, <1>3, <1>4, OneMoreCounted
<1> QED
  BY <1>2, <1>5 DEF i, c

\* The frame of a container just opened.
LEMMA OpenedCounted ==
  ASSUME NEW tape \in Seq(Node), NEW stk \in Seq(Frame), NEW st, st # "Value",
         OpenCounts(tape, stk, st), NEW frame \in Frame, frame.start = Len(tape),
         frame.count = 0
  PROVE  OpenCounts(tape, Append(stk, frame), st)
<1> DEFINE n == Len(stk)
           more == Append(stk, frame)
<1>1. /\ n \in Nat /\ Len(more) = n + 1 /\ more[n + 1] = frame
      /\ \A k \in 1..n : more[k] = stk[k]
  BY LenProperties, AppendProperties
<1>2. Len(tape) \in Nat
  BY LenProperties
<1>3. Counts(tape, frame.start, frame.count)
  <2>1. (Len(tape) + 1)..Len(tape) = {}
    BY <1>2
  <2>2. ValuesUpTo(tape, Len(tape), Len(tape)) = {}
    BY <2>1 DEF ValuesUpTo
  <2> QED
    BY <2>1, <2>2, FS_EmptySet DEF Counts
<1>4. \A k \in 1..n : Counts(tape, stk[k].start, stk[k].count)
  BY DEF OpenCounts
<1> HIDE DEF n, more
<1>5. \A k \in 1..(n + 1) : k \in 1..n \/ k = n + 1
  BY <1>1
<1>6. \A k \in 1..Len(more) : Counts(tape, more[k].start, more[k].count)
  BY <1>1, <1>3, <1>4, <1>5
<1> QED
  BY <1>6 DEF OpenCounts, more

\* The innermost frame counts one more before the value it is for.
AddsOne(counted, stk) ==
  /\ Len(counted) = Len(stk)
  /\ \A k \in 1..Len(stk) :
       /\ counted[k].start = stk[k].start
       /\ k # Len(stk) => counted[k].count = stk[k].count
       /\ k = Len(stk) => counted[k].count = stk[k].count + 1

\* The state then owes the value counted.
LEMMA CountedAhead ==
  ASSUME NEW tape, NEW stk \in Seq(Frame), NEW st, st # "Value",
         OpenCounts(tape, stk, st), NEW counted, AddsOne(counted, stk)
  PROVE  OpenCounts(tape, counted, "Value")
<1> DEFINE n == Len(stk)
<1>1. n \in Nat /\ Len(counted) = n
  BY LenProperties DEF AddsOne
<1> SUFFICES ASSUME NEW k \in 1..n
             PROVE  /\ k < Len(counted) => Counts(tape, counted[k].start, counted[k].count)
                    /\ k = Len(counted) =>
                         Counts(tape, counted[k].start, counted[k].count - 1)
  BY <1>1, Zenon DEF OpenCounts
<1> DEFINE c == stk[k].count
<1>2. c \in Nat
  <2>1. stk[k] \in Frame
    BY ElementOfSeq
  <2> QED
    BY <2>1 DEF Frame
<1>3. Counts(tape, stk[k].start, c)
  BY DEF OpenCounts
<1>4. /\ counted[k].start = stk[k].start
      /\ k # n => counted[k].count = c
      /\ k = n => counted[k].count = c + 1
  BY DEF AddsOne
<1> HIDE DEF n, c
<1>5. c + 1 - 1 = c /\ (k < n => k # n)
  BY ONLY <1>1, <1>2, k \in 1..n
<1>6. k < n => Counts(tape, counted[k].start, counted[k].count)
  BY <1>3, <1>4, <1>5
<1>7. k = n => counted[k].count - 1 = c
  <2>1. ASSUME k = n PROVE counted[k].count - 1 = c
    <3>1. counted[k].count = c + 1
      BY <1>4, <2>1
    <3> DEFINE x == counted[k].count
    <3>2. x = c + 1 /\ c \in Nat
      BY <1>2, <3>1
    <3> HIDE DEF x
    <3>3. x - 1 = c
      BY ONLY <3>2
    <3> QED
      BY <3>3 DEF x
  <2> QED
    BY <2>1
<1>8. k = n => Counts(tape, counted[k].start, counted[k].count - 1)
  BY <1>3, <1>4, <1>7, Zenon
<1> QED
  BY <1>1, <1>6, <1>8, Zenon

\* Counted is such a step of the counts.
LEMMA CountedAddsOne ==
  ASSUME stack \in Seq(Frame), stack # <<>>
  PROVE  AddsOne(Counted, stack)
<1>1. Len(stack) \in Nat \ {0} /\ Len(stack) \in 1..Len(stack)
  BY EmptySeq, LenProperties
<1>2. Top \in Frame
  BY <1>1, ElementOfSeq DEF Top
<1> DEFINE last == [Top EXCEPT !.count = Top.count + 1]
<1>3. last \in Frame /\ last.count = Top.count + 1 /\ last.start = Top.start
  BY <1>2 DEF Frame
<1>4. Counted = [stack EXCEPT ![Len(stack)] = last]
  BY DEF Counted, Top
<1> HIDE DEF last
<1>5. /\ Len(Counted) = Len(stack)
      /\ \A k \in 1..Len(stack) : Counted[k] = IF k = Len(stack) THEN last ELSE stack[k]
  BY <1>1, <1>3, <1>4, ExceptSeq
<1> QED
  BY <1>3, <1>5 DEF AddsOne, Top

\* A container open in stk is open in stk2, or closed on the longer tape.
StaysOrCloses(longer, tape, stk, stk2) ==
  \A i \in 1..Len(tape) :
    (\E k \in 1..Len(stk) : stk[k].start = i) =>
      \/ \E k \in 1..Len(stk2) : stk2[k].start = i
      \/ \E e \in 1..Len(longer) : ClosedAt(longer, i, e)

\* Only the count of an open container is written.
PatchesOpen(longer, tape, stk) ==
  \A i \in 1..Len(tape) :
    longer[i].count = tape[i].count \/ \E k \in 1..Len(stk) : stk[k].start = i

\* A container at the end of the tape is an open one.
EndIsOpen(tape, node, stk) ==
  node.kind \in Containers => \E k \in 1..Len(stk) : stk[k].start = Len(tape)

\* A container that was open or counted still is.
LEMMA StillCounted ==
  ASSUME NEW tape \in Seq(Node), NEW longer, NEW node, AddsNode(longer, tape, node),
         NEW stk, NEW stk2, AllCounted(tape, stk),
         StaysOrCloses(longer, tape, stk, stk2), PatchesOpen(longer, tape, stk),
         EndIsOpen(longer, node, stk2)
  PROVE  AllCounted(longer, stk2)
<1> DEFINE n == Len(tape)
<1>1. n \in Nat /\ Len(longer) = n + 1 /\ node = longer[n + 1]
      /\ \A i \in 1..n : longer[i].kind = tape[i].kind
  BY LenProperties DEF AddsNode
<1> SUFFICES ASSUME NEW i \in 1..Len(longer), longer[i].kind \in Containers
             PROVE  \/ \E k \in 1..Len(stk2) : stk2[k].start = i
                    \/ \E e \in 1..Len(longer) : ClosedAt(longer, i, e)
  BY DEF AllCounted
<1>2. i \in 1..n \/ i = n + 1
  BY <1>1
<1>3. CASE i = n + 1
  BY <1>1, <1>3 DEF EndIsOpen
<1>4. CASE i \in 1..n
  <2>1. \/ \E k \in 1..Len(stk) : stk[k].start = i
        \/ /\ longer[i].count = tape[i].count
           /\ \E e \in 1..Len(tape) : ClosedAt(tape, i, e)
    BY <1>1, <1>4 DEF AllCounted, PatchesOpen
  <2>2. CASE \E k \in 1..Len(stk) : stk[k].start = i
    BY <1>4, <2>2 DEF StaysOrCloses
  <2>3. CASE /\ longer[i].count = tape[i].count
             /\ \E e \in 1..Len(tape) : ClosedAt(tape, i, e)
    <3>1. PICK e \in 1..Len(tape) : ClosedAt(tape, i, e)
      BY <2>3
    <3>2. ClosedAt(longer, i, e)
      BY <1>4, <2>3, <3>1, ClosedStays
    <3>3. e \in 1..Len(longer)
      BY <1>1
    <3> QED
      BY <3>2, <3>3
  <2> QED
    BY <2>1, <2>2, <2>3
<1> QED
  BY <1>2, <1>3, <1>4

\* One more node after a key is its value.
LEMMA KeysStay ==
  ASSUME NEW tape \in Seq(Node), NEW longer, NEW node, AddsNode(longer, tape, node),
         NEW st, KeysPrecede(tape, st), ~IsValue(node) => st # "Value",
         NEW st2, node.kind = "key" => st2 = "Value"
  PROVE  KeysPrecede(longer, st2)
<1> DEFINE n == Len(tape)
<1>1. n \in Nat /\ Len(longer) = n + 1 /\ node = longer[n + 1]
      /\ \A i \in 1..n : longer[i].kind = tape[i].kind
  BY LenProperties DEF AddsNode
<1> SUFFICES ASSUME NEW i \in 1..(n + 1), longer[i].kind = "key"
             PROVE  /\ i = n + 1 => st2 = "Value"
                    /\ i # n + 1 => longer[i + 1].kind \notin Closed \cup {"key"}
  BY <1>1 DEF KeysPrecede
<1>2. i = n + 1 => st2 = "Value"
  BY <1>1
<1>3. ASSUME i # n + 1 PROVE longer[i + 1].kind \notin Closed \cup {"key"}
  <2>1. i \in 1..n
    BY <1>1, <1>3
  <2>2. tape[i].kind = "key"
    BY <1>1, <2>1
  <2>3. CASE i = n
    BY <1>1, <2>1, <2>2, <2>3 DEF KeysPrecede, IsValue
  <2>4. CASE i # n
    <3>1. i + 1 \in 1..n
      BY <1>1, <2>1, <2>4
    <3> QED
      BY <1>1, <2>1, <2>2, <2>4, <3>1 DEF KeysPrecede
  <2> QED
    BY <2>3, <2>4
<1> QED
  BY <1>2, <1>3

\* Containers carry their counts, keys precede their values, and a tape is returned at the
\* end of the input.
CountsTell ==
  /\ outcome = "tape" => state = "End" /\ pos <= Len(input) /\ input[pos] = EndOfInput
  /\ outcome # "invalid" =>
       OpenCounts(nodes, stack, state) /\ AllCounted(nodes, stack) /\ KeysPrecede(nodes, state)

\* Two tapes of the same length, kinds and depths.
SameShape(base, tape) ==
  /\ Len(base) = Len(tape)
  /\ \A i \in 1..Len(tape) : base[i].kind = tape[i].kind /\ base[i].depth = tape[i].depth

\* A node appended to a tape of the same shape.
LEMMA AddedNode ==
  ASSUME NEW tape \in Seq(Node), NEW base \in Seq(Node), SameShape(base, tape),
         NEW node \in Node, NEW longer, longer = Append(base, node)
  PROVE  /\ AddsNode(longer, tape, node) /\ Len(longer) = Len(tape) + 1
         /\ \A i \in 1..Len(tape) : longer[i] = base[i]
<1>1. /\ longer \in Seq(Node) /\ Len(longer) = Len(tape) + 1 /\ longer[Len(tape) + 1] = node
      /\ \A i \in 1..Len(tape) : longer[i] = base[i]
  BY AppendProperties DEF SameShape
<1> QED
  BY <1>1 DEF AddsNode, SameShape

\* A node appended to the tape itself.
LEMMA AppendedNode ==
  ASSUME NEW tape \in Seq(Node), NEW node \in Node, NEW longer, longer = Append(tape, node)
  PROVE  /\ AddsNode(longer, tape, node) /\ Len(longer) = Len(tape) + 1
         /\ \A i \in 1..Len(tape) : longer[i] = tape[i]
<1>1. SameShape(tape, tape)
  BY DEF SameShape
<1> QED
  BY <1>1, AddedNode

\* The frames of the parser point at their starts.
LEMMA StartsPoint == ASSUME ClosesWhatIsOpen PROVE Starts1(nodes, stack)
  BY DEF ClosesWhatIsOpen, FramesPointAtStarts, Starts1

\* An end node closes the container whose count has been patched.
LEMMA NewlyClosed ==
  ASSUME NEW tape \in Seq(Node), NEW longer, NEW node, AddsNode(longer, tape, node),
         NEW i \in 1..Len(tape), NEW c, Counts(tape, i, c), longer[i].count = c,
         node.depth = tape[i].depth, node.kind = EndOf(tape[i].kind)
  PROVE  ClosedAt(longer, i, Len(tape) + 1)
<1> DEFINE n == Len(tape)
<1>1. n \in Nat /\ i \in 1..n /\ Len(longer) = n + 1 /\ node = longer[n + 1]
      /\ \A j \in 1..n : longer[j].kind = tape[j].kind /\ longer[j].depth = tape[j].depth
  BY LenProperties DEF AddsNode
<1>2. n \in 0..n
  BY <1>1
<1>3. ValuesUpTo(longer, i, n) = ValuesUpTo(tape, i, n)
  BY <1>2, ValuesKept
<1>4. c = Cardinality(ValuesUpTo(tape, i, n)) /\ \A j \in (i + 1)..n : tape[j].depth > tape[i].depth
  BY DEF Counts
<1> HIDE DEF n
<1>5. n + 1 \in (i + 1)..(n + 1) /\ n + 1 - 1 = n /\ (i + 1)..n \subseteq 1..n
  BY ONLY <1>1
<1>6. \A j \in (i + 1)..n : longer[j].depth > longer[i].depth
  BY <1>1, <1>4, <1>5
<1> DEFINE e == n + 1
<1>7. /\ e \in (i + 1)..Len(longer) /\ longer[e].depth = longer[i].depth
      /\ longer[e].kind = EndOf(longer[i].kind) /\ e - 1 = n
  BY <1>1, <1>5
<1> HIDE DEF e
<1>8. ClosedAt(longer, i, e)
  BY <1>3, <1>4, <1>6, <1>7 DEF ClosedAt
<1> QED
  BY <1>8 DEF e, n

\* Opening a container keeps the counts.
LEMMA OpenCountsTell ==
  ASSUME ClosesWhatIsOpen, CountsTell, NEW token, NEW kind \in Containers,
         NEW first \in {"ArrayFirst", "ObjectFirst"},
         OpenContainer(token, kind, first)
  PROVE  CountsTell'
<1>0. /\ nodes \in Seq(Node) /\ stack \in Seq(Frame)
      /\ pos \in Nat \ {0} /\ Len(nodes) \in Nat /\ Len(stack) \in Nat
      /\ Starts1(nodes, stack)
  BY TypesHold, StartsPoint
<1>1. outcome = "parsing" /\ state = "Value"
  BY DEF OpenContainer, At
<1>2. /\ OpenCounts(nodes, stack, "Value") /\ AllCounted(nodes, stack)
      /\ KeysPrecede(nodes, "Value")
  BY <1>1 DEF CountsTell
<1>3. CASE Len(stack) + 1 > MaxDepth
  <2>1. UNCHANGED <<state, stack, nodes>> /\ outcome' = "too_deep"
    BY <1>3 DEF OpenContainer
  <2> QED
    BY <1>1, <1>2, <2>1 DEF CountsTell
<1>4. CASE ~(Len(stack) + 1 > MaxDepth)
  <2> DEFINE start == Len(nodes) + 1
             frame == [kind |-> kind, start |-> start, count |-> 0]
             node == NodeAt(kind, pos, Len(stack))
             longer == Append(nodes, node)
             more == Append(stack, frame)
  <2>1. /\ nodes' = longer /\ stack' = more /\ state' = first /\ outcome' = outcome
    BY <1>4 DEF OpenContainer
  <2>2. start \in Nat
    BY ONLY <1>0
  <2>3. node \in Node /\ node.kind = kind /\ node.depth = Len(stack)
    BY <1>0 DEF NodeAt, Node, Kinds
  <2> HIDE DEF node
  <2>4. /\ AddsNode(longer, nodes, node) /\ Len(longer) = start /\ longer \in Seq(Node)
        /\ \A i \in 1..Len(nodes) : longer[i] = nodes[i]
    BY <1>0, <2>3, AppendedNode DEF AddsNode
  <2> HIDE DEF start, longer
  <2>5. frame \in Frame /\ frame.start = Len(longer) /\ frame.count = 0
    BY <2>2, <2>4 DEF Frame
  <2> HIDE DEF frame
  <2>6. IsValue(node) /\ node.kind # "key" /\ first # "Value"
    BY <2>3 DEF IsValue, Containers, Closed
  <2>7. OpenCounts(longer, stack, first)
    BY <1>0, <1>2, <2>3, <2>4, <2>6, ValueCounted
  <2>8. OpenCounts(longer, more, first)
    BY <1>0, <2>4, <2>5, <2>6, <2>7, OpenedCounted
  <2>9. /\ Len(more) = Len(stack) + 1 /\ \A k \in 1..Len(stack) : more[k] = stack[k]
        /\ more[Len(stack) + 1] = frame
    BY <1>0, <2>5, AppendProperties
  <2> HIDE DEF more
  <2>10. 1..Len(stack) \subseteq 1..Len(more) /\ Len(stack) + 1 \in 1..Len(more)
    BY <1>0, <2>9
  <2>11. AllCounted(longer, more)
    <3>1. StaysOrCloses(longer, nodes, stack, more)
      BY <2>9, <2>10 DEF StaysOrCloses
    <3>2. PatchesOpen(longer, nodes, stack)
      BY <2>4 DEF PatchesOpen
    <3>3. EndIsOpen(longer, node, more)
      BY <2>5, <2>9, <2>10 DEF EndIsOpen
    <3> QED
      BY <1>0, <1>2, <2>4, <3>1, <3>2, <3>3, StillCounted
  <2>12. KeysPrecede(longer, first)
    BY <1>0, <1>2, <2>4, <2>6, KeysStay
  <2> QED
    BY <1>1, <2>1, <2>8, <2>11, <2>12 DEF CountsTell
<1> QED
  BY <1>3, <1>4

\* Reading a string or a scalar keeps the counts.
LEMMA ScalarCountsTell ==
  ASSUME ClosesWhatIsOpen, CountsTell, ReadScalar
  PROVE  CountsTell'
<1>0. /\ nodes \in Seq(Node) /\ stack \in Seq(Frame)
      /\ pos \in Nat \ {0} /\ Len(nodes) \in Nat /\ Len(stack) \in Nat
      /\ Starts1(nodes, stack)
  BY TypesHold, StartsPoint
<1> DEFINE kind == IF Under \in Strings THEN "string" ELSE "scalar"
           node == NodeAt(kind, pos, Len(stack))
           longer == Append(nodes, node)
           st2 == AfterValue(stack)
<1>1. /\ outcome = "parsing" /\ state = "Value" /\ nodes' = longer /\ stack' = stack
      /\ state' = st2 /\ outcome' = outcome
  BY DEF ReadScalar, At
<1>2. /\ OpenCounts(nodes, stack, "Value") /\ AllCounted(nodes, stack)
      /\ KeysPrecede(nodes, "Value")
  BY <1>1 DEF CountsTell
<1>3. kind \in {"string", "scalar"}
  OBVIOUS
<1> HIDE DEF kind
<1>4. node \in Node /\ node.kind = kind /\ node.depth = Len(stack)
  BY <1>0, <1>3 DEF NodeAt, Node, Kinds
<1> HIDE DEF node
<1>a. longer = Append(nodes, node)
  OBVIOUS
<1> HIDE DEF longer
<1>5. /\ AddsNode(longer, nodes, node)
      /\ \A i \in 1..Len(nodes) : longer[i] = nodes[i]
  BY ONLY <1>0, <1>4, <1>a, AppendedNode
<1>6. IsValue(node) /\ node.kind # "key" /\ st2 # "Value" /\ node.kind \notin Containers
  BY <1>3, <1>4 DEF IsValue, Containers, Closed, AfterValue
<1> HIDE DEF longer, st2
<1>7. OpenCounts(longer, stack, st2)
  BY <1>0, <1>2, <1>4, <1>5, <1>6, ValueCounted
<1>8. AllCounted(longer, stack)
  <2>1. /\ StaysOrCloses(longer, nodes, stack, stack) /\ PatchesOpen(longer, nodes, stack)
        /\ EndIsOpen(longer, node, stack)
    BY <1>5, <1>6 DEF StaysOrCloses, PatchesOpen, EndIsOpen
  <2> QED
    BY <1>0, <1>2, <1>5, <2>1, StillCounted
<1>9. KeysPrecede(longer, st2)
  BY <1>0, <1>2, <1>5, <1>6, KeysStay
<1> QED
  BY <1>1, <1>7, <1>8, <1>9 DEF CountsTell

\* Closing a container writes its count.
LEMMA CloseCountsTell ==
  ASSUME ClosesWhatIsOpen, CountsTell, CloseContainer
  PROVE  CountsTell'
<1>0. /\ nodes \in Seq(Node) /\ stack \in Seq(Frame)
      /\ pos \in Nat \ {0} /\ Len(nodes) \in Nat /\ Len(stack) \in Nat
      /\ Starts1(nodes, stack)
  BY TypesHold, StartsPoint
<1> DEFINE i == Top.start
           c == Top.count
           d == Len(stack) - 1
           base == [nodes EXCEPT ![i].count = c]
           node == NodeAt(EndOf(Top.kind), pos, d)
           longer == Append(base, node)
           rest == Popped
           st == state
           st2 == AfterValue(Popped)
<1>1. /\ stack # <<>> /\ Top \in Frame /\ i \in 1..Len(nodes) /\ c \in Nat
      /\ nodes[i].kind = Top.kind /\ nodes[i].depth = d
      /\ outcome = "parsing"
      /\ st # "Value" /\ st2 # "Value"
      /\ stack' = rest /\ nodes' = longer /\ state' = st2 /\ outcome' = outcome
  BY CloseFinds DEF AfterValue
<1>2. /\ OpenCounts(nodes, stack, st) /\ AllCounted(nodes, stack)
      /\ KeysPrecede(nodes, st)
  BY <1>1 DEF CountsTell
<1>3. /\ Len(rest) = d /\ d \in Nat /\ d <= Len(stack)
      /\ \A k \in 1..d : rest[k] = stack[k]
  <2>1. /\ Len(rest) = d /\ Len(stack) \in Nat \ {0}
        /\ \A k \in 1..d : rest[k] = stack[k]
    BY <1>0, <1>1, PoppedKeepsFrames
  <2>2. d \in Nat /\ d <= Len(stack)
    BY ONLY <2>1
  <2> QED
    BY <2>1, <2>2
<1>4. node \in Node /\ node.kind = EndOf(nodes[i].kind) /\ node.depth = d
      /\ node.kind \in Closed
  <2>1. EndOf(Top.kind) \in Closed /\ Closed \subseteq Kinds
    BY DEF EndOf, Closed, Kinds
  <2> QED
    BY <1>0, <1>1, <1>3, <2>1 DEF NodeAt, Node
<1>5. base = [nodes EXCEPT ![i].count = c] /\ longer = Append(base, node)
      /\ Top = stack[Len(stack)] /\ i = stack[Len(stack)].start
      /\ c = stack[Len(stack)].count
  BY DEF Top
<1> HIDE DEF i, c, d, base, node, longer, rest, st, st2
<1>6. /\ base \in Seq(Node) /\ Len(base) = Len(nodes)
      /\ \A k \in 1..Len(nodes) :
           /\ base[k].kind = nodes[k].kind /\ base[k].depth = nodes[k].depth
           /\ k = i => base[k].count = c
           /\ k # i => base[k].count = nodes[k].count
  BY ONLY <1>0, <1>1, <1>5, Patched
<1>7. /\ AddsNode(longer, nodes, node) /\ Len(longer) = Len(nodes) + 1
      /\ \A k \in 1..Len(nodes) : longer[k] = base[k]
  <2>1. SameShape(base, nodes)
    BY <1>6 DEF SameShape
  <2>2. longer = Append(base, node)
    BY <1>5
  <2>3. base \in Seq(Node) /\ Len(base) = Len(nodes) /\ node \in Node
    BY <1>4, <1>6
  <2>4. nodes \in Seq(Node) /\ base \in Seq(Node) /\ node \in Node
    BY <1>0, <2>3
  <2>5. AddsNode(longer, nodes, node)
    BY ONLY <2>1, <2>2, <2>4, AddedNode
  <2>6. Len(longer) = Len(nodes) + 1
    BY ONLY <2>5 DEF AddsNode
  <2>7. \A k \in 1..Len(nodes) : longer[k] = base[k]
    BY ONLY <2>1, <2>2, <2>4, AddedNode
  <2> QED
    BY <2>5, <2>6, <2>7
<1>8. ~IsValue(node) /\ node.kind # "key" /\ node.kind \notin Containers
  BY <1>4 DEF IsValue, Closed, Containers
<1>9. OpenCounts(longer, rest, st2)
  <2>1. /\ Len(rest) \in Nat /\ Len(rest) <= Len(stack) /\ node.depth = Len(rest)
        /\ \A k \in 1..Len(rest) : rest[k] = stack[k]
    BY <1>3, <1>4
  <2>2. OpenCounts(nodes, stack, st) /\ st # "Value" /\ st2 # "Value"
    BY <1>1, <1>2
  <2> QED
    BY ONLY <1>0, <1>7, <1>8, <2>1, <2>2, OthersCounted
<1>10. Len(stack) \in 1..Len(stack) /\ \A k \in 1..Len(stack) : k \in 1..d \/ k = Len(stack)
  <2>1. Len(stack) # 0
    BY <1>0, <1>1, EmptySeq
  <2> QED
    BY <1>0, <2>1 DEF d
<1>11. Counts(nodes, i, c)
  BY <1>1, <1>2, <1>5, <1>10 DEF OpenCounts
<1>12. ClosedAt(longer, i, Len(nodes) + 1)
  BY <1>0, <1>1, <1>4, <1>6, <1>7, <1>11, NewlyClosed
<1>13. AllCounted(longer, rest)
  <2>1. StaysOrCloses(longer, nodes, stack, rest)
    <3>1. ASSUME NEW j \in 1..Len(nodes), NEW k \in 1..Len(stack), stack[k].start = j
          PROVE  \/ \E l \in 1..Len(rest) : rest[l].start = j
                 \/ \E e \in 1..Len(longer) : ClosedAt(longer, j, e)
      <4>1. CASE k \in 1..d
        BY <1>3, <3>1, <4>1
      <4>2. CASE k = Len(stack)
        <5>1. j = i
          BY <1>5, <3>1, <4>2
        <5>2. Len(nodes) + 1 \in 1..Len(longer)
          BY <1>0, <1>7
        <5> QED
          BY <1>12, <5>1, <5>2
      <4> QED
        BY <1>10, <4>1, <4>2
    <3> QED
      BY <3>1 DEF StaysOrCloses
  <2>2. PatchesOpen(longer, nodes, stack)
    BY <1>5, <1>6, <1>7, <1>10 DEF PatchesOpen
  <2>3. EndIsOpen(longer, node, rest)
    BY <1>8 DEF EndIsOpen
  <2> QED
    BY <1>0, <1>2, <1>7, <2>1, <2>2, <2>3, StillCounted
<1>14. KeysPrecede(longer, st2)
  BY <1>0, <1>1, <1>2, <1>7, <1>8, KeysStay
<1> QED
  BY <1>1, <1>9, <1>13, <1>14 DEF CountsTell, st2

\* Reading a key counts its member.
LEMMA KeyCountsTell ==
  ASSUME ClosesWhatIsOpen, CountsTell, ReadKey
  PROVE  CountsTell'
<1>0. /\ nodes \in Seq(Node) /\ stack \in Seq(Frame)
      /\ pos \in Nat \ {0} /\ Len(nodes) \in Nat /\ Len(stack) \in Nat
      /\ Starts1(nodes, stack)
  BY TypesHold, StartsPoint
<1> DEFINE node == NodeAt("key", pos, Len(stack))
           longer == Append(nodes, node)
           counted == Counted
           st == state
<1>1. /\ outcome = "parsing" /\ stack # <<>> /\ st # "Value"
      /\ nodes' = longer /\ stack' = counted
  BY DEF ReadKey, At, ClosesWhatIsOpen, StateAgreesWithStack, ObjectStates
<1>2. \/ state' = "Value" /\ outcome' = "parsing"
      \/ outcome' = "invalid"
  BY <1>1 DEF ReadKey
<1>3. /\ OpenCounts(nodes, stack, st) /\ AllCounted(nodes, stack)
      /\ KeysPrecede(nodes, st)
  BY <1>1 DEF CountsTell
<1>4. node \in Node /\ node.kind = "key" /\ node.depth = Len(stack)
  BY <1>0 DEF NodeAt, Node, Kinds
<1>5. AddsOne(counted, stack)
  BY <1>0, <1>1, CountedAddsOne
<1>6. longer = Append(nodes, node)
  OBVIOUS
<1> HIDE DEF node, longer, counted, st
<1>7. /\ AddsNode(longer, nodes, node) /\ Len(longer) = Len(nodes) + 1
      /\ \A i \in 1..Len(nodes) : longer[i] = nodes[i]
  BY <1>0, <1>4, <1>6, AppendedNode
<1>8. ~IsValue(node) /\ node.kind \notin Containers
  BY <1>4 DEF IsValue, Closed, Containers
<1>9. OpenCounts(longer, stack, st)
  <2>1. Len(stack) <= Len(stack) /\ \A k \in 1..Len(stack) : stack[k] = stack[k]
    BY <1>0
  <2> QED
    BY <1>0, <1>1, <1>3, <1>4, <1>7, <1>8, <2>1, OthersCounted
<1>10. OpenCounts(longer, counted, "Value")
  BY <1>0, <1>1, <1>5, <1>9, CountedAhead
<1>11. AllCounted(longer, counted)
  <2>1. StaysOrCloses(longer, nodes, stack, counted)
    BY <1>5 DEF AddsOne, StaysOrCloses
  <2>2. PatchesOpen(longer, nodes, stack) /\ EndIsOpen(longer, node, counted)
    BY <1>7, <1>8 DEF PatchesOpen, EndIsOpen
  <2> QED
    BY <1>0, <1>3, <1>7, <2>1, <2>2, StillCounted
<1>12. KeysPrecede(longer, "Value")
  BY <1>0, <1>1, <1>3, <1>7, KeysStay
<1> QED
  BY <1>1, <1>2, <1>10, <1>11, <1>12 DEF CountsTell

\* Going on to an element or a member keeps the counts.
LEMMA NextCountsTell ==
  ASSUME ClosesWhatIsOpen, CountsTell, FirstElement \/ NextElement \/ NextMember
  PROVE  CountsTell'
<1>0. /\ nodes \in Seq(Node) /\ stack \in Seq(Frame)
  BY TypesHold
<1>1. /\ outcome = "parsing" /\ outcome' = outcome /\ stack # <<>> /\ state # "Value"
      /\ nodes' = nodes
      /\ \/ stack' = Counted /\ state' = "Value"
         \/ stack' = stack /\ state' = "ObjectKey"
  BY DEF FirstElement, NextElement, NextMember, At,
         ClosesWhatIsOpen, StateAgreesWithStack, ArrayStates, ObjectStates
<1>2. /\ OpenCounts(nodes, stack, state) /\ AllCounted(nodes, stack)
      /\ KeysPrecede(nodes, state)
  BY <1>1 DEF CountsTell
<1>3. KeysPrecede(nodes, state')
  BY <1>1, <1>2 DEF KeysPrecede
<1>4. CASE stack' = Counted /\ state' = "Value"
  <2>1. AddsOne(Counted, stack)
    BY <1>0, <1>1, CountedAddsOne
  <2>2. OpenCounts(nodes, Counted, "Value")
    BY <1>0, <1>1, <1>2, <2>1, CountedAhead
  <2>3. AllCounted(nodes, Counted)
    BY <1>2, <2>1 DEF AllCounted, AddsOne
  <2> QED
    BY <1>1, <1>3, <1>4, <2>2, <2>3 DEF CountsTell
<1>5. CASE stack' = stack /\ state' = "ObjectKey"
  <2>1. OpenCounts(nodes, stack, "ObjectKey")
    BY <1>1, <1>2 DEF OpenCounts
  <2> QED
    BY <1>1, <1>2, <1>3, <1>5, <2>1 DEF CountsTell
<1> QED
  BY <1>1, <1>4, <1>5

\* Before anything is read nothing is counted.
LEMMA CountsAtFirst == Init => CountsTell
<1>1. Len(<<>>) = 0
  OBVIOUS
<1> QED
  BY <1>1 DEF Init, CountsTell, OpenCounts, AllCounted, KeysPrecede

\* Every step keeps the counts.
LEMMA CountsStepTells == ClosesWhatIsOpen /\ CountsTell /\ [Next]_vars => CountsTell'
<1> SUFFICES ASSUME ClosesWhatIsOpen, CountsTell, [Next]_vars PROVE CountsTell'
  OBVIOUS
<1>1. CASE Disclose
  <2>1. UNCHANGED <<pos, state, stack, nodes, outcome>> /\ outcome = "parsing"
    BY <1>1 DEF Disclose
  <2> QED
    BY <2>1 DEF CountsTell
<1>2. CASE OpenContainer("{", "object", "ObjectFirst")
  BY <1>2, OpenCountsTell DEF Containers
<1>3. CASE OpenContainer("[", "array", "ArrayFirst")
  BY <1>3, OpenCountsTell DEF Containers
<1>4. CASE ReadScalar
  BY <1>4, ScalarCountsTell
<1>5. CASE CloseContainer
  BY <1>5, CloseCountsTell
<1>6. CASE FirstElement \/ NextElement \/ NextMember
  BY <1>6, NextCountsTell
<1>7. CASE ReadKey
  BY <1>7, KeyCountsTell
<1>8. CASE Reject \/ Finish
  <2>1. /\ UNCHANGED <<input, pos, state, stack, nodes>> /\ outcome = "parsing"
        /\ \/ outcome' = "invalid"
           \/ /\ outcome' = "tape" /\ state = "End" /\ pos <= Len(input)
              /\ input[pos] = EndOfInput
    BY <1>8 DEF Reject, Finish, At, Looks, Disclosed, Under
  <2> QED
    BY <2>1 DEF CountsTell
<1>9. CASE UNCHANGED vars
  BY <1>9 DEF vars, CountsTell
<1> QED
  BY <1>1, <1>2, <1>3, <1>4, <1>5, <1>6, <1>7, <1>8, <1>9 DEF Next

-----------------------------------------------------------------------------
(* The tape returned *)

\* With a tape returned, the input read is all but its end, and nothing is open.
LEMMA AllRead ==
  ASSUME ClosesWhatIsOpen, WalkTells, CountsTell, outcome = "tape"
  PROVE  /\ pos = Len(input) /\ stack = <<>> /\ state = "End"
         /\ Document = SubSeq(input, 1, pos - 1)
         /\ Document \in Seq(Words) /\ Len(Document) = pos - 1
         /\ \A k \in 1..(pos - 1) : Document[k] = input[k]
<1>0. /\ input \in Seq(Words) /\ pos \in Nat \ {0} /\ Len(input) \in Nat
  BY TypesHold
<1>1. state = "End" /\ pos <= Len(input) /\ input[pos] = EndOfInput /\ stack = <<>>
  BY DEF CountsTell, ClosesWhatIsOpen
<1>2. pos \in 1..Len(input)
  BY <1>0, <1>1, WithinInput
<1>3. pos = Len(input)
  BY <1>1, <1>2 DEF WalkTells, EndIsLast
<1>4. Document = SubSeq(input, 1, pos - 1)
  BY <1>3 DEF Document
<1> DEFINE m == pos - 1
<1>5. m \in Nat /\ m \in Int /\ 1 \in Int /\ 1..m \subseteq 1..Len(input)
      /\ m - 1 + 1 = m /\ \A k \in 1..m : 1 + k - 1 = k
  BY <1>0, <1>2
<1>6. \A k \in 1..m : input[k] \in Words
  BY <1>0, <1>5, ElementOfSeq
<1> HIDE DEF m
<1>7. /\ SubSeq(input, 1, m) \in Seq(Words)
      /\ Len(SubSeq(input, 1, m)) = IF 1 <= m THEN m - 1 + 1 ELSE 0
      /\ \A k \in 1..(m - 1 + 1) : SubSeq(input, 1, m)[k] = input[1 + k - 1]
  BY <1>5, <1>6, SubSeqProperties
<1>8. Len(SubSeq(input, 1, m)) = m /\ \A k \in 1..m : SubSeq(input, 1, m)[k] = input[k]
  BY <1>5, <1>7
<1> QED
  BY <1>1, <1>3, <1>4, <1>7, <1>8 DEF m

\* Walking the tape over the document spells every token of it.
LEMMA WalkedBack ==
  ASSUME ClosesWhatIsOpen, WalkTells, CountsTell, outcome = "tape",
         NEW spell \in [Strings -> Strings]
  PROVE  Walk(nodes, Document, spell).out = Spelled(Document, spell)
<1>0. nodes \in Seq(Node) /\ Len(nodes) \in Nat /\ pos \in Nat \ {0}
  BY TypesHold
<1>1. /\ pos = Len(input) /\ stack = <<>> /\ state = "End"
      /\ Document = SubSeq(input, 1, pos - 1)
      /\ \A k \in 1..(pos - 1) : Document[k] = input[k]
  BY AllRead
<1>2. /\ StandForTokens(nodes, input, pos)
      /\ Tells(nodes, input, pos, stack, state, spell)
  BY DEF WalkTells
<1>3. \A i \in 1..Len(nodes) : /\ ReadsToken(nodes[i], input)
                               /\ Document[nodes[i].at] = input[nodes[i].at]
  BY <1>1, <1>2 DEF StandForTokens
<1>4. ReadsTokens(nodes, input) /\ ReadsTokens(nodes, Document)
  BY <1>3 DEF ReadsTokens, ReadsToken
<1> DEFINE n == Len(nodes)
           doc == Document
<1>5. SameNodes(n, nodes, input, nodes, doc)
  BY <1>0, <1>3 DEF SameNodes
<1>6. ReadsTokens(nodes, input) /\ ReadsTokens(nodes, doc)
  BY <1>4
<1> HIDE DEF n, doc
<1>7. Walks(nodes, doc, spell)[n] = Walks(nodes, input, spell)[n]
  BY ONLY <1>0, <1>5, <1>6, spell \in [Strings -> Strings], WalkedAlike
<1>8. Walk(nodes, Document, spell) = Walk(nodes, input, spell)
  BY <1>7 DEF n, doc, Walk
<1> DEFINE walk == Walk(nodes, input, spell)
<1>9. PendingComma(walk.frames, <<>>, "End") = <<>>
  BY DEF PendingComma
<1>10. Spelled(Document, spell) = walk.out \o PendingComma(walk.frames, <<>>, "End")
  BY <1>1, <1>2 DEF Tells
<1>11. walk \in WalkStates
  BY <1>0, <1>4, WalksStepwise DEF Walk
<1>12. walk.out \in Seq(Token)
  BY <1>11 DEF WalkStates
<1> HIDE DEF walk
<1>13. walk.out \o <<>> = walk.out
  BY <1>12, ConcatEmptySeq
<1> QED
  BY <1>8, <1>9, <1>10, <1>13 DEF walk

\* The node that closes a container is the one EndNode chooses.
LEMMA EndsAreUnique ==
  ASSUME NEW i \in 1..Len(nodes), NEW e, ClosedAt(nodes, i, e), nodes[i].kind \in Containers,
         nodes \in Seq(Node)
  PROVE  EndNode(i) = e
<1> DEFINE n == Len(nodes)
           Ends(k) == /\ nodes[k].depth = nodes[i].depth
                      /\ nodes[k].kind = EndOf(nodes[i].kind)
                      /\ \A j \in (i + 1)..(k - 1) : nodes[j].depth > nodes[i].depth
<1>1. n \in Nat /\ i \in 1..n /\ e \in (i + 1)..n
  BY LenProperties DEF ClosedAt
<1>2. EndNode(i) = CHOOSE k \in i..n : Ends(k)
  BY DEF EndNode
<1>3. e \in i..n /\ Ends(e)
  BY <1>1 DEF ClosedAt
<1>4. \A j \in 1..n : nodes[j].depth \in Nat
  <2>1. \A j \in 1..n : nodes[j] \in Node
    BY ElementOfSeq
  <2> QED
    BY <2>1 DEF Node
<1>5. nodes[i].kind # EndOf(nodes[i].kind)
  BY DEF EndOf, Containers
<1>6. ASSUME NEW k \in i..n, Ends(k) PROVE k = e
  <2>1. k # i
    BY <1>5, <1>6
  <2>2. ~(nodes[i].depth > nodes[i].depth)
    BY <1>1, <1>4
  <2>3. ~(k < e)
    <3> SUFFICES ASSUME k < e PROVE FALSE
      OBVIOUS
    <3> HIDE DEF n
    <3>1. k \in (i + 1)..(e - 1)
      BY ONLY <1>1, <2>1, k < e, k \in i..n
    <3>2. nodes[k].depth > nodes[i].depth /\ nodes[k].depth = nodes[i].depth
      BY <1>3, <1>6, <3>1
    <3> QED
      BY <2>2, <3>2
  <2>4. ~(e < k)
    <3> SUFFICES ASSUME e < k PROVE FALSE
      OBVIOUS
    <3> HIDE DEF n
    <3>1. e \in (i + 1)..(k - 1)
      BY ONLY <1>1, e < k, k \in i..n
    <3>2. nodes[e].depth > nodes[i].depth /\ nodes[e].depth = nodes[i].depth
      BY <1>3, <1>6, <3>1
    <3> QED
      BY <2>2, <3>2
  <2> QED
    BY <1>1, <2>3, <2>4
<1> HIDE DEF Ends, n
<1> QED
  BY <1>2, <1>3, <1>6

\* On the tape returned each count is exact and each key precedes its value.
LEMMA CountsAreExact ==
  ASSUME ClosesWhatIsOpen, WalkTells, CountsTell, outcome = "tape", NEW i \in 1..Len(nodes)
  PROVE  /\ nodes[i].kind \in Containers => nodes[i].count = Cardinality(ValuesOf(i))
         /\ nodes[i].kind = "key" => nodes[i + 1].kind \notin Closed \cup {"key"}
<1>0. nodes \in Seq(Node) /\ Len(nodes) \in Nat
  BY TypesHold
<1>1. stack = <<>> /\ state = "End"
  BY AllRead
<1>2. AllCounted(nodes, stack) /\ KeysPrecede(nodes, state)
  BY DEF CountsTell
<1>3. nodes[i].kind = "key" => nodes[i + 1].kind \notin Closed \cup {"key"}
  BY <1>1, <1>2 DEF KeysPrecede
<1>4. ASSUME nodes[i].kind \in Containers PROVE nodes[i].count = Cardinality(ValuesOf(i))
  <2>1. \A k \in 1..Len(stack) : FALSE
    BY <1>1
  <2>2. PICK e \in 1..Len(nodes) : ClosedAt(nodes, i, e)
    BY <1>2, <1>4, <2>1 DEF AllCounted
  <2>3. EndNode(i) = e
    BY <1>0, <1>4, <2>2, EndsAreUnique
  <2>4. ValuesOf(i) = ValuesUpTo(nodes, i, e - 1)
    BY <2>3 DEF ValuesOf, Inside, ValuesUpTo
  <2> QED
    BY <2>2, <2>4 DEF ClosedAt
<1> QED
  BY <1>3, <1>4

\* On the tape returned the walk and the counts give the document back.
LEMMA KeptWhenReturned ==
  ClosesWhatIsOpen /\ WalkTells /\ CountsTell => TapeKeepsTheDocument
<1> SUFFICES ASSUME ClosesWhatIsOpen, WalkTells, CountsTell, outcome = "tape"
             PROVE  /\ Compact(nodes, Document, 1, Len(nodes)) = Document
                    /\ Minify(nodes, Document) =
                         [k \in DOMAIN Document |->
                            IF Document[k] \in Strings THEN EmitString[Document[k]]
                            ELSE Document[k]]
                    /\ \A i \in 1..Len(nodes) :
                         /\ nodes[i].kind \in Containers =>
                              nodes[i].count = Cardinality(ValuesOf(i))
                         /\ nodes[i].kind = "key" =>
                              nodes[i + 1].kind \notin Closed \cup {"key"}
  BY DEF TapeKeepsTheDocument
<1>0. nodes \in Seq(Node) /\ Len(nodes) \in Nat
  BY TypesHold
<1>1. Document \in Seq(Words)
  BY AllRead
<1>2. Compact(nodes, Document, 1, Len(nodes)) = Document
  <2>1. Verbatim \in [Strings -> Strings]
    BY DEF Verbatim
  <2>2. SubSeq(nodes, 1, Len(nodes)) = nodes
    BY <1>0, SubSeqFull
  <2>3. Compact(nodes, Document, 1, Len(nodes)) = Spelled(Document, Verbatim)
    BY <2>1, <2>2, WalkedBack DEF Compact
  <2>4. \A t \in Words : SpelledToken(t, Verbatim) = t
    BY DEF SpelledToken, Verbatim
  <2> DEFINE doc == Document
  <2>5. doc \in Seq(Words)
    BY <1>1
  <2> HIDE DEF doc
  <2>6. \A k \in 1..Len(doc) : doc[k] \in Words
    BY <2>5, ElementOfSeq
  <2>7. Spelled(doc, Verbatim) \in Seq(Words) /\ Len(Spelled(doc, Verbatim)) = Len(doc)
        /\ \A k \in 1..Len(doc) : Spelled(doc, Verbatim)[k] = doc[k]
    BY <2>1, <2>4, <2>5, <2>6, SpelledTyped
  <2>8. Spelled(doc, Verbatim) = doc
    BY <2>5, <2>7, SeqEqual
  <2> QED
    BY <2>3, <2>8 DEF doc
<1>3. Minify(nodes, Document) = Spelled(Document, EmitString)
  BY DocumentsAssumption, WalkedBack DEF Minify
<1>4. Minify(nodes, Document) =
        [k \in DOMAIN Document |->
           IF Document[k] \in Strings THEN EmitString[Document[k]] ELSE Document[k]]
  BY <1>3 DEF Spelled, SpelledToken
<1> QED
  BY <1>2, <1>4, CountsAreExact

\* The tape keeps the document.
THEOREM TheTapeKeepsTheDocument == Spec => []TapeKeepsTheDocument
<1> DEFINE Inv == ClosesWhatIsOpen /\ WalkTells /\ CountsTell
<1>1. Init => Inv
  BY AtFirst, WalkAtFirst, CountsAtFirst
<1>2. Inv /\ [Next]_vars => Inv'
  BY EveryStepKeeps, WalkStepTells, CountsStepTells
<1>3. Inv => TapeKeepsTheDocument
  BY KeptWhenReturned
<1> QED
  BY <1>1, <1>2, <1>3, PTL DEF Spec

-----------------------------------------------------------------------------
(* The grammar, as a recursion over intervals *)

\* Each question is answered from those of a lower rank.
Rank(n, x) == 2 * ((x[3] + n + 2) - x[2]) + (IF x[1] = "value" THEN 0 ELSE 1)

AgreeBelow(n, S, f, g, r) == \A y \in S : Rank(n, y) < r => (f[y] = g[y])

\* A question of the domain.
LEMMA AnInterval ==
  ASSUME NEW doc, Len(doc) \in Nat, NEW what \in {"value", "elements", "members"},
         NEW i \in 1..(Len(doc) + 2), NEW j \in 0..Len(doc)
  PROVE  /\ <<what, i, j>> \in Intervals(doc)
         /\ Rank(Len(doc), <<what, i, j>>) =
              2 * ((j + Len(doc) + 2) - i) + (IF what = "value" THEN 0 ELSE 1)
         /\ Rank(Len(doc), <<what, i, j>>) \in Nat
BY SMT DEF Intervals, Rank

\* What there is to know of a question.
LEMMA IntervalParts ==
  ASSUME NEW doc, Len(doc) \in Nat, NEW x \in Intervals(doc)
  PROVE  /\ x[1] \in {"value", "elements", "members"}
         /\ x[2] \in 1..(Len(doc) + 2) /\ x[3] \in 0..Len(doc)
         /\ x = <<x[1], x[2], x[3]>>
BY DEF Intervals

\* The answer depends on those of a lower rank alone.
LEMMA DerivedLocally ==
  ASSUME NEW doc, Len(doc) \in Nat, NEW x \in Intervals(doc),
         NEW f, NEW g, AgreeBelow(Len(doc), Intervals(doc), f, g, Rank(Len(doc), x))
  PROVE  Derived(doc, f, x) = Derived(doc, g, x)
<1> DEFINE n == Len(doc)
           i == x[2]
           j == x[3]
<1>1. /\ x[1] \in {"value", "elements", "members"} /\ n \in Nat
      /\ i \in 1..(n + 2) /\ j \in 0..n /\ x = <<x[1], i, j>>
  BY IntervalParts
<1>2. Rank(n, x) = 2 * ((j + n + 2) - i) + (IF x[1] = "value" THEN 0 ELSE 1)
  BY <1>1, AnInterval
<1>3. ASSUME NEW what \in {"value", "elements", "members"},
             NEW a \in 1..(n + 2), NEW b \in 0..n,
             b - a < j - i \/ (what = "value" /\ x[1] # "value" /\ b - a <= j - i)
      PROVE  f[<<what, a, b>>] = g[<<what, a, b>>]
  <2>1. /\ <<what, a, b>> \in Intervals(doc)
        /\ Rank(n, <<what, a, b>>) = 2 * ((b + n + 2) - a) + (IF what = "value" THEN 0 ELSE 1)
    BY <1>1, AnInterval
  <2>2. Rank(n, <<what, a, b>>) < Rank(n, x)
    <3>1. ASSUME NEW p \in Int, NEW q \in Int, NEW c \in {0, 1}, NEW d \in {0, 1}, NEW m \in Int,
                 b - a < q - p \/ (c = 0 /\ d = 1 /\ b - a <= q - p)
          PROVE  2 * ((b + m) - a) + c < 2 * ((q + m) - p) + d
      BY ONLY <3>1, a \in Int, b \in Int, SMT
    <3> DEFINE c == IF what = "value" THEN 0 ELSE 1
               d == IF x[1] = "value" THEN 0 ELSE 1
    <3>2. /\ c \in {0, 1} /\ d \in {0, 1} /\ a \in Int /\ b \in Int /\ i \in Int /\ j \in Int
          /\ n + 2 \in Int /\ b + n + 2 = b + (n + 2) /\ j + n + 2 = j + (n + 2)
          /\ what = "value" => c = 0
          /\ x[1] # "value" => d = 1
      BY <1>1
    <3>3. /\ Rank(n, <<what, a, b>>) = 2 * ((b + n + 2) - a) + c
          /\ Rank(n, x) = 2 * ((j + n + 2) - i) + d
      BY <1>2, <2>1
    <3> HIDE DEF c, d, i, j, n
    <3>4. b - a < j - i \/ (c = 0 /\ d = 1 /\ b - a <= j - i)
      BY <1>3, <3>2
    <3>5. 2 * ((b + (n + 2)) - a) + c < 2 * ((j + (n + 2)) - i) + d
      BY <3>1, <3>2, <3>4
    <3> QED
      BY <3>2, <3>3, <3>5
  <2> QED
    BY <2>1, <2>2 DEF AgreeBelow
<1>4. CASE x[1] = "value"
  <2>1. i < j => f[<<"elements", i + 1, j - 1>>] = g[<<"elements", i + 1, j - 1>>]
    <3> SUFFICES ASSUME i < j
                 PROVE  f[<<"elements", i + 1, j - 1>>] = g[<<"elements", i + 1, j - 1>>]
      OBVIOUS
    <3>1. i + 1 \in 1..(n + 2) /\ j - 1 \in 0..n /\ (j - 1) - (i + 1) < j - i
      BY <1>1
    <3> HIDE DEF i, j, n
    <3> QED
      BY <1>3, <3>1
  <2>2. i < j => f[<<"members", i + 1, j - 1>>] = g[<<"members", i + 1, j - 1>>]
    <3> SUFFICES ASSUME i < j PROVE f[<<"members", i + 1, j - 1>>] = g[<<"members", i + 1, j - 1>>]
      OBVIOUS
    <3>1. i + 1 \in 1..(n + 2) /\ j - 1 \in 0..n /\ (j - 1) - (i + 1) < j - i
      BY <1>1
    <3> HIDE DEF i, j, n
    <3> QED
      BY <1>3, <3>1
  <2> QED
    BY <1>4, <2>1, <2>2, Zenon DEF Derived
<1>5. ASSUME x[1] # "value", NEW what \in {"elements", "members"}, NEW from \in i..j
      PROVE  /\ f[<<"value", from, j>>] = g[<<"value", from, j>>]
             /\ \A k \in (from + 1)..(j - 1) :
                  /\ f[<<"value", from, k - 1>>] = g[<<"value", from, k - 1>>]
                  /\ f[<<what, k + 1, j>>] = g[<<what, k + 1, j>>]
  <2> HIDE DEF i, j, n
  <2>1. f[<<"value", from, j>>] = g[<<"value", from, j>>]
    <3>1. from \in 1..(n + 2) /\ j \in 0..n /\ j - from <= j - i
      BY <1>1
    <3> QED
      BY <1>3, <1>5, <3>1
  <2>2. ASSUME NEW k \in (from + 1)..(j - 1)
        PROVE  /\ f[<<"value", from, k - 1>>] = g[<<"value", from, k - 1>>]
               /\ f[<<what, k + 1, j>>] = g[<<what, k + 1, j>>]
    <3>1. /\ from \in 1..(n + 2) /\ k - 1 \in 0..n /\ (k - 1) - from < j - i
          /\ k + 1 \in 1..(n + 2) /\ j \in 0..n /\ j - (k + 1) < j - i
      BY <1>1, SMTT(40), ZenonT(40)
    <3>2. f[<<"value", from, k - 1>>] = g[<<"value", from, k - 1>>]
      BY <1>3, <3>1
    <3>3. f[<<what, k + 1, j>>] = g[<<what, k + 1, j>>]
      BY <1>3, <3>1
    <3> QED
      BY <3>2, <3>3
  <2> QED
    BY <2>1, <2>2
<1>6. CASE x[1] = "elements"
  <2>1. CASE i <= j
    <3>1. i \in i..j
      BY <1>1, <2>1
    <3>2. /\ f[<<"value", i, j>>] = g[<<"value", i, j>>]
          /\ \A k \in (i + 1)..(j - 1) :
               /\ f[<<"value", i, k - 1>>] = g[<<"value", i, k - 1>>]
               /\ f[<<"elements", k + 1, j>>] = g[<<"elements", k + 1, j>>]
      BY <1>5, <1>6, <3>1
    <3> QED
      BY <1>6, <3>2, Zenon DEF Derived
  <2>2. CASE ~(i <= j)
    BY <1>6, <2>2, Zenon DEF Derived
  <2> QED
    BY <2>1, <2>2
<1>7. CASE x[1] = "members"
  <2>1. CASE i + 2 <= j
    <3>1. i + 2 \in i..j
      BY <1>1, <2>1
    <3>2. /\ f[<<"value", i + 2, j>>] = g[<<"value", i + 2, j>>]
          /\ \A k \in ((i + 2) + 1)..(j - 1) :
               /\ f[<<"value", i + 2, k - 1>>] = g[<<"value", i + 2, k - 1>>]
               /\ f[<<"members", k + 1, j>>] = g[<<"members", k + 1, j>>]
      BY <1>5, <1>7, <3>1
    <3> QED
      BY <1>7, <3>2, Zenon DEF Derived
  <2>2. CASE ~(i + 2 <= j)
    BY <1>7, <2>2, Zenon DEF Derived
  <2> QED
    BY <2>1, <2>2
<1> QED
  BY <1>1, <1>4, <1>6, <1>7

\* The answers are yes or no.
LEMMA DerivedIsBoolean ==
  ASSUME NEW doc, NEW f, NEW x, x[1] \in {"value", "elements", "members"}
  PROVE  Derived(doc, f, x) \in BOOLEAN
BY Zenon DEF Derived

\* The recursion has a solution, the derivation.
LEMMA DerivationUnfolds ==
  ASSUME NEW doc, Len(doc) \in Nat
  PROVE  \A x \in Intervals(doc) : Derivation(doc)[x] = Derived(doc, Derivation(doc), x)
<1> DEFINE S == Intervals(doc)
           n == Len(doc)
           A == [S -> BOOLEAN]
           base == [x \in S |-> FALSE]
           next == [k \in Nat |-> [f \in A |-> [x \in S |-> Derived(doc, f, x)]]]
           last == 4 * n + 10
<1>1. base \in A
  OBVIOUS
<1>2. \A f \in A : [x \in S |-> Derived(doc, f, x)] \in A
  BY DerivedIsBoolean, IntervalParts
<1>3. next \in [Nat -> [A -> A]]
  BY <1>2
<1>4. \A k \in Nat, f \in A : next[k][f] = [x \in S |-> Derived(doc, f, x)]
  OBVIOUS
<1>5. last \in Nat /\ last + 1 \in Nat
  BY SMT
<1> HIDE DEF next, A, last, base
<1>6. PICK f \in [0..last + 1 -> A] : Unrolls(f, last + 1, base, next)
  BY <1>1, <1>3, <1>5, ByRecursion, Zenon
<1>7. \A k \in 0..last : f[k + 1] = [x \in S |-> Derived(doc, f[k], x)]
  <2> TAKE k \in 0..last
  <2>1. /\ k + 1 \in 0..last + 1 /\ k + 1 # 0 /\ (k + 1) - 1 = k /\ k \in 0..last + 1
        /\ k + 1 \in Nat
    BY <1>5
  <2>2. f[k + 1] = next[k + 1][f[(k + 1) - 1]]
    BY <1>6, <2>1 DEF Unrolls
  <2>3. f[k] \in A
    BY <1>6, <2>1
  <2> QED
    BY <1>4, <2>1, <2>2, <2>3
<1> DEFINE T == {m \in Nat : m <= last => AgreeBelow(n, S, f[m + 1], f[m], m)}
<1>8. 0 \in T
  <2>1. \A x \in S : ~(Rank(n, x) < 0)
    <3> TAKE x \in S
    <3>1. Rank(n, x) \in Nat
      BY IntervalParts, AnInterval
    <3> QED
      BY <3>1
  <2> QED
    BY <2>1 DEF AgreeBelow
<1>9. ASSUME NEW m \in Nat, m \in T PROVE m + 1 \in T
  <2> SUFFICES ASSUME m + 1 <= last, NEW x \in S, Rank(n, x) < m + 1
               PROVE  f[(m + 1) + 1][x] = f[m + 1][x]
    BY DEF AgreeBelow
  <2>1. m \in 0..last /\ m + 1 \in 0..last /\ m <= last
    BY <1>5
  <2>2. /\ f[(m + 1) + 1] = [z \in S |-> Derived(doc, f[m + 1], z)]
        /\ f[m + 1] = [z \in S |-> Derived(doc, f[m], z)]
    BY <1>7, <2>1
  <2>3. AgreeBelow(n, S, f[m + 1], f[m], Rank(n, x))
    <3> SUFFICES ASSUME NEW y \in S, Rank(n, y) < Rank(n, x) PROVE f[m + 1][y] = f[m][y]
      BY DEF AgreeBelow
    <3>1. Rank(n, y) \in Nat /\ Rank(n, x) \in Nat
      BY IntervalParts, AnInterval
    <3>2. Rank(n, y) < m
      BY <3>1
    <3> QED
      BY <1>9, <2>1, <3>2 DEF AgreeBelow
  <2>4. Derived(doc, f[m + 1], x) = Derived(doc, f[m], x)
    BY <2>3, DerivedLocally
  <2> QED
    BY <2>2, <2>4, Zenon
<1>10. last \in T
  <2> HIDE DEF T
  <2>1. Nat \subseteq T
    BY <1>8, <1>9, EveryNumber
  <2> QED
    BY <1>5, <2>1
<1>11. \A x \in S : f[last + 1][x] = f[last][x]
  <2> TAKE x \in S
  <2>1. Rank(n, x) < last
    <3>1. /\ x[1] \in {"value", "elements", "members"}
          /\ x[2] \in 1..(n + 2) /\ x[3] \in 0..n /\ x = <<x[1], x[2], x[3]>>
      BY IntervalParts
    <3>2. Rank(n, x) = 2 * ((x[3] + n + 2) - x[2]) + (IF x[1] = "value" THEN 0 ELSE 1)
      BY DEF Rank
    <3> QED
      BY <3>1, <3>2, SMT DEF last
  <2>2. last <= last
    BY <1>5
  <2> QED
    BY <1>10, <2>1, <2>2 DEF AgreeBelow
<1> DEFINE g == f[last + 1]
<1>12. g = [x \in S |-> Derived(doc, g, x)]
  <2>1. last \in 0..last /\ last + 1 \in 0..last + 1
    BY <1>5
  <2>2. g = [x \in S |-> Derived(doc, f[last], x)]
    BY <1>7, <2>1
  <2>3. \A x \in S : Derived(doc, g, x) = Derived(doc, f[last], x)
    <3> TAKE x \in S
    <3>1. AgreeBelow(n, S, g, f[last], Rank(n, x))
      BY <1>11 DEF AgreeBelow
    <3> QED
      BY <3>1, DerivedLocally
  <2> QED
    BY <2>2, <2>3, Zenon
<1> HIDE DEF g
<1>13. Derivation(doc) = [x \in S |-> Derived(doc, Derivation(doc), x)]
  <2>1. \E h : h = [x \in S |-> Derived(doc, h, x)]
    BY <1>12, Zenon
  <2> QED
    BY <2>1, Zenon DEF Derivation
<1> QED
  BY <1>13, Zenon

Derives(doc, what, i, j) == Derivation(doc)[<<what, i, j>>]

\* What a value is.
LEMMA ValueDerived ==
  ASSUME NEW doc, Len(doc) \in Nat, NEW i \in 1..(Len(doc) + 2), NEW j \in 0..Len(doc)
  PROVE  Derives(doc, "value", i, j) <=>
           \/ i = j /\ doc[i] \in Strings \cup Scalars
           \/ /\ i < j /\ doc[i] = "[" /\ doc[j] = "]"
              /\ j = i + 1 \/ Derives(doc, "elements", i + 1, j - 1)
           \/ /\ i < j /\ doc[i] = "{" /\ doc[j] = "}"
              /\ j = i + 1 \/ Derives(doc, "members", i + 1, j - 1)
<1> DEFINE x == <<"value", i, j>>
<1>1. x \in Intervals(doc) /\ x[1] = "value" /\ x[2] = i /\ x[3] = j
  BY AnInterval
<1> HIDE DEF x
<1>2. Derivation(doc)[x] = Derived(doc, Derivation(doc), x)
  BY <1>1, DerivationUnfolds
<1>3. Derived(doc, Derivation(doc), x) <=>
           \/ i = j /\ doc[i] \in Strings \cup Scalars
           \/ /\ i < j /\ doc[i] = "[" /\ doc[j] = "]"
              /\ j = i + 1 \/ Derives(doc, "elements", i + 1, j - 1)
           \/ /\ i < j /\ doc[i] = "{" /\ doc[j] = "}"
              /\ j = i + 1 \/ Derives(doc, "members", i + 1, j - 1)
  BY <1>1, Zenon DEF Derived, Derives
<1> QED
  BY <1>2, <1>3 DEF Derives, x

\* What follows a value in a list that ends at j.
Rest(doc, what, v, j) ==
  v = j \/ (v + 2 <= j /\ doc[v + 1] = "," /\ Derives(doc, what, v + 2, j))

\* A list begins with a value, and goes on behind it.
LEMMA SplitAtValue ==
  ASSUME NEW doc, Len(doc) \in Nat, NEW what, NEW from \in Int, NEW j \in 0..Len(doc), from <= j
  PROVE  (\/ Derives(doc, "value", from, j)
          \/ \E k \in (from + 1)..(j - 1) :
               /\ doc[k] = ","
               /\ Derives(doc, "value", from, k - 1)
               /\ Derives(doc, what, k + 1, j))
         <=> \E v \in from..j : Derives(doc, "value", from, v) /\ Rest(doc, what, v, j)
<1>1. ASSUME Derives(doc, "value", from, j)
      PROVE  \E v \in from..j : Derives(doc, "value", from, v) /\ Rest(doc, what, v, j)
  <2>1. j \in from..j
    OBVIOUS
  <2> QED
    BY <1>1, <2>1 DEF Rest
<1>2. ASSUME NEW k \in (from + 1)..(j - 1), doc[k] = ",",
             Derives(doc, "value", from, k - 1), Derives(doc, what, k + 1, j)
      PROVE  \E v \in from..j : Derives(doc, "value", from, v) /\ Rest(doc, what, v, j)
  <2>1. k - 1 \in from..j /\ (k - 1) + 1 = k /\ (k - 1) + 2 = k + 1 /\ k + 1 <= j
    OBVIOUS
  <2> QED
    BY <1>2, <2>1 DEF Rest
<1>3. ASSUME NEW v \in from..j, Derives(doc, "value", from, v), Rest(doc, what, v, j)
      PROVE  \/ Derives(doc, "value", from, j)
             \/ \E k \in (from + 1)..(j - 1) :
                  /\ doc[k] = ","
                  /\ Derives(doc, "value", from, k - 1)
                  /\ Derives(doc, what, k + 1, j)
  <2>1. CASE v = j
    BY <1>3, <2>1
  <2>2. CASE v + 2 <= j /\ doc[v + 1] = "," /\ Derives(doc, what, v + 2, j)
    <3>0. v + 2 <= j
      BY <2>2
    <3>1. v + 1 \in (from + 1)..(j - 1) /\ (v + 1) - 1 = v /\ (v + 1) + 1 = v + 2
      BY <3>0
    <3> QED
      BY <1>3, <2>2, <3>1
  <2> QED
    BY <1>3, <2>1, <2>2 DEF Rest
<1> QED
  BY <1>1, <1>2, <1>3

\* What the elements of an array are.
LEMMA ElementsDerived ==
  ASSUME NEW doc, Len(doc) \in Nat, NEW i \in 1..(Len(doc) + 2), NEW j \in 0..Len(doc)
  PROVE  Derives(doc, "elements", i, j) <=>
           \E v \in i..j : Derives(doc, "value", i, v) /\ Rest(doc, "elements", v, j)
<1> DEFINE x == <<"elements", i, j>>
<1>1. x \in Intervals(doc) /\ x[1] = "elements" /\ x[2] = i /\ x[3] = j
  BY AnInterval
<1> HIDE DEF x
<1>2. Derivation(doc)[x] = Derived(doc, Derivation(doc), x)
  BY <1>1, DerivationUnfolds
<1>3. Derived(doc, Derivation(doc), x) <=>
        /\ i <= j
        /\ \/ Derives(doc, "value", i, j)
           \/ \E k \in (i + 1)..(j - 1) :
                /\ doc[k] = ","
                /\ Derives(doc, "value", i, k - 1)
                /\ Derives(doc, "elements", k + 1, j)
  BY <1>1, Zenon DEF Derived, Derives
<1>4. Derives(doc, "elements", i, j) <=> Derived(doc, Derivation(doc), x)
  BY <1>2 DEF Derives, x
<1>5. CASE i <= j
  <2>1. i \in Int
    OBVIOUS
  <2> QED
    BY <1>3, <1>4, <1>5, <2>1, SplitAtValue
<1>6. CASE ~(i <= j)
  <2>1. \A v \in i..j : FALSE
    BY <1>6
  <2> QED
    BY <1>3, <1>4, <1>6, <2>1
<1> QED
  BY <1>5, <1>6

\* What the members of an object are.
LEMMA MembersDerived ==
  ASSUME NEW doc, Len(doc) \in Nat, NEW i \in 1..(Len(doc) + 2), NEW j \in 0..Len(doc)
  PROVE  Derives(doc, "members", i, j) <=>
           /\ i + 2 <= j /\ doc[i] \in Strings /\ doc[i + 1] = ":"
           /\ \E v \in (i + 2)..j :
                Derives(doc, "value", i + 2, v) /\ Rest(doc, "members", v, j)
<1> DEFINE x == <<"members", i, j>>
<1>1. x \in Intervals(doc) /\ x[1] = "members" /\ x[2] = i /\ x[3] = j
  BY AnInterval
<1> HIDE DEF x
<1>2. Derivation(doc)[x] = Derived(doc, Derivation(doc), x)
  BY <1>1, DerivationUnfolds
<1>3. Derived(doc, Derivation(doc), x) <=>
        /\ i + 2 <= j /\ doc[i] \in Strings /\ doc[i + 1] = ":"
        /\ \/ Derives(doc, "value", i + 2, j)
           \/ \E k \in ((i + 2) + 1)..(j - 1) :
                /\ doc[k] = ","
                /\ Derives(doc, "value", i + 2, k - 1)
                /\ Derives(doc, "members", k + 1, j)
  BY <1>1, Zenon DEF Derived, Derives
<1>4. Derives(doc, "members", i, j) <=> Derived(doc, Derivation(doc), x)
  BY <1>2 DEF Derives, x
<1>5. CASE i + 2 <= j
  <2>1. i + 2 \in Int
    OBVIOUS
  <2>2. (\/ Derives(doc, "value", i + 2, j)
          \/ \E k \in ((i + 2) + 1)..(j - 1) :
               /\ doc[k] = ","
               /\ Derives(doc, "value", i + 2, k - 1)
               /\ Derives(doc, "members", k + 1, j))
         <=> \E v \in (i + 2)..j : Derives(doc, "value", i + 2, v) /\ Rest(doc, "members", v, j)
    BY <1>5, <2>1, SplitAtValue
  <2> QED
    BY <1>3, <1>4, <1>5, <2>2
<1>6. CASE ~(i + 2 <= j)
  BY <1>3, <1>4, <1>6
<1> QED
  BY <1>5, <1>6

-----------------------------------------------------------------------------
(* What of a document is left, by the grammar, for the parser to read *)

Closer(kind) == IF kind = "array" THEN "]" ELSE "}"
ListOf(kind) == IF kind = "array" THEN "elements" ELSE "members"

\* With the d-th of the open containers (of kinds kinds, ends[k] where the k-th will
\* close) going on behind a value that ends at j.
Continues(doc, kinds, ends, d, j) ==
  IF d = 0 THEN j = Len(doc) ELSE Rest(doc, ListOf(kinds[d]), j, ends[d] - 1)

\* Every open container closes, and what is around it goes on.
AllClose(doc, kinds, ends) ==
  \A k \in 1..Len(kinds) :
    /\ doc[ends[k]] = Closer(kinds[k])
    /\ Continues(doc, kinds, ends, k - 1, ends[k])

\* From p, in the state st, the innermost container is read to its end.
Innermost(doc, kinds, ends, st, p) ==
  LET d == Len(kinds)
  IN CASE st = "Value" ->
            \E v \in p..Len(doc) :
              Derives(doc, "value", p, v) /\ Continues(doc, kinds, ends, d, v)
       [] st = "ArrayFirst" -> p = ends[d] \/ Derives(doc, "elements", p, ends[d] - 1)
       [] st = "ObjectFirst" -> p = ends[d] \/ Derives(doc, "members", p, ends[d] - 1)
       [] st = "ObjectKey" -> Derives(doc, "members", p, ends[d] - 1)
       [] OTHER -> Continues(doc, kinds, ends, d, p - 1)

Ends(doc, kinds) == [1..Len(kinds) -> 1..Len(doc)]

\* From p, in the state st, the document is read to its end.
Completes(doc, kinds, st, p) ==
  \E ends \in Ends(doc, kinds) :
    AllClose(doc, kinds, ends) /\ Innermost(doc, kinds, ends, st, p)

AfterStates == {"End", "ArrayNext", "ObjectNext"}

\* After a value, what goes on is what is around it.
LEMMA AfterValueLeft ==
  ASSUME NEW doc, NEW kinds, NEW ends, NEW st \in AfterStates, NEW p
  PROVE  Innermost(doc, kinds, ends, st, p) <=> Continues(doc, kinds, ends, Len(kinds), p - 1)
BY DEF Innermost, AfterStates

\* A step that moves no end.
LEMMA SameEnds ==
  ASSUME NEW doc, NEW kinds, NEW st, NEW p, NEW st2, NEW q,
         \A ends \in Ends(doc, kinds) :
           AllClose(doc, kinds, ends) =>
             (Innermost(doc, kinds, ends, st, p) <=> Innermost(doc, kinds, ends, st2, q))
  PROVE  Completes(doc, kinds, st, p) <=> Completes(doc, kinds, st2, q)
BY DEF Completes

\* What may begin a value.
LEMMA BeginsValue ==
  ASSUME NEW doc, Len(doc) \in Nat, NEW i \in 1..(Len(doc) + 2), NEW j \in 0..Len(doc),
         Derives(doc, "value", i, j)
  PROVE  i <= j /\ doc[i] \in {"{", "["} \cup Strings \cup Scalars
<1>1. \/ i = j /\ doc[i] \in Strings \cup Scalars
      \/ i < j /\ (doc[i] = "[" \/ doc[i] = "{")
  BY ValueDerived
<1>2. i = j \/ i < j
  BY <1>1
<1>3. i <= j
  BY <1>2
<1> QED
  BY <1>1, <1>3

\* The innermost end, where there is one.
LEMMA InnermostEnd ==
  ASSUME NEW doc, Len(doc) \in Nat, NEW kinds \in Seq(Containers), kinds # <<>>,
         NEW ends \in Ends(doc, kinds)
  PROVE  LET d == Len(kinds)
         IN /\ d \in Nat \ {0} /\ d \in 1..d /\ kinds[d] \in Containers
            /\ ends[d] \in 1..Len(doc) /\ ends[d] - 1 \in 0..Len(doc)
            /\ AllClose(doc, kinds, ends) =>
                 /\ doc[ends[d]] = Closer(kinds[d])
                 /\ Continues(doc, kinds, ends, d - 1, ends[d])
            /\ \A j : Continues(doc, kinds, ends, d, j) <=>
                        Rest(doc, ListOf(kinds[d]), j, ends[d] - 1)
<1> DEFINE d == Len(kinds)
<1>1. d \in Nat /\ d # 0
  BY EmptySeq, LenProperties
<1>2. d \in 1..d /\ d \in Nat \ {0}
  BY <1>1
<1>3. kinds[d] \in Containers
  BY <1>2, ElementOfSeq
<1>4. ends[d] \in 1..Len(doc)
  BY <1>2 DEF Ends
<1>5. ends[d] - 1 \in 0..Len(doc)
  BY <1>4
<1> QED
  BY <1>1, <1>2, <1>3, <1>4, <1>5 DEF AllClose, Continues

\* The brackets are themselves, and apart from strings and scalars.
LEMMA BracketsApart ==
  /\ \A t \in Strings \cup Scalars : t \notin Punctuation
  /\ \A kind : Closer(kind) \in {"]", "}"}
  /\ \A t \in {"{", "["} \cup Strings \cup Scalars : t \notin {"]", "}", ","}
<1>1. \A t \in Strings \cup Scalars : t \notin Punctuation
  BY TapeAssumption
<1>2. \A kind : Closer(kind) \in {"]", "}"}
  BY DEF Closer
<1>3. {"]", "}", ","} \subseteq Punctuation /\ "{" \notin {"]", "}", ","}
      /\ "[" \notin {"]", "}", ","}
  BY DEF Punctuation
<1> QED
  BY <1>1, <1>2, <1>3

\* A string or a scalar where a value is due is that value.
LEMMA ScalarLeft ==
  ASSUME NEW doc, Len(doc) \in Nat, NEW kinds, NEW p \in 1..Len(doc),
         doc[p] \in Strings \cup Scalars, NEW st \in AfterStates
  PROVE  Completes(doc, kinds, "Value", p) <=> Completes(doc, kinds, st, p + 1)
<1>1. ASSUME NEW ends
      PROVE  Innermost(doc, kinds, ends, "Value", p) <=> Innermost(doc, kinds, ends, st, p + 1)
  <2>1. \A v \in p..Len(doc) : Derives(doc, "value", p, v) <=> v = p
    <3> TAKE v \in p..Len(doc)
    <3>1. p \in 1..(Len(doc) + 2) /\ v \in 0..Len(doc)
      OBVIOUS
    <3>2. doc[p] # "[" /\ doc[p] # "{"
      BY BracketsApart DEF Punctuation
    <3> QED
      BY <3>1, <3>2, ValueDerived
  <2>2. p \in p..Len(doc) /\ (p + 1) - 1 = p
    OBVIOUS
  <2>3. Innermost(doc, kinds, ends, "Value", p) <=>
          Continues(doc, kinds, ends, Len(kinds), p)
    BY <2>1, <2>2 DEF Innermost
  <2> QED
    BY <2>2, <2>3, AfterValueLeft
<1> QED
  BY <1>1, SameEnds

\* In front of an element that is due, other than the array's end: the element is a value.
LEMMA ElementsLeft ==
  ASSUME NEW doc, Len(doc) \in Nat, NEW kinds \in Seq(Containers), kinds # <<>>,
         kinds[Len(kinds)] = "array", NEW p \in 1..(Len(doc) + 2),
         NEW ends \in Ends(doc, kinds)
  PROVE  Derives(doc, "elements", p, ends[Len(kinds)] - 1) <=>
           Innermost(doc, kinds, ends, "Value", p)
<1> DEFINE d == Len(kinds)
           j == ends[d] - 1
<1>1. /\ j \in 0..Len(doc)
      /\ \A v : Continues(doc, kinds, ends, d, v) <=> Rest(doc, "elements", v, j)
  BY InnermostEnd DEF ListOf
<1> HIDE DEF j
<1>2. Derives(doc, "elements", p, j) <=>
        \E v \in p..j : Derives(doc, "value", p, v) /\ Rest(doc, "elements", v, j)
  BY <1>1, ElementsDerived
<1>3. ASSUME NEW v \in p..Len(doc), Rest(doc, "elements", v, j) PROVE v \in p..j
  <2>1. v = j \/ v + 2 <= j
    BY <1>3 DEF Rest
  <2> QED
    BY <1>1, <2>1
<1>4. p..j \subseteq p..Len(doc)
  BY <1>1
<1> QED
  BY <1>1, <1>2, <1>3, <1>4 DEF Innermost, j

\* In front of a member that is due: its key, a colon and a value.
LEMMA MembersLeft ==
  ASSUME NEW doc, Len(doc) \in Nat, NEW kinds \in Seq(Containers), kinds # <<>>,
         kinds[Len(kinds)] = "object", NEW p \in 1..(Len(doc) + 2),
         NEW ends \in Ends(doc, kinds)
  PROVE  Derives(doc, "members", p, ends[Len(kinds)] - 1) <=>
           /\ p + 2 <= ends[Len(kinds)] - 1 /\ doc[p] \in Strings /\ doc[p + 1] = ":"
           /\ Innermost(doc, kinds, ends, "Value", p + 2)
<1> DEFINE d == Len(kinds)
           j == ends[d] - 1
<1>1. /\ j \in 0..Len(doc)
      /\ \A v : Continues(doc, kinds, ends, d, v) <=> Rest(doc, "members", v, j)
  BY InnermostEnd DEF ListOf
<1> HIDE DEF j
<1>2. Derives(doc, "members", p, j) <=>
        /\ p + 2 <= j /\ doc[p] \in Strings /\ doc[p + 1] = ":"
        /\ \E v \in (p + 2)..j : Derives(doc, "value", p + 2, v) /\ Rest(doc, "members", v, j)
  BY <1>1, MembersDerived
<1>3. ASSUME NEW v \in (p + 2)..Len(doc), Rest(doc, "members", v, j) PROVE v \in (p + 2)..j
  <2>1. v = j \/ v + 2 <= j
    BY <1>3 DEF Rest
  <2> QED
    BY <1>1, <2>1
<1>4. (p + 2)..j \subseteq (p + 2)..Len(doc)
  BY <1>1
<1>5. (\E v \in (p + 2)..j : Derives(doc, "value", p + 2, v) /\ Rest(doc, "members", v, j))
        <=> Innermost(doc, kinds, ends, "Value", p + 2)
  BY <1>1, <1>3, <1>4 DEF Innermost
<1> QED
  BY <1>2, <1>5 DEF j

\* Anything but a closing bracket begins the first element.
LEMMA FirstElementLeft ==
  ASSUME NEW doc, Len(doc) \in Nat, NEW kinds \in Seq(Containers), kinds # <<>>,
         kinds[Len(kinds)] = "array", NEW p \in 1..Len(doc), doc[p] # "]"
  PROVE  Completes(doc, kinds, "ArrayFirst", p) <=> Completes(doc, kinds, "Value", p)
<1>1. ASSUME NEW ends \in Ends(doc, kinds), AllClose(doc, kinds, ends)
      PROVE  Innermost(doc, kinds, ends, "ArrayFirst", p) <=>
               Innermost(doc, kinds, ends, "Value", p)
  <2>1. p # ends[Len(kinds)]
    BY <1>1, InnermostEnd DEF Closer
  <2>2. p \in 1..(Len(doc) + 2)
    OBVIOUS
  <2>3. Innermost(doc, kinds, ends, "ArrayFirst", p) <=>
          Derives(doc, "elements", p, ends[Len(kinds)] - 1)
    BY <2>1 DEF Innermost
  <2> QED
    BY <2>2, <2>3, ElementsLeft
<1> QED
  BY <1>1, SameEnds

\* The numbers around a comma at p, in a container that ends at e.
LEMMA AroundComma ==
  ASSUME NEW n \in Nat, NEW p \in 1..n, NEW e \in 1..n, p # e
  PROVE  /\ p + 1 \in 1..(n + 2) /\ (p - 1) + 1 = p /\ (p - 1) + 2 = p + 1 /\ p - 1 # e - 1
         /\ e - 1 \in 0..n /\ e - 1 \in Int
         /\ \A v \in (p + 1)..(e - 1) : p + 1 <= e - 1
         /\ (p + 1) + 2 <= e - 1 => p + 1 <= e - 1
OBVIOUS

\* A comma in an array: another element.
LEMMA NextElementLeft ==
  ASSUME NEW doc, Len(doc) \in Nat, NEW kinds \in Seq(Containers), kinds # <<>>,
         kinds[Len(kinds)] = "array", NEW p \in 1..Len(doc), doc[p] = ","
  PROVE  Completes(doc, kinds, "ArrayNext", p) <=> Completes(doc, kinds, "Value", p + 1)
<1>1. ASSUME NEW ends \in Ends(doc, kinds), AllClose(doc, kinds, ends)
      PROVE  Innermost(doc, kinds, ends, "ArrayNext", p) <=>
               Innermost(doc, kinds, ends, "Value", p + 1)
  <2> DEFINE j == ends[Len(kinds)] - 1
  <2>0. p # ends[Len(kinds)] /\ ends[Len(kinds)] \in 1..Len(doc)
    BY <1>1, InnermostEnd DEF Closer
  <2>1. \A v : Continues(doc, kinds, ends, Len(kinds), v) <=> Rest(doc, "elements", v, j)
    BY InnermostEnd DEF ListOf
  <2>2. p + 1 \in 1..(Len(doc) + 2) /\ (p - 1) + 1 = p /\ (p - 1) + 2 = p + 1 /\ p - 1 # j
        /\ j \in 0..Len(doc) /\ j \in Int
    BY <2>0, AroundComma
  <2>3. Derives(doc, "elements", p + 1, j) <=> Innermost(doc, kinds, ends, "Value", p + 1)
    BY <2>2, ElementsLeft
  <2> HIDE DEF j
  <2>4. Innermost(doc, kinds, ends, "ArrayNext", p) <=> Rest(doc, "elements", p - 1, j)
    BY <2>1, AfterValueLeft DEF AfterStates
  <2>5. Derives(doc, "elements", p + 1, j) => p + 1 <= j
    <3> SUFFICES ASSUME Derives(doc, "elements", p + 1, j) PROVE p + 1 <= j
      OBVIOUS
    <3>1. PICK v \in (p + 1)..j : TRUE
      BY <2>1, <2>2, ElementsDerived
    <3> QED
      BY <2>0, <3>1, AroundComma DEF j
  <2> QED
    BY <2>2, <2>3, <2>4, <2>5 DEF Rest
<1> QED
  BY <1>1, SameEnds

\* A comma in an object: another key.
LEMMA NextMemberLeft ==
  ASSUME NEW doc, Len(doc) \in Nat, NEW kinds \in Seq(Containers), kinds # <<>>,
         kinds[Len(kinds)] = "object", NEW p \in 1..Len(doc), doc[p] = ","
  PROVE  Completes(doc, kinds, "ObjectNext", p) <=> Completes(doc, kinds, "ObjectKey", p + 1)
<1>1. ASSUME NEW ends \in Ends(doc, kinds), AllClose(doc, kinds, ends)
      PROVE  Innermost(doc, kinds, ends, "ObjectNext", p) <=>
               Innermost(doc, kinds, ends, "ObjectKey", p + 1)
  <2> DEFINE j == ends[Len(kinds)] - 1
  <2>0. p # ends[Len(kinds)] /\ ends[Len(kinds)] \in 1..Len(doc)
    BY <1>1, InnermostEnd DEF Closer
  <2>1. \A v : Continues(doc, kinds, ends, Len(kinds), v) <=> Rest(doc, "members", v, j)
    BY InnermostEnd DEF ListOf
  <2>2. p + 1 \in 1..(Len(doc) + 2) /\ (p - 1) + 1 = p /\ (p - 1) + 2 = p + 1 /\ p - 1 # j
        /\ j \in 0..Len(doc) /\ j \in Int
    BY <2>0, AroundComma
  <2>3. Innermost(doc, kinds, ends, "ObjectKey", p + 1) <=> Derives(doc, "members", p + 1, j)
    BY DEF Innermost
  <2> HIDE DEF j
  <2>4. Innermost(doc, kinds, ends, "ObjectNext", p) <=> Rest(doc, "members", p - 1, j)
    BY <2>1, AfterValueLeft DEF AfterStates
  <2>5. Derives(doc, "members", p + 1, j) => p + 1 <= j
    <3> SUFFICES ASSUME Derives(doc, "members", p + 1, j) PROVE p + 1 <= j
      OBVIOUS
    <3>1. (p + 1) + 2 <= j
      BY <2>1, <2>2, MembersDerived
    <3> QED
      BY <2>0, <3>1, AroundComma DEF j
  <2> QED
    BY <2>2, <2>3, <2>4, <2>5 DEF Rest
<1> QED
  BY <1>1, SameEnds

\* A key and its colon: a value.
LEMMA KeyLeft ==
  ASSUME NEW doc, Len(doc) \in Nat, NEW kinds \in Seq(Containers), kinds # <<>>,
         kinds[Len(kinds)] = "object", NEW st \in {"ObjectFirst", "ObjectKey"},
         NEW p \in 1..Len(doc), p + 1 <= Len(doc), doc[p] \in Strings, doc[p + 1] = ":"
  PROVE  Completes(doc, kinds, st, p) <=> Completes(doc, kinds, "Value", p + 2)
<1>1. ASSUME NEW ends \in Ends(doc, kinds), AllClose(doc, kinds, ends)
      PROVE  Innermost(doc, kinds, ends, st, p) <=>
               Innermost(doc, kinds, ends, "Value", p + 2)
  <2> DEFINE j == ends[Len(kinds)] - 1
  <2>1. /\ p # ends[Len(kinds)] /\ j \in 0..Len(doc)
        /\ \A v : Continues(doc, kinds, ends, Len(kinds), v) <=> Rest(doc, "members", v, j)
    <3>1. doc[p] \notin {"]", "}"}
      BY BracketsApart DEF Punctuation
    <3>2. p # ends[Len(kinds)]
      BY <1>1, <3>1, InnermostEnd, BracketsApart, SMTT(40), ZenonT(40)
    <3> QED
      BY <3>2, InnermostEnd DEF ListOf
  <2>2. p \in 1..(Len(doc) + 2)
    OBVIOUS
  <2>3. Innermost(doc, kinds, ends, st, p) <=> Derives(doc, "members", p, j)
    BY <2>1 DEF Innermost
  <2>4. Derives(doc, "members", p, j) <=>
          p + 2 <= j /\ Innermost(doc, kinds, ends, "Value", p + 2)
    BY <2>2, MembersLeft
  <2> HIDE DEF j
  <2>5. Innermost(doc, kinds, ends, "Value", p + 2) => p + 2 <= j
    <3> SUFFICES ASSUME Innermost(doc, kinds, ends, "Value", p + 2) PROVE p + 2 <= j
      OBVIOUS
    <3>1. PICK v \in (p + 2)..Len(doc) : Continues(doc, kinds, ends, Len(kinds), v)
      BY DEF Innermost
    <3>2. v = j \/ v + 2 <= j
      BY <2>1, <3>1 DEF Rest
    <3> QED
      BY <2>1, <3>1, <3>2
  <2> QED
    BY <2>3, <2>4, <2>5
<1> QED
  BY <1>1, SameEnds

\* One more container, or one less, leaves what is around it as it goes on.
LEMMA ContinuesAlike ==
  ASSUME NEW doc, NEW kinds, NEW ends, NEW kinds2, NEW ends2, NEW m \in Nat,
         \A k \in 1..m : kinds2[k] = kinds[k] /\ ends2[k] = ends[k]
  PROVE  \A k \in 0..m : \A j : Continues(doc, kinds2, ends2, k, j) <=>
                                   Continues(doc, kinds, ends, k, j)
<1> SUFFICES ASSUME NEW k \in 0..m, NEW j
             PROVE Continues(doc, kinds2, ends2, k, j) <=> Continues(doc, kinds, ends, k, j)
  OBVIOUS
<1>1. CASE k = 0
  BY <1>1 DEF Continues
<1>2. CASE k # 0
  <2>1. k \in 1..m
    BY <1>2
  <2> QED
    BY <2>1 DEF Continues
<1> QED
  BY <1>1, <1>2

\* All of the containers close when all but the innermost do, and that one where it may.
LEMMA OneMoreCloses ==
  ASSUME NEW doc, NEW d \in Nat, NEW kinds, NEW ends, Len(kinds) = d,
         NEW kinds2, NEW ends2, Len(kinds2) = d + 1,
         \A k \in 1..d : kinds2[k] = kinds[k] /\ ends2[k] = ends[k]
  PROVE  AllClose(doc, kinds2, ends2) <=>
           /\ AllClose(doc, kinds, ends)
           /\ doc[ends2[d + 1]] = Closer(kinds2[d + 1])
           /\ Continues(doc, kinds, ends, d, ends2[d + 1])
<1>1. \A k \in 0..d : \A j :
        Continues(doc, kinds2, ends2, k, j) <=> Continues(doc, kinds, ends, k, j)
  BY ContinuesAlike
<1> DEFINE Shut(k) == /\ doc[ends[k]] = Closer(kinds[k])
                      /\ Continues(doc, kinds, ends, k - 1, ends[k])
           Shut2(k) == /\ doc[ends2[k]] = Closer(kinds2[k])
                       /\ Continues(doc, kinds2, ends2, k - 1, ends2[k])
<1>2. \A k \in 1..d : Shut2(k) <=> Shut(k)
  <2> TAKE k \in 1..d
  <2>1. k - 1 \in 0..d
    OBVIOUS
  <2> QED
    BY <1>1, <2>1
<1>3. Shut2(d + 1) <=> /\ doc[ends2[d + 1]] = Closer(kinds2[d + 1])
                       /\ Continues(doc, kinds, ends, d, ends2[d + 1])
  <2>1. (d + 1) - 1 = d /\ d \in 0..d
    OBVIOUS
  <2> QED
    BY <1>1, <2>1
<1>4. AllClose(doc, kinds2, ends2) <=> \A k \in 1..(d + 1) : Shut2(k)
  BY DEF AllClose
<1>5. AllClose(doc, kinds, ends) <=> \A k \in 1..d : Shut(k)
  BY DEF AllClose
<1> HIDE DEF Shut, Shut2
<1>6. 1..(d + 1) = (1..d) \cup {d + 1}
  OBVIOUS
<1> QED
  BY <1>2, <1>3, <1>4, <1>5, <1>6

\* The opening bracket, the state behind it.
Opener(kind) == IF kind = "array" THEN "[" ELSE "{"
FirstOf(kind) == IF kind = "array" THEN "ArrayFirst" ELSE "ObjectFirst"

\* A bracket where a value is due: the value is a container, read from its first place.
LEMMA BracketIsValue ==
  ASSUME NEW doc, Len(doc) \in Nat, NEW p \in 1..Len(doc), NEW kind \in Containers,
         doc[p] = Opener(kind), NEW v \in 1..Len(doc)
  PROVE  Derives(doc, "value", p, v) <=>
           /\ p < v /\ doc[v] = Closer(kind)
           /\ p + 1 = v \/ Derives(doc, ListOf(kind), p + 1, v - 1)
<1>1. p \in 1..(Len(doc) + 2) /\ v \in 0..Len(doc)
  OBVIOUS
<1>2. doc[p] \notin Strings \cup Scalars
  BY BracketsApart DEF Opener, Punctuation
<1>3. CASE kind = "array"
  BY <1>1, <1>2, <1>3, ValueDerived, Zenon DEF Opener, Closer, ListOf
<1>4. CASE kind = "object"
  BY <1>1, <1>2, <1>4, ValueDerived, Zenon DEF Opener, Closer, ListOf
<1> QED
  BY <1>3, <1>4 DEF Containers

\* In front of the first place of a container: its end, or its list.
LEMMA FirstPlaceLeft ==
  ASSUME NEW doc, NEW kinds, NEW ends, NEW kind \in Containers, NEW q
  PROVE  Innermost(doc, kinds, ends, FirstOf(kind), q) <=>
           q = ends[Len(kinds)] \/ Derives(doc, ListOf(kind), q, ends[Len(kinds)] - 1)
BY DEF Innermost, FirstOf, ListOf, Containers

\* An open bracket.
LEMMA OpenLeft ==
  ASSUME NEW doc, Len(doc) \in Nat, NEW kinds \in Seq(Containers), NEW p \in 1..Len(doc),
         NEW kind \in Containers, doc[p] = Opener(kind)
  PROVE  Completes(doc, kinds, "Value", p) <=>
           Completes(doc, Append(kinds, kind), FirstOf(kind), p + 1)
<1> DEFINE d == Len(kinds)
           n == Len(doc)
           more == Append(kinds, kind)
<1>1. /\ d \in Nat /\ n \in Nat /\ Len(more) = d + 1 /\ more[d + 1] = kind
      /\ \A k \in 1..d : more[k] = kinds[k]
  BY LenProperties, AppendProperties
<1> HIDE DEF more
<1>2. ASSUME NEW ends \in Ends(doc, kinds), AllClose(doc, kinds, ends),
             Innermost(doc, kinds, ends, "Value", p)
      PROVE  Completes(doc, more, FirstOf(kind), p + 1)
  <2>1. PICK v \in p..n : Derives(doc, "value", p, v) /\ Continues(doc, kinds, ends, d, v)
    BY <1>2 DEF Innermost
  <2>2. v \in 1..n
    BY <1>1
  <2>3. /\ doc[v] = Closer(kind)
        /\ p + 1 = v \/ Derives(doc, ListOf(kind), p + 1, v - 1)
    BY <2>1, <2>2, BracketIsValue
  <2> DEFINE ends2 == [k \in 1..(d + 1) |-> IF k = d + 1 THEN v ELSE ends[k]]
  <2>4. \A k \in 1..d : k \in 1..(d + 1) /\ k # d + 1 /\ ends[k] \in 1..n
    BY <1>1 DEF Ends
  <2>5. d + 1 \in 1..(d + 1)
    BY <1>1
  <2>6. /\ ends2 \in [1..(d + 1) -> 1..n] /\ ends2[d + 1] = v
        /\ \A k \in 1..d : ends2[k] = ends[k]
    <3>1. \A k \in 1..(d + 1) : k # d + 1 => k \in 1..d
      BY <1>1
    <3> QED
      BY <2>2, <2>4, <2>5, <3>1
  <2> HIDE DEF ends2
  <2>7. AllClose(doc, more, ends2)
    <3>1. AllClose(doc, more, ends2) <=>
            /\ AllClose(doc, kinds, ends)
            /\ doc[ends2[d + 1]] = Closer(more[d + 1])
            /\ Continues(doc, kinds, ends, d, ends2[d + 1])
      <4> HIDE DEF n
      <4> QED
        BY <1>1, <2>6, OneMoreCloses
    <3> QED
      BY <1>1, <1>2, <2>1, <2>3, <2>6, <3>1
  <2>8. Innermost(doc, more, ends2, FirstOf(kind), p + 1)
    BY <1>1, <2>3, <2>6, FirstPlaceLeft
  <2>9. ends2 \in Ends(doc, more)
    BY <1>1, <2>6 DEF Ends
  <2> QED
    BY <2>7, <2>8, <2>9 DEF Completes
<1>3. ASSUME NEW ends2 \in Ends(doc, more), AllClose(doc, more, ends2),
             Innermost(doc, more, ends2, FirstOf(kind), p + 1)
      PROVE  Completes(doc, kinds, "Value", p)
  <2> DEFINE ends == [k \in 1..d |-> ends2[k]]
             v == ends2[d + 1]
  <2>1. ends2 \in [1..(d + 1) -> 1..n]
    BY <1>1 DEF Ends
  <2>2. \A k \in 1..d : k \in 1..(d + 1)
    BY <1>1
  <2>3. v \in 1..n
    BY <1>1, <2>1
  <2>4. ends \in Ends(doc, kinds) /\ \A k \in 1..d : ends2[k] = ends[k]
    BY <2>1, <2>2 DEF Ends
  <2> HIDE DEF ends
  <2>5. AllClose(doc, kinds, ends) /\ doc[v] = Closer(kind) /\ Continues(doc, kinds, ends, d, v)
    <3>1. AllClose(doc, more, ends2) <=>
            /\ AllClose(doc, kinds, ends)
            /\ doc[ends2[d + 1]] = Closer(more[d + 1])
            /\ Continues(doc, kinds, ends, d, ends2[d + 1])
      BY <1>1, <2>4, OneMoreCloses
    <3> QED
      BY <1>1, <1>3, <3>1
  <2>6. p + 1 = v \/ Derives(doc, ListOf(kind), p + 1, v - 1)
    BY <1>1, <1>3, FirstPlaceLeft
  <2> HIDE DEF v
  <2>7. p < v
    <3>1. p + 1 \in 1..(n + 2) /\ v - 1 \in 0..n
      BY <1>1, <2>3
    <3>2. CASE p + 1 = v
      BY <3>2
    <3>3. CASE Derives(doc, "elements", p + 1, v - 1)
      <4>1. PICK u \in (p + 1)..(v - 1) : TRUE
        BY <3>1, <3>3, ElementsDerived
      <4>2. (p + 1) <= v - 1
        BY <1>1, <2>3, <4>1
      <4> QED
        BY ONLY <4>2, <2>3, <1>1, p \in 1..n
    <3>4. CASE Derives(doc, "members", p + 1, v - 1)
      <4>1. (p + 1) + 2 <= v - 1
        BY <3>1, <3>4, MembersDerived
      <4> QED
        BY ONLY <4>1, <2>3, <1>1, p \in 1..n
    <3> QED
      BY <2>6, <3>2, <3>3, <3>4 DEF ListOf
  <2>8. Derives(doc, "value", p, v)
    BY <2>3, <2>5, <2>6, <2>7, BracketIsValue
  <2>9. v \in p..n
    BY <1>1, <2>3, <2>7
  <2>10. Innermost(doc, kinds, ends, "Value", p)
    BY <2>5, <2>8, <2>9 DEF Innermost
  <2> QED
    BY <2>4, <2>5, <2>10 DEF Completes
<1> QED
  BY <1>2, <1>3 DEF Completes, more

\* The kinds but the innermost.
Outer(kinds) == SubSeq(kinds, 1, Len(kinds) - 1)

\* Without the innermost kind, the others stay.
LEMMA OuterKinds ==
  ASSUME NEW kinds \in Seq(Containers), kinds # <<>>
  PROVE  LET d == Len(kinds)
         IN /\ d \in Nat /\ d - 1 \in Nat /\ (d - 1) + 1 = d
            /\ Outer(kinds) \in Seq(Containers) /\ Len(Outer(kinds)) = d - 1
            /\ \A k \in 1..(d - 1) : kinds[k] = Outer(kinds)[k]
            /\ kinds[d] \in Containers
<1> DEFINE d == Len(kinds)
           m == d - 1
<1>1. d \in Nat /\ d # 0
  BY EmptySeq, LenProperties
<1>2. m \in Nat /\ m + 1 = d /\ m \in Int /\ 1 \in Int /\ d \in 1..d /\ \A i \in 1..m : i \in 1..d
  BY <1>1
<1>3. kinds[d] \in Containers /\ \A i \in 1..m : kinds[i] \in Containers
  BY <1>2, ElementOfSeq
<1> HIDE DEF m
<1>4. /\ SubSeq(kinds, 1, m) \in Seq(Containers)
      /\ Len(SubSeq(kinds, 1, m)) = IF 1 <= m THEN m - 1 + 1 ELSE 0
      /\ \A k \in 1..(m - 1 + 1) : SubSeq(kinds, 1, m)[k] = kinds[1 + k - 1]
  BY <1>2, <1>3, SubSeqProperties
<1>5. Len(SubSeq(kinds, 1, m)) = m
  BY <1>2, <1>4
<1>6. \A k \in 1..m : SubSeq(kinds, 1, m)[k] = kinds[k]
  <2> TAKE k \in 1..m
  <2>1. k \in 1..(m - 1 + 1) /\ 1 + k - 1 = k
    BY <1>2
  <2> QED
    BY <1>4, <2>1
<1> QED
  BY <1>1, <1>2, <1>3, <1>4, <1>5, <1>6 DEF Outer, m

\* The states a closing bracket may be met in.
ClosingStates(kind) == IF kind = "array" THEN {"ArrayFirst", "ArrayNext"}
                       ELSE {"ObjectFirst", "ObjectNext"}

\* A closing bracket ends the innermost container.
LEMMA EndsHere ==
  ASSUME NEW doc, Len(doc) \in Nat, NEW kinds \in Seq(Containers), kinds # <<>>,
         NEW p \in 1..Len(doc), doc[p] = Closer(kinds[Len(kinds)]),
         NEW st \in ClosingStates(kinds[Len(kinds)]), NEW ends \in Ends(doc, kinds)
  PROVE  Innermost(doc, kinds, ends, st, p) <=> ends[Len(kinds)] = p
<1> DEFINE d == Len(kinds)
           e == ends[d]
<1>1. /\ e \in 1..Len(doc) /\ e - 1 \in 0..Len(doc) /\ kinds[d] \in Containers
  BY InnermostEnd
<1>2. \A j : Continues(doc, kinds, ends, d, j) <=> Rest(doc, ListOf(kinds[d]), j, e - 1)
  BY InnermostEnd
<1>3. doc[p] \in {"]", "}"} /\ doc[p] \notin {"{", "["} \cup Strings \cup Scalars /\ doc[p] # ","
  BY BracketsApart
<1>4. p \in 1..(Len(doc) + 2)
  OBVIOUS
<1> HIDE DEF e
<1>5. ~Derives(doc, "elements", p, e - 1)
  <2> SUFFICES ASSUME Derives(doc, "elements", p, e - 1) PROVE FALSE
    OBVIOUS
  <2>1. PICK v \in p..(e - 1) : Derives(doc, "value", p, v)
    BY <1>1, <1>4, ElementsDerived
  <2>2. v \in 0..Len(doc)
    BY <1>1
  <2> QED
    BY <1>3, <1>4, <2>1, <2>2, BeginsValue
<1>6. ~Derives(doc, "members", p, e - 1)
  BY <1>1, <1>3, <1>4, MembersDerived
<1>7. CASE st \in {"ArrayFirst", "ObjectFirst"}
  BY <1>5, <1>6, <1>7 DEF Innermost, e
<1>8. CASE st \in {"ArrayNext", "ObjectNext"}
  <2>1. Innermost(doc, kinds, ends, st, p) <=> Rest(doc, ListOf(kinds[d]), p - 1, e - 1)
    BY <1>2, <1>8, AfterValueLeft DEF AfterStates
  <2>2. (p - 1) + 1 = p /\ (p - 1 = e - 1 <=> e = p)
    BY ONLY <1>1, p \in 1..Len(doc), Len(doc) \in Nat
  <2> QED
    BY <1>3, <2>1, <2>2, Zenon DEF Rest, e
<1> QED
  BY <1>7, <1>8 DEF ClosingStates

\* Behind its closing bracket, a container leaves what it left around it.
LEMMA CloseLeft ==
  ASSUME NEW doc, Len(doc) \in Nat, NEW kinds \in Seq(Containers), kinds # <<>>,
         NEW p \in 1..Len(doc), doc[p] = Closer(kinds[Len(kinds)]),
         NEW st \in ClosingStates(kinds[Len(kinds)]), NEW st2 \in AfterStates
  PROVE  Completes(doc, kinds, st, p) <=> Completes(doc, Outer(kinds), st2, p + 1)
<1> DEFINE d == Len(kinds)
           m == d - 1
           n == Len(doc)
           less == Outer(kinds)
<1>1. /\ d \in Nat /\ m \in Nat /\ m + 1 = d /\ Len(less) = m
      /\ \A k \in 1..m : kinds[k] = less[k]
  BY OuterKinds
<1> HIDE DEF less, m
<1>2. (p + 1) - 1 = p
  OBVIOUS
<1>3. ASSUME NEW ends \in Ends(doc, kinds), AllClose(doc, kinds, ends),
             Innermost(doc, kinds, ends, st, p)
      PROVE  Completes(doc, less, st2, p + 1)
  <2> DEFINE ends2 == [k \in 1..m |-> ends[k]]
  <2>1. ends[d] = p
    BY <1>3, EndsHere
  <2>2. \A k \in 1..m : k \in 1..d
    BY <1>1
  <2>3. ends2 \in Ends(doc, less) /\ \A k \in 1..m : ends[k] = ends2[k]
    BY <1>1, <2>2 DEF Ends
  <2> HIDE DEF ends2
  <2>4. AllClose(doc, less, ends2) /\ Continues(doc, less, ends2, m, p)
    <3>1. AllClose(doc, kinds, ends) <=>
            /\ AllClose(doc, less, ends2)
            /\ doc[ends[m + 1]] = Closer(kinds[m + 1])
            /\ Continues(doc, less, ends2, m, ends[m + 1])
      BY <1>1, <2>3, OneMoreCloses, SMTT(40), ZenonT(40)
    <3> QED
      BY <1>1, <1>3, <2>1, <3>1
  <2>5. Innermost(doc, less, ends2, st2, p + 1)
    BY <1>1, <1>2, <2>4, AfterValueLeft
  <2> QED
    BY <2>3, <2>4, <2>5 DEF Completes
<1>4. ASSUME NEW ends2 \in Ends(doc, less), AllClose(doc, less, ends2),
             Innermost(doc, less, ends2, st2, p + 1)
      PROVE  Completes(doc, kinds, st, p)
  <2> DEFINE ends == [k \in 1..d |-> IF k = d THEN p ELSE ends2[k]]
  <2>1. d \in 1..d /\ \A k \in 1..d : k # d => k \in 1..m
    BY <1>1
  <2>2. \A k \in 1..m : k \in 1..d /\ k # d /\ ends2[k] \in 1..n
    BY <1>1 DEF Ends
  <2>3. ends \in Ends(doc, kinds) /\ ends[d] = p /\ \A k \in 1..m : ends[k] = ends2[k]
    BY <2>1, <2>2 DEF Ends
  <2> HIDE DEF ends
  <2>4. Continues(doc, less, ends2, m, p)
    BY <1>1, <1>2, <1>4, AfterValueLeft
  <2>5. AllClose(doc, kinds, ends)
    BY <1>1, <1>4, <2>3, <2>4, OneMoreCloses
  <2>6. Innermost(doc, kinds, ends, st, p)
    BY <2>3, EndsHere
  <2> QED
    BY <2>3, <2>5, <2>6 DEF Completes
<1> QED
  BY <1>3, <1>4 DEF Completes, less

-----------------------------------------------------------------------------
(* What may come next, and the document that ends as soon as it can *)

\* The state machine's state agrees with the kinds of the open containers.
Agrees(kinds, st) ==
  /\ st \in ArrayStates => kinds # <<>> /\ kinds[Len(kinds)] = "array"
  /\ st \in ObjectStates => kinds # <<>> /\ kinds[Len(kinds)] = "object"
  /\ st = "End" => kinds = <<>>

\* A list begins with what begins a value, or with a key.
LEMMA BeginsElements ==
  ASSUME NEW doc, Len(doc) \in Nat, NEW i \in 1..(Len(doc) + 2), NEW j \in 0..Len(doc),
         Derives(doc, "elements", i, j)
  PROVE  i <= j /\ doc[i] \in {"{", "["} \cup Strings \cup Scalars
<1>1. PICK v \in i..j : Derives(doc, "value", i, v)
  BY ElementsDerived
<1>2. v \in 0..Len(doc) /\ i <= j
  OBVIOUS
<1> QED
  BY <1>1, <1>2, BeginsValue

\* In a state where a value is due, or another element or member, or an end, one comes.
LEMMA NextExpected ==
  ASSUME NEW doc, Len(doc) \in Nat, NEW kinds \in Seq(Containers), NEW st \in States,
         Agrees(kinds, st), NEW p \in 1..(Len(doc) + 1), Completes(doc, kinds, st, p)
  PROVE  IF st = "End" THEN p = Len(doc) + 1
         ELSE p \in 1..Len(doc) /\ doc[p] \in Expected(st)
<1> DEFINE d == Len(kinds)
           n == Len(doc)
<1>1. PICK ends \in Ends(doc, kinds) :
        AllClose(doc, kinds, ends) /\ Innermost(doc, kinds, ends, st, p)
  BY DEF Completes
<1> DEFINE e == ends[d]
<1>0. p \in 1..(n + 2)
  OBVIOUS
<1>2. kinds # <<>> =>
        /\ e \in 1..n /\ e - 1 \in 0..n /\ doc[e] = Closer(kinds[d])
        /\ \A j : Continues(doc, kinds, ends, d, j) <=> Rest(doc, ListOf(kinds[d]), j, e - 1)
  BY <1>1, InnermostEnd
<1>3. {"{", "["} \cup Strings \cup Scalars \cup {"]"} \subseteq Token
  BY DEF Token, Punctuation
<1>4. \A j \in 0..n : p <= j => p \in 1..n
  <2> TAKE j \in 0..n
  <2> QED
    BY ONLY p \in 1..(n + 1), n \in Nat, j \in 0..n
<1> HIDE DEF e
<1>5. CASE st = "Value"
  <2>1. PICK v \in p..n : Derives(doc, "value", p, v)
    BY <1>1, <1>5 DEF Innermost
  <2>2. v \in 0..n /\ p <= v
    OBVIOUS
  <2>3. doc[p] \in {"{", "["} \cup Strings \cup Scalars
    BY <1>0, <2>1, <2>2, BeginsValue
  <2> QED
    BY <1>4, <1>5, <2>2, <2>3 DEF Expected
<1>6. CASE st = "ArrayFirst"
  <2>1. kinds # <<>> /\ kinds[d] = "array"
    BY <1>6 DEF Agrees, ArrayStates
  <2>2. p = e \/ Derives(doc, "elements", p, e - 1)
    BY <1>1, <1>6 DEF Innermost, e
  <2>3. CASE p = e
    BY <1>2, <1>3, <1>6, <2>1, <2>3 DEF Expected, Closer
  <2>4. CASE Derives(doc, "elements", p, e - 1)
    <3>1. p <= e - 1 /\ doc[p] \in {"{", "["} \cup Strings \cup Scalars /\ e - 1 \in 0..n
      BY <1>0, <1>2, <2>1, <2>4, BeginsElements
    <3>2. p \in 1..n
      BY <1>4, <3>1
    <3> QED
      BY <1>3, <1>6, <3>1, <3>2 DEF Expected
  <2> QED
    BY <2>2, <2>3, <2>4
<1>7. CASE st \in {"ObjectFirst", "ObjectKey"}
  <2>1. kinds # <<>> /\ kinds[d] = "object"
    BY <1>7 DEF Agrees, ObjectStates
  <2>2. (st = "ObjectFirst" /\ p = e) \/ Derives(doc, "members", p, e - 1)
    BY <1>1, <1>7 DEF Innermost, e
  <2>3. CASE st = "ObjectFirst" /\ p = e
    BY <1>2, <2>1, <2>3 DEF Expected, Closer
  <2>4. CASE Derives(doc, "members", p, e - 1)
    <3>1. p + 2 <= e - 1 /\ doc[p] \in Strings /\ e - 1 \in 0..n
      BY <1>0, <1>2, <2>1, <2>4, MembersDerived
    <3>2. p <= e - 1
      BY ONLY <3>1, p \in 1..(n + 1), n \in Nat
    <3>3. p \in 1..n
      BY <1>4, <3>1, <3>2
    <3> QED
      BY <1>7, <3>1, <3>3 DEF Expected
  <2> QED
    BY <2>2, <2>3, <2>4
<1>8. CASE st \in {"ArrayNext", "ObjectNext"}
  <2>1. kinds # <<>> /\ kinds[d] = (IF st = "ArrayNext" THEN "array" ELSE "object")
    BY <1>8 DEF Agrees, ArrayStates, ObjectStates
  <2>2. Rest(doc, ListOf(kinds[d]), p - 1, e - 1)
    BY <1>1, <1>2, <1>8, <2>1, AfterValueLeft DEF AfterStates
  <2>3. (p - 1) + 1 = p /\ (p - 1) + 2 = p + 1
    OBVIOUS
  <2>4. CASE p - 1 = e - 1
    <3>1. e \in 1..n
      BY <1>2, <2>1
    <3>2. p = e
      BY ONLY <2>4, <3>1, p \in 1..(n + 1), n \in Nat
    <3>3. doc[p] = IF st = "ArrayNext" THEN "]" ELSE "}"
      BY <1>2, <1>8, <2>1, <3>2 DEF Closer
    <3> QED
      BY <1>8, <3>1, <3>2, <3>3, Zenon DEF Expected
  <2>5. CASE p - 1 # e - 1
    <3>1. p + 1 <= e - 1 /\ doc[p] = ","
      BY <2>2, <2>3, <2>5, Zenon DEF Rest
    <3>2. e - 1 \in 0..n
      BY <1>2, <2>1
    <3>3. p \in 1..n
      <4>1. p + 1 <= e - 1
        BY <3>1
      <4>2. p <= e - 1
        BY ONLY <4>1, <3>2, p \in 1..(n + 1), n \in Nat
      <4> QED
        BY <1>4, <3>2, <4>2
    <3> QED
      BY <1>8, <3>1, <3>3, Zenon DEF Expected
  <2> QED
    BY <2>4, <2>5
<1>9. CASE st = "End"
  <2>1. d = 0
    BY <1>9, EmptySeq DEF Agrees
  <2>2. p - 1 = n
    BY <1>1, <1>9, <2>1, AfterValueLeft DEF AfterStates, Continues
  <2> QED
    BY <1>9, <2>2
<1> QED
  BY <1>5, <1>6, <1>7, <1>8, <1>9 DEF States, ArrayStates, ObjectStates

\* Behind a key come its colon and more.
LEMMA ColonExpected ==
  ASSUME NEW doc, Len(doc) \in Nat, NEW kinds \in Seq(Containers),
         NEW st \in {"ObjectFirst", "ObjectKey"},
         Agrees(kinds, st), NEW p \in 1..Len(doc), Completes(doc, kinds, st, p),
         doc[p] \in Strings
  PROVE  p + 2 <= Len(doc) /\ doc[p + 1] = ":"
<1> DEFINE d == Len(kinds)
           n == Len(doc)
<1>1. PICK ends \in Ends(doc, kinds) :
        AllClose(doc, kinds, ends) /\ Innermost(doc, kinds, ends, st, p)
  BY DEF Completes
<1> DEFINE e == ends[d]
<1>2. kinds # <<>> /\ p \in 1..(n + 2)
  BY DEF Agrees, ObjectStates
<1>3. e \in 1..n /\ e - 1 \in 0..n /\ doc[e] = Closer(kinds[d])
  BY <1>1, <1>2, InnermostEnd
<1> HIDE DEF e
<1>4. p # e
  <2>1. doc[p] \notin {"]", "}"}
    BY BracketsApart DEF Punctuation
  <2> QED
    BY <1>3, <2>1, BracketsApart
<1>5. Derives(doc, "members", p, e - 1)
  BY <1>1, <1>4 DEF Innermost, e
<1>6. p + 2 <= e - 1 /\ doc[p + 1] = ":"
  BY <1>2, <1>3, <1>5, MembersDerived
<1>7. p + 2 <= n
  BY ONLY <1>3, <1>6, p \in 1..n, n \in Nat
<1> QED
  BY <1>6, <1>7

\* Behind q, the document closes what is open, and ends.
ClosesFrom(doc, kinds, q) ==
  /\ Len(doc) = q + Len(kinds)
  /\ \A k \in 1..Len(kinds) : doc[q + ((Len(kinds) + 1) - k)] = Closer(kinds[k])

\* Then every container has its end.
LEMMA EndsFrom ==
  ASSUME NEW doc, Len(doc) \in Nat, NEW kinds \in Seq(Containers), NEW q \in Nat,
         ClosesFrom(doc, kinds, q)
  PROVE  \E ends \in Ends(doc, kinds) :
           /\ AllClose(doc, kinds, ends)
           /\ Continues(doc, kinds, ends, Len(kinds), q)
           /\ kinds # <<>> => ends[Len(kinds)] = q + 1
<1> DEFINE d == Len(kinds)
           ends == [k \in 1..d |-> q + ((d + 1) - k)]
<1>1. d \in Nat /\ Len(doc) = q + d
  BY LenProperties DEF ClosesFrom
<1>2. \A k \in 1..d : q + ((d + 1) - k) \in 1..Len(doc)
  BY <1>1
<1>3. ends \in Ends(doc, kinds) /\ \A k \in 1..d : ends[k] = q + ((d + 1) - k)
  BY <1>2 DEF Ends
<1> HIDE DEF ends
<1>4. ASSUME NEW k \in 0..d PROVE Continues(doc, kinds, ends, k, q + (d - k))
  <2>1. CASE k = 0
    BY <1>1, <2>1 DEF Continues
  <2>2. CASE k # 0
    <3>1. k \in 1..d
      BY <1>1, <2>2
    <3>2. ends[k] - 1 = q + (d - k)
      <4>1. ends[k] = q + ((d + 1) - k)
        BY <1>3, <3>1
      <4> QED
        BY <1>1, <3>1, <4>1
    <3> QED
      BY <2>2, <3>2 DEF Continues, Rest
  <2> QED
    BY <2>1, <2>2
<1>5. AllClose(doc, kinds, ends)
  <2> SUFFICES ASSUME NEW k \in 1..d
               PROVE  /\ doc[ends[k]] = Closer(kinds[k])
                      /\ Continues(doc, kinds, ends, k - 1, ends[k])
    BY DEF AllClose
  <2>1. k - 1 \in 0..d /\ q + (d - (k - 1)) = q + ((d + 1) - k)
    BY <1>1
  <2> QED
    BY <1>3, <1>4, <2>1 DEF ClosesFrom
<1>6. Continues(doc, kinds, ends, d, q)
  <2>1. d \in 0..d /\ q + (d - d) = q
    BY <1>1
  <2> QED
    BY <1>4, <2>1
<1>7. kinds # <<>> => ends[d] = q + 1
  <2> SUFFICES ASSUME kinds # <<>> PROVE ends[d] = q + 1
    OBVIOUS
  <2>1. d # 0
    BY EmptySeq
  <2>2. d \in 1..d /\ q + ((d + 1) - d) = q + 1
    BY <1>1, <2>1
  <2> QED
    BY <1>3, <2>2
<1> QED
  BY <1>3, <1>5, <1>6, <1>7

\* What is written before the ends: nothing, a value, a key with a value.
LEMMA SoonComplete ==
  ASSUME NEW doc, Len(doc) \in Nat, NEW kinds \in Seq(Containers), NEW st \in States,
         Agrees(kinds, st), NEW p \in Nat \ {0}, NEW q \in Nat, ClosesFrom(doc, kinds, q),
         \/ st \in AfterStates \cup {"ArrayFirst", "ObjectFirst"} /\ q = p - 1
         \/ st = "Value" /\ q = p /\ doc[p] \in Strings
         \/ /\ st \in {"ObjectFirst", "ObjectKey"} /\ q = p + 2
            /\ doc[p] \in Strings /\ doc[p + 1] = ":" /\ doc[p + 2] \in Strings
  PROVE  Completes(doc, kinds, st, p)
<1> DEFINE d == Len(kinds)
           n == Len(doc)
<1>1. PICK ends \in Ends(doc, kinds) :
        /\ AllClose(doc, kinds, ends)
        /\ Continues(doc, kinds, ends, d, q)
        /\ kinds # <<>> => ends[d] = q + 1
  BY EndsFrom
<1>2. d \in Nat /\ n = q + d /\ q <= n
  BY LenProperties DEF ClosesFrom
<1>3. \A v \in 1..n : doc[v] \in Strings => Derives(doc, "value", v, v)
  <2> TAKE v \in 1..n
  <2>1. v \in 1..(n + 2) /\ v \in 0..n
    BY <1>2
  <2> QED
    BY <2>1, ValueDerived
<1>4. st \in {"ArrayFirst", "ObjectFirst"} \cup {"ObjectKey"} => kinds # <<>>
  BY DEF Agrees, ArrayStates, ObjectStates
<1>5. Innermost(doc, kinds, ends, st, p)
  <2>1. CASE st \in AfterStates /\ q = p - 1
    BY <1>1, <2>1, AfterValueLeft
  <2>2. CASE st \in {"ArrayFirst", "ObjectFirst"} /\ q = p - 1
    <3>1. p = ends[d]
      BY <1>1, <1>4, <2>2
    <3> QED
      BY <2>2, <3>1 DEF Innermost
  <2>3. CASE st = "Value" /\ q = p /\ doc[p] \in Strings
    <3>1. p \in p..n /\ p \in 1..n
      BY <1>2, <2>3
    <3> QED
      BY <1>1, <1>3, <2>3, <3>1 DEF Innermost
  <2>4. CASE /\ st \in {"ObjectFirst", "ObjectKey"} /\ q = p + 2
             /\ doc[p] \in Strings /\ doc[p + 1] = ":" /\ doc[p + 2] \in Strings
    <3>1. p + 2 \in (p + 2)..n /\ p + 2 \in 1..n /\ p \in 1..(n + 2) /\ q = p + 2
      BY <1>2, <2>4
    <3>2. Innermost(doc, kinds, ends, "Value", p + 2)
      BY <1>1, <1>3, <2>4, <3>1 DEF Innermost
    <3>3. kinds # <<>> /\ kinds[d] = "object" /\ ends[d] = q + 1
      BY <1>1, <2>4 DEF Agrees, ObjectStates
    <3>4. p + 2 <= ends[d] - 1
      BY <3>1, <3>3
    <3>5. Derives(doc, "members", p, ends[d] - 1)
      BY <1>1, <2>4, <3>1, <3>2, <3>3, <3>4, MembersLeft
    <3> QED
      BY <2>4, <3>5 DEF Innermost
  <2> QED
    BY <2>1, <2>2, <2>3, <2>4
<1> QED
  BY <1>1, <1>5 DEF Completes

-----------------------------------------------------------------------------
(* What the tokens leave open, one token after the other *)

Closings == {"}", "]"}

\* The brackets still due after a token are closing brackets.
LEMMA UnclosedAfterTyped ==
  ASSUME NEW open \in Seq(Closings), NEW t
  PROVE  UnclosedAfter(open, t) \in Seq(Closings)
<1>1. \A c \in Closings : <<c>> \in Seq(Closings)
  BY EmptySeq, AppendProperties, ShortSequences
<1>2. <<"}">> \o open \in Seq(Closings) /\ <<"]">> \o open \in Seq(Closings)
  BY <1>1, ConcatProperties DEF Closings
<1>3. open # <<>> => Tail(open) \in Seq(Closings)
  BY HeadTailProperties
<1> QED
  BY <1>2, <1>3, Zenon DEF UnclosedAfter

\* One after the other, from nothing.
StepByStep(f, n, tokens) ==
  /\ f[0] = <<>>
  /\ \A k \in 1..n : f[k] = UnclosedAfter(f[k - 1], tokens[k])

\* What is left open is found one token after the other.
LEMMA UnclosedUnrolls ==
  ASSUME NEW tokens, Len(tokens) \in Nat
  PROVE  \E f \in [0..Len(tokens) -> Seq(Closings)] :
           StepByStep(f, Len(tokens), tokens) /\ Unclosed(tokens) = f[Len(tokens)]
<1> DEFINE n == Len(tokens)
           A == Seq(Closings)
           next == [k \in Nat |-> [x \in A |-> UnclosedAfter(x, tokens[k])]]
           Def(g) == g = [k \in 0..n |->
                       IF k = 0 THEN <<>> ELSE UnclosedAfter(g[k - 1], tokens[k])]
<1>1. <<>> \in A /\ next \in [Nat -> [A -> A]]
  BY EmptySeq, UnclosedAfterTyped
<1>2. \A k \in Nat, x \in A : next[k][x] = UnclosedAfter(x, tokens[k])
  OBVIOUS
<1> HIDE DEF next, A
<1>3. PICK f \in [0..n -> A] : Unrolls(f, n, <<>>, next)
  BY <1>1, ByRecursion, Zenon
<1>4. ASSUME NEW k \in 0..n
      PROVE  f[k] = IF k = 0 THEN <<>> ELSE UnclosedAfter(f[k - 1], tokens[k])
  <2>1. CASE k = 0
    BY <1>3, <2>1 DEF Unrolls
  <2>2. CASE k # 0
    <3>1. k \in Nat /\ k - 1 \in 0..n
      BY <2>2
    <3>2. f[k] = next[k][f[k - 1]] /\ f[k - 1] \in A
      BY <1>3, <2>2, <3>1 DEF Unrolls
    <3> QED
      BY <1>2, <2>2, <3>1, <3>2
  <2> QED
    BY <2>1, <2>2
<1>5. Def(f)
  BY <1>4
<1> DEFINE w == CHOOSE g : Def(g)
<1>6. Def(w)
  BY <1>5, Zenon
<1>7. Unclosed(tokens) = w[n]
  BY Zenon DEF Unclosed
<1> HIDE DEF w
<1>8. \A k \in 0..n : w[k] = IF k = 0 THEN <<>> ELSE UnclosedAfter(w[k - 1], tokens[k])
  BY <1>6, Zenon
<1> DEFINE S == {k \in Nat : k <= n => w[k] = f[k]}
<1>9. 0 \in S
  <2>1. 0 \in 0..n
    OBVIOUS
  <2> QED
    BY <1>4, <1>8, <2>1
<1>10. ASSUME NEW k \in Nat, k \in S PROVE k + 1 \in S
  <2> SUFFICES ASSUME k + 1 <= n PROVE w[k + 1] = f[k + 1]
    OBVIOUS
  <2>1. k + 1 \in 0..n /\ k + 1 # 0 /\ (k + 1) - 1 = k /\ k <= n
    OBVIOUS
  <2>2. w[k + 1] = UnclosedAfter(w[k], tokens[k + 1])
    BY <1>8, <2>1
  <2>3. f[k + 1] = UnclosedAfter(f[k], tokens[k + 1])
    BY <1>4, <2>1
  <2> QED
    BY <1>10, <2>1, <2>2, <2>3
<1>11. w[n] = f[n]
  <2>1. Nat \subseteq S
    <3> HIDE DEF S
    <3> QED
      BY <1>9, <1>10, EveryNumber
  <2>2. n \in S
    BY <2>1
  <2>3. n <= n
    OBVIOUS
  <2> QED
    BY <2>2, <2>3
<1>12. StepByStep(f, n, tokens)
  <2>1. 0 \in 0..n /\ \A k \in 1..n : k \in 0..n /\ k # 0
    OBVIOUS
  <2> QED
    BY <1>4, <2>1 DEF StepByStep
<1> QED
  BY <1>7, <1>11, <1>12 DEF A

\* Two that read the same go the same way.
LEMMA StepsAlike ==
  ASSUME NEW n \in Nat, NEW f, NEW g, NEW tokens, NEW more,
         StepByStep(f, n, tokens), StepByStep(g, n, more),
         \A k \in 1..n : more[k] = tokens[k]
  PROVE  f[n] = g[n]
<1> DEFINE S == {k \in Nat : k <= n => f[k] = g[k]}
<1>1. 0 \in S
  BY DEF StepByStep
<1>2. ASSUME NEW k \in Nat, k \in S PROVE k + 1 \in S
  <2> SUFFICES ASSUME k + 1 <= n PROVE f[k + 1] = g[k + 1]
    OBVIOUS
  <2>1. k + 1 \in 1..n /\ (k + 1) - 1 = k /\ k <= n
    OBVIOUS
  <2> QED
    BY <1>2, <2>1 DEF StepByStep
<1>3. Nat \subseteq S
  <2> HIDE DEF S
  <2> QED
    BY <1>1, <1>2, EveryNumber
<1>4. n \in S /\ n <= n
  BY <1>3
<1> QED
  BY <1>4

\* One token more.
LEMMA UnclosedOneMore ==
  ASSUME NEW tokens, NEW more, Len(tokens) \in Nat, Len(more) = Len(tokens) + 1,
         \A k \in 1..Len(tokens) : more[k] = tokens[k]
  PROVE  /\ Unclosed(tokens) \in Seq(Closings) /\ Unclosed(more) \in Seq(Closings)
         /\ Unclosed(more) = UnclosedAfter(Unclosed(tokens), more[Len(more)])
<1> DEFINE n == Len(tokens)
<1>1. PICK f \in [0..n -> Seq(Closings)] : StepByStep(f, n, tokens) /\ Unclosed(tokens) = f[n]
  BY UnclosedUnrolls
<1>2. PICK g \in [0..(n + 1) -> Seq(Closings)] :
        StepByStep(g, n + 1, more) /\ Unclosed(more) = g[n + 1]
  <2>1. n + 1 \in Nat
    OBVIOUS
  <2> QED
    BY <2>1, UnclosedUnrolls
<1>3. /\ n \in 0..n /\ n + 1 \in 0..(n + 1) /\ n + 1 \in 1..(n + 1) /\ (n + 1) - 1 = n
      /\ \A k \in 1..n : k \in 1..(n + 1)
  OBVIOUS
<1>4. StepByStep(g, n, more)
  BY <1>2, <1>3 DEF StepByStep
<1>5. f[n] = g[n]
  BY <1>1, <1>4, StepsAlike
<1>6. g[n + 1] = UnclosedAfter(g[n], more[n + 1])
  BY <1>2, <1>3 DEF StepByStep
<1> QED
  BY <1>1, <1>2, <1>3, <1>5, <1>6

\* Nothing leaves nothing open.
LEMMA UnclosedNothing ==
  ASSUME NEW tokens, Len(tokens) = 0
  PROVE  Unclosed(tokens) = <<>>
<1>1. PICK f \in [0..Len(tokens) -> Seq(Closings)] :
        StepByStep(f, Len(tokens), tokens) /\ Unclosed(tokens) = f[Len(tokens)]
  BY UnclosedUnrolls
<1> QED
  BY <1>1 DEF StepByStep

\* The closing brackets of the open containers, innermost first.
ClosersOf(kinds) == [k \in 1..Len(kinds) |-> Closer(kinds[(Len(kinds) + 1) - k])]

\* The closing brackets of the open containers, innermost first.
LEMMA ClosersTyped ==
  ASSUME NEW kinds \in Seq(Containers)
  PROVE  /\ ClosersOf(kinds) \in Seq(Closings) /\ Len(ClosersOf(kinds)) = Len(kinds)
         /\ \A k \in 1..Len(kinds) : ClosersOf(kinds)[k] = Closer(kinds[(Len(kinds) + 1) - k])
<1> DEFINE d == Len(kinds)
           s == ClosersOf(kinds)
<1>1. d \in Nat
  BY LenProperties
<1>2. \A k \in 1..d : Closer(kinds[(d + 1) - k]) \in Closings
  BY BracketsApart DEF Closings
<1>3. s \in [1..d -> Closings]
  BY <1>2 DEF ClosersOf
<1>4. s \in Seq(Closings) /\ Len(s) = d
  BY <1>1, <1>3, SeqDef
<1> QED
  BY <1>4 DEF ClosersOf

\* One more container open.
LEMMA ClosersOpened ==
  ASSUME NEW kinds \in Seq(Containers), NEW kind \in Containers
  PROVE  ClosersOf(Append(kinds, kind)) = <<Closer(kind)>> \o ClosersOf(kinds)
<1> DEFINE d == Len(kinds)
           more == Append(kinds, kind)
           c == <<Closer(kind)>>
<1>1. /\ d \in Nat /\ more \in Seq(Containers) /\ Len(more) = d + 1 /\ more[d + 1] = kind
      /\ \A k \in 1..d : more[k] = kinds[k]
  BY LenProperties, AppendProperties
<1> HIDE DEF more
<1>2. c \in Seq(Closings) /\ Len(c) = 1 /\ c[1] = Closer(kind)
  <2>1. Closer(kind) \in Closings
    BY BracketsApart DEF Closings
  <2> QED
    BY <2>1, EmptySeq, AppendProperties, ShortSequences
<1> HIDE DEF c
<1>3. /\ ClosersOf(kinds) \in Seq(Closings) /\ Len(ClosersOf(kinds)) = d
      /\ \A k \in 1..d : ClosersOf(kinds)[k] = Closer(kinds[(d + 1) - k])
  BY ClosersTyped
<1>4. /\ ClosersOf(more) \in Seq(Closings) /\ Len(ClosersOf(more)) = d + 1
      /\ \A k \in 1..(d + 1) : ClosersOf(more)[k] = Closer(more[((d + 1) + 1) - k])
  BY <1>1, ClosersTyped
<1> DEFINE s == c \o ClosersOf(kinds)
<1>5. /\ s \in Seq(Closings) /\ Len(s) = 1 + d
      /\ \A k \in 1..(1 + d) : s[k] = IF k <= 1 THEN c[k] ELSE ClosersOf(kinds)[k - 1]
  <2> DEFINE t == ClosersOf(kinds)
  <2>1. c \in Seq(Closings) /\ t \in Seq(Closings) /\ Len(c) = 1 /\ Len(t) = d
    BY <1>2, <1>3
  <2> HIDE DEF t
  <2>2. /\ c \o t \in Seq(Closings) /\ Len(c \o t) = Len(c) + Len(t)
        /\ \A i \in 1..Len(c) + Len(t) :
             (c \o t)[i] = IF i <= Len(c) THEN c[i] ELSE t[i - Len(c)]
    <3>1. c \in Seq(Closings) /\ t \in Seq(Closings)
      BY <2>1
    <3> QED
      BY ONLY <3>1, ConcatProperties, ZenonT(60)
  <2> QED
    BY <2>1, <2>2 DEF t
<1> HIDE DEF s
<1>6. ASSUME NEW k \in 1..(d + 1) PROVE ClosersOf(more)[k] = s[k]
  <2>0. k \in 1..(1 + d)
    BY <1>1
  <2>1. CASE k = 1
    <3>1. ((d + 1) + 1) - k = d + 1 /\ k <= 1
      BY <1>1, <2>1
    <3>2. ClosersOf(more)[k] = Closer(more[d + 1])
      BY <1>4, <3>1
    <3>3. s[k] = c[k]
      BY <1>5, <2>0, <3>1
    <3> QED
      BY <1>1, <1>2, <2>1, <3>2, <3>3
  <2>2. CASE k # 1
    <3>1. /\ k - 1 \in 1..d /\ (d + 1) - (k - 1) = ((d + 1) + 1) - k
          /\ ((d + 1) + 1) - k \in 1..d /\ ~(k <= 1)
      BY <1>1, <2>2
    <3>2. ClosersOf(more)[k] = Closer(kinds[((d + 1) + 1) - k])
      BY <1>1, <1>4, <3>1
    <3>3. s[k] = ClosersOf(kinds)[k - 1]
      BY <1>5, <2>0, <3>1
    <3> QED
      BY <1>3, <3>1, <3>2, <3>3
  <2> QED
    BY <2>1, <2>2
<1>7. Len(s) = d + 1
  BY <1>1, <1>5
<1> QED
  BY <1>4, <1>5, <1>6, <1>7, SeqEqual DEF more, s, c

\* One less.
LEMMA ClosersClosed ==
  ASSUME NEW kinds \in Seq(Containers), kinds # <<>>
  PROVE  ClosersOf(kinds) # <<>> /\ Tail(ClosersOf(kinds)) = ClosersOf(Outer(kinds))
<1> DEFINE d == Len(kinds)
           m == d - 1
           less == Outer(kinds)
           s == ClosersOf(kinds)
<1>1. /\ d \in Nat /\ m \in Nat /\ m + 1 = d /\ less \in Seq(Containers) /\ Len(less) = m
      /\ \A k \in 1..m : kinds[k] = less[k]
  BY OuterKinds
<1> HIDE DEF less, m
<1>2. /\ s \in Seq(Closings) /\ Len(s) = d
      /\ \A k \in 1..d : s[k] = Closer(kinds[(d + 1) - k])
  BY ClosersTyped
<1>3. /\ ClosersOf(less) \in Seq(Closings) /\ Len(ClosersOf(less)) = m
      /\ \A k \in 1..m : ClosersOf(less)[k] = Closer(less[(m + 1) - k])
  BY <1>1, ClosersTyped
<1> HIDE DEF s
<1>4. s # <<>>
  <2>1. d # 0
    BY <1>1
  <2> QED
    BY <1>2, <2>1, EmptySeq
<1>5. /\ Tail(s) \in Seq(Closings) /\ Len(Tail(s)) = d - 1
      /\ \A k \in 1..Len(Tail(s)) : Tail(s)[k] = s[k + 1]
  BY <1>2, <1>4, HeadTailProperties
<1>6. Len(Tail(s)) = m
  BY <1>1, <1>5
<1>7. ASSUME NEW k \in 1..m PROVE Tail(s)[k] = ClosersOf(less)[k]
  <2>1. k + 1 \in 1..d /\ (d + 1) - (k + 1) = (m + 1) - k /\ (m + 1) - k \in 1..m
    BY <1>1
  <2> QED
    BY <1>1, <1>2, <1>3, <1>5, <1>6, <2>1
<1>8. Tail(s) = ClosersOf(less)
  BY <1>3, <1>5, <1>6, <1>7, SeqEqual
<1> QED
  BY <1>4, <1>8 DEF less, s

\* What each sort of token leaves open.
LEMMA UnclosedFollows ==
  ASSUME NEW kinds \in Seq(Containers)
  PROVE  /\ \A kind \in Containers :
              UnclosedAfter(ClosersOf(kinds), Opener(kind)) = ClosersOf(Append(kinds, kind))
         /\ kinds # <<>> =>
              \A kind : UnclosedAfter(ClosersOf(kinds), Closer(kind)) = ClosersOf(Outer(kinds))
         /\ \A t \in Strings \cup Scalars \cup {",", ":"} :
              UnclosedAfter(ClosersOf(kinds), t) = ClosersOf(kinds)
<1> DEFINE s == ClosersOf(kinds)
<1>1. ASSUME NEW kind \in Containers
      PROVE  UnclosedAfter(s, Opener(kind)) = ClosersOf(Append(kinds, kind))
  <2>1. ClosersOf(Append(kinds, kind)) = <<Closer(kind)>> \o s
    BY ClosersOpened
  <2>2. CASE kind = "array"
    <3>1. Opener(kind) = "[" /\ Closer(kind) = "]" /\ "[" # "{"
      BY <2>2 DEF Opener, Closer
    <3> HIDE DEF s
    <3> QED
      BY <2>1, <3>1, Zenon DEF UnclosedAfter
  <2>3. CASE kind = "object"
    <3>1. Opener(kind) = "{" /\ Closer(kind) = "}"
      BY <2>3 DEF Opener, Closer
    <3> HIDE DEF s
    <3> QED
      BY <2>1, <3>1, Zenon DEF UnclosedAfter
  <2> QED
    BY <2>2, <2>3 DEF Containers
<1>2. ASSUME kinds # <<>>, NEW kind
      PROVE  UnclosedAfter(s, Closer(kind)) = ClosersOf(Outer(kinds))
  <2>1. s # <<>> /\ Tail(s) = ClosersOf(Outer(kinds))
    BY <1>2, ClosersClosed
  <2>2. Closer(kind) \in {"}", "]"} /\ Closer(kind) # "{" /\ Closer(kind) # "["
    BY DEF Closer
  <2> HIDE DEF s
  <2> QED
    BY <2>1, <2>2, Zenon DEF UnclosedAfter
<1>3. ASSUME NEW t \in Strings \cup Scalars \cup {",", ":"}
      PROVE  UnclosedAfter(s, t) = s
  <2>1. t # "{" /\ t # "[" /\ t \notin {"}", "]"}
    BY BracketsApart DEF Punctuation
  <2> HIDE DEF s
  <2> QED
    BY <2>1, Zenon DEF UnclosedAfter
<1> QED
  BY <1>1, <1>2, <1>3

-----------------------------------------------------------------------------
(* The parser reads what the grammar leaves it to read *)

KindsOf(frames) == [k \in 1..Len(frames) |-> frames[k].kind]

\* The documents that begin with what was read before p.
BeginsAsRead(doc, p) == p - 1 <= Len(doc) /\ \A k \in 1..(p - 1) : doc[k] = input[k]

\* Before its first element an array was seen not to end: no document that ends it there
\* is one the parser may have in front of it.
InView(doc) ==
  state = "Value" /\ pos <= Len(doc) /\ pos <= Len(input) /\ doc[pos] = "]" => input[pos] = "]"

\* A document that begins with what was read is JSON when the rest of it is what the parser,
\* in its state and with its open containers, can read to an end.
LeftToRead ==
  \A doc \in Seq(Words) :
    BeginsAsRead(doc, pos) /\ InView(doc) =>
      (IsJson(doc) <=> Completes(doc, KindsOf(stack), state, pos))

\* What was read leaves open the containers on the stack, and never left open more than
\* the limit.
OpenSoFar ==
  /\ Unclosed(Prefix(pos - 1)) = ClosersOf(KindsOf(stack))
  /\ \A k \in 1..(pos - 1) : Len(Unclosed(Prefix(k))) <= MaxDepth

GrammarTells == outcome = "parsing" => LeftToRead /\ OpenSoFar

\* The kinds of the frames, one each.
LEMMA KindsTyped ==
  ASSUME NEW frames \in Seq(Frame)
  PROVE  /\ KindsOf(frames) \in Seq(Containers) /\ Len(KindsOf(frames)) = Len(frames)
         /\ Len(frames) \in Nat
         /\ \A k \in 1..Len(frames) : KindsOf(frames)[k] = frames[k].kind
         /\ (KindsOf(frames) = <<>>) = (frames = <<>>)
<1> DEFINE d == Len(frames)
           s == KindsOf(frames)
<1>1. d \in Nat /\ \A k \in 1..d : frames[k] \in Frame
  BY LenProperties, ElementOfSeq
<1>2. \A k \in 1..d : frames[k].kind \in Containers
  BY <1>1 DEF Frame
<1>3. s \in [1..d -> Containers]
  BY <1>2 DEF KindsOf
<1>4. s \in Seq(Containers) /\ Len(s) = d
  BY <1>1, <1>3, SeqDef
<1>5. (s = <<>>) = (frames = <<>>)
  <2>1. s = <<>> <=> d = 0
    BY <1>4, EmptySeq
  <2>2. frames = <<>> <=> d = 0
    BY EmptySeq
  <2> QED
    BY <2>1, <2>2
<1> QED
  BY <1>1, <1>4, <1>5 DEF KindsOf

\* Counting changes no kind.
LEMMA KindsCounted ==
  ASSUME stack \in Seq(Frame)
  PROVE  KindsOf(Counted) = KindsOf(stack)
<1>1. /\ Counted \in Seq(Frame) /\ Len(Counted) = Len(stack)
      /\ \A k \in 1..Len(stack) : Counted[k].kind = stack[k].kind
  BY CountedKeepsFrames
<1> QED
  BY <1>1 DEF KindsOf

\* A frame more is a kind more.
LEMMA KindsOpened ==
  ASSUME NEW frames \in Seq(Frame), NEW frame \in Frame
  PROVE  KindsOf(Append(frames, frame)) = Append(KindsOf(frames), frame.kind)
<1> DEFINE d == Len(frames)
           more == Append(frames, frame)
           s == KindsOf(frames)
           t == Append(s, frame.kind)
<1>1. /\ more \in Seq(Frame) /\ Len(more) = d + 1 /\ more[d + 1] = frame
      /\ \A k \in 1..d : more[k] = frames[k]
  BY AppendProperties
<1> HIDE DEF more
<1>2. /\ s \in Seq(Containers) /\ Len(s) = d /\ d \in Nat
      /\ \A k \in 1..d : s[k] = frames[k].kind
  BY KindsTyped
<1> HIDE DEF s
<1>3. frame.kind \in Containers
  BY DEF Frame
<1>4. /\ t \in Seq(Containers) /\ Len(t) = d + 1 /\ t[d + 1] = frame.kind
      /\ \A k \in 1..d : t[k] = s[k]
  BY <1>2, <1>3, AppendProperties
<1> HIDE DEF t
<1>5. /\ KindsOf(more) \in Seq(Containers) /\ Len(KindsOf(more)) = d + 1
      /\ \A k \in 1..(d + 1) : KindsOf(more)[k] = more[k].kind
  BY <1>1, KindsTyped
<1>6. ASSUME NEW k \in 1..(d + 1) PROVE KindsOf(more)[k] = t[k]
  <2>1. k = d + 1 \/ k \in 1..d
    BY <1>2
  <2> QED
    BY <1>1, <1>2, <1>4, <1>5, <2>1
<1> QED
  BY <1>4, <1>5, <1>6, SeqEqual DEF more, s, t

\* A frame less is a kind less, the innermost.
LEMMA KindsClosed ==
  ASSUME stack \in Seq(Frame), stack # <<>>
  PROVE  /\ KindsOf(Popped) = Outer(KindsOf(stack))
         /\ KindsOf(stack)[Len(KindsOf(stack))] = Top.kind
<1> DEFINE d == Len(stack)
           s == KindsOf(stack)
<1>1. /\ Popped \in Seq(Frame) /\ Len(Popped) = d - 1
      /\ \A k \in 1..(d - 1) : Popped[k] = stack[k]
      /\ d \in Nat \ {0}
  BY PoppedKeepsFrames
<1>2. /\ s \in Seq(Containers) /\ Len(s) = d /\ s # <<>>
      /\ \A k \in 1..d : s[k] = stack[k].kind
  BY KindsTyped
<1> HIDE DEF s
<1>3. /\ Outer(s) \in Seq(Containers) /\ Len(Outer(s)) = d - 1
      /\ \A k \in 1..(d - 1) : s[k] = Outer(s)[k]
  BY <1>2, OuterKinds
<1>4. /\ KindsOf(Popped) \in Seq(Containers) /\ Len(KindsOf(Popped)) = d - 1
      /\ \A k \in 1..(d - 1) : KindsOf(Popped)[k] = Popped[k].kind
  BY <1>1, KindsTyped
<1>5. \A k \in 1..(d - 1) : k \in 1..d
  BY <1>1
<1>6. \A k \in 1..(d - 1) : KindsOf(Popped)[k] = Outer(s)[k]
  BY <1>1, <1>2, <1>3, <1>4, <1>5
<1>7. KindsOf(Popped) = Outer(s)
  BY <1>3, <1>4, <1>6, SeqEqual
<1>8. s[Len(s)] = Top.kind
  <2>1. d \in 1..d
    BY <1>1
  <2> QED
    BY <1>2, <2>1 DEF Top
<1> QED
  BY <1>7, <1>8 DEF s

\* The state agrees with the kinds as it does with the frames.
LEMMA KindsAgree ==
  ASSUME ClosesWhatIsOpen
  PROVE  Agrees(KindsOf(stack), state)
<1>1. stack \in Seq(Frame)
  BY TypesHold
<1>2. (KindsOf(stack) = <<>>) = (stack = <<>>)
  BY <1>1, KindsTyped
<1>3. stack # <<>> => KindsOf(stack)[Len(KindsOf(stack))] = Top.kind
  BY <1>1, KindsClosed
<1> QED
  BY <1>2, <1>3 DEF ClosesWhatIsOpen, StateAgreesWithStack, Agrees

\* A prefix of what was read.
LEMMA PrefixRead ==
  ASSUME input \in Seq(Words), NEW m \in 0..Len(input)
  PROVE  Prefix(m) \in Seq(Words) /\ Len(Prefix(m)) = m
         /\ \A k \in 1..m : Prefix(m)[k] = input[k]
<1>1. m \in Int /\ 1 \in Int /\ m \in Nat /\ \A i \in 1..m : i \in 1..Len(input)
  BY LenProperties
<1>2. \A i \in 1..m : input[i] \in Words
  BY <1>1, ElementOfSeq
<1>3. /\ SubSeq(input, 1, m) \in Seq(Words)
      /\ Len(SubSeq(input, 1, m)) = IF 1 <= m THEN m - 1 + 1 ELSE 0
      /\ \A k \in 1..(m - 1 + 1) : SubSeq(input, 1, m)[k] = input[1 + k - 1]
  BY <1>1, <1>2, SubSeqProperties
<1>4. Len(SubSeq(input, 1, m)) = m
  BY <1>1, <1>3
<1>5. \A k \in 1..m : SubSeq(input, 1, m)[k] = input[k]
  <2> TAKE k \in 1..m
  <2>1. k \in 1..(m - 1 + 1) /\ 1 + k - 1 = k
    BY <1>1
  <2> QED
    BY <1>3, <2>1
<1> QED
  BY <1>3, <1>4, <1>5 DEF Prefix

\* What one token more leaves open.
LEMMA OpenOneMore ==
  ASSUME input \in Seq(Words), NEW p \in 1..Len(input)
  PROVE  /\ Unclosed(Prefix(p)) = UnclosedAfter(Unclosed(Prefix(p - 1)), input[p])
         /\ Unclosed(Prefix(p)) \in Seq(Closings)
<1>1. p \in 0..Len(input) /\ p - 1 \in 0..Len(input) /\ p - 1 \in Nat /\ (p - 1) + 1 = p
      /\ p \in 1..p /\ \A k \in 1..(p - 1) : k \in 1..p
  BY LenProperties
<1> DEFINE s == Prefix(p - 1)
           t == Prefix(p)
           m == p - 1
<1>2. /\ Len(s) = m /\ Len(t) = p
      /\ \A k \in 1..m : s[k] = input[k]
      /\ \A k \in 1..p : t[k] = input[k]
  BY <1>1, PrefixRead
<1> HIDE DEF s, t
<1>3. Len(s) \in Nat /\ Len(t) = Len(s) + 1 /\ \A k \in 1..Len(s) : t[k] = s[k]
  BY <1>1, <1>2
<1>4. Unclosed(t) = UnclosedAfter(Unclosed(s), t[Len(t)]) /\ Unclosed(t) \in Seq(Closings)
  BY <1>3, UnclosedOneMore
<1> QED
  BY <1>1, <1>2, <1>4 DEF s, t

\* At first the whole document is left to read.
LEMMA GrammarAtFirst == Init => GrammarTells
<1> SUFFICES ASSUME Init PROVE LeftToRead /\ OpenSoFar
  BY DEF GrammarTells
<1>1. pos = 1 /\ state = "Value" /\ stack = <<>> /\ pos - 1 = 0
  BY DEF Init
<1>2. stack \in Seq(Frame) /\ Len(stack) = 0
  BY <1>1, EmptySeq
<1>3. KindsOf(stack) = <<>> /\ Len(KindsOf(stack)) = 0 /\ KindsOf(stack) \in Seq(Containers)
  BY <1>1, <1>2, KindsTyped
<1> DEFINE kinds == KindsOf(stack)
<1> HIDE DEF kinds
<1>4. ASSUME NEW doc \in Seq(Words)
      PROVE  IsJson(doc) <=> Completes(doc, kinds, "Value", 1)
  <2> DEFINE n == Len(doc)
  <2>1. n \in Nat /\ (doc # <<>> <=> n \in 1..n)
    <3>1. n \in Nat /\ (doc # <<>> <=> n # 0)
      BY LenProperties, EmptySeq
    <3> QED
      BY <3>1
  <2>2. \A ends, v : Continues(doc, kinds, ends, 0, v) <=> v = n
    BY DEF Continues
  <2>3. \A ends : Innermost(doc, kinds, ends, "Value", 1) <=>
                    \E v \in 1..n : Derives(doc, "value", 1, v) /\ v = n
    BY <1>3, <2>2 DEF Innermost, kinds
  <2>4. IsJson(doc) <=> \E v \in 1..n : Derives(doc, "value", 1, v) /\ v = n
    BY <2>1 DEF IsJson, Derives
  <2>5. \A ends : AllClose(doc, kinds, ends)
    BY <1>3 DEF AllClose, kinds
  <2>6. \E ends : ends \in Ends(doc, kinds)
    <3>1. [k \in 1..Len(kinds) |-> 1] \in Ends(doc, kinds)
      BY <1>3 DEF Ends, kinds
    <3> QED
      BY <3>1
  <2> QED
    BY <2>3, <2>4, <2>5, <2>6 DEF Completes
<1>5. LeftToRead
  BY <1>1, <1>4 DEF LeftToRead, kinds
<1>6. OpenSoFar
  <2>1. input \in Seq(Words)
    BY AtFirst, TypesHold
  <2>2. 0 \in 0..Len(input)
    BY <2>1, LenProperties
  <2>3. Unclosed(Prefix(0)) = <<>>
    BY <2>1, <2>2, PrefixRead, UnclosedNothing
  <2>4. ClosersOf(KindsOf(stack)) = <<>>
    <3>1. /\ ClosersOf(KindsOf(stack)) \in Seq(Closings)
          /\ Len(ClosersOf(KindsOf(stack))) = 0
      BY <1>3, ClosersTyped
    <3> QED
      BY <3>1, EmptySeq
  <2> QED
    BY <1>1, <2>3, <2>4 DEF OpenSoFar
<1> QED
  BY <1>5, <1>6

\* More input in view changes nothing of it.
LEMMA DiscloseGrammar ==
  ClosesWhatIsOpen /\ WalkTells /\ GrammarTells /\ Disclose => GrammarTells'
<1> SUFFICES ASSUME ClosesWhatIsOpen, WalkTells, GrammarTells, Disclose PROVE GrammarTells'
  OBVIOUS
<1>0. input \in Seq(Words) /\ pos \in Nat \ {0} /\ Len(input) \in Nat
  BY TypesHold
<1>1. PICK t \in Words : input' = Append(input, t)
  BY DEF Disclose, Words
<1>2. UNCHANGED <<pos, state, stack, outcome>> /\ outcome = "parsing"
  BY DEF Disclose
<1>3. LeftToRead /\ OpenSoFar
  BY <1>2 DEF GrammarTells
<1>4. pos - 1 \in 0..Len(input)
  BY <1>0 DEF WalkTells, EndIsLast
<1>5. /\ input' \in Seq(Words) /\ Len(input') = Len(input) + 1
      /\ \A k \in 1..Len(input) : input'[k] = input[k]
  BY <1>0, <1>1, AppendProperties
<1>6. \A k \in 1..(pos - 1) : k \in 1..Len(input) /\ k \in 0..Len(input)
  BY <1>0, <1>4
<1>8. LeftToRead'
  <2> SUFFICES ASSUME NEW doc \in Seq(Words),
                      pos' - 1 <= Len(doc), \A k \in 1..(pos' - 1) : doc[k] = input'[k],
                      InView(doc)'
               PROVE  IsJson(doc) <=> Completes(doc, KindsOf(stack'), state', pos')
    BY DEF LeftToRead, BeginsAsRead
  <2>1. BeginsAsRead(doc, pos)
    BY <1>2, <1>5, <1>6 DEF BeginsAsRead
  <2>2. pos <= Len(input) => pos <= Len(input') /\ input'[pos] = input[pos]
    <3>1. pos <= Len(input) => pos \in 1..Len(input)
      BY <1>0
    <3>2. pos <= Len(input) => pos <= Len(input) + 1
      BY <1>0
    <3> QED
      BY <1>5, <3>1, <3>2
  <2>3. InView(doc)
    BY <1>2, <2>2 DEF InView
  <2> QED
    BY <1>2, <1>3, <2>1, <2>3 DEF LeftToRead
<1>9. ASSUME NEW m \in 0..Len(input) PROVE Prefix(m)' = Prefix(m)
  <2>1. m \in 0..Len(input') /\ \A k \in 1..m : k \in 1..Len(input)
    BY <1>0, <1>5
  <2>2. Prefix(m) \in Seq(Words) /\ Len(Prefix(m)) = m
        /\ \A k \in 1..m : Prefix(m)[k] = input[k]
    BY <1>0, PrefixRead
  <2>3. m \in Int /\ 1 \in Int /\ m \in Nat
    OBVIOUS
  <2>4. SubSeq(input', 1, m) = SubSeq(input, 1, m)
    <3>1. SubSeq(input', 1, m) = SubSeq(Append(input, t), 1, m)
      BY <1>1
    <3>2. /\ SubSeq(input', 1, m) \in Seq(Words)
          /\ Len(SubSeq(input', 1, m)) = IF 1 <= m THEN m - 1 + 1 ELSE 0
          /\ \A k \in 1..(m - 1 + 1) : SubSeq(input', 1, m)[k] = input'[1 + k - 1]
      <4>1. \A i \in 1..m : input'[i] \in Words
        BY <1>0, <1>5, <2>1, ElementOfSeq
      <4> QED
        BY <2>3, <4>1, SubSeqProperties
    <3>3. Len(SubSeq(input', 1, m)) = m
      BY <2>3, <3>2
    <3>4. \A k \in 1..m : SubSeq(input', 1, m)[k] = input[k]
      <4> TAKE k \in 1..m
      <4>1. k \in 1..(m - 1 + 1) /\ 1 + k - 1 = k
        BY <2>3
      <4> QED
        BY <1>5, <2>1, <3>2, <4>1
    <3> DEFINE s == SubSeq(input', 1, m)
               u == Prefix(m)
    <3>5. s \in Seq(Words) /\ u \in Seq(Words) /\ Len(s) = Len(u)
          /\ \A k \in 1..Len(s) : s[k] = u[k]
      BY <2>2, <3>2, <3>3, <3>4
    <3> HIDE DEF s, u
    <3>6. s = u
      BY <3>5, SeqEqual
    <3> QED
      BY <3>6 DEF s, u, Prefix
  <2> QED
    BY <2>4 DEF Prefix
<1>10. OpenSoFar'
  BY <1>2, <1>3, <1>4, <1>6, <1>9 DEF OpenSoFar
<1> QED
  BY <1>8, <1>10 DEF GrammarTells

\* Reading on, when the documents that go on as read complete as before.
LEMMA ReadsOn ==
  ASSUME LeftToRead, pos \in Nat \ {0}, pos' \in Nat, pos < pos', input' = input,
         \A doc \in Seq(Words) :
           BeginsAsRead(doc, pos') =>
             (Completes(doc, KindsOf(stack), state, pos) <=>
                Completes(doc, KindsOf(stack'), state', pos'))
  PROVE  LeftToRead'
<1> SUFFICES ASSUME NEW doc \in Seq(Words),
                    pos' - 1 <= Len(doc), \A k \in 1..(pos' - 1) : doc[k] = input'[k]
             PROVE  IsJson(doc) <=> Completes(doc, KindsOf(stack'), state', pos')
  BY DEF LeftToRead, BeginsAsRead
<1>0. Len(doc) \in Nat
  BY LenProperties
<1>1. BeginsAsRead(doc, pos')
  BY DEF BeginsAsRead
<1>2. /\ pos - 1 <= pos' - 1 /\ pos \in 1..(pos' - 1)
      /\ \A k \in 1..(pos - 1) : k \in 1..(pos' - 1)
  <2>1. ASSUME NEW p \in Nat \ {0}, NEW q \in Nat, p < q
        PROVE  /\ p - 1 <= q - 1 /\ p \in 1..(q - 1)
               /\ \A k \in 1..(p - 1) : k \in 1..(q - 1)
    BY ONLY <2>1
  <2> QED
    BY <2>1
<1>4. InView(doc)
  BY <1>1, <1>2 DEF BeginsAsRead, InView
<1>3. BeginsAsRead(doc, pos)
  <2>1. pos' - 1 <= Len(doc)
    BY <1>1 DEF BeginsAsRead
  <2>2. pos - 1 <= Len(doc)
    BY <1>0, <1>2, <2>1
  <2> QED
    BY <1>1, <1>2, <2>2 DEF BeginsAsRead
<1> QED
  BY <1>1, <1>3, <1>4 DEF LeftToRead

\* One token more: what it leaves open is on the stack.
LEMMA OneTokenOpens ==
  ASSUME OpenSoFar, input \in Seq(Words), input' = input,
         pos \in 1..Len(input), pos' = pos + 1, stack' \in Seq(Frame), Len(stack') <= MaxDepth,
         UnclosedAfter(ClosersOf(KindsOf(stack)), input[pos]) = ClosersOf(KindsOf(stack'))
  PROVE  OpenSoFar'
<1>0. Len(input) \in Nat
  BY LenProperties
<1>1. Unclosed(Prefix(pos)) = ClosersOf(KindsOf(stack'))
  BY OpenOneMore DEF OpenSoFar
<1>2. Len(Unclosed(Prefix(pos))) <= MaxDepth
  <2>1. KindsOf(stack') \in Seq(Containers) /\ Len(KindsOf(stack')) = Len(stack')
    BY KindsTyped
  <2>2. Len(ClosersOf(KindsOf(stack'))) = Len(stack')
    BY <2>1, ClosersTyped
  <2> QED
    BY <1>1, <2>2
<1>3. pos' - 1 = pos /\ \A k \in 1..pos : k = pos \/ k \in 1..(pos - 1)
  BY <1>0
<1>4. \A k \in 1..pos : Len(Unclosed(Prefix(k))) <= MaxDepth
  BY <1>2, <1>3 DEF OpenSoFar
<1>5. \A k : Prefix(k)' = Prefix(k)
  BY DEF Prefix
<1> QED
  BY <1>1, <1>3, <1>4, <1>5 DEF OpenSoFar

\* A document that begins as read up to and with the token under the parser.
LEMMA ReadThere ==
  ASSUME NEW doc \in Seq(Words), NEW p \in Nat \ {0}, BeginsAsRead(doc, p + 1)
  PROVE  Len(doc) \in Nat /\ p \in 1..Len(doc) /\ doc[p] = input[p]
<1>1. Len(doc) \in Nat
  BY LenProperties
<1>2. (p + 1) - 1 = p /\ p \in 1..p
  OBVIOUS
<1>3. p <= Len(doc)
  BY <1>2 DEF BeginsAsRead
<1> QED
  BY <1>1, <1>2, <1>3 DEF BeginsAsRead

\* What every step knows.
LEMMA GrammarKnows ==
  ASSUME ClosesWhatIsOpen, GrammarTells, outcome = "parsing"
  PROVE  /\ LeftToRead /\ OpenSoFar
         /\ input \in Seq(Words) /\ Len(input) \in Nat /\ pos \in Nat \ {0}
         /\ pos \in Nat /\ pos + 1 \in Nat /\ pos < pos + 1
         /\ stack \in Seq(Frame) /\ state \in States
         /\ KindsOf(stack) \in Seq(Containers) /\ Agrees(KindsOf(stack), state)
         /\ pos <= Len(input) => pos \in 1..Len(input)
<1>1. /\ input \in Seq(Words) /\ Len(input) \in Nat /\ pos \in Nat \ {0} /\ stack \in Seq(Frame)
  BY TypesHold
<1>2. pos \in Nat /\ pos + 1 \in Nat /\ pos < pos + 1
  BY <1>1
<1>3. state \in States
  BY DEF ClosesWhatIsOpen, TapeTypes
<1>4. KindsOf(stack) \in Seq(Containers)
  BY <1>1, KindsTyped
<1>5. pos <= Len(input) => pos \in 1..Len(input)
  BY <1>1
<1> QED
  BY <1>1, <1>2, <1>3, <1>4, <1>5, KindsAgree DEF GrammarTells

\* A step that reads one token, after which the grammar leaves the rest.
LEMMA ReadsOneToken ==
  ASSUME ClosesWhatIsOpen, ClosesWhatIsOpen', GrammarTells, outcome = "parsing",
         pos <= Len(input), input' = input, pos' = pos + 1,
         \A doc \in Seq(Words) :
           Len(doc) \in Nat /\ pos \in 1..Len(doc) /\ doc[pos] = input[pos] =>
             (Completes(doc, KindsOf(stack), state, pos) <=>
                Completes(doc, KindsOf(stack'), state', pos + 1)),
         UnclosedAfter(ClosersOf(KindsOf(stack)), input[pos]) = ClosersOf(KindsOf(stack'))
  PROVE  GrammarTells'
<1>1. /\ LeftToRead /\ OpenSoFar /\ input \in Seq(Words) /\ pos \in Nat \ {0}
      /\ pos \in Nat /\ pos' \in Nat /\ pos < pos' /\ pos \in 1..Len(input)
  BY GrammarKnows
<1>2. \A doc \in Seq(Words) :
        BeginsAsRead(doc, pos') =>
          (Completes(doc, KindsOf(stack), state, pos) <=>
             Completes(doc, KindsOf(stack'), state', pos'))
  BY <1>1, ReadThere
<1>3. LeftToRead'
  BY <1>1, <1>2, ReadsOn
<1>4. stack' \in Seq(Frame) /\ Len(stack') <= MaxDepth
  BY DEF ClosesWhatIsOpen, TapeTypes, DepthIsBounded
<1>5. OpenSoFar'
  BY <1>1, <1>4, OneTokenOpens
<1> QED
  BY <1>3, <1>5 DEF GrammarTells

\* The rest of an opened container is left.
LEMMA OpenGrammar ==
  ASSUME ClosesWhatIsOpen, ClosesWhatIsOpen', GrammarTells, NEW kind \in Containers,
         OpenContainer(Opener(kind), kind, FirstOf(kind)), ~(Len(stack) + 1 > MaxDepth)
  PROVE  GrammarTells'
<1> DEFINE frame == [kind |-> kind, start |-> Len(nodes) + 1, count |-> 0]
<1>1. /\ outcome = "parsing" /\ state = "Value" /\ pos <= Len(input) /\ input[pos] = Opener(kind)
      /\ stack' = Append(stack, frame) /\ input' = input /\ pos' = pos + 1
      /\ state' = FirstOf(kind)
  BY DEF OpenContainer, At, Looks, Disclosed, Under
<1>2. stack \in Seq(Frame) /\ KindsOf(stack) \in Seq(Containers)
  BY <1>1, GrammarKnows
<1>3. frame \in Frame /\ frame.kind = kind
  <2>1. Len(nodes) + 1 \in Nat
    BY TypesHold
  <2> QED
    BY <2>1 DEF Frame
<1> HIDE DEF frame
<1>4. KindsOf(stack') = Append(KindsOf(stack), kind)
  BY <1>1, <1>2, <1>3, KindsOpened
<1>5. \A doc \in Seq(Words) :
        Len(doc) \in Nat /\ pos \in 1..Len(doc) /\ doc[pos] = input[pos] =>
          (Completes(doc, KindsOf(stack), state, pos) <=>
             Completes(doc, KindsOf(stack'), state', pos + 1))
  BY <1>1, <1>2, <1>4, OpenLeft
<1>6. UnclosedAfter(ClosersOf(KindsOf(stack)), input[pos]) = ClosersOf(KindsOf(stack'))
  BY <1>1, <1>2, <1>4, UnclosedFollows
<1> QED
  BY <1>1, <1>5, <1>6, ReadsOneToken

\* Behind a string or a scalar, what is around it is left.
LEMMA ScalarGrammar ==
  ASSUME ClosesWhatIsOpen, ClosesWhatIsOpen', GrammarTells, ReadScalar
  PROVE  GrammarTells'
<1>1. /\ outcome = "parsing" /\ state = "Value" /\ pos <= Len(input)
      /\ input[pos] \in Strings \cup Scalars
      /\ stack' = stack /\ input' = input /\ pos' = pos + 1 /\ state' = AfterValue(stack)
  BY DEF ReadScalar, At, Looks, Disclosed, Under
<1>2. KindsOf(stack) \in Seq(Containers)
  BY <1>1, GrammarKnows
<1>3. state' \in AfterStates
  BY <1>1 DEF AfterValue, AfterStates
<1>5. \A doc \in Seq(Words) :
        Len(doc) \in Nat /\ pos \in 1..Len(doc) /\ doc[pos] = input[pos] =>
          (Completes(doc, KindsOf(stack), state, pos) <=>
             Completes(doc, KindsOf(stack'), state', pos + 1))
  BY <1>1, <1>3, ScalarLeft
<1>6. UnclosedAfter(ClosersOf(KindsOf(stack)), input[pos]) = ClosersOf(KindsOf(stack'))
  BY <1>1, <1>2, UnclosedFollows
<1> QED
  BY <1>1, <1>5, <1>6, ReadsOneToken

\* Behind a closing bracket, what is around its container is left.
LEMMA CloseGrammar ==
  ASSUME ClosesWhatIsOpen, ClosesWhatIsOpen', GrammarTells, CloseContainer
  PROVE  GrammarTells'
<1> DEFINE kinds == KindsOf(stack)
<1>1. /\ outcome = "parsing" /\ pos <= Len(input) /\ stack # <<>> /\ Top \in Frame
      /\ state \in {"ArrayFirst", "ArrayNext", "ObjectFirst", "ObjectNext"}
      /\ input[pos] = (IF Top.kind = "object" THEN "}" ELSE "]")
      /\ stack' = Popped /\ input' = input /\ pos' = pos + 1 /\ state' = AfterValue(Popped)
  BY CloseFinds
<1>2. stack \in Seq(Frame) /\ kinds \in Seq(Containers) /\ Agrees(kinds, state)
  BY <1>1, GrammarKnows
<1>3. kinds # <<>> /\ KindsOf(stack') = Outer(kinds) /\ kinds[Len(kinds)] = Top.kind
  BY <1>1, <1>2, KindsTyped, KindsClosed
<1> HIDE DEF kinds
<1>4. state' \in AfterStates
  BY <1>1 DEF AfterValue, AfterStates
<1>5. Top.kind \in {"object", "array"}
  BY <1>1 DEF Frame, Containers
<1>6. input[pos] = Closer(kinds[Len(kinds)])
  BY <1>1, <1>3, <1>5 DEF Closer
<1>7. state \in ClosingStates(kinds[Len(kinds)])
  BY <1>1, <1>2, <1>3 DEF ClosingStates, Agrees, ArrayStates, ObjectStates
<1>8. \A doc \in Seq(Words) :
        Len(doc) \in Nat /\ pos \in 1..Len(doc) /\ doc[pos] = input[pos] =>
          (Completes(doc, kinds, state, pos) <=>
             Completes(doc, KindsOf(stack'), state', pos + 1))
  BY <1>2, <1>3, <1>4, <1>6, <1>7, CloseLeft
<1>9. UnclosedAfter(ClosersOf(kinds), input[pos]) = ClosersOf(KindsOf(stack'))
  <2>1. UnclosedAfter(ClosersOf(kinds), Closer(kinds[Len(kinds)])) = ClosersOf(Outer(kinds))
    BY <1>2, <1>3, UnclosedFollows
  <2> QED
    BY <1>3, <1>6, <2>1
<1> QED
  BY <1>1, <1>8, <1>9, ReadsOneToken DEF kinds

\* Behind a comma, another element is left, or another member.
LEMMA CommaGrammar ==
  ASSUME ClosesWhatIsOpen, ClosesWhatIsOpen', GrammarTells, NextElement \/ NextMember
  PROVE  GrammarTells'
<1> DEFINE kinds == KindsOf(stack)
           comma == ","
<1>1. /\ outcome = "parsing" /\ pos <= Len(input) /\ input[pos] = comma
      /\ stack' \in {Counted, stack} /\ input' = input /\ pos' = pos + 1
      /\ \/ state = "ArrayNext" /\ state' = "Value"
         \/ state = "ObjectNext" /\ state' = "ObjectKey"
  BY DEF NextElement, NextMember, At, Looks, Disclosed, Under
<1>2. stack \in Seq(Frame) /\ kinds \in Seq(Containers) /\ Agrees(kinds, state)
  BY <1>1, GrammarKnows
<1>3. KindsOf(stack') = kinds
  BY <1>1, <1>2, KindsCounted
<1> HIDE DEF kinds, comma
<1>4. /\ kinds # <<>>
      /\ state = "ArrayNext" => kinds[Len(kinds)] = "array"
      /\ state = "ObjectNext" => kinds[Len(kinds)] = "object"
  BY <1>1, <1>2 DEF Agrees, ArrayStates, ObjectStates
<1>5. \A doc \in Seq(Words) :
        Len(doc) \in Nat /\ pos \in 1..Len(doc) /\ doc[pos] = input[pos] =>
          (Completes(doc, kinds, state, pos) <=> Completes(doc, kinds, state', pos + 1))
  <2>1. CASE state = "ArrayNext" /\ state' = "Value"
    BY <1>1, <1>2, <1>4, <2>1, NextElementLeft, Zenon DEF comma
  <2>2. CASE state = "ObjectNext" /\ state' = "ObjectKey"
    BY <1>1, <1>2, <1>4, <2>2, NextMemberLeft, Zenon DEF comma
  <2> QED
    BY <1>1, <2>1, <2>2
<1>6. UnclosedAfter(ClosersOf(kinds), input[pos]) = ClosersOf(kinds)
  <2>1. comma \in Strings \cup Scalars \cup {",", ":"}
    BY DEF comma
  <2> QED
    BY <1>1, <1>2, <2>1, UnclosedFollows, Zenon
<1> QED
  BY <1>1, <1>3, <1>5, <1>6, ReadsOneToken DEF kinds

\* Before the first element, the element is left.
LEMMA FirstElementGrammar ==
  ASSUME ClosesWhatIsOpen, GrammarTells, FirstElement
  PROVE  GrammarTells'
<1> DEFINE kinds == KindsOf(stack)
<1>1. /\ outcome = "parsing" /\ pos <= Len(input) /\ input[pos] # "]"
      /\ stack' = Counted /\ input' = input /\ pos' = pos
      /\ state = "ArrayFirst" /\ state' = "Value"
  BY DEF FirstElement, At, Looks, Disclosed, Under
<1>2. /\ stack \in Seq(Frame) /\ kinds \in Seq(Containers) /\ Agrees(kinds, state)
      /\ LeftToRead /\ OpenSoFar /\ pos \in Nat \ {0} /\ pos \in Nat
      /\ state \in States
  BY <1>1, GrammarKnows
<1>3. KindsOf(stack') = kinds
  BY <1>1, <1>2, KindsCounted
<1> HIDE DEF kinds
<1>4. kinds # <<>> /\ kinds[Len(kinds)] = "array"
  BY <1>1, <1>2 DEF Agrees, ArrayStates
<1>5. LeftToRead'
  <2> SUFFICES ASSUME NEW doc \in Seq(Words),
                      pos' - 1 <= Len(doc), \A k \in 1..(pos' - 1) : doc[k] = input'[k],
                      InView(doc)'
               PROVE  IsJson(doc) <=> Completes(doc, KindsOf(stack'), state', pos')
    BY DEF LeftToRead, BeginsAsRead
  <2>0. Len(doc) \in Nat
    BY LenProperties
  <2>1. BeginsAsRead(doc, pos) /\ InView(doc)
    BY <1>1 DEF BeginsAsRead, InView
  <2>2. IsJson(doc) <=> Completes(doc, kinds, "ArrayFirst", pos)
    BY <1>1, <1>2, <2>1 DEF LeftToRead, kinds
  <2>3. pos <= Len(doc) => doc[pos] # "]"
    BY <1>1 DEF InView
  <2>4. pos - 1 <= Len(doc)
    BY <1>1
  <2>5. CASE pos <= Len(doc)
    <3>1. pos \in 1..Len(doc)
      BY <1>2, <2>0, <2>5
    <3>2. Completes(doc, kinds, "ArrayFirst", pos) <=> Completes(doc, kinds, "Value", pos)
      BY <1>2, <1>4, <2>0, <2>3, <2>5, <3>1, FirstElementLeft
    <3> QED
      BY <1>1, <1>3, <2>2, <3>2
  <2>6. CASE ~(pos <= Len(doc))
    <3>1. pos \in 1..(Len(doc) + 1) /\ pos \notin 1..Len(doc)
      BY <1>2, <2>0, <2>4, <2>6
    <3>2. /\ "ArrayFirst" \in States /\ "Value" \in States
          /\ Agrees(kinds, "ArrayFirst") /\ Agrees(kinds, "Value")
      BY <1>4 DEF States, Agrees, ArrayStates, ObjectStates
    <3>3. ~Completes(doc, kinds, "ArrayFirst", pos) /\ ~Completes(doc, kinds, "Value", pos)
      BY <1>2, <2>0, <3>1, <3>2, NextExpected
    <3> QED
      BY <1>1, <1>3, <2>2, <3>3
  <2> QED
    BY <2>5, <2>6
<1>6. OpenSoFar'
  <2>1. \A k : Prefix(k)' = Prefix(k)
    BY <1>1 DEF Prefix
  <2> QED
    BY <1>1, <1>2, <1>3, <2>1 DEF OpenSoFar, kinds
<1> QED
  BY <1>5, <1>6 DEF GrammarTells

\* Behind a key and its colon, the value is left.
LEMMA KeyGrammar ==
  ASSUME ClosesWhatIsOpen, ClosesWhatIsOpen', GrammarTells, ReadKey, input[pos + 1] = ":"
  PROVE  GrammarTells'
<1> DEFINE kinds == KindsOf(stack)
<1>1. /\ outcome = "parsing" /\ pos <= Len(input) /\ pos + 1 <= Len(input)
      /\ input[pos] \in Strings
      /\ stack' = Counted /\ input' = input /\ pos' = pos + 2
      /\ state \in {"ObjectFirst", "ObjectKey"} /\ state' = "Value"
  BY DEF ReadKey, At, Looks, Disclosed, Under, ReadsKey
<1>2. /\ stack \in Seq(Frame) /\ kinds \in Seq(Containers) /\ Agrees(kinds, state)
      /\ LeftToRead /\ OpenSoFar /\ pos \in Nat \ {0} /\ pos \in Nat
      /\ input \in Seq(Words) /\ pos \in 1..Len(input) /\ Len(input) \in Nat
  BY <1>1, GrammarKnows
<1>3. KindsOf(stack') = kinds
  BY <1>1, <1>2, KindsCounted
<1> HIDE DEF kinds
<1>4. kinds # <<>> /\ kinds[Len(kinds)] = "object"
  BY <1>1, <1>2 DEF Agrees, ObjectStates
<1>5. /\ pos' \in Nat /\ pos < pos' /\ pos + 1 \in Nat \ {0} /\ (pos + 1) + 1 = pos'
      /\ (pos + 1) - 1 = pos /\ pos' - 1 = pos + 1 /\ pos + 1 \in 1..Len(input)
      /\ pos \in 1..(pos' - 1)
      /\ \A k \in 1..(pos + 1) : k = pos + 1 \/ k = pos \/ k \in 1..(pos - 1)
  BY <1>1, <1>2
<1>6. ASSUME NEW doc \in Seq(Words), BeginsAsRead(doc, pos')
      PROVE  Completes(doc, kinds, state, pos) <=> Completes(doc, kinds, "Value", pos')
  <2>1. /\ Len(doc) \in Nat /\ pos + 1 \in 1..Len(doc) /\ doc[pos + 1] = ":"
    BY <1>5, <1>6, ReadThere
  <2>2. pos \in 1..Len(doc) /\ pos + 1 <= Len(doc)
    BY <1>2, <2>1
  <2>3. doc[pos] = input[pos]
    BY <1>5, <1>6 DEF BeginsAsRead
  <2> QED
    BY <1>1, <1>2, <1>4, <2>1, <2>2, <2>3, KeyLeft
<1>7. LeftToRead'
  BY <1>1, <1>2, <1>3, <1>5, <1>6, ReadsOn DEF kinds
<1>8. OpenSoFar'
  <2>1. Unclosed(Prefix(pos)) = ClosersOf(kinds)
    <3>1. UnclosedAfter(ClosersOf(kinds), input[pos]) = ClosersOf(kinds)
      BY <1>1, <1>2, UnclosedFollows
    <3> QED
      BY <1>2, <3>1, OpenOneMore DEF OpenSoFar, kinds
  <2>2. Unclosed(Prefix(pos + 1)) = ClosersOf(kinds)
    <3>1. UnclosedAfter(ClosersOf(kinds), input[pos + 1]) = ClosersOf(kinds)
      BY <1>2, UnclosedFollows
    <3> QED
      BY <1>2, <1>5, <2>1, <3>1, OpenOneMore
  <2>3. Len(ClosersOf(kinds)) <= MaxDepth
    <3>1. Len(kinds) = Len(stack) /\ Len(ClosersOf(kinds)) = Len(kinds)
      BY <1>2, KindsTyped, ClosersTyped DEF kinds
    <3> QED
      BY <3>1 DEF ClosesWhatIsOpen, DepthIsBounded
  <2>4. \A k : Prefix(k)' = Prefix(k)
    BY <1>1 DEF Prefix
  <2>5. \A k \in 1..(pos + 1) : Len(Unclosed(Prefix(k))) <= MaxDepth
    BY <1>2, <1>5, <2>1, <2>2, <2>3 DEF OpenSoFar
  <2> QED
    BY <1>3, <1>5, <2>2, <2>4, <2>5 DEF OpenSoFar
<1> QED
  BY <1>7, <1>8 DEF GrammarTells

-----------------------------------------------------------------------------
(* What the parser decides *)

\* Every token of the property's documents is a word.
LEMMA FillWords ==
  /\ Closings \subseteq Words /\ Strings \subseteq Words /\ ":" \in Words
  /\ \A s \in Strings : /\ s # "]" /\ <<s>> \in Seq(Words)
                        /\ <<":", s>> \in Seq(Words) /\ <<s, ":", s>> \in Seq(Words)
<1>1. Closings \subseteq Words /\ Strings \subseteq Words /\ ":" \in Words
  BY DEF Closings, Words, Token, Punctuation
<1>2. ASSUME NEW s \in Strings
      PROVE  /\ s # "]" /\ <<s>> \in Seq(Words)
             /\ <<":", s>> \in Seq(Words) /\ <<s, ":", s>> \in Seq(Words)
  <2>1. s # "]"
    BY BracketsApart DEF Punctuation
  <2>2. s \in Words
    BY <1>1
  <2> QED
    BY <1>1, <2>1, <2>2
<1> QED
  BY <1>1, <1>2

\* A prefix of the input, something more, and closing brackets.
LEMMA FilledOut ==
  ASSUME input \in Seq(Words), NEW m \in 0..Len(input), NEW fill \in Seq(Words),
         NEW ends \in Seq(Closings)
  PROVE  LET doc == Prefix(m) \o fill \o ends
             q == m + Len(fill)
         IN /\ doc \in Seq(Words) /\ Len(doc) = q + Len(ends) /\ q \in Nat /\ m <= q
            /\ Len(doc) \in Nat /\ q <= Len(doc)
            /\ \A k \in 1..m : doc[k] = input[k]
            /\ \A k \in 1..Len(fill) : doc[m + k] = fill[k]
            /\ \A k \in 1..Len(ends) : doc[q + k] = ends[k]
<1> DEFINE a == Prefix(m)
           b == a \o fill
           n == Len(fill)
           e == Len(ends)
           q == m + n
<1>0. n \in Nat /\ e \in Nat /\ m \in Nat
  BY LenProperties
<1>1. a \in Seq(Words) /\ Len(a) = m /\ \A k \in 1..m : a[k] = input[k]
  BY PrefixRead
<1>2. ends \in Seq(Words)
  BY FillWords, SeqMonotonic
<1> HIDE DEF a
<1>3. /\ b \in Seq(Words) /\ Len(b) = Len(a) + Len(fill)
      /\ \A i \in 1..Len(a) + Len(fill) : b[i] = IF i <= Len(a) THEN a[i] ELSE fill[i - Len(a)]
  BY <1>1, ConcatProperties
<1> HIDE DEF b
<1> DEFINE doc == b \o ends
<1>4. /\ doc \in Seq(Words) /\ Len(doc) = Len(b) + Len(ends)
      /\ \A i \in 1..Len(b) + Len(ends) : doc[i] = IF i <= Len(b) THEN b[i] ELSE ends[i - Len(b)]
  <2>1. b \in Seq(Words)
    BY <1>3
  <2> QED
    BY ONLY <1>2, <2>1, ConcatProperties, Zenon
<1> HIDE DEF doc
<1>5. Len(b) = q /\ Len(doc) = q + e
  BY <1>1, <1>3, <1>4
<1>6. ASSUME NEW k \in 1..m PROVE doc[k] = input[k]
  <2>1. k \in 1..m + n /\ k <= m /\ k \in 1..q + e /\ k <= q
    BY <1>0
  <2> QED
    BY <1>1, <1>3, <1>4, <1>5, <2>1
<1>7. ASSUME NEW k \in 1..n PROVE doc[m + k] = fill[k]
  <2>1. m + k \in 1..m + n /\ ~(m + k <= m) /\ (m + k) - m = k /\ m + k \in 1..q + e /\ m + k <= q
    BY <1>0
  <2>2. b[m + k] = fill[k]
    BY <1>1, <1>3, <2>1
  <2>3. doc[m + k] = b[m + k]
    BY <1>4, <1>5, <2>1
  <2> QED
    BY <2>2, <2>3
<1>8. ASSUME NEW k \in 1..e PROVE doc[q + k] = ends[k]
  <2>1. q + k \in 1..q + e /\ ~(q + k <= q) /\ (q + k) - q = k
    BY <1>0
  <2> QED
    BY <1>4, <1>5, <2>1
<1>9. q \in Nat /\ m <= q /\ q + e \in Nat /\ q <= q + e
  BY <1>0
<1> QED
  BY <1>4, <1>5, <1>6, <1>7, <1>8, <1>9 DEF doc, b, a

\* With the closing brackets of the open containers, it closes them from where it is filled.
LEMMA FilledCloses ==
  ASSUME input \in Seq(Words), NEW m \in 0..Len(input), NEW fill \in Seq(Words),
         NEW kinds \in Seq(Containers)
  PROVE  ClosesFrom(Prefix(m) \o fill \o ClosersOf(kinds), kinds, m + Len(fill))
<1> DEFINE ends == ClosersOf(kinds)
           doc == Prefix(m) \o fill \o ends
           q == m + Len(fill)
           d == Len(kinds)
<1>1. /\ ends \in Seq(Closings) /\ Len(ends) = d
      /\ \A k \in 1..d : ends[k] = Closer(kinds[(d + 1) - k])
  BY ClosersTyped
<1> HIDE DEF ends
<1>2. Len(doc) = q + Len(ends) /\ \A k \in 1..Len(ends) : doc[q + k] = ends[k]
  BY <1>1, FilledOut
<1> HIDE DEF doc, q
<1>3. d \in Nat
  BY LenProperties
<1>4. ASSUME NEW k \in 1..d PROVE doc[q + ((d + 1) - k)] = Closer(kinds[k])
  <2>1. (d + 1) - k \in 1..d /\ (d + 1) - ((d + 1) - k) = k
    BY <1>3
  <2> QED
    BY <1>1, <1>2, <2>1
<1> QED
  BY <1>1, <1>2, <1>4 DEF ClosesFrom, doc, q, ends

\* What is left open is closed by closing brackets.
LEMMA UnclosedTyped ==
  ASSUME NEW tokens, Len(tokens) \in Nat
  PROVE  Unclosed(tokens) \in Seq(Closings)
<1>1. PICK f \in [0..Len(tokens) -> Seq(Closings)] : Unclosed(tokens) = f[Len(tokens)]
  BY UnclosedUnrolls
<1>2. Len(tokens) \in 0..Len(tokens)
  OBVIOUS
<1> QED
  BY <1>1, <1>2

\* What begins some document does so in front of us.
LEMMA SomeDocument ==
  ASSUME input \in Seq(Words), NEW m \in 0..Len(input), BeginsSomeJson(Prefix(m))
  PROVE  \E doc \in Seq(Words) :
           IsJson(doc) /\ m <= Len(doc) /\ \A k \in 1..m : doc[k] = input[k]
<1>0. PICK s \in Strings :
        \E fill \in {<<>>, <<s>>, <<":", s>>, <<s, ":", s>>} :
          IsJson(Prefix(m) \o fill \o Unclosed(Prefix(m)))
  BY DEF BeginsSomeJson
<1>1. PICK fill \in {<<>>, <<s>>, <<":", s>>, <<s, ":", s>>} :
        IsJson(Prefix(m) \o fill \o Unclosed(Prefix(m)))
  BY <1>0
<1>2. fill \in Seq(Words)
  BY <1>1, FillWords, EmptySeq
<1>3. Len(Prefix(m)) \in Nat
  BY PrefixRead
<1>4. Unclosed(Prefix(m)) \in Seq(Closings)
  BY <1>3, UnclosedTyped
<1> DEFINE doc == Prefix(m) \o fill \o Unclosed(Prefix(m))
           q == m + Len(fill)
<1>5. /\ doc \in Seq(Words) /\ q \in Nat /\ m <= q /\ Len(doc) \in Nat /\ q <= Len(doc)
      /\ \A k \in 1..m : doc[k] = input[k]
  BY <1>2, <1>4, FilledOut
<1>6. IsJson(doc)
  BY <1>1
<1> HIDE DEF doc, q
<1>7. m <= Len(doc)
  BY <1>5
<1> QED
  BY <1>5, <1>6, <1>7

\* Until it ends, some document begins with what was read: it ends as soon as it can.
LEMMA BegunSoFar ==
  ASSUME ClosesWhatIsOpen, GrammarTells, outcome = "parsing", pos <= Len(input)
  PROVE  BeginsSomeJson(Prefix(pos - 1))
<1> DEFINE kinds == KindsOf(stack)
           m == pos - 1
<1>1. /\ stack \in Seq(Frame) /\ kinds \in Seq(Containers) /\ Agrees(kinds, state)
      /\ LeftToRead /\ OpenSoFar /\ pos \in Nat \ {0} /\ input \in Seq(Words)
      /\ pos \in 1..Len(input) /\ Len(input) \in Nat /\ state \in States
  BY GrammarKnows
<1>2. PICK s \in Strings : TRUE
  BY DocumentsAssumption
<1> HIDE DEF kinds
<1>3. m \in 0..Len(input) /\ m + 1 = pos /\ m \in Nat /\ m + 3 = pos + 2 /\ m + 2 = pos + 1
  BY <1>1
<1>4. ASSUME NEW fill \in {<<>>, <<s>>, <<s, ":", s>>},
             \/ state \in AfterStates \cup {"ArrayFirst", "ObjectFirst"} /\ fill = <<>>
             \/ state = "Value" /\ fill = <<s>>
             \/ state = "ObjectKey" /\ fill = <<s, ":", s>>
      PROVE  BeginsSomeJson(Prefix(m))
  <2> DEFINE doc == Prefix(m) \o fill \o ClosersOf(kinds)
             q == m + Len(fill)
  <2>1. fill \in Seq(Words)
    BY FillWords, EmptySeq
  <2>2. ClosersOf(kinds) \in Seq(Closings)
    BY <1>1, ClosersTyped
  <2>3. /\ doc \in Seq(Words) /\ q \in Nat /\ m <= q /\ Len(doc) \in Nat /\ q <= Len(doc)
        /\ \A k \in 1..m : doc[k] = input[k]
        /\ \A k \in 1..Len(fill) : doc[m + k] = fill[k]
    BY <1>1, <1>3, <2>1, <2>2, FilledOut, SMTT(40), ZenonT(40)
  <2>4. ClosesFrom(doc, kinds, q)
    BY <1>1, <1>3, <2>1, FilledCloses
  <2>5. IsJson(doc) => BeginsSomeJson(Prefix(m))
    <3>1. Unclosed(Prefix(m)) = ClosersOf(kinds)
      BY <1>1 DEF OpenSoFar, kinds
    <3> QED
      BY <3>1 DEF BeginsSomeJson
  <2> HIDE DEF doc
  <2>6. \/ state \in AfterStates \cup {"ArrayFirst", "ObjectFirst"} /\ q = pos - 1
        \/ state = "Value" /\ q = pos /\ doc[pos] = s
        \/ /\ state = "ObjectKey" /\ q = pos + 2
           /\ doc[pos] = s /\ doc[pos + 1] = ":" /\ doc[pos + 2] = s
    <3>1. CASE state \in AfterStates \cup {"ArrayFirst", "ObjectFirst"} /\ fill = <<>>
      <4>1. Len(fill) = 0
        BY <3>1
      <4> QED
        BY <1>3, <3>1, <4>1
    <3>2. CASE state = "Value" /\ fill = <<s>>
      <4>1. Len(fill) = 1 /\ fill[1] = s
        BY <3>2
      <4> QED
        BY <1>3, <2>3, <3>2, <4>1
    <3>3. CASE state = "ObjectKey" /\ fill = <<s, ":", s>>
      <4>1. Len(fill) = 3 /\ fill[1] = s /\ fill[2] = ":" /\ fill[3] = s
        BY <3>3
      <4>2. m + Len(fill) = m + 3 /\ 1 \in 1..3 /\ 2 \in 1..3 /\ 3 \in 1..3
        BY <4>1
      <4> QED
        BY <1>3, <2>3, <3>3, <4>1, <4>2
    <3> QED
      BY <1>4, <3>1, <3>2, <3>3
  <2> HIDE DEF q
  <2>7. Completes(doc, kinds, state, pos)
    BY <1>1, <2>3, <2>4, <2>6, SoonComplete
  <2>8. BeginsAsRead(doc, pos)
    <3>1. pos - 1 <= Len(doc)
      BY <1>3, <2>3
    <3> QED
      BY <2>3, <3>1 DEF BeginsAsRead
  <2>9. InView(doc)
    <3>1. state = "Value" => doc[pos] = s
      BY <2>6 DEF AfterStates
    <3> QED
      BY <3>1, FillWords DEF InView
  <2> QED
    BY <1>1, <2>3, <2>5, <2>7, <2>8, <2>9 DEF LeftToRead, kinds
<1> QED
  BY <1>1, <1>4 DEF States, ArrayStates, ObjectStates, AfterStates

\* No document begins with the first p tokens of the input.
NoWayOn(p) ==
  \A doc \in Seq(Words) :
    p <= Len(doc) /\ (\A k \in 1..p : doc[k] = input[k]) => ~IsJson(doc)

\* Then no document begins so in the property's sense either.
LEMMA NoneBegins ==
  ASSUME input \in Seq(Words), NEW p \in 0..Len(input), NoWayOn(p)
  PROVE  ~BeginsSomeJson(Prefix(p))
BY SomeDocument DEF NoWayOn

\* No document goes on as the input does where it is rejected, nor ends there.
LEMMA NoneGoesOn ==
  ASSUME ClosesWhatIsOpen, GrammarTells, Reject
  PROVE  IF input[pos] = EndOfInput THEN ~IsJson(Prefix(pos - 1)) ELSE NoWayOn(pos)
<1> DEFINE kinds == KindsOf(stack)
           m == pos - 1
<1>0. outcome = "parsing" /\ pos <= Len(input) /\ input[pos] \notin Expected(state)
  BY DEF Reject, At, Looks, Disclosed, Under
<1>1. /\ stack \in Seq(Frame) /\ kinds \in Seq(Containers) /\ Agrees(kinds, state)
      /\ LeftToRead /\ pos \in Nat \ {0} /\ input \in Seq(Words)
      /\ pos \in 1..Len(input) /\ Len(input) \in Nat /\ state \in States
  BY <1>0, GrammarKnows
<1> HIDE DEF kinds
<1>2. m \in 0..Len(input) /\ m + 1 = pos /\ m \in Nat /\ pos \in 0..Len(input) /\ ~(pos <= m)
  BY <1>1
<1>3. ASSUME NEW doc \in Seq(Words), BeginsAsRead(doc, pos), InView(doc), IsJson(doc)
      PROVE  IF state = "End" THEN pos = Len(doc) + 1
             ELSE pos \in 1..Len(doc) /\ doc[pos] \in Expected(state)
  <2>1. Len(doc) \in Nat
    BY LenProperties
  <2>2. pos \in 1..(Len(doc) + 1)
    <3>1. pos - 1 <= Len(doc)
      BY <1>3 DEF BeginsAsRead
    <3> QED
      BY <1>1, <2>1, <3>1
  <2>3. Completes(doc, kinds, state, pos)
    BY <1>1, <1>3 DEF LeftToRead, kinds
  <2> QED
    BY <1>1, <2>1, <2>2, <2>3, NextExpected
<1>4. ASSUME input[pos] = EndOfInput, IsJson(Prefix(m)) PROVE FALSE
  <2> DEFINE doc == Prefix(m)
  <2>1. doc \in Seq(Words) /\ Len(doc) = m /\ \A k \in 1..m : doc[k] = input[k]
    BY <1>1, <1>2, PrefixRead
  <2>2. IsJson(doc)
    BY <1>4
  <2> HIDE DEF doc
  <2>3. BeginsAsRead(doc, pos) /\ InView(doc)
    BY <1>2, <2>1 DEF BeginsAsRead, InView
  <2>4. state # "End"
    BY <1>0, <1>4 DEF Expected
  <2>5. pos \in 1..m
    BY <1>3, <2>1, <2>2, <2>3, <2>4
  <2> QED
    BY <1>2, <2>5
<1>5. ASSUME input[pos] # EndOfInput, NEW doc \in Seq(Words),
             pos <= Len(doc), \A k \in 1..pos : doc[k] = input[k], IsJson(doc)
      PROVE  FALSE
  <2>1. /\ Len(doc) \in Nat /\ pos \in 1..pos /\ \A k \in 1..(pos - 1) : k \in 1..pos
    BY <1>1, LenProperties
  <2>2. pos - 1 <= Len(doc) /\ pos # Len(doc) + 1
    BY <1>1, <1>5, <2>1
  <2>3. doc[pos] = input[pos]
    BY <1>5, <2>1
  <2>4. BeginsAsRead(doc, pos) /\ InView(doc)
    BY <1>5, <2>1, <2>2, <2>3 DEF BeginsAsRead, InView
  <2> QED
    BY <1>0, <1>3, <1>5, <2>2, <2>3, <2>4
<1> QED
  BY <1>4, <1>5 DEF NoWayOn

\* The container too deep is where some document goes on, and is the first too deep.
LEMMA TooDeepDecides ==
  ASSUME ClosesWhatIsOpen, GrammarTells, NEW kind \in Containers,
         OpenContainer(Opener(kind), kind, FirstOf(kind)), Len(stack) + 1 > MaxDepth
  PROVE  DecidesTheGrammar'
<1> DEFINE kinds == KindsOf(stack)
           more == Append(kinds, kind)
           fill == <<>>
           ends == ClosersOf(more)
           doc == Prefix(pos) \o fill \o ends
<1>1. /\ outcome = "parsing" /\ state = "Value" /\ pos <= Len(input) /\ input[pos] = Opener(kind)
      /\ outcome' = "too_deep" /\ input' = input /\ pos' = pos
  BY DEF OpenContainer, At, Looks, Disclosed, Under
<1>2. /\ stack \in Seq(Frame) /\ kinds \in Seq(Containers) /\ Agrees(kinds, state)
      /\ LeftToRead /\ OpenSoFar /\ pos \in Nat \ {0} /\ input \in Seq(Words)
      /\ pos \in 1..Len(input) /\ Len(input) \in Nat
  BY <1>1, GrammarKnows
<1>3. Len(kinds) = Len(stack) /\ Len(stack) \in Nat /\ Len(stack) <= MaxDepth /\ MaxDepth \in Nat
  BY <1>2, KindsTyped, TapeAssumption DEF ClosesWhatIsOpen, DepthIsBounded
<1> HIDE DEF kinds
<1>4. /\ more \in Seq(Containers) /\ Len(more) = Len(kinds) + 1 /\ more[Len(kinds) + 1] = kind
  BY <1>2, AppendProperties
<1>5. Len(more) = MaxDepth + 1
  BY <1>3, <1>4
<1>6. more # <<>> /\ more[Len(more)] = kind
  <2>1. Len(more) # 0
    BY <1>3, <1>4
  <2> QED
    BY <1>4, <2>1, EmptySeq
<1> HIDE DEF more
<1>7. /\ ends \in Seq(Closings) /\ Len(ends) = MaxDepth + 1
  BY <1>4, <1>5, ClosersTyped
<1>8. Unclosed(Prefix(pos)) = ends
  <2>1. UnclosedAfter(ClosersOf(kinds), input[pos]) = ends
    BY <1>1, <1>2, UnclosedFollows DEF more
  <2>2. Unclosed(Prefix(pos - 1)) = ClosersOf(kinds)
    BY <1>2 DEF OpenSoFar, kinds
  <2> QED
    BY <1>2, <2>1, <2>2, OpenOneMore
<1>9. pos \in 0..Len(input) /\ fill \in Seq(Words) /\ pos + Len(fill) = pos
      /\ \A k \in 1..(pos - 1) : k \in 1..pos
  <2>1. Len(fill) = 0
    OBVIOUS
  <2> QED
    BY <1>2, <2>1, EmptySeq
<1>10. /\ doc \in Seq(Words) /\ Len(doc) \in Nat /\ pos <= Len(doc)
       /\ \A k \in 1..pos : doc[k] = input[k]
  <2>1. LET q == pos + Len(fill)
        IN /\ doc \in Seq(Words) /\ Len(doc) \in Nat /\ q <= Len(doc)
           /\ \A k \in 1..pos : doc[k] = input[k]
    <3> HIDE DEF fill
    <3>1. ends \in Seq(Closings)
      BY <1>7
    <3> HIDE DEF ends
    <3> QED
      BY <1>2, <1>9, <3>1, FilledOut
  <2> QED
    BY <1>9, <2>1
<1>11. ClosesFrom(doc, more, pos)
  <2>1. ClosesFrom(doc, more, pos + Len(fill))
    <3> HIDE DEF fill
    <3> QED
      BY <1>2, <1>4, <1>9, FilledCloses
  <2> QED
    BY <1>9, <2>1
<1>12. IsJson(doc) => BeginsSomeJson(Prefix(pos))
  <2>1. PICK s \in Strings : TRUE
    BY DocumentsAssumption
  <2> QED
    BY <1>8, <2>1 DEF BeginsSomeJson
<1> HIDE DEF doc, fill, ends
<1>13. pos \in 1..Len(doc) /\ doc[pos] = input[pos] /\ pos - 1 <= Len(doc)
       /\ pos + 1 \in Nat \ {0} /\ pos \in Nat /\ (pos + 1) - 1 = pos
  <2>1. pos \in 1..pos
    BY <1>2
  <2> QED
    BY <1>2, <1>10, <2>1
<1>14. FirstOf(kind) \in {"ArrayFirst", "ObjectFirst"} /\ Agrees(more, FirstOf(kind))
       /\ FirstOf(kind) \in States
  BY <1>6 DEF FirstOf, Agrees, Containers, ArrayStates, ObjectStates, States
<1>15. Completes(doc, more, FirstOf(kind), pos + 1)
  <2>1. FirstOf(kind) \in AfterStates \cup {"ArrayFirst", "ObjectFirst"} /\ pos = (pos + 1) - 1
    BY <1>13, <1>14
  <2> QED
    BY <1>4, <1>10, <1>11, <1>13, <1>14, <2>1, SoonComplete
<1>16. Completes(doc, kinds, "Value", pos)
  BY <1>1, <1>2, <1>10, <1>13, <1>15, OpenLeft DEF more
<1>17. BeginsAsRead(doc, pos) /\ InView(doc)
  BY <1>9, <1>10, <1>13 DEF BeginsAsRead, InView
<1>18. IsJson(doc)
  BY <1>1, <1>10, <1>16, <1>17, <1>2 DEF LeftToRead, kinds
<1>19. BeginsSomeJson(Prefix(pos)) /\ Len(Unclosed(Prefix(pos))) = MaxDepth + 1
  BY <1>7, <1>8, <1>12, <1>18
<1> QED
  BY <1>1, <1>2, <1>19 DEF DecidesTheGrammar, OpenSoFar, Prefix

\* Where the parser rejects, some document went on as far as it read, and none goes further.
LEMMA RejectDecides ==
  ASSUME ClosesWhatIsOpen, GrammarTells, Reject
  PROVE  DecidesTheGrammar'
<1>1. /\ outcome = "parsing" /\ pos <= Len(input)
      /\ outcome' = "invalid" /\ input' = input /\ pos' = pos
  BY DEF Reject, At, Looks, Disclosed
<1>2. OpenSoFar /\ input \in Seq(Words) /\ pos \in 1..Len(input) /\ Len(input) \in Nat
  BY <1>1, GrammarKnows
<1>3. BeginsSomeJson(Prefix(pos - 1))
  BY <1>1, BegunSoFar
<1>4. IF input[pos] = EndOfInput THEN ~IsJson(Prefix(pos - 1)) ELSE ~BeginsSomeJson(Prefix(pos))
  <2>1. pos \in 0..Len(input)
    BY <1>2
  <2> QED
    BY <1>2, <2>1, NoneGoesOn, NoneBegins
<1> QED
  BY <1>1, <1>2, <1>3, <1>4 DEF DecidesTheGrammar, OpenSoFar, Prefix

\* Where the parser ends, it read a document.
LEMMA FinishDecides ==
  ASSUME ClosesWhatIsOpen, WalkTells, GrammarTells, Finish
  PROVE  DecidesTheGrammar'
<1> DEFINE kinds == KindsOf(stack)
           m == pos - 1
           doc == Prefix(m)
<1>1. /\ outcome = "parsing" /\ state = "End" /\ pos <= Len(input) /\ input[pos] = EndOfInput
      /\ outcome' = "tape" /\ input' = input /\ pos' = pos
  BY DEF Finish, At, Looks, Disclosed, Under
<1>2. /\ stack \in Seq(Frame) /\ kinds \in Seq(Containers) /\ Agrees(kinds, state)
      /\ LeftToRead /\ OpenSoFar /\ pos \in Nat \ {0} /\ input \in Seq(Words)
      /\ pos \in 1..Len(input) /\ Len(input) \in Nat /\ state \in States
  BY <1>1, GrammarKnows
<1> HIDE DEF kinds
<1>3. pos = Len(input)
  BY <1>1, <1>2 DEF WalkTells, EndIsLast
<1>4. kinds = <<>> /\ Len(kinds) = 0
  <2>1. kinds = <<>>
    BY <1>1, <1>2 DEF Agrees
  <2> QED
    BY <2>1, EmptySeq
<1>5. m \in 0..Len(input) /\ m \in Nat /\ m + 0 = m
  BY <1>2
<1>6. doc \in Seq(Words) /\ Len(doc) = m /\ \A k \in 1..m : doc[k] = input[k]
  BY <1>2, <1>5, PrefixRead
<1>7. doc = SubSeq(input, 1, Len(input) - 1)
  BY <1>3 DEF Prefix
<1> HIDE DEF doc
<1>8. ClosesFrom(doc, kinds, m)
  BY <1>4, <1>5, <1>6 DEF ClosesFrom
<1>9. Completes(doc, kinds, state, pos)
  <2>1. state \in AfterStates \cup {"ArrayFirst", "ObjectFirst"} /\ Len(doc) \in Nat
    BY <1>1, <1>5, <1>6 DEF AfterStates
  <2> QED
    BY <1>2, <1>5, <1>8, <2>1, SoonComplete
<1>10. BeginsAsRead(doc, pos) /\ InView(doc)
  BY <1>1, <1>5, <1>6 DEF BeginsAsRead, InView
<1>11. IsJson(doc)
  BY <1>2, <1>6, <1>9, <1>10 DEF LeftToRead, kinds
<1>12. IsJson(SubSeq(input, 1, Len(input) - 1))
  BY <1>7, <1>11
<1> QED
  BY <1>1, <1>2, <1>12 DEF DecidesTheGrammar, OpenSoFar, Prefix, Document

\* Without the colon behind a key, no document goes on, nor ends there.
LEMMA ColonMissing ==
  ASSUME ClosesWhatIsOpen, GrammarTells, ReadKey, input[pos + 1] # ":"
  PROVE  ~IsJson(Prefix(pos)) /\ NoWayOn(pos + 1)
<1> DEFINE kinds == KindsOf(stack)
<1>1. /\ outcome = "parsing" /\ pos <= Len(input) /\ pos + 1 <= Len(input)
      /\ input[pos] \in Strings
      /\ state \in {"ObjectFirst", "ObjectKey"}
  BY DEF ReadKey, At, Looks, Disclosed, Under, ReadsKey
<1>2. /\ stack \in Seq(Frame) /\ kinds \in Seq(Containers) /\ Agrees(kinds, state)
      /\ LeftToRead /\ pos \in Nat \ {0} /\ pos \in Nat
      /\ input \in Seq(Words) /\ pos \in 1..Len(input) /\ Len(input) \in Nat
      /\ state \in States
  BY <1>1, GrammarKnows
<1> HIDE DEF kinds
<1>3. /\ pos \in 0..Len(input) /\ pos \in 1..pos /\ pos + 1 \in 1..(pos + 1)
      /\ \A k \in 1..(pos - 1) : k \in 1..pos
      /\ \A k \in 1..pos : k \in 1..(pos + 1)
  BY <1>1, <1>2
<1>4. ASSUME NEW doc \in Seq(Words), pos <= Len(doc), \A k \in 1..pos : doc[k] = input[k],
             IsJson(doc)
      PROVE  pos + 2 <= Len(doc) /\ doc[pos + 1] = ":"
  <2>1. Len(doc) \in Nat
    BY LenProperties
  <2>2. pos \in 1..Len(doc) /\ pos - 1 <= Len(doc) /\ doc[pos] = input[pos]
    BY <1>2, <1>3, <1>4, <2>1
  <2>3. BeginsAsRead(doc, pos) /\ InView(doc)
    BY <1>1, <1>3, <1>4, <2>2 DEF BeginsAsRead, InView
  <2>4. Completes(doc, kinds, state, pos)
    BY <1>2, <1>4, <2>3 DEF LeftToRead, kinds
  <2> QED
    BY <1>1, <1>2, <2>1, <2>2, <2>4, ColonExpected
<1>5. ~IsJson(Prefix(pos))
  <2> SUFFICES ASSUME IsJson(Prefix(pos)) PROVE FALSE
    OBVIOUS
  <2>1. /\ Prefix(pos) \in Seq(Words) /\ Len(Prefix(pos)) = pos
        /\ \A k \in 1..pos : Prefix(pos)[k] = input[k]
    BY <1>2, <1>3, PrefixRead
  <2>2. pos + 2 <= pos
    <3>1. pos <= Len(Prefix(pos))
      BY <1>2, <2>1
    <3> QED
      BY <1>4, <2>1, <3>1
  <2> QED
    BY <1>2, <2>2
<1>6. NoWayOn(pos + 1)
  <2> SUFFICES ASSUME NEW doc \in Seq(Words), pos + 1 <= Len(doc),
                      \A k \in 1..(pos + 1) : doc[k] = input[k], IsJson(doc)
               PROVE  FALSE
    BY DEF NoWayOn
  <2>1. pos <= Len(doc)
    <3>1. Len(doc) \in Nat
      BY LenProperties
    <3> QED
      BY <1>2, <3>1
  <2>2. \A k \in 1..pos : doc[k] = input[k]
    BY <1>3
  <2>3. doc[pos + 1] = ":"
    BY <1>4, <2>1, <2>2
  <2>4. doc[pos + 1] = input[pos + 1]
    BY <1>3
  <2> QED
    BY <2>3, <2>4
<1> QED
  BY <1>5, <1>6

\* A key without its colon is where some document goes on, and none goes further.
LEMMA ColonDecides ==
  ASSUME ClosesWhatIsOpen, GrammarTells, ReadKey, input[pos + 1] # ":"
  PROVE  DecidesTheGrammar'
<1> DEFINE kinds == KindsOf(stack)
           ends == ClosersOf(kinds)
<1>1. /\ outcome = "parsing" /\ pos <= Len(input) /\ pos + 1 <= Len(input)
      /\ input[pos] \in Strings
      /\ outcome' = "invalid" /\ input' = input /\ pos' = pos + 1
      /\ state \in {"ObjectFirst", "ObjectKey"}
  BY DEF ReadKey, At, Looks, Disclosed, Under, ReadsKey
<1>2. /\ stack \in Seq(Frame) /\ kinds \in Seq(Containers) /\ Agrees(kinds, state)
      /\ LeftToRead /\ OpenSoFar /\ pos \in Nat \ {0} /\ pos \in Nat
      /\ input \in Seq(Words) /\ pos \in 1..Len(input) /\ Len(input) \in Nat
      /\ state \in States
  BY <1>1, GrammarKnows
<1>3. Len(kinds) = Len(stack) /\ Len(stack) <= MaxDepth
  BY <1>2, KindsTyped DEF ClosesWhatIsOpen, DepthIsBounded
<1> HIDE DEF kinds
<1>4. ends \in Seq(Closings) /\ Len(ends) = Len(kinds)
  BY <1>2, ClosersTyped
<1>5. Unclosed(Prefix(pos)) = ends
  <2>1. UnclosedAfter(ClosersOf(kinds), input[pos]) = ends
    BY <1>1, <1>2, UnclosedFollows
  <2>2. Unclosed(Prefix(pos - 1)) = ClosersOf(kinds)
    BY <1>2 DEF OpenSoFar, kinds
  <2> QED
    BY <1>2, <2>1, <2>2, OpenOneMore
<1>6. /\ pos' - 1 = pos /\ pos \in 0..Len(input) /\ pos + 1 \in 0..Len(input)
      /\ pos \in 1..pos /\ pos + 1 \in 1..(pos + 1) /\ pos \in 1..(pos + 1)
      /\ \A k \in 1..(pos - 1) : k \in 1..pos /\ k \in 1..(pos + 1)
      /\ \A k \in 1..pos : k = pos \/ k \in 1..(pos - 1)
  BY <1>1, <1>2
<1>7. \A k \in 1..pos : Len(Unclosed(Prefix(k))) <= MaxDepth
  BY <1>2, <1>3, <1>4, <1>5, <1>6 DEF OpenSoFar
<1>8. BeginsSomeJson(Prefix(pos))
  <2>0. PICK s \in Strings : TRUE
    BY DocumentsAssumption
  <2> DEFINE fill == <<":", s>>
             doc == Prefix(pos) \o fill \o ends
  <2>1. fill \in Seq(Words) /\ Len(fill) = 2 /\ fill[1] = ":" /\ fill[2] = s
    BY FillWords
  <2>2. IsJson(doc) => BeginsSomeJson(Prefix(pos))
    BY <1>5 DEF BeginsSomeJson
  <2> HIDE DEF fill
  <2>3. ClosesFrom(doc, kinds, pos + Len(fill))
    BY <1>2, <1>6, <2>1, FilledCloses
  <2> HIDE DEF ends
  <2>4. /\ doc \in Seq(Words) /\ Len(doc) \in Nat /\ pos + Len(fill) <= Len(doc)
        /\ \A k \in 1..pos : doc[k] = input[k]
        /\ \A k \in 1..Len(fill) : doc[pos + k] = fill[k]
    <3>1. /\ fill \in Seq(Words) /\ ends \in Seq(Closings)
          /\ input \in Seq(Words) /\ pos \in 0..Len(input)
      BY <1>2, <1>4, <1>6, <2>1
    <3>2. LET q == pos + Len(fill)
          IN /\ doc \in Seq(Words) /\ Len(doc) \in Nat /\ q <= Len(doc)
             /\ \A k \in 1..pos : doc[k] = input[k]
             /\ \A k \in 1..Len(fill) : doc[pos + k] = fill[k]
      BY ONLY <3>1, FilledOut
    <3> QED
      BY <3>2
  <2> HIDE DEF doc
  <2>5. /\ pos + 2 <= Len(doc) /\ pos + 2 \in Nat /\ pos - 1 <= Len(doc)
        /\ doc[pos] = input[pos] /\ doc[pos + 1] = ":" /\ doc[pos + 2] = s
    <3>1. 1 \in 1..Len(fill) /\ 2 \in 1..Len(fill) /\ pos + Len(fill) = pos + 2
      BY <2>1
    <3>2. pos + 2 <= Len(doc) /\ doc[pos] = input[pos]
      BY <1>6, <2>4, <3>1
    <3>3. doc[pos + 1] = ":" /\ doc[pos + 2] = s
      BY <2>1, <2>4, <3>1
    <3>4. pos - 1 <= Len(doc)
      BY <1>2, <2>4, <3>2
    <3> QED
      BY <1>2, <3>2, <3>3, <3>4
  <2>6. ClosesFrom(doc, kinds, pos + 2)
    BY <2>1, <2>3
  <2>7. Completes(doc, kinds, state, pos)
    <3>1. /\ state \in {"ObjectFirst", "ObjectKey"} /\ pos + 2 = pos + 2
          /\ doc[pos] \in Strings /\ doc[pos + 1] = ":" /\ doc[pos + 2] \in Strings
      BY <1>1, <2>5
    <3> QED
      BY <1>2, <2>4, <2>5, <2>6, <3>1, SoonComplete
  <2>8. BeginsAsRead(doc, pos) /\ InView(doc)
    BY <1>1, <1>6, <2>4, <2>5 DEF BeginsAsRead, InView
  <2>9. IsJson(doc)
    BY <1>2, <2>4, <2>7, <2>8 DEF LeftToRead, kinds
  <2> QED
    BY <2>2, <2>9
<1>9. ~IsJson(Prefix(pos))
  BY ColonMissing
<1>10. ~BeginsSomeJson(Prefix(pos + 1))
  BY <1>2, <1>6, ColonMissing, NoneBegins
<1>11. /\ BeginsSomeJson(SubSeq(input', 1, pos' - 1))
       /\ ~IsJson(SubSeq(input', 1, pos' - 1))
       /\ ~BeginsSomeJson(SubSeq(input', 1, pos'))
       /\ \A k \in 1..(pos' - 1) : Len(Unclosed(SubSeq(input', 1, k))) <= MaxDepth
  BY <1>1, <1>6, <1>7, <1>8, <1>9, <1>10 DEF Prefix
<1> QED
  BY <1>1, <1>11 DEF DecidesTheGrammar, Prefix

\* The two containers the parser opens.
LEMMA NextOpens ==
  OpenContainer("{", "object", "ObjectFirst") \/ OpenContainer("[", "array", "ArrayFirst")
    => \E kind \in Containers : OpenContainer(Opener(kind), kind, FirstOf(kind))
<1>1. /\ "object" \in Containers /\ Opener("object") = "{" /\ FirstOf("object") = "ObjectFirst"
      /\ "array" \in Containers /\ Opener("array") = "[" /\ FirstOf("array") = "ArrayFirst"
  BY DEF Containers, Opener, FirstOf
<1>2. ASSUME OpenContainer("{", "object", "ObjectFirst")
      PROVE  OpenContainer(Opener("object"), "object", FirstOf("object"))
  BY <1>1, <1>2, Zenon
<1>3. ASSUME OpenContainer("[", "array", "ArrayFirst")
      PROVE  OpenContainer(Opener("array"), "array", FirstOf("array"))
  BY <1>1, <1>3, Zenon
<1> QED
  BY <1>1, <1>2, <1>3

\* Every step keeps the rest of the input that the grammar leaves.
LEMMA GrammarStepTells ==
  ClosesWhatIsOpen /\ WalkTells /\ GrammarTells /\ [Next]_vars => GrammarTells'
<1> SUFFICES ASSUME ClosesWhatIsOpen, WalkTells, GrammarTells, [Next]_vars PROVE GrammarTells'
  OBVIOUS
<1>0. ClosesWhatIsOpen'
  BY EveryStepKeeps
<1>1. CASE Disclose
  BY <1>1, DiscloseGrammar
<1>2. CASE \E kind \in Containers : OpenContainer(Opener(kind), kind, FirstOf(kind))
  <2>1. PICK kind \in Containers : OpenContainer(Opener(kind), kind, FirstOf(kind))
    BY <1>2
  <2>2. CASE Len(stack) + 1 > MaxDepth
    BY <2>1, <2>2 DEF OpenContainer, GrammarTells
  <2>3. CASE ~(Len(stack) + 1 > MaxDepth)
    BY <1>0, <2>1, <2>3, OpenGrammar
  <2> QED
    BY <2>2, <2>3
<1>3. CASE ReadScalar
  BY <1>0, <1>3, ScalarGrammar
<1>4. CASE CloseContainer
  BY <1>0, <1>4, CloseGrammar
<1>5. CASE FirstElement
  BY <1>5, FirstElementGrammar
<1>6. CASE NextElement \/ NextMember
  BY <1>0, <1>6, CommaGrammar
<1>7. CASE ReadKey
  <2>1. CASE input[pos + 1] = ":"
    BY <1>0, <1>7, <2>1, KeyGrammar
  <2>2. CASE input[pos + 1] # ":"
    BY <1>7, <2>2 DEF ReadKey, GrammarTells
  <2> QED
    BY <2>1, <2>2
<1>8. CASE Reject \/ Finish
  BY <1>8 DEF Reject, Finish, GrammarTells
<1>9. CASE UNCHANGED vars
  <2>1. UNCHANGED <<input, pos, state, stack, outcome>>
    BY <1>9 DEF vars
  <2> QED
    BY <2>1 DEF GrammarTells, LeftToRead, OpenSoFar, BeginsAsRead, InView, Prefix
<1> QED
  BY <1>1, <1>2, <1>3, <1>4, <1>5, <1>6, <1>7, <1>8, <1>9, NextOpens DEF Next

\* What the parser decides, it decides at the step that ends it.
LEMMA GrammarDecided ==
  ClosesWhatIsOpen /\ WalkTells /\ GrammarTells /\ DecidesTheGrammar /\ [Next]_vars
    => DecidesTheGrammar'
<1> SUFFICES ASSUME ClosesWhatIsOpen, WalkTells, GrammarTells, DecidesTheGrammar, [Next]_vars
             PROVE  DecidesTheGrammar'
  OBVIOUS
<1>1. CASE outcome' = "parsing"
  BY <1>1 DEF DecidesTheGrammar
<1>2. CASE \E kind \in Containers : OpenContainer(Opener(kind), kind, FirstOf(kind))
  <2>1. PICK kind \in Containers : OpenContainer(Opener(kind), kind, FirstOf(kind))
    BY <1>2
  <2>2. CASE Len(stack) + 1 > MaxDepth
    BY <2>1, <2>2, TooDeepDecides
  <2>3. CASE ~(Len(stack) + 1 > MaxDepth)
    BY <1>1, <2>1, <2>3 DEF OpenContainer, At
  <2> QED
    BY <2>2, <2>3
<1>3. CASE Disclose \/ ReadScalar \/ CloseContainer \/ FirstElement \/ NextElement \/ NextMember
  BY <1>1, <1>3
     DEF Disclose, ReadScalar, CloseContainer, FirstElement, NextElement, NextMember, At
<1>4. CASE ReadKey
  <2>1. CASE input[pos + 1] = ":"
    BY <1>1, <1>4, <2>1 DEF ReadKey, At
  <2>2. CASE input[pos + 1] # ":"
    BY <1>4, <2>2, ColonDecides
  <2> QED
    BY <2>1, <2>2
<1>5. CASE Reject
  BY <1>5, RejectDecides
<1>6. CASE Finish
  BY <1>6, FinishDecides
<1>7. CASE UNCHANGED vars
  <2>1. UNCHANGED <<input, pos, outcome>>
    BY <1>7 DEF vars
  <2> QED
    BY <2>1 DEF DecidesTheGrammar, Prefix, Document
<1> QED
  BY <1>2, <1>3, <1>4, <1>5, <1>6, <1>7, NextOpens DEF Next

\* parse decides the JSON grammar (tape.rs:161-194), for every set of lexemes and every depth
\* limit: it returns a tape for the documents of the grammar and no others, rejects at the
\* first token no document could have there, and refuses the first container too deep.
THEOREM TheParserDecidesTheGrammar == Spec => []DecidesTheGrammar
<1> DEFINE Inv == ClosesWhatIsOpen /\ WalkTells /\ GrammarTells /\ DecidesTheGrammar
<1>1. Init => Inv
  <2>1. Init => DecidesTheGrammar
    BY DEF Init, DecidesTheGrammar
  <2> QED
    BY <2>1, AtFirst, WalkAtFirst, GrammarAtFirst
<1>2. Inv /\ [Next]_vars => Inv'
  BY EveryStepKeeps, WalkStepTells, GrammarStepTells, GrammarDecided
<1>3. Inv => DecidesTheGrammar
  OBVIOUS
<1> QED
  BY <1>1, <1>2, <1>3, PTL DEF Spec

\* No document is rejected: none begins with what was read and the token it was rejected at.
NoDocumentIsRejected ==
  outcome = "invalid" =>
    \A doc \in Seq(Token) :
      IsJson(doc) =>
        ~ /\ pos <= Len(doc) + 1
          /\ \A k \in 1..pos : input[k] = IF k <= Len(doc) THEN doc[k] ELSE EndOfInput

\* Rejecting a token, no way goes on from it.
RejectedAtOnce ==
  outcome = "invalid" =>
    /\ pos \in 1..Len(input)
    /\ IF input[pos] = EndOfInput THEN ~IsJson(Prefix(pos - 1)) ELSE NoWayOn(pos)

\* Every step keeps what is known of a rejected token.
LEMMA GrammarRejected ==
  ClosesWhatIsOpen /\ GrammarTells /\ RejectedAtOnce /\ [Next]_vars => RejectedAtOnce'
<1> SUFFICES ASSUME ClosesWhatIsOpen, GrammarTells, RejectedAtOnce, [Next]_vars
             PROVE  RejectedAtOnce'
  OBVIOUS
<1>1. CASE outcome' # "invalid"
  BY <1>1 DEF RejectedAtOnce
<1>2. CASE \E kind \in Containers : OpenContainer(Opener(kind), kind, FirstOf(kind))
  BY <1>1, <1>2 DEF OpenContainer, At
<1>3. CASE Disclose \/ ReadScalar \/ CloseContainer \/ FirstElement \/ NextElement \/ NextMember
           \/ Finish
  BY <1>1, <1>3
     DEF Disclose, ReadScalar, CloseContainer, FirstElement, NextElement, NextMember, Finish, At
<1>4. CASE ReadKey
  <2>1. CASE input[pos + 1] = ":"
    BY <1>1, <1>4, <2>1 DEF ReadKey, At
  <2>2. CASE input[pos + 1] # ":"
    <3>1. outcome = "parsing" /\ pos + 1 <= Len(input) /\ input' = input /\ pos' = pos + 1
      BY <1>4, <2>2 DEF ReadKey, At, Looks, Disclosed, ReadsKey, Under
    <3>2. pos \in Nat /\ Len(input) \in Nat
      BY <3>1, GrammarKnows
    <3>3. pos' \in 1..Len(input') /\ pos' - 1 = pos
      BY <3>1, <3>2
    <3>4. ~IsJson(Prefix(pos)) /\ NoWayOn(pos + 1)
      BY <1>4, <2>2, ColonMissing
    <3> QED
      BY <3>1, <3>3, <3>4 DEF RejectedAtOnce, NoWayOn, Prefix
  <2> QED
    BY <2>1, <2>2
<1>5. CASE Reject
  <2>1. outcome = "parsing" /\ pos <= Len(input) /\ input' = input /\ pos' = pos
    BY <1>5 DEF Reject, At, Looks, Disclosed
  <2>2. pos \in 1..Len(input)
    BY <2>1, GrammarKnows
  <2>3. IF input[pos] = EndOfInput THEN ~IsJson(Prefix(pos - 1)) ELSE NoWayOn(pos)
    BY <1>5, NoneGoesOn
  <2> QED
    BY <2>1, <2>2, <2>3 DEF RejectedAtOnce, NoWayOn, Prefix
<1>6. CASE UNCHANGED vars
  BY <1>6 DEF vars, RejectedAtOnce, NoWayOn, Prefix
<1> QED
  BY <1>2, <1>3, <1>4, <1>5, <1>6, NextOpens DEF Next

\* No document that begins as read fits what was rejected.
LEMMA RejectedIsNone ==
  ASSUME ClosesWhatIsOpen, RejectedAtOnce
  PROVE  NoDocumentIsRejected
<1> SUFFICES ASSUME outcome = "invalid", NEW doc \in Seq(Token), IsJson(doc),
                    pos <= Len(doc) + 1,
                    \A k \in 1..pos : input[k] = IF k <= Len(doc) THEN doc[k] ELSE EndOfInput
             PROVE  FALSE
  BY DEF NoDocumentIsRejected
<1>1. /\ pos \in 1..Len(input)
      /\ IF input[pos] = EndOfInput THEN ~IsJson(Prefix(pos - 1)) ELSE NoWayOn(pos)
  BY DEF RejectedAtOnce
<1>2. input \in Seq(Words) /\ Len(input) \in Nat /\ Len(doc) \in Nat /\ pos \in Nat \ {0}
  BY <1>1, TypesHold, LenProperties
<1>3. doc \in Seq(Words) /\ \A k \in 1..Len(doc) : doc[k] \in Token
  <2>1. Token \subseteq Words
    BY DEF Words
  <2> QED
    BY <2>1, SeqMonotonic, ElementOfSeq
<1>4. CASE pos <= Len(doc)
  <2>1. \A k \in 1..pos : k <= Len(doc)
    BY <1>2, <1>4
  <2>2. \A k \in 1..pos : doc[k] = input[k]
    BY <2>1
  <2>3. pos \in 1..pos /\ pos \in 1..Len(doc)
    BY <1>2, <1>4
  <2>4. input[pos] # EndOfInput
    BY <1>3, <2>2, <2>3, TapeAssumption
  <2> QED
    BY <1>1, <1>3, <1>4, <2>2, <2>4 DEF NoWayOn
<1>5. CASE ~(pos <= Len(doc))
  <2>1. pos - 1 = Len(doc) /\ pos \in 1..pos /\ Len(doc) \in 0..Len(input)
        /\ \A k \in 1..Len(doc) : k \in 1..pos /\ k <= Len(doc)
    BY <1>1, <1>2, <1>5
  <2>2. input[pos] = EndOfInput
    BY <1>5, <2>1
  <2>3. /\ Prefix(Len(doc)) \in Seq(Words) /\ Len(Prefix(Len(doc))) = Len(doc)
        /\ \A k \in 1..Len(doc) : Prefix(Len(doc))[k] = input[k]
    BY <1>2, <2>1, PrefixRead
  <2>4. \A k \in 1..Len(doc) : Prefix(Len(doc))[k] = doc[k]
    BY <2>1, <2>3
  <2>5. Prefix(Len(doc)) = doc
    BY <1>3, <2>3, <2>4, SeqEqual
  <2> QED
    BY <1>1, <2>1, <2>2, <2>5
<1> QED
  BY <1>4, <1>5

\* Nothing that is JSON is refused but for its depth: where parse rejects (tape.rs:161-194),
\* no document begins with what it read and the token it rejects, the end of the input taken
\* for the one behind a document's last.
THEOREM TheParserRejectsNoDocument == Spec => []NoDocumentIsRejected
<1> DEFINE Inv == ClosesWhatIsOpen /\ WalkTells /\ GrammarTells /\ RejectedAtOnce
<1>1. Init => Inv
  <2>1. Init => RejectedAtOnce
    BY DEF Init, RejectedAtOnce
  <2> QED
    BY <2>1, AtFirst, WalkAtFirst, GrammarAtFirst
<1>2. Inv /\ [Next]_vars => Inv'
  BY EveryStepKeeps, WalkStepTells, GrammarStepTells, GrammarRejected
<1>3. Inv => NoDocumentIsRejected
  BY RejectedIsNone
<1> QED
  BY <1>1, <1>2, <1>3, PTL DEF Spec
=============================================================================
