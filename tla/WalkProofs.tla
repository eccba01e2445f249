----------------------------- MODULE WalkProofs -----------------------------
(***************************************************************************)
(* Proofs about the walk, for every schema, value, bound and list.         *)
(***************************************************************************)
EXTENDS Walk, SequenceTheorems, TLAPS

-----------------------------------------------------------------------------
(* What the steps share does to the stack.                                 *)

Rows == [kind : NodeKinds, kids : Seq(Node), tail : Node \cup {NoNode}, def : Def,
         admits : SUBSET Value, raises : SUBSET Value, kills : SUBSET Value]
MemoWords == [entered : Nat, used : BOOLEAN, armed : BOOLEAN]

(* A call's first frame is a frame. *)
LEMMA StartIsAFrame ==
    ASSUME NEW n \in Node, NEW v \in Value, NEW m \in Mode
    PROVE  /\ Start(n, v, m) \in Frame
           /\ Start(n, v, m).pc = "start"
           /\ Start(n, v, m).arming = FALSE
           /\ Start(n, v, m).node = n
  BY DEF Start, Frame, Mode, RoomOf, Stop, None, Unread

(* The frame on top is one, of a node of the table. *)
LEMMA TopIsAFrame ==
    ASSUME stack \in Seq(Frame), stack # <<>>
    PROVE  /\ Len(stack) \in DOMAIN stack /\ Len(stack) \in Nat \ {0}
           /\ Top \in Frame
           /\ Top.node \in Node /\ Top.val \in Value /\ Top.mode \in Mode
           /\ TopNode \in Rows /\ TopKey \in Key
  <1>1. Len(stack) \in DOMAIN stack /\ Len(stack) \in Nat \ {0}
    OBVIOUS
  <1>2. Top \in Frame
    BY <1>1 DEF Top
  <1>3. Top.node \in Node /\ Top.val \in Value /\ Top.mode \in Mode
    BY <1>2 DEF Frame
  <1>4. TopNode \in Rows
    BY <1>3, SchemaIsATable DEF TopNode, Rows
  <1>5. TopKey \in Key
    BY <1>3, <1>4 DEF TopKey, Key, Rows
  <1>6. QED BY <1>1, <1>2, <1>3, <1>4, <1>5

(* A call puts one frame above the top one. *)
LEMMA CallFrames ==
    ASSUME NEW g \in Frame, NEW n \in Node, NEW v \in Value, NEW m \in Mode,
           stack \in Seq(Frame), stack # <<>>,
           stack' = Append([stack EXCEPT ![Len(stack)] = g], Start(n, v, m))
    PROVE  /\ stack' \in Seq(Frame)
           /\ Len(stack') = Len(stack) + 1
           /\ \A i \in 1 .. Len(stack) - 1 : stack'[i] = stack[i]
           /\ stack'[Len(stack)] = g
           /\ stack'[Len(stack) + 1] = Start(n, v, m)
  <1>1. Start(n, v, m) \in Frame
    BY StartIsAFrame
  <1> DEFINE under == [stack EXCEPT ![Len(stack)] = g]
  <1>2. under \in Seq(Frame) /\ Len(under) = Len(stack)
          /\ under[Len(stack)] = g /\ \A i \in 1 .. Len(stack) - 1 : under[i] = stack[i]
    OBVIOUS
  <1> HIDE DEF under
  <1>3. stack' = Append(under, Start(n, v, m))
    BY DEF under
  <1>4. /\ stack' \in Seq(Frame) /\ Len(stack') = Len(stack) + 1
        /\ \A i \in 1 .. Len(stack) : stack'[i] = under[i]
        /\ stack'[Len(stack) + 1] = Start(n, v, m)
    BY <1>1, <1>2, <1>3
  <1>5. QED BY <1>2, <1>4

(* What is left of a sequence without its last element. *)
LEMMA FrontOfSeq ==
    ASSUME NEW S, NEW s \in Seq(S), s # <<>>
    PROVE  /\ SubSeq(s, 1, Len(s) - 1) \in Seq(S)
           /\ Len(SubSeq(s, 1, Len(s) - 1)) = Len(s) - 1
           /\ \A i \in 1 .. Len(s) - 1 : SubSeq(s, 1, Len(s) - 1)[i] = s[i]
  <1> DEFINE n == Len(s) - 1
  <1>1. n \in Nat /\ 1 \in Int
    OBVIOUS
  <1>2. \A i \in 1 .. n : s[i] \in S
    BY <1>1
  <1> HIDE DEF n
  <1>3. /\ SubSeq(s, 1, n) \in Seq(S)
        /\ Len(SubSeq(s, 1, n)) = IF 1 <= n THEN n - 1 + 1 ELSE 0
        /\ \A i \in 1 .. n - 1 + 1 : SubSeq(s, 1, n)[i] = s[1 + i - 1]
    BY <1>1, <1>2, SubSeqProperties
  <1>4. Len(SubSeq(s, 1, n)) = n
    BY <1>1, <1>3
  <1>5. \A i \in 1 .. n : SubSeq(s, 1, n)[i] = s[i]
    BY <1>1, <1>3
  <1>6. QED
    BY <1>3, <1>4, <1>5 DEF n

(* A return takes the top frame off. *)
LEMMA PopFrames ==
    ASSUME stack \in Seq(Frame), stack # <<>>, stack' = Pop
    PROVE  /\ stack' \in Seq(Frame)
           /\ Len(stack') = Len(stack) - 1
           /\ \A i \in 1 .. Len(stack) - 1 : stack'[i] = stack[i]
  BY FrontOfSeq DEF Pop

(* A step of the top frame's own replaces it. *)
LEMMA BecomeFrames ==
    ASSUME NEW f \in Frame, stack \in Seq(Frame), stack # <<>>, Become(f)
    PROVE  /\ stack' \in Seq(Frame)
           /\ Len(stack') = Len(stack)
           /\ \A i \in 1 .. Len(stack) - 1 : stack'[i] = stack[i]
           /\ stack'[Len(stack)] = f
           /\ ret' = "none"
  BY DEF Become

-----------------------------------------------------------------------------
(* The stack and its levels, through each of those.                        *)

ScansRead ==
    \A i \in DOMAIN stack :
       Schema[stack[i].node].kind = "seq" /\ stack[i].pc # "start"
         => stack[i].val \in Lists /\ HasArity(stack[i].node, stack[i].count)

StackOK == /\ stack \in Seq(Frame)
           /\ ret \in Reply \cup {"none"}
           /\ depth \in Nat
           /\ ScansRead
           /\ LevelsOpen

RestOK == /\ defs \in [Def -> Node]
          /\ asked \in [node : Node, val : Value]
          /\ plan \in [remembered : SUBSET Def, shared : SUBSET Node]
          /\ heap \in [Lists -> Contents]
          /\ writes \in 0 .. MaxWrites
          /\ trail \in Seq(Key)
          /\ stopped \in Stop
          /\ fatal \in BOOLEAN
          /\ moves \in Nat
          /\ memo \in MemoWords
          /\ decided \in [Key -> Entry]
          /\ settled \in [Key -> Entry]

LEMMA TypeOKParts == StackOK /\ RestOK <=> TypeOK /\ LevelsOpen
  BY DEF StackOK, RestOK, TypeOK, ScansRead, MemoWords

(* A call that opened no level returns. *)
LEMMA AnswerKeeps ==
    ASSUME StackOK, Calling, Top.pc = "start", NEW r \in Reply, AnswerAt(r)
    PROVE  StackOK'
  <1>1. stack \in Seq(Frame) /\ stack # <<>> /\ stack' = Pop /\ ret' = r /\ depth' = depth
    BY DEF StackOK, Calling, AnswerAt
  <1>2. /\ stack' \in Seq(Frame) /\ Len(stack') = Len(stack) - 1
        /\ \A i \in 1 .. Len(stack) - 1 : stack'[i] = stack[i]
    BY <1>1, PopFrames
  <1>3. Len(stack) \in Nat \ {0} /\ Len(stack') \in Nat
    BY <1>1, <1>2
  <1>4. \A i \in DOMAIN stack' : i \in DOMAIN stack /\ stack'[i] = stack[i] /\ i < Len(stack)
    BY <1>1, <1>2, <1>3
  <1>5. ScansRead'
    BY <1>4 DEF StackOK, ScansRead, HasArity
  <1>6. \A i \in DOMAIN stack' : stack'[i].pc # "start"
    BY <1>4 DEF StackOK, LevelsOpen
  <1>7. depth = Len(stack) - 1 /\ depth <= MaxWalkDepth /\ depth \in Nat
    BY <1>1 DEF StackOK, LevelsOpen
  <1>8. stack' # <<>> => Top'.pc # "start"
    <2>1. stack' # <<>> => Len(stack') \in DOMAIN stack'
      BY <1>2
    <2>2. QED BY <1>6, <2>1 DEF Top
  <1>9. LevelsOpen'
    BY <1>1, <1>2, <1>6, <1>7, <1>8 DEF LevelsOpen
  <1>10. QED BY <1>1, <1>2, <1>5, <1>7, <1>9 DEF StackOK, Reply

(* A call that opened a level closes it and returns. *)
LEMMA CloseKeeps ==
    ASSUME StackOK, stack # <<>>, Top.pc # "start", NEW r \in Reply, Close(r)
    PROVE  StackOK'
  <1>1. stack \in Seq(Frame) /\ stack' = Pop /\ ret' = r /\ depth' = depth - 1
    BY DEF StackOK, Close
  <1>2. /\ stack' \in Seq(Frame) /\ Len(stack') = Len(stack) - 1
        /\ \A i \in 1 .. Len(stack) - 1 : stack'[i] = stack[i]
    BY <1>1, PopFrames
  <1>3. Len(stack) \in Nat \ {0} /\ Len(stack') \in Nat
    BY <1>1, <1>2
  <1>4. \A i \in DOMAIN stack' : i \in DOMAIN stack /\ stack'[i] = stack[i] /\ i < Len(stack)
    BY <1>1, <1>2, <1>3
  <1>5. ScansRead'
    BY <1>4 DEF StackOK, ScansRead, HasArity
  <1>6. \A i \in DOMAIN stack' : stack'[i].pc # "start"
    BY <1>4 DEF StackOK, LevelsOpen
  <1>7. depth = Len(stack) /\ depth <= MaxWalkDepth /\ depth \in Nat
    BY <1>1 DEF StackOK, LevelsOpen
  <1>8. stack' # <<>> => Top'.pc # "start"
    <2>1. stack' # <<>> => Len(stack') \in DOMAIN stack'
      BY <1>2
    <2>2. QED BY <1>6, <2>1 DEF Top
  <1>9. LevelsOpen'
    BY <1>1, <1>2, <1>3, <1>6, <1>7, <1>8, BoundsAreNats DEF LevelsOpen
  <1>10. QED BY <1>1, <1>2, <1>3, <1>5, <1>7, <1>9 DEF StackOK, Reply

(* A call opens its level and stays on the stack. *)
LEMMA OpenKeeps ==
    ASSUME StackOK, Calling, Top.pc = "start", depth < MaxWalkDepth,
           NEW f \in Frame, f.node = Top.node,
           Schema[f.node].kind = "seq" => f.val \in Lists /\ HasArity(f.node, f.count),
           Open(f)
    PROVE  StackOK'
  <1> DEFINE g == [f EXCEPT !.pc = "open"]
  <1>1. g \in Frame /\ g.node = f.node /\ g.val = f.val /\ g.count = f.count /\ g.pc = "open"
    BY DEF Frame
  <1>2. stack \in Seq(Frame) /\ stack # <<>> /\ Become(g) /\ depth' = depth + 1
    BY DEF StackOK, Calling, Open
  <1> HIDE DEF g
  <1>3. /\ stack' \in Seq(Frame) /\ Len(stack') = Len(stack) /\ ret' = "none"
        /\ \A i \in 1 .. Len(stack) - 1 : stack'[i] = stack[i]
        /\ stack'[Len(stack)] = g
    BY <1>1, <1>2, BecomeFrames
  <1>4. Len(stack) \in Nat \ {0}
    BY <1>2
  <1>5. \A i \in DOMAIN stack' :
           \/ i = Len(stack) /\ stack'[i] = g
           \/ i \in DOMAIN stack /\ i < Len(stack) /\ stack'[i] = stack[i]
    BY <1>2, <1>3, <1>4
  <1>6. ScansRead'
    <2> SUFFICES ASSUME NEW i \in DOMAIN stack', Schema[stack'[i].node].kind = "seq",
                        stack'[i].pc # "start"
                 PROVE  stack'[i].val \in Lists /\ HasArity(stack'[i].node, stack'[i].count)
      BY DEF ScansRead, HasArity
    <2>1. CASE i = Len(stack) /\ stack'[i] = g
      BY <2>1, <1>1
    <2>2. CASE i \in DOMAIN stack /\ stack'[i] = stack[i]
      BY <2>2 DEF StackOK, ScansRead
    <2>3. QED BY <1>5, <2>1, <2>2
  <1>7. \A i \in DOMAIN stack' : stack'[i].pc # "start"
    BY <1>1, <1>5 DEF StackOK, LevelsOpen
  <1>8. depth = Len(stack) - 1 /\ depth \in Nat
    BY <1>2 DEF StackOK, LevelsOpen, Calling
  <1>9. Top'.pc # "start" /\ stack' # <<>>
    BY <1>3, <1>4, <1>7 DEF Top
  <1>10. LevelsOpen'
    BY <1>2, <1>3, <1>4, <1>7, <1>8, <1>9, BoundsAreNats DEF LevelsOpen
  <1>11. QED BY <1>2, <1>3, <1>6, <1>8, <1>10 DEF StackOK

(* A frame past its prologue takes a step of its own. *)
LEMMA BecomeKeeps ==
    ASSUME StackOK, stack # <<>>, Top.pc # "start",
           NEW f \in Frame, f.node = Top.node, f.val = Top.val, f.count = Top.count, f.pc = Top.pc,
           Become(f), depth' = depth
    PROVE  StackOK'
  <1>1. stack \in Seq(Frame) /\ Top = stack[Len(stack)]
    BY DEF StackOK, Top
  <1>2. /\ stack' \in Seq(Frame) /\ Len(stack') = Len(stack) /\ ret' = "none"
        /\ \A i \in 1 .. Len(stack) - 1 : stack'[i] = stack[i]
        /\ stack'[Len(stack)] = f
    BY <1>1, BecomeFrames
  <1>3. Len(stack) \in DOMAIN stack /\ Len(stack) \in Nat \ {0}
    BY <1>1
  <1>4. \A i \in DOMAIN stack' :
           /\ i \in DOMAIN stack
           /\ stack'[i].node = stack[i].node /\ stack'[i].val = stack[i].val
           /\ stack'[i].count = stack[i].count /\ stack'[i].pc = stack[i].pc
    BY <1>1, <1>2, <1>3
  <1>5. ScansRead'
    BY <1>4 DEF StackOK, ScansRead, HasArity
  <1>6. \A i \in DOMAIN stack : stack[i].pc # "start"
    BY <1>1, <1>3 DEF StackOK, LevelsOpen
  <1>7. \A i \in DOMAIN stack' : stack'[i].pc # "start"
    BY <1>4, <1>6
  <1>8. stack' # <<>> /\ Top'.pc # "start"
    BY <1>2, <1>3, <1>7 DEF Top
  <1>9. LevelsOpen'
    BY <1>2, <1>7, <1>8 DEF StackOK, LevelsOpen
  <1>10. QED BY <1>2, <1>5, <1>9 DEF StackOK

(* A frame past its prologue calls `member`. *)
LEMMA CallKeeps ==
    ASSUME StackOK, stack # <<>>, Top.pc # "start", memo \in MemoWords,
           NEW f \in Frame, f.node = Top.node, f.val = Top.val, f.count = Top.count, f.pc # "start",
           NEW n \in Node, NEW v \in Value, NEW m \in Mode, NEW armed \in BOOLEAN,
           Call(f, n, v, m, armed)
    PROVE  StackOK' /\ memo' \in MemoWords
  <1> DEFINE g == [f EXCEPT !.arming = armed, !.outer = memo.armed]
  <1>1. stack \in Seq(Frame) /\ Top = stack[Len(stack)]
    BY DEF StackOK, Top
  <1>a. g \in Frame
    BY DEF Frame, MemoWords
  <1>b. /\ stack' = Append([stack EXCEPT ![Len(stack)] = g], Start(n, v, m))
        /\ memo' \in MemoWords /\ ret' = "none" /\ depth' = depth
    BY DEF Call, MemoWords
  <1>2. /\ stack' \in Seq(Frame) /\ Len(stack') = Len(stack) + 1
        /\ \A i \in 1 .. Len(stack) - 1 : stack'[i] = stack[i]
        /\ stack'[Len(stack)] = g
        /\ stack'[Len(stack) + 1] = Start(n, v, m)
    <2> HIDE DEF g
    <2> QED BY <1>1, <1>a, <1>b, CallFrames
  <1>3. g.node = Top.node /\ g.val = Top.val /\ g.count = Top.count /\ g.pc # "start"
    BY DEF Frame
  <1> HIDE DEF g
  <1>4. Len(stack) \in DOMAIN stack /\ Len(stack) \in Nat \ {0}
    BY <1>1
  <1>5. Start(n, v, m).pc = "start"
    BY StartIsAFrame
  <1>6. \A i \in DOMAIN stack :
           /\ stack'[i].node = stack[i].node /\ stack'[i].val = stack[i].val
           /\ stack'[i].count = stack[i].count /\ stack'[i].pc # "start" /\ stack[i].pc # "start"
    BY <1>1, <1>2, <1>3, <1>4 DEF StackOK, LevelsOpen
  <1>7. \A i \in DOMAIN stack' : i \in DOMAIN stack \/ i = Len(stack) + 1
    BY <1>2, <1>4
  <1>8. ScansRead'
    <2> SUFFICES ASSUME NEW i \in DOMAIN stack', Schema[stack'[i].node].kind = "seq",
                        stack'[i].pc # "start"
                 PROVE  stack'[i].val \in Lists /\ HasArity(stack'[i].node, stack'[i].count)
      BY DEF ScansRead, HasArity
    <2>1. i \in DOMAIN stack
      BY <1>2, <1>5, <1>7
    <2>2. QED BY <2>1, <1>6 DEF StackOK, ScansRead
  <1>9. stack' # <<>> /\ Top' = Start(n, v, m)
    BY <1>2, <1>4 DEF Top
  <1>10. LevelsOpen'
    BY <1>2, <1>4, <1>5, <1>6, <1>7, <1>9, <1>b DEF StackOK, LevelsOpen
  <1>11. QED BY <1>2, <1>b, <1>8, <1>10 DEF StackOK

-----------------------------------------------------------------------------
(* The memo's tables.                                                      *)

LEMMA KeepStopTyped ==
    ASSUME NEW table \in [Key -> Entry], NEW key \in Key, NEW code \in Code, NEW room \in RoomOf
    PROVE  KeepStop(table, key, code, room) \in [Key -> Entry]
  <1>1. CASE table[key].tag = "stopped"
    <2>1. table[key] \in [tag : {"stopped"}, code : Code, rooms : SUBSET RoomOf]
      BY <1>1 DEF Entry
    <2>2. Joined(table[key].rooms, room) \in SUBSET RoomOf
      BY <2>1 DEF Joined
    <2> DEFINE rooms == Joined(table[key].rooms, room)
    <2>3. KeepStop(table, key, code, room) = [table EXCEPT ![key].rooms = rooms]
      BY <1>1 DEF KeepStop
    <2> HIDE DEF rooms
    <2>4. [table EXCEPT ![key].rooms = rooms] = [table EXCEPT ![key] = [table[key] EXCEPT !.rooms = rooms]]
      OBVIOUS
    <2>5. [table[key] EXCEPT !.rooms = rooms] \in Entry
      BY <2>1, <2>2 DEF Entry, rooms
    <2>6. QED BY <2>3, <2>4, <2>5
  <1>2. CASE table[key].tag # "stopped"
    <2>1. [tag |-> "stopped", code |-> code, rooms |-> {room}] \in Entry
      BY DEF Entry
    <2>2. QED BY <1>2, <2>1 DEF KeepStop
  <1>3. QED BY <1>1, <1>2

LEMMA KeepTyped ==
    ASSUME decided \in [Key -> Entry], settled \in [Key -> Entry], TopKey \in Key,
           NEW f, f.val = Top.val, f.room \in RoomOf, NEW r, NEW met \in Stop, Keep(f, r, met)
    PROVE  decided' \in [Key -> Entry] /\ settled' \in [Key -> Entry]
  <1>1. <<f.val, TopNode.def>> = TopKey
    BY DEF TopKey
  <1>2. CASE met # None /\ (f.mode = "settle" <=> r = "yes")
    <2>1. met \in Code
      BY <1>2 DEF Stop
    <2>2. /\ KeepStop(decided, TopKey, met, f.room) \in [Key -> Entry]
          /\ KeepStop(settled, TopKey, met, f.room) \in [Key -> Entry]
      BY <2>1, KeepStopTyped
    <2>3. /\ decided' = KeepStop(decided, TopKey, met, f.room)
          /\ \/ settled' = KeepStop(settled, TopKey, met, f.room)
             \/ settled' = settled
      BY <1>1, <1>2 DEF Keep
    <2>4. QED BY <2>2, <2>3
  <1>3. CASE ~(met # None /\ (f.mode = "settle" <=> r = "yes"))
    <2>1. /\ decided' = [decided EXCEPT ![TopKey] = [tag |-> "answered", admitted |-> r = "yes"]]
          /\ settled' = settled
      BY <1>1, <1>3 DEF Keep
    <2>2. [tag |-> "answered", admitted |-> r = "yes"] \in Entry
      BY DEF Entry
    <2>3. QED BY <2>1, <2>2
  <1>4. QED BY <1>2, <1>3

-----------------------------------------------------------------------------
(* The type invariant, step by step.                                       *)

Inv == StackOK /\ RestOK

LEMMA InitInv == Init => Inv
  <1> SUFFICES ASSUME Init PROVE Inv
    OBVIOUS
  <1>1. asked.node \in Node /\ asked.val \in Value
    BY TablesAreNodes, ListsAreValues DEF Init
  <1>2. Start(asked.node, asked.val, "fast") \in Frame
          /\ Start(asked.node, asked.val, "fast").pc = "start"
    BY <1>1, StartIsAFrame DEF Mode
  <1>3. StackOK
    <2>1. /\ stack \in Seq(Frame) /\ Len(stack) = 1 /\ stack # <<>> /\ DOMAIN stack = {1}
          /\ stack[1] = Start(asked.node, asked.val, "fast")
      BY <1>2 DEF Init
    <2>2. ScansRead /\ LevelsOpen
      BY <2>1, <1>2, BoundsAreNats DEF ScansRead, LevelsOpen, Top, Init
    <2>3. QED BY <2>1, <2>2 DEF StackOK, Init
  <1>4. RestOK
    <2>1. plan \in [remembered : SUBSET Def, shared : SUBSET Node]
      BY DEF Init, Plan
    <2>2. decided \in [Key -> Entry] /\ settled \in [Key -> Entry]
      BY DEF Init, Entry
    <2>3. defs \in [Def -> Node] /\ heap \in [Lists -> Contents] /\ asked \in [node : Node, val : Value]
      BY TablesAreNodes, HeapsHoldValues, ListsAreValues DEF Init
    <2>4. writes \in 0 .. MaxWrites /\ trail \in Seq(Key) /\ moves \in Nat
      BY BoundsAreNats DEF Init
    <2>5. stopped \in Stop /\ fatal \in BOOLEAN /\ memo \in MemoWords
      BY DEF Init, Stop, None, MemoWords
    <2>6. QED BY <2>1, <2>2, <2>3, <2>4, <2>5 DEF RestOK
  <1>5. QED BY <1>3, <1>4 DEF Inv

(* The prologue, and the nodes that test the value themselves. *)
LEMMA PrologueInv ==
    ASSUME Inv, Unwind \/ TooDeep \/ TestLeaf \/ CompareLiteral \/ AskPredicate
    PROVE  Inv'
  <1>1. Calling /\ Top.pc = "start" /\ stack \in Seq(Frame) /\ stack # <<>>
    BY DEF Inv, StackOK, Unwind, TooDeep, TestLeaf, CompareLiteral, AskPredicate, Opening, Calling
  <1>2. Top.mode \in Mode
    BY <1>1, TopIsAFrame
  <1>3. \A b : Says(b) \in Reply
    BY DEF Says, Reply
  <1>4. StoppedIn(Top.mode) \in Reply
    BY DEF StoppedIn, Reply
  <1>5. AnswerAt("yes") \/ AnswerAt("no")
    BY <1>3, <1>4 DEF Unwind, TooDeep, TestLeaf, CompareLiteral, AskPredicate, Reply
  <1>6. StackOK'
    BY <1>1, <1>5, AnswerKeeps DEF Inv, Reply
  <1>7. UNCHANGED <<fixed, world, trail, moves, memo, kept>>
    BY DEF Unwind, TooDeep, TestLeaf, CompareLiteral, AskPredicate
  <1>a. UNCHANGED stopped \/ RecordStop("recursion_limit") \/ RecordStop("predicate_error")
    BY DEF Unwind, TooDeep, TestLeaf, CompareLiteral, AskPredicate
  <1>b. stopped' \in Stop
    BY <1>a DEF Inv, RestOK, RecordStop, Or, Stop, Code
  <1>c. fatal' \in BOOLEAN
    <2>1. CASE CompareLiteral
      BY <2>1 DEF CompareLiteral
    <2>2. CASE Unwind \/ TooDeep \/ TestLeaf \/ AskPredicate
      <3>1. fatal' = TRUE \/ UNCHANGED fatal
        BY <2>2 DEF Unwind, TooDeep, TestLeaf, AskPredicate
      <3>2. QED BY <3>1 DEF Inv, RestOK
    <2>3. QED BY <2>1, <2>2
  <1>8. RestOK'
    BY <1>7, <1>b, <1>c DEF Inv, RestOK, fixed, world, kept
  <1>9. QED BY <1>6, <1>8 DEF Inv

(* A frame of a sequence past its prologue reads a list it may go through. *)
LEMMA ScanFrame ==
    ASSUME Inv, stack # <<>>, Top.pc # "start", TopNode.kind = "seq"
    PROVE  /\ Top.val \in Lists /\ HasArity(Top.node, Top.count)
           /\ heap[Top.val] \in Seq(Value)
           /\ \A i \in 1 .. Top.count : ElementOf(Top.node, i) \in Node
  <1>1. stack \in Seq(Frame) /\ Len(stack) \in DOMAIN stack /\ Top \in Frame /\ TopNode \in Rows
    BY TopIsAFrame DEF Inv, StackOK
  <1>2. Top.val \in Lists /\ HasArity(Top.node, Top.count)
    BY <1>1 DEF Inv, StackOK, ScansRead, Top, TopNode
  <1>3. heap[Top.val] \in Seq(Value)
    BY <1>2, HeapsHoldValues DEF Inv, RestOK
  <1>4. ASSUME NEW i \in 1 .. Top.count PROVE ElementOf(Top.node, i) \in Node
    <2>1. /\ TopNode.kids \in Seq(Node) /\ TopNode.tail \in Node \cup {NoNode}
          /\ Top.count \in Nat /\ TopNode = Schema[Top.node]
      BY <1>1 DEF Rows, Frame, TopNode
    <2>2. CASE i <= Len(TopNode.kids)
      BY <2>1, <2>2 DEF ElementOf
    <2>3. CASE ~(i <= Len(TopNode.kids))
      <3>1. TopNode.tail # NoNode
        BY <1>2, <2>1, <2>3 DEF HasArity
      <3>2. QED BY <2>1, <2>3, <3>1 DEF ElementOf
    <2>4. QED BY <2>2, <2>3
  <1>5. QED BY <1>2, <1>3, <1>4

LEMMA SeqInv ==
    ASSUME Inv, RefuseSeq \/ OpenSeq \/ SeqMoved \/ SeqElement \/ SeqEnd \/ SeqReturn
    PROVE  Inv'
  <1>1. stack \in Seq(Frame) /\ stack # <<>> /\ memo \in MemoWords
    BY DEF Inv, StackOK, RestOK, RefuseSeq, OpenSeq, SeqMoved, SeqElement, SeqEnd, SeqReturn,
           Opening, At, Back, Calling, Returning
  <1>2. /\ Len(stack) \in DOMAIN stack /\ Top \in Frame /\ Top.mode \in Mode /\ Top.node \in Node
        /\ Top.val \in Value
    BY <1>1, TopIsAFrame
  <1>3. CASE RefuseSeq
    <2>1. Calling /\ Top.pc = "start" /\ AnswerAt("no")
      BY <1>3 DEF RefuseSeq, Opening
    <2>2. StackOK'
      BY <2>1, AnswerKeeps DEF Inv, Reply
    <2>3. RestOK'
      BY <1>3 DEF Inv, RestOK, RefuseSeq, fixed, world, kept
    <2>4. QED BY <2>2, <2>3 DEF Inv
  <1>4. CASE OpenSeq
    <2> DEFINE f == [Top EXCEPT !.count = Len(heap[Top.val])]
    <2>1. Calling /\ Top.pc = "start" /\ depth < MaxWalkDepth /\ IsArray(Top.node, Top.val) /\ Open(f)
      BY <1>4 DEF OpenSeq, Opening
    <2>2. Top.val \in Lists /\ HasArity(Top.node, Len(heap[Top.val])) /\ heap[Top.val] \in Seq(Value)
      BY <2>1, HeapsHoldValues DEF IsArray, Inv, RestOK
    <2>3. f \in Frame /\ f.node = Top.node /\ f.val = Top.val /\ f.count = Len(heap[Top.val])
      BY <1>2, <2>2 DEF Frame
    <2> HIDE DEF f
    <2>4. StackOK'
      BY <2>1, <2>2, <2>3, OpenKeeps DEF Inv
    <2>5. RestOK'
      BY <1>4 DEF Inv, RestOK, OpenSeq, fixed, world, kept
    <2>6. QED BY <2>4, <2>5 DEF Inv
  <1>5. CASE SeqMoved
    <2>1. Top.pc # "start" /\ Close("no")
      BY <1>5 DEF SeqMoved, At
    <2>2. StackOK'
      BY <1>1, <2>1, CloseKeeps DEF Inv, Reply
    <2>3. RestOK'
      BY <1>5 DEF Inv, RestOK, SeqMoved, fixed, world, kept, RecordStop, Or, Stop, Code
    <2>4. QED BY <2>2, <2>3 DEF Inv
  <1>6. CASE SeqElement
    <2>1. /\ Top.pc # "start" /\ TopNode.kind = "seq" /\ Top.at <= Top.count
          /\ Len(heap[Top.val]) = Top.count
          /\ Call(Top, ElementOf(Top.node, Top.at), heap[Top.val][Top.at], Top.mode, FALSE)
          /\ UNCHANGED <<fixed, world, trail, stopped, fatal, moves, kept>>
      BY <1>6 DEF SeqElement, At
    <2>2. Top.at \in 1 .. Top.count
      BY <1>2, <2>1 DEF Frame
    <2>3. ElementOf(Top.node, Top.at) \in Node /\ heap[Top.val][Top.at] \in Value
      BY <1>1, <2>1, <2>2, ScanFrame
    <2>4. StackOK' /\ memo' \in MemoWords
      BY <1>1, <1>2, <2>1, <2>3, CallKeeps DEF Inv
    <2>5. RestOK'
      BY <2>1, <2>4 DEF Inv, RestOK, fixed, world, kept
    <2>6. QED BY <2>4, <2>5 DEF Inv
  <1>7. CASE SeqEnd
    <2>1. Top.pc # "start" /\ Close("yes")
      BY <1>7 DEF SeqEnd, At
    <2>2. StackOK'
      BY <1>1, <2>1, CloseKeeps DEF Inv, Reply
    <2>3. RestOK'
      BY <1>7 DEF Inv, RestOK, SeqEnd, fixed, world, kept
    <2>4. QED BY <2>2, <2>3 DEF Inv
  <1>8. CASE SeqReturn
    <2>1. Top.pc # "start"
      BY <1>1, <1>2, <1>8 DEF SeqReturn, Back, Returning, Inv, StackOK, LevelsOpen, Top
    <2> DEFINE f == [Top EXCEPT !.at = @ + 1]
    <2>2. /\ f \in Frame /\ f.node = Top.node /\ f.val = Top.val /\ f.count = Top.count
          /\ f.pc = Top.pc
      BY <1>2 DEF Frame
    <2>3. (Become(f) /\ depth' = depth) \/ Close("no")
      BY <1>8 DEF SeqReturn
    <2> HIDE DEF f
    <2>4. StackOK'
      BY <1>1, <2>1, <2>2, <2>3, BecomeKeeps, CloseKeeps DEF Inv, Reply
    <2>5. RestOK'
      BY <1>8 DEF Inv, RestOK, SeqReturn, fixed, world, kept
    <2>6. QED BY <2>4, <2>5 DEF Inv
  <1>9. QED BY <1>3, <1>4, <1>5, <1>6, <1>7, <1>8

(* A call that has returned returned to a frame past its prologue. *)
LEMMA ReturnedTo ==
    ASSUME StackOK, Returning
    PROVE  stack \in Seq(Frame) /\ stack # <<>> /\ Top.pc # "start" /\ ret \in Reply
  BY TopIsAFrame DEF StackOK, Returning, LevelsOpen, Top

(* What a union does with a branch's reply. *)
LEMMA AfterBranchKeeps ==
    ASSUME Inv, stack # <<>>, Top.pc # "start",
           NEW f \in Frame, f.node = Top.node, f.val = Top.val, f.count = Top.count, f.pc = Top.pc,
           NEW r \in Reply, AfterBranch(f, r)
    PROVE  StackOK' /\ stopped' \in Stop
  <1> DEFINE g == [f EXCEPT !.at = @ + 1]
             h == [f EXCEPT !.at = @ + 1, !.met = IF r = "yes" THEN Or(@, stopped) ELSE @]
             m == IF r = "yes" THEN Or(f.met, stopped) ELSE f.met
  <1>1. /\ g \in Frame /\ g.node = Top.node /\ g.val = Top.val /\ g.count = Top.count /\ g.pc = Top.pc
    BY DEF Frame
  <1>2. stopped \in Stop /\ Or(f.met, stopped) \in Stop /\ f.earlier \in Stop /\ None \in Stop
    BY DEF Inv, RestOK, Frame, Or, Stop
  <1>3. /\ h \in Frame /\ h.node = Top.node /\ h.val = Top.val /\ h.count = Top.count /\ h.pc = Top.pc
    <2>1. f.at + 1 \in Nat \ {0} /\ m \in Stop
      BY <1>2 DEF Frame
    <2>2. h = [f EXCEPT !.at = f.at + 1, !.met = m]
      BY Zenon
    <2> HIDE DEF m
    <2>3. QED BY <2>1, <2>2 DEF Frame
  <1>4. Close("yes") \/ (Become(g) /\ depth' = depth) \/ (Become(h) /\ depth' = depth)
    BY Zenon DEF AfterBranch
  <1>5. stopped' = stopped \/ stopped' = f.earlier \/ stopped' = None
    BY DEF AfterBranch
  <1> HIDE DEF g, h, m
  <1>6. StackOK'
    BY <1>1, <1>3, <1>4, BecomeKeeps, CloseKeeps DEF Inv, Reply
  <1>7. QED BY <1>2, <1>5, <1>6

LEMMA UnionInv ==
    ASSUME Inv, OpenUnion \/ UnionScalar \/ UnionBranch \/ UnionReturn \/ UnionEnd
    PROVE  Inv'
  <1>1. stack \in Seq(Frame) /\ stack # <<>> /\ memo \in MemoWords
    BY DEF Inv, StackOK, RestOK, OpenUnion, UnionScalar, UnionBranch, UnionReturn, UnionEnd,
           Opening, At, Back, Calling, Returning
  <1>2. /\ Top \in Frame /\ Top.mode \in Mode /\ Top.node \in Node /\ Top.val \in Value
        /\ TopNode \in Rows /\ TopNode = Schema[Top.node]
    BY <1>1, TopIsAFrame DEF TopNode
  <1>3. stopped \in Stop /\ None \in Stop
    BY DEF Inv, RestOK, Stop
  <1>4. CASE OpenUnion
    <2> DEFINE f == [Top EXCEPT !.earlier = IF Top.mode = "settle" THEN stopped ELSE None]
    <2>1. Calling /\ Top.pc = "start" /\ depth < MaxWalkDepth /\ Open(f) /\ TopNode.kind = "union"
      BY <1>4 DEF OpenUnion, Opening
    <2>2. f \in Frame /\ f.node = Top.node
      BY <1>2, <1>3 DEF Frame
    <2> HIDE DEF f
    <2>3. StackOK'
      BY <1>2, <2>1, <2>2, OpenKeeps DEF Inv
    <2>4. RestOK'
      BY <1>3, <1>4 DEF Inv, RestOK, OpenUnion, fixed, world, kept
    <2>5. QED BY <2>3, <2>4 DEF Inv
  <1>5. CASE UnionScalar
    <2> DEFINE r == Says(~fatal /\ Top.val \in Schema[Branch].admits)
    <2>1. Top.pc # "start" /\ AfterBranch(Top, r) /\ r \in Reply
      BY <1>5 DEF UnionScalar, At, Says, Reply
    <2> HIDE DEF r
    <2>2. StackOK' /\ stopped' \in Stop
      BY <1>1, <1>2, <2>1, AfterBranchKeeps
    <2>3. RestOK'
      BY <1>5, <2>2 DEF Inv, RestOK, UnionScalar, fixed, world, kept
    <2>4. QED BY <2>2, <2>3 DEF Inv
  <1>6. CASE UnionBranch
    <2> DEFINE f == [Top EXCEPT !.entered = IF @ = Unread THEN memo.entered ELSE @]
    <2>1. /\ Top.pc # "start" /\ Top.at <= Len(TopNode.kids)
          /\ Call(f, Branch, Top.val, Top.mode, Again(Top))
          /\ UNCHANGED <<fixed, world, trail, stopped, fatal, moves, kept>>
      BY <1>6 DEF UnionBranch, At
    <2>2. f \in Frame /\ f.node = Top.node /\ f.val = Top.val /\ f.count = Top.count /\ f.pc = Top.pc
      BY <1>1, <1>2 DEF Frame, MemoWords
    <2>3. Branch \in Node /\ Again(Top) \in BOOLEAN
      BY <1>2, <2>1 DEF Branch, Rows, Frame, Again
    <2> HIDE DEF f
    <2>4. StackOK' /\ memo' \in MemoWords
      BY <1>1, <1>2, <2>1, <2>2, <2>3, CallKeeps DEF Inv
    <2>5. RestOK'
      BY <2>1, <2>4 DEF Inv, RestOK, fixed, world, kept
    <2>6. QED BY <2>4, <2>5 DEF Inv
  <1>7. CASE UnionReturn
    <2> DEFINE f == [Top EXCEPT !.arming = FALSE]
    <2>1. Top.pc # "start" /\ ret \in Reply
      BY <1>7, ReturnedTo DEF UnionReturn, Back, Inv
    <2>2. f \in Frame /\ f.node = Top.node /\ f.val = Top.val /\ f.count = Top.count /\ f.pc = Top.pc
      BY <1>2 DEF Frame
    <2>3. AfterBranch(f, ret) /\ memo' = Disarmed(Top)
            /\ UNCHANGED <<fixed, world, trail, fatal, moves, kept>>
      BY <1>7 DEF UnionReturn
    <2> HIDE DEF f
    <2>4. StackOK' /\ stopped' \in Stop
      BY <1>1, <2>1, <2>2, <2>3, AfterBranchKeeps
    <2>5. memo' \in MemoWords
      BY <1>1, <1>2, <2>3 DEF Disarmed, MemoWords, Frame
    <2>6. RestOK'
      BY <2>3, <2>4, <2>5 DEF Inv, RestOK, fixed, world, kept
    <2>7. QED BY <2>4, <2>6 DEF Inv
  <1>8. CASE UnionEnd
    <2>1. Top.pc # "start" /\ Close(Says(Top.met # None)) /\ Says(Top.met # None) \in Reply
      BY <1>8 DEF UnionEnd, At, Says, Reply
    <2>2. StackOK'
      BY <1>1, <2>1, CloseKeeps DEF Inv
    <2>3. stopped' \in Stop
      BY <1>2, <1>3, <1>8 DEF UnionEnd, Or, Frame
    <2>4. RestOK'
      BY <1>8, <2>3 DEF Inv, RestOK, UnionEnd, fixed, world, kept
    <2>5. QED BY <2>2, <2>4 DEF Inv
  <1>9. QED BY <1>4, <1>5, <1>6, <1>7, <1>8

LEMMA MeetInv ==
    ASSUME Inv, OpenMeet \/ MeetMember \/ MeetReturn \/ MeetEnd
    PROVE  Inv'
  <1>1. stack \in Seq(Frame) /\ stack # <<>> /\ memo \in MemoWords
    BY DEF Inv, StackOK, RestOK, OpenMeet, MeetMember, MeetReturn, MeetEnd, Opening, At, Back,
           Calling, Returning
  <1>2. /\ Top \in Frame /\ Top.mode \in Mode /\ Top.node \in Node /\ Top.val \in Value
        /\ TopNode \in Rows /\ TopNode = Schema[Top.node]
    BY <1>1, TopIsAFrame DEF TopNode
  <1>3. CASE OpenMeet
    <2> DEFINE f == [Top EXCEPT !.entered = memo.entered]
    <2>1. Calling /\ Top.pc = "start" /\ depth < MaxWalkDepth /\ Open(f) /\ TopNode.kind = "meet"
      BY <1>3 DEF OpenMeet, Opening
    <2>2. f \in Frame /\ f.node = Top.node
      BY <1>1, <1>2 DEF Frame, MemoWords
    <2> HIDE DEF f
    <2>3. StackOK'
      BY <1>2, <2>1, <2>2, OpenKeeps DEF Inv
    <2>4. RestOK'
      BY <1>3 DEF Inv, RestOK, OpenMeet, fixed, world, kept
    <2>5. QED BY <2>3, <2>4 DEF Inv
  <1>4. CASE MeetMember
    <2>1. /\ Top.pc # "start" /\ Top.at <= Len(TopNode.kids)
          /\ Call(Top, TopNode.kids[Top.at], Top.val, Top.mode, Again(Top))
          /\ UNCHANGED <<fixed, world, trail, stopped, fatal, moves, kept>>
      BY <1>4 DEF MeetMember, At
    <2>2. TopNode.kids[Top.at] \in Node
      BY <1>2, <2>1 DEF Rows, Frame
    <2>a. Again(Top) \in BOOLEAN
      BY DEF Again
    <2>3. StackOK' /\ memo' \in MemoWords
      BY <1>1, <1>2, <2>1, <2>2, <2>a, CallKeeps DEF Inv
    <2>4. RestOK'
      BY <2>1, <2>3 DEF Inv, RestOK, fixed, world, kept
    <2>5. QED BY <2>3, <2>4 DEF Inv
  <1>5. CASE MeetReturn
    <2> DEFINE f == [Top EXCEPT !.at = @ + 1, !.arming = FALSE]
    <2>1. Top.pc # "start"
      BY <1>5, ReturnedTo DEF MeetReturn, Back, Inv
    <2>a. Top.at + 1 \in Nat \ {0}
      BY <1>2 DEF Frame
    <2>2. f \in Frame /\ f.node = Top.node /\ f.val = Top.val /\ f.count = Top.count /\ f.pc = Top.pc
      BY <1>2, <2>a DEF Frame
    <2>3. /\ (Become(f) /\ depth' = depth) \/ Close("no")
          /\ memo' = Disarmed(Top)
          /\ UNCHANGED <<fixed, world, trail, stopped, fatal, moves, kept>>
      BY <1>5 DEF MeetReturn
    <2> HIDE DEF f
    <2>4. StackOK'
      BY <1>1, <2>1, <2>2, <2>3, BecomeKeeps, CloseKeeps DEF Inv, Reply
    <2>5. memo' \in MemoWords
      BY <1>1, <1>2, <2>3 DEF Disarmed, MemoWords, Frame
    <2>6. RestOK'
      BY <2>3, <2>5 DEF Inv, RestOK, fixed, world, kept
    <2>7. QED BY <2>4, <2>6 DEF Inv
  <1>6. CASE MeetEnd
    <2>1. Top.pc # "start" /\ Close("yes")
      BY <1>6 DEF MeetEnd, At
    <2>2. StackOK'
      BY <1>1, <2>1, CloseKeeps DEF Inv, Reply
    <2>3. RestOK'
      BY <1>6 DEF Inv, RestOK, MeetEnd, fixed, world, kept
    <2>4. QED BY <2>2, <2>3 DEF Inv
  <1>7. QED BY <1>3, <1>4, <1>5, <1>6

LEMMA NotInv ==
    ASSUME Inv, OpenNot \/ NotInner \/ NotReturn
    PROVE  Inv'
  <1>1. stack \in Seq(Frame) /\ stack # <<>> /\ memo \in MemoWords
    BY DEF Inv, StackOK, RestOK, OpenNot, NotInner, NotReturn, Opening, At, Back, Calling, Returning
  <1>2. /\ Top \in Frame /\ Top.mode \in Mode /\ Top.node \in Node /\ Top.val \in Value
        /\ TopNode \in Rows /\ TopNode = Schema[Top.node]
    BY <1>1, TopIsAFrame DEF TopNode
  <1>3. stopped \in Stop /\ None \in Stop /\ moves \in Nat
    BY DEF Inv, RestOK, Stop
  <1>4. CASE OpenNot
    <2> DEFINE f == [Top EXCEPT !.earlier = stopped, !.moves = moves]
    <2>1. Calling /\ Top.pc = "start" /\ depth < MaxWalkDepth /\ Open(f) /\ TopNode.kind = "not"
      BY <1>4 DEF OpenNot, Opening
    <2>2. f \in Frame /\ f.node = Top.node
      BY <1>2, <1>3 DEF Frame
    <2> HIDE DEF f
    <2>3. StackOK'
      BY <1>2, <2>1, <2>2, OpenKeeps DEF Inv
    <2>4. RestOK'
      BY <1>3, <1>4 DEF Inv, RestOK, OpenNot, fixed, world, kept
    <2>5. QED BY <2>3, <2>4 DEF Inv
  <1>5. CASE NotInner
    <2>1. /\ Top.pc # "start" /\ TopNode.kind = "not"
          /\ Call(Top, TopNode.kids[1], Top.val, "settle", FALSE)
          /\ UNCHANGED <<fixed, world, trail, stopped, fatal, moves, kept>>
      BY <1>5 DEF NotInner, At
    <2>2. TopNode.kids[1] \in Node /\ "settle" \in Mode
      BY <1>2, <2>1, NotHasOneKid DEF Rows, Mode
    <2>3. StackOK' /\ memo' \in MemoWords
      BY <1>1, <1>2, <2>1, <2>2, CallKeeps DEF Inv
    <2>4. RestOK'
      BY <2>1, <2>3 DEF Inv, RestOK, fixed, world, kept
    <2>5. QED BY <2>3, <2>4 DEF Inv
  <1>6. CASE NotReturn
    <2>1. Top.pc # "start" /\ \E r \in Reply : Close(r)
      <3>1. StoppedIn(Top.mode) \in Reply
        BY DEF StoppedIn, Reply
      <3>2. Close("yes") \/ Close("no") \/ Close(StoppedIn(Top.mode))
        BY <1>6 DEF NotReturn
      <3>3. Top.pc # "start"
        BY <1>6, ReturnedTo DEF NotReturn, Back, Inv
      <3>4. QED BY <3>1, <3>2, <3>3 DEF Reply
    <2>2. StackOK'
      BY <1>1, <2>1, CloseKeeps DEF Inv
    <2>3. InnerStop \in Stop
      BY <1>3 DEF InnerStop, Stop, Code
    <2>4. stopped' \in Stop /\ UNCHANGED <<fixed, world, trail, fatal, moves, memo, kept>>
      BY <1>2, <1>6, <2>3 DEF NotReturn, Or, Frame
    <2>5. RestOK'
      BY <2>4 DEF Inv, RestOK, fixed, world, kept
    <2>6. QED BY <2>2, <2>5 DEF Inv
  <1>7. QED BY <1>4, <1>5, <1>6

LEMMA RefInv ==
    ASSUME Inv, OpenRef \/ RefFound \/ RefRefused \/ RefEnter \/ RefReturn
    PROVE  Inv'
  <1>1. stack \in Seq(Frame) /\ stack # <<>> /\ memo \in MemoWords /\ trail \in Seq(Key)
    BY DEF Inv, StackOK, RestOK, OpenRef, RefFound, RefRefused, RefEnter, RefReturn, Walks,
           Opening, At, Back, Calling, Returning
  <1>2. /\ Top \in Frame /\ Top.mode \in Mode /\ Top.node \in Node /\ Top.val \in Value
        /\ TopNode \in Rows /\ TopNode = Schema[Top.node] /\ TopKey \in Key
    BY <1>1, TopIsAFrame DEF TopNode
  <1>3. stopped \in Stop /\ None \in Stop /\ Top.earlier \in Stop /\ Top.room \in RoomOf
    BY <1>2 DEF Inv, RestOK, Stop, Frame
  <1>4. StoppedIn(Top.mode) \in Reply /\ \A b : Says(b) \in Reply
    BY DEF StoppedIn, Says, Reply
  <1>5. CASE OpenRef
    <2> DEFINE f == [Top EXCEPT !.keeping = Asks,
                                !.room = [levels |-> depth + 1, unfolded |-> Len(trail)]]
    <2>1. Calling /\ Top.pc = "start" /\ depth < MaxWalkDepth /\ Open(f) /\ TopNode.kind = "ref"
      BY <1>5 DEF OpenRef, Opening
    <2>2. Asks \in BOOLEAN /\ [levels |-> depth + 1, unfolded |-> Len(trail)] \in RoomOf
      BY <1>1 DEF Asks, RoomOf, Inv, StackOK, MemoWords
    <2>3. f \in Frame /\ f.node = Top.node
      BY <1>2, <2>2 DEF Frame
    <2> HIDE DEF f
    <2>4. StackOK'
      BY <1>2, <2>1, <2>3, OpenKeeps DEF Inv
    <2>5. /\ memo' = [memo EXCEPT !.entered = @ + 1]
          /\ UNCHANGED <<fixed, world, trail, stopped, fatal, moves, kept>>
      BY <1>5 DEF OpenRef
    <2>6. memo' \in MemoWords
      BY <1>1, <2>5 DEF MemoWords
    <2>7. RestOK'
      BY <2>5, <2>6 DEF Inv, RestOK, fixed, world, kept
    <2>8. QED BY <2>4, <2>7 DEF Inv
  <1>6. CASE RefFound
    <2>1. Top.pc # "start" /\ \E r \in Reply : Close(r)
      BY <1>4, <1>6 DEF RefFound, At
    <2>2. StackOK'
      BY <1>1, <2>1, CloseKeeps DEF Inv
    <2>3. Recalled.code \in Stop
      <3>1. \A table \in [Key -> Entry] : Read(table, TopKey, Top.room).code \in Stop
        BY <1>2, <1>3 DEF Read, Found, NotFound, Covers, Entry, Stop
      <3>2. QED BY <3>1 DEF Recalled, Recall, Inv, RestOK
    <2>4. stopped' \in Stop /\ UNCHANGED <<fixed, world, trail, fatal, moves, memo, kept>>
      BY <1>3, <1>6, <2>3 DEF RefFound, RecordStop, Or
    <2>5. RestOK'
      BY <2>4 DEF Inv, RestOK, fixed, world, kept
    <2>6. QED BY <2>2, <2>5 DEF Inv
  <1>7. CASE RefRefused
    <2> DEFINE code == IF OnTrail THEN "recursion_loop" ELSE "recursion_limit"
    <2>1. Top.pc # "start" /\ Close(StoppedIn(Top.mode))
      BY <1>7 DEF RefRefused, Walks, At
    <2>2. StackOK'
      BY <1>1, <1>4, <2>1, CloseKeeps DEF Inv
    <2>3. code \in Stop
      BY DEF Stop, Code
    <2>4. /\ RecordStop(code)
          /\ Keep(Top, StoppedIn(Top.mode), code) \/ UNCHANGED kept
          /\ UNCHANGED <<fixed, world, trail, fatal, moves, memo>>
      BY <1>7 DEF RefRefused
    <2> HIDE DEF code
    <2>5. stopped' \in Stop
      BY <1>3, <2>3, <2>4 DEF RecordStop, Or
    <2>6. decided' \in [Key -> Entry] /\ settled' \in [Key -> Entry]
      BY <1>2, <1>3, <2>3, <2>4, KeepTyped DEF Inv, RestOK, kept
    <2>7. RestOK'
      BY <2>4, <2>5, <2>6 DEF Inv, RestOK, fixed, world
    <2>8. QED BY <2>2, <2>7 DEF Inv
  <1>8. CASE RefEnter
    <2> DEFINE f == [Top EXCEPT !.pc = "inside", !.keeping = Keeps,
                                !.earlier = IF Keeps THEN stopped ELSE None]
    <2>1. /\ Top.pc # "start" /\ trail' = Append(trail, TopKey)
          /\ stopped' = IF Keeps THEN None ELSE stopped
          /\ Call(f, defs[TopNode.def], Top.val, Top.mode, FALSE)
          /\ UNCHANGED <<fixed, world, fatal, moves, kept>>
      BY <1>8 DEF RefEnter, Walks, At
    <2>2. Keeps \in BOOLEAN
      BY <1>1, <1>2 DEF Keeps, Frame, MemoWords
    <2>3. /\ f \in Frame /\ f.node = Top.node /\ f.val = Top.val /\ f.count = Top.count
          /\ f.pc # "start"
      BY <1>2, <1>3, <2>2 DEF Frame
    <2>4. defs[TopNode.def] \in Node
      BY <1>2 DEF Inv, RestOK, Rows
    <2> HIDE DEF f
    <2>5. StackOK' /\ memo' \in MemoWords
      BY <1>1, <1>2, <2>1, <2>3, <2>4, CallKeeps DEF Inv
    <2>6. trail' \in Seq(Key) /\ stopped' \in Stop
      BY <1>1, <1>2, <1>3, <2>1
    <2>7. RestOK'
      BY <2>1, <2>5, <2>6 DEF Inv, RestOK, fixed, world, kept
    <2>8. QED BY <2>5, <2>7 DEF Inv
  <1>9. CASE RefReturn
    <2>1. Top.pc # "start" /\ ret \in Reply
      BY <1>9, ReturnedTo DEF RefReturn, Back, Inv
    <2>2. /\ Close(ret) /\ trail' = SubSeq(trail, 1, Len(trail) - 1)
          /\ stopped' = Or(Top.earlier, stopped)
          /\ Keep(Top, ret, stopped) \/ UNCHANGED kept
          /\ UNCHANGED <<fixed, world, fatal, moves, memo>>
      BY <1>9 DEF RefReturn
    <2>3. StackOK'
      BY <1>1, <2>1, <2>2, CloseKeeps DEF Inv
    <2>4. trail' \in Seq(Key) /\ stopped' \in Stop
      BY <1>1, <1>3, <2>2 DEF Or
    <2>5. decided' \in [Key -> Entry] /\ settled' \in [Key -> Entry]
      BY <1>2, <1>3, <2>2, KeepTyped DEF Inv, RestOK, kept
    <2>6. RestOK'
      BY <2>2, <2>4, <2>5 DEF Inv, RestOK, fixed, world
    <2>7. QED BY <2>3, <2>6 DEF Inv
  <1>10. QED BY <1>5, <1>6, <1>7, <1>8, <1>9

LEMMA WriteInv == Inv /\ Write => Inv'
  <1> SUFFICES ASSUME Inv, Write PROVE Inv'
    OBVIOUS
  <1>1. PICK l \in Lists, c \in Contents : heap' = [heap EXCEPT ![l] = c]
    BY DEF Write
  <1>2. heap' \in [Lists -> Contents] /\ writes' \in 0 .. MaxWrites
    BY <1>1, BoundsAreNats DEF Write, Inv, RestOK
  <1>3. UNCHANGED <<fixed, stack, ret, depth, trail, stopped, fatal, moves, memo, kept>>
    BY DEF Write
  <1>4. StackOK'
    BY <1>3 DEF Inv, StackOK, ScansRead, HasArity, LevelsOpen, Top
  <1>5. RestOK'
    BY <1>2, <1>3 DEF Inv, RestOK, fixed, kept
  <1>6. QED BY <1>4, <1>5 DEF Inv

LEMMA NextInv == Inv /\ [Next]_vars => Inv'
  <1> SUFFICES ASSUME Inv, [Next]_vars PROVE Inv'
    OBVIOUS
  <1>1. CASE Step
    BY <1>1, PrologueInv, SeqInv, UnionInv, MeetInv, NotInv, RefInv DEF Step
  <1>2. CASE Write
    BY <1>2, WriteInv
  <1>3. CASE UNCHANGED vars
    BY <1>3 DEF vars, Inv, StackOK, RestOK, ScansRead, HasArity, LevelsOpen, Top
  <1>4. QED BY <1>1, <1>2, <1>3 DEF Next

(***************************************************************************)
(* Every part of the walk's state keeps its type, and every scan reads a   *)
(* list of a length its sequence admits, whatever the schema, the value,   *)
(* the bounds, and the writes to the lists (walk.rs, ctx.rs, memo.rs).     *)
(***************************************************************************)
THEOREM WalkTypeOK == Spec => []TypeOK
  <1>1. Inv => TypeOK
    BY TypeOKParts DEF Inv
  <1>2. QED BY InitInv, NextInv, <1>1, PTL DEF Spec

(***************************************************************************)
(* The walk holds exactly one level per frame past its prologue, and never *)
(* more than MaxWalkDepth of them, at every early return it takes (ctx.rs, *)
(* Descent).                                                               *)
(***************************************************************************)
THEOREM WalkLevelsOpen == Spec => []LevelsOpen
  <1>1. Inv => LevelsOpen
    BY DEF Inv, StackOK
  <1>2. QED BY InitInv, NextInv, <1>1, PTL DEF Spec

-----------------------------------------------------------------------------
(***************************************************************************)
(* The walk balances its books at every return: the trail is the path of   *)
(* definitions it is inside, the memo is armed inside the frames that      *)
(* armed it and nowhere else, its two tables never disagree, and a fatal   *)
(* signal unwinds the walk through whatever it had open.                   *)
(***************************************************************************)
(* The trail, through what the steps share.                                *)

InPlay == stack \in Seq(Frame) /\ stack # <<>> /\ trail \in Seq(Key) /\ TrailIsPath

(* What the path says of one frame, and of two. *)
LEMMA OnPath ==
    ASSUME InPlay, NEW i \in DOMAIN stack
    PROVE  /\ stack[i] \in Frame /\ stack[i].room.unfolded \in Nat
           /\ ~(i # Len(stack) /\ Schema[stack[i].node].kind = "ref" /\ stack[i].pc = "open")
           /\ Schema[stack[i].node].kind = "ref" /\ stack[i].pc = "open" =>
                 stack[i].room.unfolded = Len(trail) /\ ret = "none"
           /\ stack[i].pc = "inside" =>
                 /\ Schema[stack[i].node].kind = "ref"
                 /\ stack[i].room.unfolded < Len(trail)
                 /\ trail[stack[i].room.unfolded + 1] = PairOf(i)
           /\ \A j \in DOMAIN stack : i < j /\ stack[i].pc = "inside" /\ stack[j].pc = "inside" =>
                 stack[i].room.unfolded < stack[j].room.unfolded
  <1>1. stack[i] \in Frame
    BY DEF InPlay
  <1>2. stack[i].room \in RoomOf
    BY <1>1 DEF Frame
  <1>3. stack[i].room.unfolded \in Nat
    BY <1>2 DEF RoomOf
  <1>4. /\ stack[i].pc = "inside" => Schema[stack[i].node].kind = "ref"
        /\ Inside(i) => /\ stack[i].room.unfolded < Len(trail)
                        /\ trail[stack[i].room.unfolded + 1] = PairOf(i)
        /\ Schema[stack[i].node].kind = "ref" /\ stack[i].pc = "open" =>
              stack[i].room.unfolded = Len(trail) /\ i = Len(stack) /\ ret = "none"
    BY Zenon DEF InPlay, TrailIsPath
  <1>5. \A j \in DOMAIN stack : i < j /\ Inside(i) /\ Inside(j) =>
           stack[i].room.unfolded < stack[j].room.unfolded
    BY Zenon DEF InPlay, TrailIsPath
  <1>6. QED BY <1>1, <1>3, <1>4, <1>5 DEF Inside

(* A frame that is not inside its definition returns. *)
LEMMA PathPop ==
    ASSUME InPlay, Top.pc # "inside", stack' = Pop, trail' = trail
    PROVE  TrailIsPath'
  <1>1. /\ stack \in Seq(Frame) /\ Len(stack) \in Nat \ {0} /\ Len(stack') = Len(stack) - 1
        /\ stack' \in Seq(Frame)
        /\ \A i \in 1 .. Len(stack) - 1 : stack'[i] = stack[i]
    BY PopFrames DEF InPlay
  <1>2. \A i \in DOMAIN stack' : i \in DOMAIN stack /\ i < Len(stack) /\ stack'[i] = stack[i]
    BY <1>1
  <1>3. \A i \in DOMAIN stack : stack[i].pc = "inside" => i \in DOMAIN stack' /\ stack'[i] = stack[i]
    BY <1>1 DEF Top, InPlay
  <1>4. \A i \in DOMAIN stack' :
           /\ stack'[i].pc = "inside" => Schema[stack'[i].node].kind = "ref"
           /\ Inside(i)' => /\ stack'[i].room.unfolded < Len(trail')
                            /\ trail'[stack'[i].room.unfolded + 1] = PairOf(i)'
           /\ Schema[stack'[i].node].kind = "ref" /\ stack'[i].pc = "open" =>
                 stack'[i].room.unfolded = Len(trail') /\ i = Len(stack') /\ ret' = "none"
    BY <1>2, OnPath DEF Inside, PairOf
  <1>5. \A i, j \in DOMAIN stack' :
           i < j /\ Inside(i)' /\ Inside(j)' => stack'[i].room.unfolded < stack'[j].room.unfolded
    BY <1>2 DEF InPlay, TrailIsPath, Inside
  <1>6. \A k \in DOMAIN trail' : \E i \in DOMAIN stack' : Inside(i)' /\ stack'[i].room.unfolded + 1 = k
    BY <1>3 DEF InPlay, TrailIsPath, Inside
  <1>7. Len(trail') <= MaxRecursionDepth /\ \A j, k \in DOMAIN trail' : trail'[j] = trail'[k] => j = k
    BY DEF InPlay, TrailIsPath
  <1>8. QED BY <1>4, <1>5, <1>6, <1>7 DEF TrailIsPath

(* A frame that is not inside its definition takes a step of its own. *)
LEMMA PathBecome ==
    ASSUME InPlay, Top.pc # "inside", NEW f \in Frame, f.pc # "inside",
           Schema[f.node].kind = "ref" => f.room.unfolded = Len(trail),
           Become(f), trail' = trail
    PROVE  TrailIsPath'
  <1>1. /\ Len(stack) \in Nat \ {0} /\ Len(stack') = Len(stack) /\ ret' = "none"
        /\ stack' \in Seq(Frame)
        /\ \A i \in 1 .. Len(stack) - 1 : stack'[i] = stack[i]
        /\ stack'[Len(stack)] = f
    BY BecomeFrames DEF InPlay
  <1>2. \A i \in DOMAIN stack' :
           \/ i \in DOMAIN stack /\ i < Len(stack) /\ stack'[i] = stack[i]
           \/ i = Len(stack') /\ stack'[i] = f
    BY <1>1 DEF InPlay
  <1>3. \A i \in DOMAIN stack : stack[i].pc = "inside" => i \in DOMAIN stack' /\ stack'[i] = stack[i]
    BY <1>1 DEF Top, InPlay
  <1>4. \A i \in DOMAIN stack' : stack'[i].pc = "inside" => i \in DOMAIN stack /\ stack'[i] = stack[i]
    BY <1>2
  <1>5. ASSUME NEW i \in DOMAIN stack'
        PROVE  /\ stack'[i].pc = "inside" => Schema[stack'[i].node].kind = "ref"
               /\ Inside(i)' => /\ stack'[i].room.unfolded < Len(trail')
                                /\ trail'[stack'[i].room.unfolded + 1] = PairOf(i)'
               /\ Schema[stack'[i].node].kind = "ref" /\ stack'[i].pc = "open" =>
                     stack'[i].room.unfolded = Len(trail') /\ i = Len(stack') /\ ret' = "none"
    <2>1. CASE i \in DOMAIN stack /\ i < Len(stack) /\ stack'[i] = stack[i]
      BY <2>1, OnPath DEF Inside, PairOf
    <2>2. CASE i = Len(stack') /\ stack'[i] = f
      BY <1>1, <2>2 DEF Inside
    <2>3. QED BY <1>2, <2>1, <2>2
  <1>6. \A i, j \in DOMAIN stack' :
           i < j /\ Inside(i)' /\ Inside(j)' => stack'[i].room.unfolded < stack'[j].room.unfolded
    BY <1>4 DEF InPlay, TrailIsPath, Inside
  <1>7. \A k \in DOMAIN trail' : \E i \in DOMAIN stack' : Inside(i)' /\ stack'[i].room.unfolded + 1 = k
    BY <1>3 DEF InPlay, TrailIsPath, Inside
  <1>8. Len(trail') <= MaxRecursionDepth /\ \A j, k \in DOMAIN trail' : trail'[j] = trail'[k] => j = k
    BY DEF InPlay, TrailIsPath
  <1>9. QED BY <1>5, <1>6, <1>7, <1>8 DEF TrailIsPath

(* A frame that is no reference calls `member`. *)
LEMMA PathCall ==
    ASSUME InPlay, NEW f \in Frame, f.node = Top.node, f.pc = Top.pc, TopNode.kind # "ref",
           NEW n \in Node, NEW v \in Value, NEW m \in Mode,
           stack' = Append([stack EXCEPT ![Len(stack)] = f], Start(n, v, m)), trail' = trail
    PROVE  TrailIsPath'
  <1>1. /\ Len(stack) \in Nat \ {0} /\ Len(stack') = Len(stack) + 1
        /\ stack' \in Seq(Frame)
        /\ \A i \in 1 .. Len(stack) - 1 : stack'[i] = stack[i]
        /\ stack'[Len(stack)] = f /\ stack'[Len(stack) + 1] = Start(n, v, m)
    BY CallFrames DEF InPlay
  <1>2. Schema[f.node].kind # "ref" /\ f.pc # "inside" /\ Start(n, v, m).pc = "start"
    <2>1. Len(stack) \in DOMAIN stack /\ Top = stack[Len(stack)]
      BY DEF InPlay, Top
    <2>2. Top.pc # "inside"
      BY <2>1, OnPath DEF TopNode
    <2>3. QED BY <2>1, <2>2, StartIsAFrame DEF TopNode
  <1>3. \A i \in DOMAIN stack' :
           \/ i \in DOMAIN stack /\ i < Len(stack) /\ stack'[i] = stack[i]
           \/ i = Len(stack) /\ stack'[i] = f
           \/ i = Len(stack) + 1 /\ stack'[i] = Start(n, v, m)
    BY <1>1 DEF InPlay
  <1>4. \A i \in DOMAIN stack : stack[i].pc = "inside" => i \in DOMAIN stack' /\ stack'[i] = stack[i]
    BY <1>1, <1>2 DEF Top, InPlay
  <1>5. \A i \in DOMAIN stack' : stack'[i].pc = "inside" => i \in DOMAIN stack /\ stack'[i] = stack[i]
    BY <1>2, <1>3
  <1>6. ASSUME NEW i \in DOMAIN stack'
        PROVE  /\ stack'[i].pc = "inside" => Schema[stack'[i].node].kind = "ref"
               /\ Inside(i)' => /\ stack'[i].room.unfolded < Len(trail')
                                /\ trail'[stack'[i].room.unfolded + 1] = PairOf(i)'
               /\ Schema[stack'[i].node].kind = "ref" /\ stack'[i].pc = "open" =>
                     stack'[i].room.unfolded = Len(trail') /\ i = Len(stack') /\ ret' = "none"
    <2>1. CASE i \in DOMAIN stack /\ i < Len(stack) /\ stack'[i] = stack[i]
      BY <2>1, OnPath DEF Inside, PairOf
    <2>2. CASE i = Len(stack) /\ stack'[i] = f
      BY <1>2, <2>2 DEF Inside
    <2>3. CASE i = Len(stack) + 1 /\ stack'[i] = Start(n, v, m)
      BY <1>2, <2>3 DEF Inside
    <2>4. QED BY <1>3, <2>1, <2>2, <2>3
  <1>7. \A i, j \in DOMAIN stack' :
           i < j /\ Inside(i)' /\ Inside(j)' => stack'[i].room.unfolded < stack'[j].room.unfolded
    BY <1>5 DEF InPlay, TrailIsPath, Inside
  <1>8. \A k \in DOMAIN trail' : \E i \in DOMAIN stack' : Inside(i)' /\ stack'[i].room.unfolded + 1 = k
    BY <1>4 DEF InPlay, TrailIsPath, Inside
  <1>9. Len(trail') <= MaxRecursionDepth /\ \A j, k \in DOMAIN trail' : trail'[j] = trail'[k] => j = k
    BY DEF InPlay, TrailIsPath
  <1>10. QED BY <1>6, <1>7, <1>8, <1>9 DEF TrailIsPath

(* A reference enters its definition: its pair goes on the trail. *)
LEMMA PathEnter ==
    ASSUME InPlay, NEW f \in Frame, f.node = Top.node, f.val = Top.val, f.room = Top.room,
           f.pc = "inside", TopNode.kind = "ref", Top.pc = "open", TopKey \in Key,
           NEW n \in Node, NEW v \in Value, NEW m \in Mode,
           stack' = Append([stack EXCEPT ![Len(stack)] = f], Start(n, v, m)),
           trail' = Append(trail, TopKey), ~OnTrail, ~TrailFull, MaxRecursionDepth \in Nat
    PROVE  TrailIsPath'
  <1> DEFINE N == Len(stack)
             T == Len(trail)
  <1>1. /\ N \in Nat \ {0} /\ Len(stack') = N + 1
        /\ stack' \in Seq(Frame)
        /\ \A i \in 1 .. N - 1 : stack'[i] = stack[i]
        /\ stack'[N] = f /\ stack'[N + 1] = Start(n, v, m)
    BY CallFrames DEF InPlay
  <1>2. /\ N \in DOMAIN stack /\ Top = stack[N] /\ T \in Nat
        /\ Len(trail') = T + 1 /\ trail'[T + 1] = TopKey /\ \A k \in 1 .. T : trail'[k] = trail[k]
        /\ DOMAIN trail = 1 .. T /\ DOMAIN trail' = 1 .. T + 1
    BY DEF InPlay, Top
  <1>3. /\ Schema[f.node].kind = "ref" /\ f.room.unfolded = T /\ Start(n, v, m).pc = "start"
        /\ <<f.val, Schema[f.node].def>> = TopKey
    <2>1. stack[N].room.unfolded = T
      BY <1>2, OnPath DEF TopNode
    <2>2. QED BY <1>2, <2>1, StartIsAFrame DEF TopNode, TopKey
  <1>4. \A i \in DOMAIN stack' :
           \/ i \in DOMAIN stack /\ i < N /\ stack'[i] = stack[i]
           \/ i = N /\ stack'[i] = f
           \/ i = N + 1 /\ stack'[i] = Start(n, v, m)
    BY <1>1 DEF InPlay
  <1>5. \A i \in DOMAIN stack' : stack'[i].pc = "inside" =>
           \/ i \in DOMAIN stack /\ i < N /\ stack'[i] = stack[i]
           \/ i = N /\ stack'[i] = f
    BY <1>3, <1>4
  <1>a. \A i \in DOMAIN stack : stack[i].pc = "inside" => stack[i].room.unfolded \in 0 .. T - 1
    BY <1>2, OnPath
  <1> HIDE DEF N, T
  <1>6. ASSUME NEW i \in DOMAIN stack'
        PROVE  /\ stack'[i].pc = "inside" => Schema[stack'[i].node].kind = "ref"
               /\ Inside(i)' => /\ stack'[i].room.unfolded < Len(trail')
                                /\ trail'[stack'[i].room.unfolded + 1] = PairOf(i)'
               /\ ~(Schema[stack'[i].node].kind = "ref" /\ stack'[i].pc = "open")
    <2>1. CASE i \in DOMAIN stack /\ i < N /\ stack'[i] = stack[i]
      <3>1. ~(Schema[stack'[i].node].kind = "ref" /\ stack'[i].pc = "open")
        BY <1>1, <2>1, OnPath DEF N
      <3>2. stack'[i].pc = "inside" => Schema[stack'[i].node].kind = "ref"
        BY <2>1, OnPath
      <3>3. ASSUME stack'[i].pc = "inside"
            PROVE  /\ stack'[i].room.unfolded < T + 1
                   /\ trail'[stack'[i].room.unfolded + 1] = PairOf(i)'
        <4>1. stack'[i].room.unfolded \in 0 .. T - 1 /\ stack'[i].room.unfolded + 1 \in 1 .. T
          BY <1>2, <1>a, <2>1, <3>3
        <4>2. trail[stack[i].room.unfolded + 1] = PairOf(i) /\ PairOf(i)' = PairOf(i)
          BY <2>1, <3>3, OnPath DEF PairOf
        <4>3. QED BY <1>2, <2>1, <4>1, <4>2
      <3>4. QED BY <1>2, <3>1, <3>2, <3>3 DEF Inside
    <2>2. CASE i = N /\ stack'[i] = f
      BY <1>2, <1>3, <2>2 DEF Inside, PairOf
    <2>3. CASE i = N + 1 /\ stack'[i] = Start(n, v, m)
      BY <1>3, <2>3 DEF Inside
    <2>4. QED BY <1>4, <2>1, <2>2, <2>3
  <1>7. ASSUME NEW i \in DOMAIN stack', NEW j \in DOMAIN stack', i < j, Inside(i)', Inside(j)'
        PROVE  stack'[i].room.unfolded < stack'[j].room.unfolded
    <2>1. i \in DOMAIN stack /\ i < N /\ stack'[i] = stack[i] /\ stack[i].pc = "inside"
      BY <1>1, <1>5, <1>7 DEF Inside
    <2>2. CASE j \in DOMAIN stack /\ j < N /\ stack'[j] = stack[j]
      BY <1>7, <2>1, <2>2 DEF InPlay, TrailIsPath, Inside
    <2>3. CASE j = N /\ stack'[j] = f
      BY <1>2, <1>3, <1>a, <2>1, <2>3
    <2>4. QED BY <1>5, <1>7, <2>2, <2>3 DEF Inside
  <1>8. ASSUME NEW k \in DOMAIN trail'
        PROVE  \E i \in DOMAIN stack' : Inside(i)' /\ stack'[i].room.unfolded + 1 = k
    <2>1. CASE k = T + 1
      <3>1. N \in DOMAIN stack'
        BY <1>1
      <3>2. QED BY <1>1, <1>3, <2>1, <3>1 DEF Inside
    <2>2. CASE k \in DOMAIN trail
      <3>1. PICK i \in DOMAIN stack : stack[i].pc = "inside" /\ stack[i].room.unfolded + 1 = k
        BY <2>2 DEF InPlay, TrailIsPath, Inside
      <3>2. i # N
        BY <1>2, <3>1
      <3>3. i \in DOMAIN stack' /\ stack'[i] = stack[i]
        BY <1>1, <3>2 DEF InPlay, N
      <3>4. QED BY <3>1, <3>3 DEF Inside
    <2>3. QED BY <1>2, <2>1, <2>2
  <1>9. Len(trail') <= MaxRecursionDepth
    BY <1>2 DEF TrailFull, T
  <1>10. ASSUME NEW j \in DOMAIN trail', NEW k \in DOMAIN trail', trail'[j] = trail'[k]
         PROVE  j = k
    <2>1. \A i \in 1 .. T : trail[i] # TopKey
      BY <1>2 DEF OnTrail
    <2>2. QED BY <1>2, <1>10, <2>1 DEF InPlay, TrailIsPath
  <1>11. \A i \in DOMAIN stack' :
           /\ stack'[i].pc = "inside" => Schema[stack'[i].node].kind = "ref"
           /\ Inside(i)' => /\ stack'[i].room.unfolded < Len(trail')
                            /\ trail'[stack'[i].room.unfolded + 1] = PairOf(i)'
           /\ Schema[stack'[i].node].kind = "ref" /\ stack'[i].pc = "open" =>
                 stack'[i].room.unfolded = Len(trail') /\ i = Len(stack') /\ ret' = "none"
    BY <1>6
  <1>12. QED BY <1>7, <1>8, <1>9, <1>10, <1>11 DEF TrailIsPath

(* The innermost frame inside its definition leaves it: its pair is the last. *)
LEMMA PathReturn ==
    ASSUME InPlay, Top.pc = "inside", stack' = Pop, trail' = SubSeq(trail, 1, Len(trail) - 1)
    PROVE  TrailIsPath'
  <1> DEFINE N == Len(stack)
             T == Len(trail)
  <1>1. /\ N \in Nat \ {0} /\ Len(stack') = N - 1 /\ stack' \in Seq(Frame)
        /\ \A i \in 1 .. N - 1 : stack'[i] = stack[i]
    BY PopFrames DEF InPlay
  <1>2. N \in DOMAIN stack /\ Top = stack[N] /\ Inside(N) /\ T \in Nat
    BY DEF InPlay, Top, Inside
  <1>3. \A i \in DOMAIN stack : i # N /\ stack[i].pc = "inside" =>
           /\ stack[i].room.unfolded \in Nat /\ Top.room.unfolded \in Nat
           /\ stack[i].room.unfolded < Top.room.unfolded
    <2>1. \A i \in DOMAIN stack : i # N => i < N
      BY <1>1 DEF InPlay
    <2>2. QED BY <1>2, <2>1, OnPath
  <1>4. Top.room.unfolded = T - 1 /\ T > 0
    <2>1. Top.room.unfolded \in Nat /\ Top.room.unfolded < T
      BY <1>2, OnPath
    <2>2. T \in DOMAIN trail
      BY <2>1, <1>2 DEF InPlay
    <2>3. PICK i \in DOMAIN stack : stack[i].pc = "inside" /\ stack[i].room.unfolded + 1 = T
      BY <2>2 DEF InPlay, TrailIsPath, Inside
    <2>4. CASE i = N
      BY <1>2, <2>1, <2>3, <2>4
    <2>5. CASE i # N
      BY <1>2, <1>3, <2>1, <2>3, <2>5
    <2>6. QED BY <2>4, <2>5
  <1>5. /\ trail' \in Seq(Key) /\ Len(trail') = T - 1
        /\ \A k \in 1 .. T - 1 : trail'[k] = trail[k]
    <2>1. trail # <<>>
      BY <1>4 DEF InPlay
    <2>2. QED BY <2>1, FrontOfSeq DEF InPlay
  <1>6. \A i \in DOMAIN stack' : i \in DOMAIN stack /\ i < N /\ i # N /\ stack'[i] = stack[i]
    BY <1>1
  <1> HIDE DEF N, T
  <1>7. ASSUME NEW i \in DOMAIN stack'
        PROVE  /\ stack'[i].pc = "inside" => Schema[stack'[i].node].kind = "ref"
               /\ Inside(i)' => /\ stack'[i].room.unfolded < Len(trail')
                                /\ trail'[stack'[i].room.unfolded + 1] = PairOf(i)'
               /\ ~(Schema[stack'[i].node].kind = "ref" /\ stack'[i].pc = "open")
    <2>1. ~(Schema[stack'[i].node].kind = "ref" /\ stack'[i].pc = "open")
      BY <1>6, OnPath DEF N
    <2>2. stack'[i].pc = "inside" => Schema[stack'[i].node].kind = "ref"
      BY <1>6, OnPath
    <2>3. ASSUME stack'[i].pc = "inside"
          PROVE  /\ stack'[i].room.unfolded < T - 1
                 /\ trail'[stack'[i].room.unfolded + 1] = PairOf(i)'
      <3>1. stack[i].room.unfolded < T - 1 /\ stack[i].room.unfolded + 1 \in 1 .. T - 1
        BY <1>2, <1>3, <1>4, <1>6, <2>3
      <3>2. trail[stack[i].room.unfolded + 1] = PairOf(i) /\ PairOf(i)' = PairOf(i)
        BY <1>6, <2>3, OnPath DEF PairOf
      <3>3. QED BY <1>5, <1>6, <3>1, <3>2
    <2>4. QED BY <1>5, <2>1, <2>2, <2>3 DEF Inside
  <1>8. \A i, j \in DOMAIN stack' :
           i < j /\ Inside(i)' /\ Inside(j)' => stack'[i].room.unfolded < stack'[j].room.unfolded
    BY <1>6 DEF InPlay, TrailIsPath, Inside
  <1>9. ASSUME NEW k \in DOMAIN trail'
        PROVE  \E i \in DOMAIN stack' : Inside(i)' /\ stack'[i].room.unfolded + 1 = k
    <2>1. k \in 1 .. T - 1 /\ k \in DOMAIN trail
      BY <1>2, <1>5 DEF InPlay, T
    <2>2. PICK i \in DOMAIN stack : stack[i].pc = "inside" /\ stack[i].room.unfolded + 1 = k
      BY <2>1 DEF InPlay, TrailIsPath, Inside
    <2>3. i # N
      BY <1>2, <1>4, <2>1, <2>2
    <2>4. i \in DOMAIN stack' /\ stack'[i] = stack[i]
      BY <1>1, <2>3 DEF InPlay, N
    <2>5. QED BY <2>2, <2>4 DEF Inside
  <1>10. Len(trail') <= MaxRecursionDepth
    BY <1>2, <1>5, BoundsAreNats DEF InPlay, TrailIsPath, T
  <1>11. \A j, k \in DOMAIN trail' : trail'[j] = trail'[k] => j = k
    BY <1>2, <1>5 DEF InPlay, TrailIsPath, T
  <1>12. \A i \in DOMAIN stack' :
           /\ stack'[i].pc = "inside" => Schema[stack'[i].node].kind = "ref"
           /\ Inside(i)' => /\ stack'[i].room.unfolded < Len(trail')
                            /\ trail'[stack'[i].room.unfolded + 1] = PairOf(i)'
           /\ Schema[stack'[i].node].kind = "ref" /\ stack'[i].pc = "open" =>
                 stack'[i].room.unfolded = Len(trail') /\ i = Len(stack') /\ ret' = "none"
    BY <1>7
  <1>13. QED BY <1>8, <1>9, <1>10, <1>11, <1>12 DEF TrailIsPath

-----------------------------------------------------------------------------
(* The arming, through what the steps share.                               *)

(* A frame that armed the memo is a union or a meet, waiting for a member.  *)
ArmingWaits ==
    \A i \in DOMAIN stack : stack[i].arming =>
        /\ Schema[stack[i].node].kind \in {"union", "meet"}
        /\ i = Len(stack) => ret # "none"

ArmBooks == /\ memo.armed <=> \E i \in DOMAIN stack : stack[i].arming
            /\ \A i \in DOMAIN stack : stack[i].arming =>
                  (stack[i].outer <=> \E j \in DOMAIN stack : j < i /\ stack[j].arming)
            /\ memo.armed => memo.used
            /\ ArmingWaits

Armed == stack \in Seq(Frame) /\ stack # <<>> /\ memo \in MemoWords /\ ArmBooks

(* The memo a returning call leaves: disarmed if its own caller armed it.   *)
PutBack == /\ memo'.armed <=> IF Top.arming THEN Top.outer ELSE memo.armed
           /\ memo'.used = memo.used

LEMMA ArmPop ==
    ASSUME Armed, PutBack, stack' = Pop, ret' # "none"
    PROVE  ArmBooks'
  <1>1. /\ Len(stack) \in Nat \ {0} /\ Len(stack') = Len(stack) - 1
        /\ stack' \in Seq(Frame)
        /\ \A i \in 1 .. Len(stack) - 1 : stack'[i] = stack[i]
        /\ DOMAIN stack = 1 .. Len(stack) /\ DOMAIN stack' = 1 .. Len(stack) - 1
        /\ Top = stack[Len(stack)] /\ Len(stack) \in DOMAIN stack
    BY PopFrames DEF Armed, ArmBooks, Top
  <1>2. \A i \in DOMAIN stack' : i \in DOMAIN stack /\ i < Len(stack) /\ stack'[i] = stack[i]
    BY <1>1
  <1>3. \A i \in DOMAIN stack : i = Len(stack) \/ (i \in DOMAIN stack' /\ i < Len(stack))
    BY <1>1
  <1>4. memo'.armed <=> \E i \in DOMAIN stack' : stack'[i].arming
    BY <1>1, <1>2, <1>3 DEF Armed, ArmBooks, PutBack
  <1>5. ASSUME NEW i \in DOMAIN stack', stack'[i].arming
        PROVE  stack'[i].outer <=> \E j \in DOMAIN stack' : j < i /\ stack'[j].arming
    BY <1>1, <1>2, <1>5 DEF Armed, ArmBooks
  <1>6. memo'.armed => memo'.used
    BY <1>1, <1>2, <1>4 DEF Armed, ArmBooks, PutBack
  <1>7. ArmingWaits'
    BY <1>2 DEF Armed, ArmBooks, ArmingWaits
  <1>8. QED BY <1>4, <1>5, <1>6, <1>7 DEF ArmBooks

LEMMA ArmBecome ==
    ASSUME Armed, PutBack, NEW f \in Frame, f.arming = FALSE, Become(f)
    PROVE  ArmBooks'
  <1>1. /\ Len(stack) \in Nat \ {0} /\ Len(stack') = Len(stack)
        /\ stack' \in Seq(Frame) /\ stack'[Len(stack)] = f
        /\ \A i \in 1 .. Len(stack) - 1 : stack'[i] = stack[i]
        /\ DOMAIN stack = 1 .. Len(stack) /\ DOMAIN stack' = 1 .. Len(stack)
        /\ Top = stack[Len(stack)] /\ Len(stack) \in DOMAIN stack
    BY BecomeFrames DEF Armed, ArmBooks, Top
  <1>2. \A i \in DOMAIN stack' : stack'[i].arming => i < Len(stack)
    BY <1>1
  <1>3. \A i \in DOMAIN stack' : i < Len(stack) => i \in DOMAIN stack /\ stack'[i] = stack[i]
    BY <1>1
  <1>4. memo'.armed <=> \E i \in DOMAIN stack' : stack'[i].arming
    <2>1. memo'.armed <=> \E i \in DOMAIN stack : i < Len(stack) /\ stack[i].arming
      BY <1>1 DEF Armed, ArmBooks, PutBack
    <2>2. QED BY <1>1, <1>2, <1>3, <2>1
  <1>5. ASSUME NEW i \in DOMAIN stack', stack'[i].arming
        PROVE  stack'[i].outer <=> \E j \in DOMAIN stack' : j < i /\ stack'[j].arming
    <2>1. i < Len(stack) /\ i \in DOMAIN stack /\ stack'[i] = stack[i]
      BY <1>2, <1>3, <1>5
    <2>2. \A j \in 1 .. Len(stack) : j < i => stack'[j] = stack[j]
      BY <1>1, <2>1
    <2>3. QED BY <1>1, <1>5, <2>1, <2>2 DEF Armed, ArmBooks
  <1>6. memo'.armed => memo'.used
    BY <1>1, <1>2, <1>3, <1>4 DEF Armed, ArmBooks, PutBack
  <1>7. ArmingWaits'
    BY <1>1, <1>2, <1>3 DEF Armed, ArmBooks, ArmingWaits
  <1>8. QED BY <1>4, <1>5, <1>6, <1>7 DEF ArmBooks

(* The memo a call leaves: armed if the frame, become f, arms it.           *)
Arms(f) == /\ memo'.armed <=> (f.arming \/ memo.armed)
           /\ f.arming => memo'.used
           /\ memo.used => memo'.used
           /\ f.arming => (f.outer <=> memo.armed)
           /\ f.arming => TopNode.kind \in {"union", "meet"}

Pushes(f, n, v, m) == stack' = Append([stack EXCEPT ![Len(stack)] = f], Start(n, v, m))

LEMMA ArmCall ==
    ASSUME Armed, ret = "none", NEW f \in Frame, f.node = Top.node,
           NEW n \in Node, NEW v \in Value, NEW m \in Mode,
           Pushes(f, n, v, m), Arms(f)
    PROVE  ArmBooks'
  <1> DEFINE g == Start(n, v, m)
  <1>1. /\ Len(stack) \in Nat \ {0} /\ Len(stack') = Len(stack) + 1
        /\ stack' \in Seq(Frame) /\ stack'[Len(stack)] = f /\ stack'[Len(stack) + 1] = g
        /\ \A i \in 1 .. Len(stack) - 1 : stack'[i] = stack[i]
        /\ DOMAIN stack = 1 .. Len(stack) /\ DOMAIN stack' = 1 .. Len(stack) + 1
        /\ Top = stack[Len(stack)] /\ Len(stack) \in DOMAIN stack /\ ~g.arming
        /\ Schema[f.node].kind = TopNode.kind
    <2>1. stack \in Seq(Frame) /\ stack # <<>>
      BY DEF Armed, ArmBooks
    <2>2. /\ stack' \in Seq(Frame) /\ stack'[Len(stack)] = f /\ stack'[Len(stack) + 1] = g
          /\ Len(stack') = Len(stack) + 1
          /\ \A i \in 1 .. Len(stack) - 1 : stack'[i] = stack[i]
      BY <2>1, CallFrames DEF Pushes
    <2>3. g.arming = FALSE
      BY StartIsAFrame
    <2> HIDE DEF g
    <2>4. Schema[f.node].kind = TopNode.kind
      BY DEF TopNode
    <2>5. Top = stack[Len(stack)]
      BY DEF Top
    <2>6. QED BY <2>1, <2>2, <2>3, <2>4, <2>5
  <1> HIDE DEF g
  <1>2. ~Top.arming
    BY <1>1 DEF Armed, ArmBooks, ArmingWaits
  <1>3. \A i \in DOMAIN stack' :
           stack'[i].arming <=> \/ i = Len(stack) /\ f.arming
                                \/ i < Len(stack) /\ i \in DOMAIN stack /\ stack[i].arming
    BY <1>1
  <1>4. \A i \in DOMAIN stack' : i < Len(stack) => i \in DOMAIN stack /\ stack'[i] = stack[i]
    BY <1>1
  <1>5. memo.armed <=> \E i \in DOMAIN stack : i < Len(stack) /\ stack[i].arming
    BY <1>1, <1>2 DEF Armed, ArmBooks
  <1>6. memo'.armed <=> \E i \in DOMAIN stack' : stack'[i].arming
    <2>1. memo'.armed <=> f.arming \/ memo.armed
      BY DEF Arms
    <2>2. QED BY <1>1, <1>3, <1>5, <2>1
  <1>7. ASSUME NEW i \in DOMAIN stack', stack'[i].arming
        PROVE  stack'[i].outer <=> \E j \in DOMAIN stack' : j < i /\ stack'[j].arming
    <2>1. CASE i = Len(stack)
      <3>1. f.arming /\ (f.outer <=> memo.armed)
        BY <1>1, <1>7, <2>1 DEF Arms
      <3>2. QED BY <1>1, <1>3, <1>4, <1>5, <2>1, <3>1
    <2>2. CASE i < Len(stack)
      <3>1. i \in DOMAIN stack /\ stack'[i] = stack[i] /\ stack[i].arming
        BY <1>4, <1>7, <2>2
      <3>2. \A j \in DOMAIN stack' : j < i => j \in DOMAIN stack /\ stack'[j] = stack[j]
        BY <1>1, <1>4, <2>2
      <3>3. DOMAIN stack \subseteq DOMAIN stack'
        BY <1>1
      <3>4. QED BY <3>1, <3>2, <3>3 DEF Armed, ArmBooks
    <2>3. QED BY <1>3, <1>7, <2>1, <2>2
  <1>8. memo'.armed => memo'.used
    BY DEF Armed, ArmBooks, Arms
  <1>9. ArmingWaits'
    <2>1. ASSUME NEW i \in DOMAIN stack', stack'[i].arming
          PROVE  Schema[stack'[i].node].kind \in {"union", "meet"} /\ i # Len(stack')
      <3>1. CASE i = Len(stack)
        BY <1>1, <1>3, <2>1, <3>1 DEF Arms
      <3>2. CASE i < Len(stack)
        BY <1>1, <1>3, <1>4, <2>1, <3>2 DEF Armed, ArmBooks, ArmingWaits
      <3>3. QED BY <1>3, <2>1, <3>1, <3>2
    <2>2. QED BY <2>1 DEF ArmingWaits
  <1>10. QED BY <1>6, <1>7, <1>8, <1>9 DEF ArmBooks

-----------------------------------------------------------------------------
(* The books, step by step.                                                *)

Books == TrailIsPath /\ ArmBooks

LEMMA InTheBooks ==
    ASSUME Inv, Books, stack # <<>>
    PROVE  InPlay /\ Armed /\ Top \in Frame
  BY TopIsAFrame DEF Inv, StackOK, RestOK, Books, InPlay, Armed

(* Only a frame a call has returned to may have armed the memo. *)
LEMMA NotArming ==
    ASSUME Inv, Books, stack # <<>>, ret = "none" \/ TopNode.kind \notin {"union", "meet"}
    PROVE  ~Top.arming
  <1>1. Len(stack) \in DOMAIN stack /\ Top = stack[Len(stack)]
    BY TopIsAFrame DEF Inv, StackOK, Top
  <1>2. QED BY <1>1 DEF Books, ArmBooks, ArmingWaits, TopNode

(* A reference past its prologue is inside its definition once a call has     *)
(* returned to it, and no other node's frame ever is.                         *)
LEMMA OnlyRefsInside ==
    ASSUME Inv, Books, stack # <<>>
    PROVE  /\ TopNode.kind # "ref" => Top.pc # "inside"
           /\ Returning /\ TopNode.kind = "ref" => Top.pc = "inside"
           /\ TopNode.kind = "ref" /\ Top.pc = "open" => Top.room.unfolded = Len(trail)
  <1>1. Len(stack) \in DOMAIN stack /\ Top = stack[Len(stack)] /\ Top \in Frame
    BY TopIsAFrame DEF Inv, StackOK, Top
  <1>2. Returning => Top.pc # "start"
    BY ReturnedTo DEF Inv
  <1>3. Top.pc \in {"start", "open", "inside"}
    BY <1>1 DEF Frame
  <1>4. QED BY <1>1, <1>2, <1>3, InTheBooks, OnPath DEF TopNode, Returning

LEMMA PopBooks ==
    ASSUME Inv, Books, stack # <<>>, Top.pc # "inside", NEW r \in Reply,
           AnswerAt(r) \/ Close(r), trail' = trail, PutBack
    PROVE  Books'
  <1>1. stack' = Pop /\ ret' # "none"
    BY DEF AnswerAt, Close, Reply
  <1>2. TrailIsPath'
    BY <1>1, InTheBooks, PathPop
  <1>3. ArmBooks'
    BY <1>1, InTheBooks, ArmPop
  <1>4. QED BY <1>2, <1>3 DEF Books

LEMMA BecomeBooks ==
    ASSUME Inv, Inv', Books, stack # <<>>, Top.pc # "inside",
           NEW f, Become(f), f.node = Top.node, f.pc # "inside", ~f.arming,
           TopNode.kind = "ref" => f.room.unfolded = Len(trail), trail' = trail, PutBack
    PROVE  Books'
  <1>1. f \in Frame
    <2>1. /\ stack \in Seq(Frame) /\ stack' \in Seq(Frame) /\ Len(stack) \in DOMAIN stack
          /\ stack' = [stack EXCEPT ![Len(stack)] = f]
      BY TopIsAFrame DEF Inv, StackOK, Become
    <2>2. stack'[Len(stack)] = f /\ Len(stack) \in DOMAIN stack'
      BY <2>1
    <2>3. QED BY <2>1, <2>2
  <1>2. f.arming = FALSE
    BY <1>1 DEF Frame
  <1>3. TrailIsPath'
    BY <1>1, InTheBooks, PathBecome DEF TopNode
  <1>4. ArmBooks'
    BY <1>1, <1>2, InTheBooks, ArmBecome
  <1>5. QED BY <1>3, <1>4 DEF Books

LEMMA CallBooks ==
    ASSUME Inv, Books, stack # <<>>, ret = "none", TopNode.kind # "ref",
           NEW f \in Frame, f.node = Top.node, f.pc = Top.pc,
           NEW n \in Node, NEW v \in Value, NEW m \in Mode, NEW armed \in BOOLEAN,
           armed => TopNode.kind \in {"union", "meet"},
           Call(f, n, v, m, armed), trail' = trail
    PROVE  Books'
  <1> DEFINE g == [f EXCEPT !.arming = armed, !.outer = memo.armed]
  <1>1. memo \in MemoWords
    BY DEF Inv, RestOK
  <1>2. /\ g \in Frame /\ g.node = Top.node /\ g.pc = Top.pc
        /\ (g.arming <=> armed) /\ (g.outer <=> memo.armed)
    BY <1>1 DEF Frame, MemoWords
  <1>3. /\ stack' = Append([stack EXCEPT ![Len(stack)] = g], Start(n, v, m))
        /\ memo' = IF armed THEN [memo EXCEPT !.used = TRUE, !.armed = TRUE] ELSE memo
    BY DEF Call
  <1> HIDE DEF g
  <1>4. /\ memo'.armed <=> (armed \/ memo.armed)
        /\ armed => memo'.used
        /\ memo.used => memo'.used
    BY <1>1, <1>3 DEF MemoWords
  <1>5. TrailIsPath'
    BY <1>2, <1>3, InTheBooks, PathCall
  <1>6. Arms(g)
    BY <1>2, <1>4 DEF Arms
  <1>7. Pushes(g, n, v, m)
    BY <1>3 DEF Pushes
  <1>8. ArmBooks'
    BY <1>2, <1>6, <1>7, InTheBooks, ArmCall
  <1>9. QED BY <1>5, <1>8 DEF Books

(* A step that ends a call and leaves the trail and the memo as they are. *)
LEMMA EndBooks ==
    ASSUME Inv, Books,
           \/ Unwind \/ TooDeep \/ TestLeaf \/ CompareLiteral \/ AskPredicate
           \/ RefuseSeq \/ SeqMoved \/ SeqEnd \/ UnionEnd \/ MeetEnd \/ RefFound \/ RefRefused
    PROVE  Books'
  <1>1. Calling /\ Top.pc \in {"start", "open"} /\ UNCHANGED <<trail, memo>>
    BY DEF Unwind, TooDeep, TestLeaf, CompareLiteral, AskPredicate, RefuseSeq, SeqMoved, SeqEnd,
           UnionEnd, MeetEnd, RefFound, RefRefused, Walks, Opening, At
  <1>2. \E r \in Reply : AnswerAt(r) \/ Close(r)
    <2>1. /\ \A b : Says(b) \in Reply
          /\ StoppedIn(Top.mode) \in Reply /\ "yes" \in Reply /\ "no" \in Reply
      BY DEF Says, StoppedIn, Reply
    <2>2. CASE Unwind \/ TooDeep \/ TestLeaf \/ CompareLiteral \/ AskPredicate
      BY <2>1, <2>2 DEF Unwind, TooDeep, TestLeaf, CompareLiteral, AskPredicate
    <2>3. CASE RefuseSeq \/ SeqMoved \/ SeqEnd \/ UnionEnd \/ MeetEnd
      BY <2>1, <2>3 DEF RefuseSeq, SeqMoved, SeqEnd, UnionEnd, MeetEnd
    <2>4. CASE RefFound \/ RefRefused
      BY <2>1, <2>4 DEF RefFound, RefRefused
    <2>5. QED BY <2>2, <2>3, <2>4
  <1>3. stack # <<>> /\ ret = "none"
    BY <1>1 DEF Calling
  <1>4. PutBack
    BY <1>1, <1>3, NotArming DEF PutBack
  <1>5. QED BY <1>1, <1>2, <1>3, <1>4, PopBooks

(* A step that opens a call's level. *)
LEMMA OpenedBooks ==
    ASSUME Inv, Inv', Books, Calling, Top.pc = "start",
           NEW f \in Frame, f.node = Top.node, f.arming = Top.arming,
           TopNode.kind = "ref" => f.room.unfolded = Len(trail),
           Open(f), trail' = trail, memo'.armed = memo.armed, memo'.used = memo.used
    PROVE  Books'
  <1> DEFINE g == [f EXCEPT !.pc = "open"]
  <1>1. g.node = Top.node /\ g.pc # "inside" /\ g.arming = Top.arming /\ g.room = f.room
    BY DEF Frame
  <1>2. Become(g)
    BY DEF Open
  <1> HIDE DEF g
  <1>3. stack # <<>> /\ ret = "none"
    BY DEF Calling
  <1>4. ~Top.arming /\ Top.pc # "inside"
    BY <1>3, NotArming
  <1>5. PutBack
    BY <1>4 DEF PutBack
  <1>6. QED BY <1>1, <1>2, <1>3, <1>4, <1>5, BecomeBooks

LEMMA OpenBooks ==
    ASSUME Inv, Inv', Books, OpenSeq \/ OpenUnion \/ OpenMeet \/ OpenNot \/ OpenRef
    PROVE  Books'
  <1>1. Calling /\ Top.pc = "start" /\ stack # <<>> /\ trail' = trail
    BY DEF OpenSeq, OpenUnion, OpenMeet, OpenNot, OpenRef, Opening, Calling
  <1>2. Top \in Frame /\ memo \in MemoWords /\ moves \in Nat
    BY <1>1, InTheBooks DEF Inv, RestOK
  <1>3. stopped \in Stop /\ None \in Stop
    BY DEF Inv, RestOK, Stop
  <1>4. CASE OpenSeq
    <2> DEFINE f == [Top EXCEPT !.count = Len(heap[Top.val])]
    <2>1. Open(f) /\ TopNode.kind = "seq" /\ IsArray(Top.node, Top.val) /\ memo' = memo
      BY <1>4 DEF OpenSeq, Opening
    <2>2. Len(heap[Top.val]) \in Nat
      BY <2>1, HeapsHoldValues DEF IsArray, Inv, RestOK
    <2>3. f \in Frame /\ f.node = Top.node /\ f.arming = Top.arming
      BY <1>2, <2>2 DEF Frame
    <2> HIDE DEF f
    <2>4. QED BY <1>1, <2>1, <2>3, OpenedBooks
  <1>5. CASE OpenUnion
    <2> DEFINE f == [Top EXCEPT !.earlier = IF Top.mode = "settle" THEN stopped ELSE None]
    <2>1. Open(f) /\ TopNode.kind = "union" /\ memo' = memo
      BY <1>5 DEF OpenUnion, Opening
    <2>2. f \in Frame /\ f.node = Top.node /\ f.arming = Top.arming
      BY <1>2, <1>3 DEF Frame
    <2> HIDE DEF f
    <2>3. QED BY <1>1, <2>1, <2>2, OpenedBooks
  <1>6. CASE OpenMeet
    <2> DEFINE f == [Top EXCEPT !.entered = memo.entered]
    <2>1. Open(f) /\ TopNode.kind = "meet" /\ memo' = memo
      BY <1>6 DEF OpenMeet, Opening
    <2>2. f \in Frame /\ f.node = Top.node /\ f.arming = Top.arming
      BY <1>2 DEF Frame, MemoWords
    <2> HIDE DEF f
    <2>3. QED BY <1>1, <2>1, <2>2, OpenedBooks
  <1>7. CASE OpenNot
    <2> DEFINE f == [Top EXCEPT !.earlier = stopped, !.moves = moves]
    <2>1. Open(f) /\ TopNode.kind = "not" /\ memo' = memo
      BY <1>7 DEF OpenNot, Opening
    <2>2. f \in Frame /\ f.node = Top.node /\ f.arming = Top.arming
      BY <1>2, <1>3 DEF Frame
    <2> HIDE DEF f
    <2>3. QED BY <1>1, <2>1, <2>2, OpenedBooks
  <1>8. CASE OpenRef
    <2> DEFINE room == [levels |-> depth + 1, unfolded |-> Len(trail)]
               f == [Top EXCEPT !.keeping = Asks, !.room = room]
    <2>1. Open(f) /\ memo' = [memo EXCEPT !.entered = @ + 1]
      BY <1>8 DEF OpenRef
    <2>2. Asks \in BOOLEAN /\ room \in RoomOf /\ room.unfolded = Len(trail)
      BY <1>2 DEF Asks, RoomOf, Inv, StackOK, RestOK, MemoWords
    <2>3. memo'.armed = memo.armed /\ memo'.used = memo.used
      BY <1>2, <2>1 DEF MemoWords
    <2> HIDE DEF room
    <2>4. f \in Frame /\ f.node = Top.node /\ f.arming = Top.arming /\ f.room = room
      BY <1>2, <2>2 DEF Frame
    <2> HIDE DEF f
    <2>5. QED BY <1>1, <2>1, <2>2, <2>3, <2>4, OpenedBooks
  <1>9. QED BY <1>4, <1>5, <1>6, <1>7, <1>8

(* A step that calls `member` for a part of the node. *)
LEMMA PartBooks ==
    ASSUME Inv, Books, SeqElement \/ UnionBranch \/ MeetMember \/ NotInner
    PROVE  Books'
  <1>1. Calling /\ stack # <<>> /\ ret = "none" /\ trail' = trail /\ Top.pc = "open"
    BY DEF SeqElement, UnionBranch, MeetMember, NotInner, At, Calling
  <1>2. /\ Top \in Frame /\ Top.mode \in Mode /\ Top.node \in Node /\ Top.val \in Value
        /\ TopNode \in Rows /\ memo \in MemoWords
    BY <1>1, TopIsAFrame DEF Inv, StackOK, RestOK
  <1>3. CASE SeqElement
    <2>1. /\ TopNode.kind = "seq" /\ Top.at <= Top.count /\ Len(heap[Top.val]) = Top.count
          /\ Call(Top, ElementOf(Top.node, Top.at), heap[Top.val][Top.at], Top.mode, FALSE)
      BY <1>3 DEF SeqElement, At
    <2>2. Top.at \in 1 .. Top.count
      BY <1>2, <2>1 DEF Frame
    <2>3. ElementOf(Top.node, Top.at) \in Node /\ heap[Top.val][Top.at] \in Value
      BY <1>1, <2>1, <2>2, ScanFrame
    <2>4. QED BY <1>1, <1>2, <2>1, <2>3, CallBooks
  <1>4. CASE UnionBranch
    <2> DEFINE f == [Top EXCEPT !.entered = IF @ = Unread THEN memo.entered ELSE @]
    <2>1. /\ TopNode.kind = "union" /\ Top.at <= Len(TopNode.kids)
          /\ Call(f, Branch, Top.val, Top.mode, Again(Top))
      BY <1>4 DEF UnionBranch, At
    <2>2. f \in Frame /\ f.node = Top.node /\ f.pc = Top.pc
      BY <1>2 DEF Frame, MemoWords
    <2>3. Branch \in Node /\ Again(Top) \in BOOLEAN
      BY <1>2, <2>1 DEF Branch, Rows, Frame, Again
    <2> HIDE DEF f
    <2>4. QED BY <1>1, <1>2, <2>1, <2>2, <2>3, CallBooks
  <1>5. CASE MeetMember
    <2>1. /\ TopNode.kind = "meet" /\ Top.at <= Len(TopNode.kids)
          /\ Call(Top, TopNode.kids[Top.at], Top.val, Top.mode, Again(Top))
      BY <1>5 DEF MeetMember, At
    <2>2. TopNode.kids[Top.at] \in Node
      BY <1>2, <2>1 DEF Rows, Frame
    <2>3. Again(Top) \in BOOLEAN
      BY DEF Again
    <2>4. QED BY <1>1, <1>2, <2>1, <2>2, <2>3, CallBooks
  <1>6. CASE NotInner
    <2>1. TopNode.kind = "not" /\ Call(Top, TopNode.kids[1], Top.val, "settle", FALSE)
      BY <1>6 DEF NotInner, At
    <2>2. TopNode.kids[1] \in Node /\ "settle" \in Mode
      BY <1>2, <2>1, NotHasOneKid DEF Rows, Mode, TopNode
    <2>3. QED BY <1>1, <1>2, <2>1, <2>2, CallBooks
  <1>7. QED BY <1>3, <1>4, <1>5, <1>6

(* A frame takes its part's answer, or reads a scalar branch in place. *)
LEMMA AnsweredBooks ==
    ASSUME Inv, Inv', Books, UnionScalar \/ SeqReturn \/ UnionReturn \/ MeetReturn \/ NotReturn
    PROVE  Books'
  <1>1. stack # <<>> /\ TopNode.kind # "ref" /\ trail' = trail
    BY DEF UnionScalar, SeqReturn, UnionReturn, MeetReturn, NotReturn, At, Back, Calling, Returning
  <1>2. Top \in Frame /\ Top.pc # "inside" /\ memo \in MemoWords
    BY <1>1, InTheBooks, OnlyRefsInside DEF Inv, RestOK
  <1>3. PutBack
    <2>1. CASE UnionScalar \/ SeqReturn \/ NotReturn
      <3>1. memo' = memo /\ (ret = "none" \/ TopNode.kind \notin {"union", "meet"})
        BY <2>1 DEF UnionScalar, SeqReturn, NotReturn, At, Back, Calling
      <3>2. QED BY <1>1, <3>1, NotArming DEF PutBack
    <2>2. CASE UnionReturn \/ MeetReturn
      <3>1. memo' = Disarmed(Top)
        BY <2>2 DEF UnionReturn, MeetReturn
      <3>2. QED BY <1>2, <3>1 DEF Disarmed, PutBack, MemoWords
    <2>3. QED BY <2>1, <2>2
  <1>4. \/ \E r \in Reply : Close(r)
        \/ \E f : Become(f) /\ f.node = Top.node /\ f.pc = Top.pc /\ ~f.arming
    <2>1. "yes" \in Reply /\ "no" \in Reply /\ \A m : StoppedIn(m) \in Reply
      BY DEF Reply, StoppedIn
    <2>2. CASE SeqReturn
      <3> DEFINE f == [Top EXCEPT !.at = @ + 1]
      <3>1. f.node = Top.node /\ f.pc = Top.pc /\ f.arming = Top.arming
        BY <1>2 DEF Frame
      <3>2. TopNode.kind = "seq" /\ (Become(f) \/ Close("no"))
        BY <2>2 DEF SeqReturn, Back
      <3>3. ~Top.arming
        BY <1>1, <3>2, NotArming
      <3> HIDE DEF f
      <3>4. QED BY <2>1, <3>1, <3>2, <3>3
    <2>3. CASE MeetReturn
      <3> DEFINE f == [Top EXCEPT !.at = @ + 1, !.arming = FALSE]
      <3>1. f.node = Top.node /\ f.pc = Top.pc /\ f.arming = FALSE
        BY <1>2 DEF Frame
      <3>2. Become(f) \/ Close("no")
        BY <2>3 DEF MeetReturn
      <3> HIDE DEF f
      <3>3. QED BY <2>1, <3>1, <3>2
    <2>4. CASE NotReturn
      BY <2>1, <2>4 DEF NotReturn
    <2>5. ASSUME NEW f \in Frame, f.node = Top.node, f.pc = Top.pc, f.arming = FALSE,
                 NEW r, AfterBranch(f, r)
          PROVE  \/ Close("yes")
                 \/ \E g : Become(g) /\ g.node = Top.node /\ g.pc = Top.pc /\ ~g.arming
      <3> DEFINE g == [f EXCEPT !.at = @ + 1]
                 h == [f EXCEPT !.at = @ + 1, !.met = IF r = "yes" THEN Or(@, stopped) ELSE @]
      <3>1. g.node = Top.node /\ g.pc = Top.pc /\ g.arming = FALSE
        BY <2>5 DEF Frame
      <3>2. h.node = Top.node /\ h.pc = Top.pc /\ h.arming = FALSE
        BY <2>5 DEF Frame
      <3>3. Close("yes") \/ Become(g) \/ Become(h)
        BY <2>5 DEF AfterBranch
      <3> HIDE DEF g, h
      <3>4. QED BY <3>1, <3>2, <3>3
    <2>6. CASE UnionScalar
      <3>1. ~Top.arming
        BY <1>1, <2>6, NotArming DEF UnionScalar, At, Calling
      <3>2. Top.arming = FALSE
        BY <1>2, <3>1 DEF Frame
      <3>3. AfterBranch(Top, Says(~fatal /\ Top.val \in Schema[Branch].admits))
        BY <2>6 DEF UnionScalar
      <3>4. QED BY <1>2, <2>1, <2>5, <3>2, <3>3
    <2>7. CASE UnionReturn
      <3> DEFINE f == [Top EXCEPT !.arming = FALSE]
      <3>1. f \in Frame /\ f.node = Top.node /\ f.pc = Top.pc /\ f.arming = FALSE
        BY <1>2 DEF Frame
      <3>2. AfterBranch(f, ret)
        BY <2>7 DEF UnionReturn
      <3> HIDE DEF f
      <3>3. QED BY <2>1, <2>5, <3>1, <3>2
    <2>8. QED BY <2>2, <2>3, <2>4, <2>6, <2>7
  <1>5. CASE \E r \in Reply : Close(r)
    BY <1>1, <1>2, <1>3, <1>5, PopBooks
  <1>6. CASE \E f : Become(f) /\ f.node = Top.node /\ f.pc = Top.pc /\ ~f.arming
    BY <1>1, <1>2, <1>3, <1>6, BecomeBooks
  <1>7. QED BY <1>4, <1>5, <1>6

(* A reference enters its definition, and leaves it. *)
LEMMA RefBooks ==
    ASSUME Inv, Books, RefEnter \/ RefReturn
    PROVE  Books'
  <1>1. stack # <<>> /\ TopNode.kind = "ref"
    BY DEF RefEnter, RefReturn, Walks, At, Back, Calling, Returning
  <1>2. /\ InPlay /\ Armed /\ Top \in Frame /\ ~Top.arming /\ memo \in MemoWords /\ TopKey \in Key
        /\ Top.val \in Value /\ Top.mode \in Mode /\ TopNode \in Rows
    BY <1>1, InTheBooks, NotArming, TopIsAFrame DEF Armed, InPlay
  <1>3. CASE RefEnter
    <2> DEFINE f == [Top EXCEPT !.pc = "inside", !.keeping = Keeps,
                                !.earlier = IF Keeps THEN stopped ELSE None]
               g == [f EXCEPT !.arming = FALSE, !.outer = memo.armed]
    <2>1. /\ ret = "none" /\ Top.pc = "open" /\ trail' = Append(trail, TopKey)
          /\ ~OnTrail /\ ~TrailFull /\ Call(f, defs[TopNode.def], Top.val, Top.mode, FALSE)
      BY <1>3 DEF RefEnter, Walks, At, Calling
    <2>2. Keeps \in BOOLEAN /\ stopped \in Stop /\ None \in Stop
      BY <1>2 DEF Keeps, Frame, MemoWords, Inv, RestOK, Stop
    <2>3. /\ f \in Frame /\ f.node = Top.node /\ f.val = Top.val /\ f.room = Top.room
          /\ f.pc = "inside"
      BY <1>2, <2>2 DEF Frame
    <2> HIDE DEF f
    <2>4. /\ g \in Frame /\ g.node = Top.node /\ g.val = Top.val /\ g.room = Top.room
          /\ g.pc = "inside" /\ g.arming = FALSE
      BY <1>2, <2>3 DEF Frame, MemoWords
    <2>5. /\ stack' = Append([stack EXCEPT ![Len(stack)] = g], Start(defs[TopNode.def], Top.val, Top.mode))
          /\ memo' = memo
      BY <2>1 DEF Call
    <2>6. defs[TopNode.def] \in Node
      BY <1>2 DEF Inv, RestOK, Rows
    <2> HIDE DEF g
    <2>7. TrailIsPath'
      BY <1>1, <1>2, <2>1, <2>4, <2>5, <2>6, BoundsAreNats, PathEnter
    <2>8. Arms(g) /\ Pushes(g, defs[TopNode.def], Top.val, Top.mode)
      BY <2>4, <2>5 DEF Arms, Pushes
    <2>9. ArmBooks'
      BY <1>2, <2>1, <2>4, <2>6, <2>8, ArmCall
    <2>10. QED BY <2>7, <2>9 DEF Books
  <1>4. CASE RefReturn
    <2>1. /\ Returning /\ Close(ret) /\ memo' = memo
          /\ trail' = SubSeq(trail, 1, Len(trail) - 1)
      BY <1>4 DEF RefReturn, Back
    <2>2. Top.pc = "inside"
      BY <1>1, <2>1, OnlyRefsInside
    <2>3. stack' = Pop /\ ret' # "none"
      BY <2>1 DEF Close, Returning
    <2>4. TrailIsPath'
      BY <1>2, <2>1, <2>2, <2>3, PathReturn
    <2>5. PutBack
      BY <1>2, <2>1 DEF PutBack
    <2>6. ArmBooks'
      BY <1>2, <2>3, <2>5, ArmPop
    <2>7. QED BY <2>4, <2>6 DEF Books
  <1>5. QED BY <1>3, <1>4

LEMMA InitBooks == Init => Books
  <1> SUFFICES ASSUME Init PROVE Books
    OBVIOUS
  <1>1. /\ stack = <<Start(asked.node, asked.val, "fast")>> /\ DOMAIN stack = {1}
        /\ stack[1].pc = "start" /\ ~stack[1].arming /\ trail = <<>> /\ ~memo.armed
    BY DEF Init, Start
  <1>2. TrailIsPath
    BY <1>1, BoundsAreNats DEF TrailIsPath, Inside
  <1>3. ArmBooks
    BY <1>1 DEF ArmBooks, ArmingWaits
  <1>4. QED BY <1>2, <1>3 DEF Books

LEMMA NextBooks == Inv /\ Books /\ [Next]_vars => Books'
  <1> SUFFICES ASSUME Inv, Books, [Next]_vars PROVE Books'
    OBVIOUS
  <1>1. Inv'
    BY NextInv
  <1>2. CASE Step
    BY <1>1, <1>2, EndBooks, OpenBooks, PartBooks, AnsweredBooks, RefBooks DEF Step
  <1>3. CASE Write
    BY <1>3 DEF Write, Books, TrailIsPath, ArmBooks, ArmingWaits, Inside, PairOf
  <1>4. CASE UNCHANGED vars
    BY <1>4 DEF vars, Books, TrailIsPath, ArmBooks, ArmingWaits, Inside, PairOf
  <1>5. QED BY <1>2, <1>3, <1>4 DEF Next

(***************************************************************************)
(* At every state of a walk its books balance: the levels open are its     *)
(* frames, the trail is the path of definitions it is inside, each pair    *)
(* once and no more than MaxRecursionDepth, and the memo is armed inside   *)
(* the frames that armed it, whatever early returns it took (ctx.rs,       *)
(* Descent and Trail; memo.rs, Memo::armed; walk.rs, check_ref).           *)
(***************************************************************************)
THEOREM WalkBalanced == Spec => []Balanced
  <1>1. Inv /\ Books => Balanced
    <2> SUFFICES ASSUME Inv, Books PROVE Balanced
      OBVIOUS
    <2>1. LevelsOpen /\ TrailIsPath
      BY DEF Inv, StackOK, Books
    <2>2. /\ memo \in MemoWords
          /\ \A i \in DOMAIN stack : stack[i] \in Frame
      BY DEF Inv, StackOK, RestOK
    <2>3. memo.armed \in BOOLEAN /\ \A i \in DOMAIN stack : stack[i].outer \in BOOLEAN
      BY <2>2 DEF MemoWords, Frame
    <2>4. ArmedInside
      BY Zenon, <2>3 DEF ArmedInside, Books, ArmBooks
    <2>5. QED BY <2>1, <2>4 DEF Balanced
  <1>2. QED BY InitInv, InitBooks, NextInv, NextBooks, <1>1, PTL DEF Spec

-----------------------------------------------------------------------------
(* The frames inside their definitions, through a step that enters none.   *)

InsideKept ==
    \A i \in DOMAIN stack' : stack'[i].pc = "inside" => i \in DOMAIN stack /\ stack'[i] = stack[i]

Returns    == stack' = Pop /\ ret' # "none"
Turns(f)   == stack' = [stack EXCEPT ![Len(stack)] = f] /\ f.pc # "inside"
Descends(f, n, v, m) == Pushes(f, n, v, m) /\ f.pc # "inside"

(* Only what is under the top frame may be inside a definition after such a   *)
(* step, and it is left as it was.                                         *)
LEMMA ShapesKeepInside ==
    ASSUME stack \in Seq(Frame), stack # <<>>,
           \/ Returns
           \/ \E f : Turns(f)
           \/ \E f, n, v, m : Descends(f, n, v, m)
    PROVE  InsideKept
  <1>1. Len(stack) \in Nat \ {0} /\ DOMAIN stack = 1 .. Len(stack)
    OBVIOUS
  <1>2. CASE Returns
    <2>1. /\ stack' \in Seq(Frame) /\ Len(stack') = Len(stack) - 1
          /\ \A i \in 1 .. Len(stack) - 1 : stack'[i] = stack[i]
      BY <1>2, PopFrames DEF Returns
    <2>2. QED BY <1>1, <2>1 DEF InsideKept
  <1>3. CASE \E f : Turns(f)
    <2>1. PICK f : Turns(f)
      BY <1>3
    <2>2. DOMAIN stack' = DOMAIN stack /\ \A i \in DOMAIN stack : i # Len(stack) => stack'[i] = stack[i]
      BY <2>1 DEF Turns
    <2>3. stack'[Len(stack)].pc # "inside"
      BY <1>1, <2>1 DEF Turns
    <2>4. QED BY <2>2, <2>3 DEF InsideKept
  <1>4. CASE \E f, n, v, m : Descends(f, n, v, m)
    <2>1. PICK f, n, v, m : Descends(f, n, v, m)
      BY <1>4
    <2> DEFINE under == [stack EXCEPT ![Len(stack)] = f]
               new   == Start(n, v, m)
               any   == Frame \cup {f, new}
    <2>2. under \in Seq(any) /\ Len(under) = Len(stack) /\ under[Len(stack)] = f
          /\ \A i \in DOMAIN stack : i # Len(stack) => under[i] = stack[i]
      BY <1>1
    <2>3. new \in any /\ new.pc = "start"
      BY DEF Start
    <2>a. stack' = Append(under, new)
      BY <2>1 DEF Descends, Pushes
    <2> HIDE DEF under, any, new
    <2>4. /\ DOMAIN stack' = 1 .. Len(stack) + 1
          /\ \A i \in DOMAIN stack : stack'[i] = under[i]
          /\ stack'[Len(stack) + 1] = new
      BY <1>1, <2>2, <2>3, <2>a
    <2>5. ASSUME NEW i \in DOMAIN stack', stack'[i].pc = "inside"
          PROVE  i \in DOMAIN stack /\ stack'[i] = stack[i]
      <3>1. i # Len(stack) + 1
        BY <2>3, <2>4, <2>5
      <3>2. i \in DOMAIN stack /\ stack'[i] = under[i]
        BY <1>1, <2>4, <3>1
      <3>3. f.pc # "inside"
        BY <2>1 DEF Descends
      <3>4. QED BY <2>2, <2>5, <3>2, <3>3
    <2>6. QED BY <2>5 DEF InsideKept
  <1>5. QED BY <1>2, <1>3, <1>4

(* The calls that end, those of a reference's definition among them.       *)
LEMMA EndShape ==
    ASSUME Inv,
           \/ Unwind \/ TooDeep \/ TestLeaf \/ CompareLiteral \/ AskPredicate
           \/ RefuseSeq \/ SeqMoved \/ SeqEnd \/ UnionEnd \/ MeetEnd \/ RefFound \/ RefRefused
           \/ RefReturn
    PROVE  stack # <<>> /\ Returns
  <1>1. \A b : Says(b) # "none"
    BY DEF Says
  <1>2. \A m : StoppedIn(m) # "none"
    BY DEF StoppedIn
  <1>3. CASE Unwind \/ TooDeep \/ TestLeaf \/ CompareLiteral \/ AskPredicate \/ RefuseSeq
    BY <1>1, <1>2, <1>3 DEF Unwind, TooDeep, TestLeaf, CompareLiteral, AskPredicate, RefuseSeq,
       Opening, Calling, AnswerAt, Returns
  <1>4. CASE SeqMoved \/ SeqEnd \/ UnionEnd \/ MeetEnd
    BY <1>1, <1>2, <1>4 DEF SeqMoved, SeqEnd, UnionEnd, MeetEnd, At, Calling, Close, Returns
  <1>5. CASE RefFound \/ RefRefused
    BY <1>1, <1>2, <1>5 DEF RefFound, RefRefused, Walks, At, Calling, Close, Returns
  <1>6. CASE RefReturn
    BY <1>6 DEF RefReturn, Back, Returning, Close, Returns
  <1>7. QED BY <1>3, <1>4, <1>5, <1>6

(* The calls that open their level.                                        *)
LEMMA OpenShape ==
    ASSUME Inv, OpenSeq \/ OpenUnion \/ OpenMeet \/ OpenNot \/ OpenRef
    PROVE  stack # <<>> /\ ~fatal /\ fatal' = fatal /\ kept' = kept /\ \E f : Turns(f)
  <1>1. stack # <<>> /\ ~fatal /\ fatal' = fatal /\ kept' = kept
    BY DEF OpenSeq, OpenUnion, OpenMeet, OpenNot, OpenRef, Opening, Calling, kept
  <1>2. Top \in Frame
    BY <1>1, TopIsAFrame DEF Inv, StackOK
  <1>3. \E f \in Frame : Open(f)
    <2>1. stopped \in Stop /\ None \in Stop /\ moves \in Nat /\ memo \in MemoWords
      BY DEF Inv, RestOK, Stop
    <2>2. CASE OpenSeq
      <3>1. Open([Top EXCEPT !.count = Len(heap[Top.val])]) /\ IsArray(Top.node, Top.val)
        BY <2>2 DEF OpenSeq
      <3>2. Len(heap[Top.val]) \in Nat
        BY <3>1, HeapsHoldValues DEF IsArray, Inv, RestOK
      <3>3. [Top EXCEPT !.count = Len(heap[Top.val])] \in Frame
        BY <1>2, <3>2 DEF Frame
      <3>4. QED BY <3>1, <3>3
    <2>3. CASE OpenUnion
      <3> DEFINE f == [Top EXCEPT !.earlier = IF Top.mode = "settle" THEN stopped ELSE None]
      <3>1. f \in Frame
        BY <1>2, <2>1 DEF Frame
      <3>2. Open(f)
        BY <2>3 DEF OpenUnion
      <3> HIDE DEF f
      <3>3. QED BY <3>1, <3>2
    <2>4. CASE OpenMeet
      <3>1. Open([Top EXCEPT !.entered = memo.entered])
        BY <2>4 DEF OpenMeet
      <3>2. [Top EXCEPT !.entered = memo.entered] \in Frame
        BY <1>2, <2>1 DEF Frame, MemoWords
      <3>3. QED BY <3>1, <3>2
    <2>5. CASE OpenNot
      <3>1. Open([Top EXCEPT !.earlier = stopped, !.moves = moves])
        BY <2>5 DEF OpenNot
      <3>2. [Top EXCEPT !.earlier = stopped, !.moves = moves] \in Frame
        BY <1>2, <2>1 DEF Frame
      <3>3. QED BY <3>1, <3>2
    <2>6. CASE OpenRef
      <3> DEFINE room == [levels |-> depth + 1, unfolded |-> Len(trail)]
                 f == [Top EXCEPT !.keeping = Asks, !.room = room]
      <3>1. Asks \in BOOLEAN /\ room \in RoomOf
        BY <2>1 DEF Asks, RoomOf, Inv, StackOK, RestOK, MemoWords
      <3>2. Open(f)
        BY <2>6 DEF OpenRef
      <3> HIDE DEF room
      <3>3. f \in Frame
        BY <1>2, <3>1 DEF Frame
      <3> HIDE DEF f
      <3>4. QED BY <3>2, <3>3
    <2>7. QED BY <2>2, <2>3, <2>4, <2>5, <2>6
  <1>4. PICK f \in Frame : Open(f)
    BY <1>3
  <1>5. Turns([f EXCEPT !.pc = "open"])
    <2>1. [f EXCEPT !.pc = "open"].pc = "open"
      BY <1>4 DEF Frame
    <2>2. QED BY <1>4, <2>1 DEF Open, Become, Turns
  <1>6. QED BY <1>1, <1>5
(* The calls made for a part of a node that is no reference.               *)
LEMMA PartShape ==
    ASSUME Inv, SeqElement \/ UnionBranch \/ MeetMember \/ NotInner
    PROVE  stack # <<>> /\ \E f, n, v, m : Descends(f, n, v, m)
  <1>1. stack # <<>> /\ Top.pc = "open"
    BY DEF SeqElement, UnionBranch, MeetMember, NotInner, At, Calling
  <1>2. Top \in Frame /\ memo \in MemoWords
    BY <1>1, TopIsAFrame DEF Inv, StackOK, RestOK
  <1>3. ASSUME NEW f \in Frame, f.pc = "open", NEW n, NEW v, NEW m, NEW armed,
               Call(f, n, v, m, armed)
        PROVE  \E g, a, b, c : Descends(g, a, b, c)
    <2> DEFINE g == [f EXCEPT !.arming = armed, !.outer = memo.armed]
    <2>1. g.pc = "open" /\ Pushes(g, n, v, m)
      BY <1>3 DEF Frame, Call, Pushes
    <2> HIDE DEF g
    <2>2. Descends(g, n, v, m)
      BY <2>1 DEF Descends
    <2>3. QED BY <2>2
  <1>4. CASE SeqElement
    <2>1. Call(Top, ElementOf(Top.node, Top.at), heap[Top.val][Top.at], Top.mode, FALSE)
      BY <1>4 DEF SeqElement
    <2>2. QED BY <1>1, <1>2, <1>3, <2>1
  <1>5. CASE UnionBranch
    <2> DEFINE f == [Top EXCEPT !.entered = IF @ = Unread THEN memo.entered ELSE @]
    <2>1. f \in Frame /\ f.pc = "open"
      BY <1>1, <1>2 DEF Frame, MemoWords
    <2>2. Call(f, Branch, Top.val, Top.mode, Again(Top))
      BY <1>5 DEF UnionBranch
    <2> HIDE DEF f
    <2>3. QED BY <1>1, <1>3, <2>1, <2>2
  <1>6. CASE MeetMember
    <2>1. Call(Top, TopNode.kids[Top.at], Top.val, Top.mode, Again(Top))
      BY <1>6 DEF MeetMember
    <2>2. QED BY <1>1, <1>2, <1>3, <2>1
  <1>7. CASE NotInner
    <2>1. Call(Top, TopNode.kids[1], Top.val, "settle", FALSE)
      BY <1>7 DEF NotInner
    <2>2. QED BY <1>1, <1>2, <1>3, <2>1
  <1>8. QED BY <1>4, <1>5, <1>6, <1>7

(* What a node that is no reference does with the answer of a part.        *)
LEMMA AnsweredShape ==
    ASSUME Inv, Books, UnionScalar \/ SeqReturn \/ UnionReturn \/ MeetReturn \/ NotReturn
    PROVE  /\ stack # <<>> /\ TopNode.kind # "ref"
           /\ \/ Returns
              \/ Turns(stack'[Len(stack)]) /\ stack'[Len(stack)].node = Top.node
  <1>1. stack # <<>> /\ TopNode.kind # "ref"
    BY DEF UnionScalar, SeqReturn, UnionReturn, MeetReturn, NotReturn, At, Back, Calling, Returning
  <1>2. Top \in Frame /\ Top.pc # "inside"
    BY <1>1, TopIsAFrame, OnlyRefsInside DEF Inv, StackOK
  <1>3. \/ \E r \in Reply : Close(r)
        \/ \E f : Become(f) /\ f.pc = Top.pc /\ f.node = Top.node
    <2>1. "yes" \in Reply /\ "no" \in Reply /\ \A m : StoppedIn(m) \in Reply
      BY DEF Reply, StoppedIn
    <2>2. ASSUME NEW f \in Frame, f.pc = Top.pc, f.node = Top.node, NEW r, AfterBranch(f, r)
          PROVE  \/ Close("yes")
                 \/ \E g : Become(g) /\ g.pc = Top.pc /\ g.node = Top.node
      <3> DEFINE g == [f EXCEPT !.at = @ + 1]
                 h == [f EXCEPT !.at = @ + 1, !.met = IF r = "yes" THEN Or(@, stopped) ELSE @]
      <3>1. g.pc = Top.pc /\ g.node = Top.node
        BY <2>2 DEF Frame
      <3>2. h.pc = Top.pc /\ h.node = Top.node
        BY <2>2 DEF Frame
      <3>3. Close("yes") \/ Become(g) \/ Become(h)
        BY <2>2 DEF AfterBranch
      <3> HIDE DEF g, h
      <3>4. QED BY <3>1, <3>2, <3>3
    <2>3. CASE UnionScalar
      BY <1>2, <2>1, <2>2, <2>3 DEF UnionScalar
    <2>4. CASE UnionReturn
      <3>1. [Top EXCEPT !.arming = FALSE] \in Frame /\ [Top EXCEPT !.arming = FALSE].pc = Top.pc
            /\ [Top EXCEPT !.arming = FALSE].node = Top.node
        BY <1>2 DEF Frame
      <3>2. AfterBranch([Top EXCEPT !.arming = FALSE], ret)
        BY <2>4 DEF UnionReturn
      <3>3. QED BY <2>1, <2>2, <3>1, <3>2
    <2>5. CASE SeqReturn
      <3> DEFINE f == [Top EXCEPT !.at = @ + 1]
      <3>1. f.pc = Top.pc /\ f.node = Top.node
        BY <1>2 DEF Frame
      <3>2. Become(f) \/ Close("no")
        BY <2>5 DEF SeqReturn
      <3> HIDE DEF f
      <3>3. QED BY <2>1, <3>1, <3>2
    <2>6. CASE MeetReturn
      <3> DEFINE f == [Top EXCEPT !.at = @ + 1, !.arming = FALSE]
      <3>1. f.pc = Top.pc /\ f.node = Top.node
        BY <1>2 DEF Frame
      <3>2. Become(f) \/ Close("no")
        BY <2>6 DEF MeetReturn
      <3> HIDE DEF f
      <3>3. QED BY <2>1, <3>1, <3>2
    <2>7. CASE NotReturn
      BY <2>1, <2>7 DEF NotReturn
    <2>8. QED BY <2>3, <2>4, <2>5, <2>6, <2>7
  <1>4. CASE \E r \in Reply : Close(r)
    BY <1>1, <1>4 DEF Close, Returns, Reply
  <1>5. CASE \E f : Become(f) /\ f.pc = Top.pc /\ f.node = Top.node
    <2>1. PICK f : Become(f) /\ f.pc = Top.pc /\ f.node = Top.node
      BY <1>5
    <2>2. stack'[Len(stack)] = f /\ stack' = [stack EXCEPT ![Len(stack)] = f]
      BY <1>1, <2>1 DEF Become, Inv, StackOK
    <2>3. QED BY <1>1, <1>2, <2>1, <2>2 DEF Turns
  <1>6. QED BY <1>3, <1>4, <1>5

(* A reference enters its definition.                                      *)
LEMMA EnterShape ==
    ASSUME Inv, Books, RefEnter
    PROVE  /\ stack # <<>> /\ Walks
           /\ DOMAIN stack' = 1 .. Len(stack) + 1
           /\ \A i \in 1 .. Len(stack) - 1 : stack'[i] = stack[i]
           /\ stack'[Len(stack)].node = Top.node /\ stack'[Len(stack)].val = Top.val
           /\ stack'[Len(stack)].mode = Top.mode /\ stack'[Len(stack)].room = Top.room
           /\ stack'[Len(stack)].keeping = Keeps
           /\ stack'[Len(stack) + 1].pc = "start"
  <1> DEFINE f == [Top EXCEPT !.pc = "inside", !.keeping = Keeps,
                              !.earlier = IF Keeps THEN stopped ELSE None]
             g == [f EXCEPT !.arming = FALSE, !.outer = memo.armed]
  <1>1. stack # <<>> /\ Walks /\ Call(f, defs[TopNode.def], Top.val, Top.mode, FALSE)
    BY DEF RefEnter, Walks, At, Calling
  <1>2. /\ Top \in Frame /\ Top.val \in Value /\ Top.mode \in Mode /\ TopNode \in Rows
        /\ memo \in MemoWords /\ stopped \in Stop /\ None \in Stop /\ defs \in [Def -> Node]
    BY <1>1, TopIsAFrame DEF Inv, StackOK, RestOK, Stop
  <1>3. Keeps \in BOOLEAN
    BY <1>2 DEF Keeps, Frame, MemoWords
  <1>4. f \in Frame /\ f.node = Top.node /\ f.val = Top.val /\ f.mode = Top.mode
        /\ f.room = Top.room /\ f.keeping = Keeps
    BY <1>2, <1>3 DEF Frame
  <1> HIDE DEF f
  <1>5. g \in Frame /\ g.node = Top.node /\ g.val = Top.val /\ g.mode = Top.mode
        /\ g.room = Top.room /\ g.keeping = Keeps
    BY <1>2, <1>4 DEF Frame, MemoWords
  <1>6. stack' = Append([stack EXCEPT ![Len(stack)] = g], Start(defs[TopNode.def], Top.val, Top.mode))
    BY <1>1 DEF Call
  <1> HIDE DEF g
  <1>7. defs[TopNode.def] \in Node
    BY <1>2 DEF Rows
  <1>8. stack \in Seq(Frame)
    BY DEF Inv, StackOK
  <1>9. /\ stack' \in Seq(Frame) /\ Len(stack') = Len(stack) + 1
        /\ \A i \in 1 .. Len(stack) - 1 : stack'[i] = stack[i]
        /\ stack'[Len(stack)] = g
        /\ stack'[Len(stack) + 1] = Start(defs[TopNode.def], Top.val, Top.mode)
    BY <1>1, <1>2, <1>5, <1>6, <1>7, <1>8, CallFrames
  <1>10. DOMAIN stack' = 1 .. Len(stack) + 1 /\ stack'[Len(stack) + 1].pc = "start"
    <2>1. Start(defs[TopNode.def], Top.val, Top.mode).pc = "start"
      BY DEF Start
    <2>2. QED BY <1>9, <2>1
  <1>11. QED BY <1>1, <1>5, <1>9, <1>10

(* No step but the entry of a definition puts a frame inside one.          *)
LEMMA StepKeepsInside ==
    ASSUME Inv, Books, Step, ~RefEnter
    PROVE  InsideKept
  <1>1. stack \in Seq(Frame)
    BY DEF Inv, StackOK
  <1>2. CASE SeqElement \/ UnionBranch \/ MeetMember \/ NotInner
    BY <1>1, <1>2, PartShape, ShapesKeepInside
  <1>3. CASE UnionScalar \/ SeqReturn \/ UnionReturn \/ MeetReturn \/ NotReturn
    BY <1>1, <1>3, AnsweredShape, ShapesKeepInside
  <1>4. CASE OpenSeq \/ OpenUnion \/ OpenMeet \/ OpenNot \/ OpenRef
    BY <1>1, <1>4, OpenShape, ShapesKeepInside
  <1>5. CASE \/ Unwind \/ TooDeep \/ TestLeaf \/ CompareLiteral \/ AskPredicate
             \/ RefuseSeq \/ SeqMoved \/ SeqEnd \/ UnionEnd \/ MeetEnd \/ RefFound \/ RefRefused
             \/ RefReturn
    BY <1>1, <1>5, EndShape, ShapesKeepInside
  <1>6. QED BY <1>2, <1>3, <1>4, <1>5 DEF Step
-----------------------------------------------------------------------------
(* A fatal signal.                                                         *)

(* Once a signal is set no reference is between its prologue and its         *)
(* definition, where the memo is asked and the trail grows.                 *)
RefOpenAt(i) == Schema[stack[i].node].kind = "ref" /\ stack[i].pc = "open"
Unwinding    == fatal => \A i \in DOMAIN stack : ~RefOpenAt(i)

LEMMA UnwindingNext ==
    ASSUME Inv, Books, Inv', Books', Unwinding, [Next]_vars
    PROVE  Unwinding'
  <1>1. ASSUME Step PROVE Unwinding'
    <2> SUFFICES ASSUME fatal', NEW i \in DOMAIN stack', RefOpenAt(i)'
                 PROVE  FALSE
      BY DEF Unwinding
    <2>1. stack' # <<>> /\ i = Len(stack') /\ ret' = "none"
      <3>1. InPlay'
        BY DEF Inv, StackOK, RestOK, Books, InPlay
      <3>2. QED BY <3>1 DEF InPlay, TrailIsPath, RefOpenAt
    <2>2. stack \in Seq(Frame)
      BY DEF Inv, StackOK
    <2>3. CASE \/ Unwind \/ TooDeep \/ TestLeaf \/ CompareLiteral \/ AskPredicate
               \/ RefuseSeq \/ SeqMoved \/ SeqEnd \/ UnionEnd \/ MeetEnd \/ RefFound \/ RefRefused
               \/ RefReturn
      BY <2>1, <2>3, EndShape DEF Returns
    <2>4. CASE OpenSeq \/ OpenUnion \/ OpenMeet \/ OpenNot \/ OpenRef
      BY <2>4, OpenShape
    <2>5. CASE SeqElement \/ UnionBranch \/ MeetMember \/ NotInner \/ RefEnter
      <3>1. stack # <<>> /\ \E f, n, v, m : Pushes(f, n, v, m)
        <4>1. CASE RefEnter
          BY <4>1 DEF RefEnter, Walks, At, Calling, Call, Pushes
        <4>2. CASE SeqElement \/ UnionBranch \/ MeetMember \/ NotInner
          BY <4>2, PartShape DEF Descends
        <4>3. QED BY <2>5, <4>1, <4>2
      <3>2. PICK f, n, v, m : Pushes(f, n, v, m)
        BY <3>1
      <3> DEFINE under == [stack EXCEPT ![Len(stack)] = f]
                 new   == Start(n, v, m)
                 any   == Frame \cup {f, new}
      <3>3. under \in Seq(any) /\ new \in any /\ new.pc = "start"
        BY <2>2, <3>1 DEF Start
      <3>4. stack' = Append(under, new)
        BY <3>2 DEF Pushes
      <3> HIDE DEF under, new, any
      <3>5. stack'[Len(stack')] = new
        BY <3>3, <3>4
      <3>6. QED BY <2>1, <3>3, <3>5 DEF RefOpenAt
    <2>6. CASE UnionScalar \/ SeqReturn \/ UnionReturn \/ MeetReturn \/ NotReturn
      <3>1. /\ stack # <<>> /\ TopNode.kind # "ref"
            /\ \/ Returns
               \/ Turns(stack'[Len(stack)]) /\ stack'[Len(stack)].node = Top.node
        BY <2>6, AnsweredShape
      <3>2. ~Returns
        BY <2>1 DEF Returns
      <3>3. Len(stack') = Len(stack)
        BY <2>2, <3>1, <3>2 DEF Turns
      <3>4. QED BY <2>1, <3>1, <3>2, <3>3 DEF RefOpenAt, TopNode
    <2>7. QED BY <1>1, <2>3, <2>4, <2>5, <2>6 DEF Step
  <1>2. CASE Write \/ UNCHANGED vars
    BY <1>2 DEF Write, vars, Unwinding, RefOpenAt
  <1>3. QED BY <1>1, <1>2 DEF Next

(* What a step may not do once a signal is set.                            *)
Unwinds == fatal => /\ UNCHANGED <<fatal, decided, settled>>
                    /\ memo'.entered = memo.entered
                    /\ Len(trail') <= Len(trail) /\ depth' <= depth

LEMMA StepUnwinds ==
    ASSUME Inv, Books, Unwinding, [Next]_vars
    PROVE  Unwinds
  <1> SUFFICES ASSUME fatal
               PROVE  /\ UNCHANGED <<fatal, decided, settled>>
                      /\ memo'.entered = memo.entered
                      /\ Len(trail') <= Len(trail) /\ depth' <= depth
    BY DEF Unwinds
  <1>1. fatal = TRUE /\ depth \in Nat /\ memo \in MemoWords /\ trail \in Seq(Key) /\ Len(trail) \in Nat
    BY DEF Inv, StackOK, RestOK
  <1>2. ~At("ref", "open")
    <2> SUFFICES ASSUME At("ref", "open") PROVE FALSE
      OBVIOUS
    <2>1. stack # <<>> /\ Len(stack) \in DOMAIN stack /\ Top.pc = "open" /\ TopNode.kind = "ref"
      BY TopIsAFrame DEF At, Calling, Inv, StackOK
    <2>2. QED BY <2>1 DEF Unwinding, RefOpenAt, TopNode, Top
  <1>3. /\ ~TooDeep /\ ~TestLeaf /\ ~CompareLiteral /\ ~AskPredicate /\ ~RefuseSeq
        /\ ~OpenSeq /\ ~OpenUnion /\ ~OpenMeet /\ ~OpenNot /\ ~OpenRef
    BY <1>1 DEF TooDeep, TestLeaf, CompareLiteral, AskPredicate, RefuseSeq, OpenSeq, OpenUnion,
       OpenMeet, OpenNot, OpenRef, Opening
  <1>4. ~RefFound /\ ~RefRefused /\ ~RefEnter
    BY <1>2 DEF RefFound, RefRefused, RefEnter, Walks
  <1>5. CASE Unwind \/ SeqMoved \/ SeqEnd \/ UnionEnd \/ MeetEnd \/ NotReturn \/ SeqReturn
    <2>1. UNCHANGED <<fatal, trail, memo, decided, settled>>
      BY <1>5 DEF Unwind, SeqMoved, SeqEnd, UnionEnd, MeetEnd, NotReturn, SeqReturn, kept
    <2>2. depth' = depth \/ depth' = depth - 1
      BY <1>5 DEF Unwind, SeqMoved, SeqEnd, UnionEnd, MeetEnd, NotReturn, SeqReturn, AnswerAt, Close
    <2>3. QED BY <1>1, <2>1, <2>2
  <1>6. CASE SeqElement \/ UnionBranch \/ MeetMember \/ NotInner
    <2>1. UNCHANGED <<fatal, trail, decided, settled>>
      BY <1>6 DEF SeqElement, UnionBranch, MeetMember, NotInner, kept
    <2>2. \E f, n, v, m, armed : Call(f, n, v, m, armed)
      BY <1>6 DEF SeqElement, UnionBranch, MeetMember, NotInner
    <2>3. depth' = depth /\ memo'.entered = memo.entered
      BY <1>1, <2>2 DEF Call, MemoWords
    <2>4. QED BY <1>1, <2>1, <2>3
  <1>7. CASE UnionScalar \/ UnionReturn \/ MeetReturn
    <2>1. UNCHANGED <<fatal, trail, decided, settled>>
      BY <1>7 DEF UnionScalar, UnionReturn, MeetReturn, kept
    <2>2. depth' = depth \/ depth' = depth - 1
      <3>1. CASE MeetReturn
        BY <3>1 DEF MeetReturn, Close
      <3>2. CASE UnionScalar
        BY <3>2 DEF UnionScalar, AfterBranch, Close
      <3>3. CASE UnionReturn
        BY <3>3 DEF UnionReturn, AfterBranch, Close
      <3>4. QED BY <1>7, <3>1, <3>2, <3>3
    <2>3. memo' = memo \/ memo' = Disarmed(Top)
      BY <1>7 DEF UnionScalar, UnionReturn, MeetReturn
    <2>4. memo'.entered = memo.entered
      BY <1>1, <2>3 DEF Disarmed, MemoWords
    <2>5. QED BY <1>1, <2>1, <2>2, <2>4
  <1>8. CASE RefReturn
    <2>1. /\ UNCHANGED <<fatal, memo, decided, settled>> /\ depth' = depth - 1
          /\ trail' = SubSeq(trail, 1, Len(trail) - 1)
      BY <1>1, <1>8 DEF RefReturn, kept, Close
    <2>2. Len(trail') <= Len(trail)
      <3>1. CASE trail = <<>>
        BY <2>1, <3>1
      <3>2. CASE trail # <<>>
        BY <1>1, <2>1, <3>2, FrontOfSeq
      <3>3. QED BY <3>1, <3>2
    <2>3. QED BY <1>1, <2>1, <2>2
  <1>9. CASE Write
    BY <1>1, <1>9 DEF Write, kept
  <1>10. CASE UNCHANGED vars
    BY <1>1, <1>10 DEF vars
  <1>11. QED BY <1>3, <1>4, <1>5, <1>6, <1>7, <1>8, <1>9, <1>10 DEF Next, Step

(***************************************************************************)
(* A fatal signal unwinds the walk: whatever complement turns its refusal  *)
(* into an answer yes and whatever scan goes on past it, no later step     *)
(* opens a level, enters a definition or keeps an answer (walk.rs,         *)
(* `member`, remembered_ref; memo.rs, keep_decided).                       *)
(***************************************************************************)
THEOREM WalkUnwinds == Spec => FatalUnwinds
  <1>1. Init => Unwinding
    BY DEF Init, Unwinding
  <1>2. Unwinds <=> (fatal => /\ UNCHANGED <<fatal, decided, settled>>
                              /\ memo'.entered = memo.entered
                              /\ Len(trail') <= Len(trail) /\ depth' <= depth)
    BY DEF Unwinds
  <1>3. QED BY InitInv, InitBooks, NextInv, NextBooks, UnwindingNext, StepUnwinds, <1>1, <1>2, PTL
        DEF Spec, FatalUnwinds
-----------------------------------------------------------------------------
(* The rooms kept for a pair.                                              *)

LEMMA WithinOrders ==
    ASSUME NEW q \in RoomOf, NEW r \in RoomOf, NEW s \in RoomOf
    PROVE  /\ Within(r, r)
           /\ Within(q, r) /\ Within(r, s) => Within(q, s)
  BY DEF Within, RoomOf

(* A room no kept one covers is kept in the place of those it covers.      *)
LEMMA JoinedRooms ==
    ASSUME NEW rooms \in SUBSET RoomOf, NEW room \in RoomOf
    PROVE  /\ Joined(rooms, room) \in SUBSET RoomOf
           /\ Apart(rooms) /\ (\A of \in rooms : ~Within(room, of)) => Apart(Joined(rooms, room))
           /\ \A r \in RoomOf :
                 (\E of \in rooms \cup {room} : Within(r, of)) => \E of \in Joined(rooms, room) : Within(r, of)
  <1>1. Joined(rooms, room) \in SUBSET RoomOf
    BY DEF Joined
  <1>2. ASSUME Apart(rooms), \A of \in rooms : ~Within(room, of)
        PROVE  Apart(Joined(rooms, room))
    BY <1>2 DEF Apart, Joined
  <1>3. ASSUME NEW r \in RoomOf, NEW of \in rooms \cup {room}, Within(r, of)
        PROVE  \E o \in Joined(rooms, room) : Within(r, o)
    <2>1. CASE of \in Joined(rooms, room)
      BY <1>3, <2>1
    <2>2. CASE of \notin Joined(rooms, room)
      <3>1. of \in RoomOf /\ Within(of, room) /\ room \in Joined(rooms, room)
        BY <2>2 DEF Joined
      <3>2. QED BY <1>3, <3>1, WithinOrders
    <2>3. QED BY <2>1, <2>2
  <1>4. QED BY <1>1, <1>2, <1>3

(* What a table says of a pair once a stop is kept for it, and of the rest. *)
LEMMA KeptStop ==
    ASSUME NEW table \in [Key -> Entry], NEW key \in Key, NEW code \in Code, NEW room \in RoomOf
    PROVE  LET kept1 == KeepStop(table, key, code, room)
           IN  /\ \A k \in Key : k # key => kept1[k] = table[k]
               /\ kept1[key].tag = "stopped"
               /\ table[key].tag = "stopped" =>
                     table[key].rooms \in SUBSET RoomOf /\ kept1[key].rooms = Joined(table[key].rooms, room)
               /\ table[key].tag # "stopped" => kept1[key].rooms = {room}
  <1> DEFINE kept1 == KeepStop(table, key, code, room)
  <1>1. CASE table[key].tag = "stopped"
    <2> DEFINE rooms == Joined(table[key].rooms, room)
               entry == [table[key] EXCEPT !.rooms = rooms]
    <2>1. table[key] \in [tag : {"stopped"}, code : Code, rooms : SUBSET RoomOf]
      BY <1>1 DEF Entry
    <2>2. entry.tag = "stopped" /\ entry.rooms = rooms
      BY <2>1
    <2>3. kept1 = [table EXCEPT ![key] = entry]
      BY <1>1 DEF KeepStop
    <2> HIDE DEF entry, kept1
    <2>4. kept1[key] = entry /\ \A k \in Key : k # key => kept1[k] = table[k]
      BY <2>3
    <2>5. QED BY <1>1, <2>1, <2>2, <2>4 DEF kept1
  <1>2. CASE table[key].tag # "stopped"
    <2> DEFINE entry == [tag |-> "stopped", code |-> code, rooms |-> {room}]
    <2>1. entry.tag = "stopped" /\ entry.rooms = {room}
      OBVIOUS
    <2>2. kept1 = [table EXCEPT ![key] = entry]
      BY <1>2 DEF KeepStop
    <2> HIDE DEF entry, kept1
    <2>3. kept1[key] = entry /\ \A k \in Key : k # key => kept1[k] = table[k]
      BY <2>2
    <2>4. QED BY <1>2, <2>1, <2>3 DEF kept1
  <1>3. QED BY <1>1, <1>2

-----------------------------------------------------------------------------
(* The two tables.                                                         *)

Tabled == decided \in [Key -> Entry] /\ settled \in [Key -> Entry]

\* What the tables may hold of a pair whose walk is to be kept: no answer, and
\* where the walk settles no room that would have answered it.
Unanswered(inDecided, inSettled, mode, room) ==
    /\ inDecided.tag # "answered"
    /\ mode = "settle" => ~Covers(inSettled, room)

\* What a pair's two entries say of each other in SettledStopsKnown.
Agree(inDecided, inSettled) ==
    inSettled.tag = "stopped" =>
        /\ Apart(inSettled.rooms)
        /\ inDecided.tag = "answered" \/ \A room \in inSettled.rooms : Covers(inDecided, room)

(* A pair the memo has not answered for a walk is unanswered for it.       *)
LEMMA NotRecalled ==
    ASSUME NEW key \in Key, NEW room, NEW mode, ~Recall(key, room, mode).found
    PROVE  Unanswered(decided[key], settled[key], mode, room)
  <1>1. \A t : t[key].tag = "answered" => Read(t, key, room) = Found(t[key].admitted, None)
    BY DEF Read
  <1>2. \A t : Covers(t[key], room) /\ t[key].tag # "answered" => Read(t, key, room).found
    BY DEF Read, Found
  <1>3. decided[key].tag # "answered"
    <2> SUFFICES ASSUME decided[key].tag = "answered" PROVE FALSE
      OBVIOUS
    <2>1. Read(decided, key, room).found /\ Read(decided, key, room).code = None
      BY <1>1 DEF Found
    <2>2. QED BY <2>1 DEF Recall
  <1>4. ASSUME mode = "settle" PROVE ~Read(settled, key, room).found
    <2>1. CASE ~Read(decided, key, room).found \/ Read(decided, key, room).code # None
      BY <1>4, <2>1 DEF Recall
    <2>2. CASE ~(~Read(decided, key, room).found \/ Read(decided, key, room).code # None)
      BY <2>2 DEF Recall
    <2>3. QED BY <2>1, <2>2
  <1>5. settled[key].tag = "answered" => ~Covers(settled[key], room)
    BY DEF Covers
  <1>6. QED BY <1>2, <1>3, <1>4, <1>5 DEF Unanswered

(* What a walk leaves in the two tables, of the pair it walked.            *)
LEMMA KeepCases ==
    ASSUME Tabled, TopKey \in Key, NEW f, f.val = Top.val, f.room \in RoomOf,
           NEW r, NEW met \in Stop, Keep(f, r, met)
    PROVE  \/ /\ decided' = [decided EXCEPT ![TopKey] = [tag |-> "answered", admitted |-> r = "yes"]]
              /\ settled' = settled
              /\ met = None \/ (f.mode # "settle" <=> r = "yes")
           \/ /\ met \in Code
              /\ decided' = KeepStop(decided, TopKey, met, f.room)
              /\ \/ f.mode = "settle" /\ settled' = KeepStop(settled, TopKey, met, f.room)
                 \/ f.mode # "settle" /\ settled' = settled
  <1>1. <<f.val, TopNode.def>> = TopKey
    BY DEF TopKey
  <1>2. CASE met # None /\ (f.mode = "settle" <=> r = "yes")
    <2>1. met \in Code
      BY <1>2 DEF Stop
    <2>2. QED BY <1>1, <1>2, <2>1 DEF Keep
  <1>3. CASE ~(met # None /\ (f.mode = "settle" <=> r = "yes"))
    BY <1>1, <1>3 DEF Keep
  <1>4. QED BY <1>2, <1>3

(* Keeping what a walk came to leaves the two tables of one mind.          *)
LEMMA KeepKnows ==
    ASSUME Tabled, TopKey \in Key, SettledStopsKnown,
           NEW f, f.val = Top.val, f.room \in RoomOf,
           Unanswered(decided[TopKey], settled[TopKey], f.mode, f.room),
           NEW r, NEW met \in Stop, Keep(f, r, met)
    PROVE  SettledStopsKnown'
  <1>1. \A k \in Key : Agree(decided[k], settled[k])
    BY DEF SettledStopsKnown, Agree
  <1> SUFFICES \A k \in Key : Agree(decided'[k], settled'[k])
    BY DEF SettledStopsKnown, Agree
  <1>2. CASE /\ decided' = [decided EXCEPT ![TopKey] = [tag |-> "answered", admitted |-> r = "yes"]]
             /\ settled' = settled
    <2>1. decided'[TopKey].tag = "answered" /\ \A k \in Key : k # TopKey => decided'[k] = decided[k]
      BY <1>2 DEF Tabled
    <2>2. Agree(decided'[TopKey], settled'[TopKey])
      BY <1>1, <1>2, <2>1 DEF Agree
    <2>3. QED BY <1>1, <1>2, <2>1, <2>2
  <1>3. CASE /\ met \in Code /\ decided' = KeepStop(decided, TopKey, met, f.room)
             /\ \/ f.mode = "settle" /\ settled' = KeepStop(settled, TopKey, met, f.room)
                \/ f.mode # "settle" /\ settled' = settled
    <2> DEFINE D == decided[TopKey]
               S == settled[TopKey]
    <2>1. /\ \A k \in Key : k # TopKey => decided'[k] = decided[k] /\ settled'[k] = settled[k]
          /\ decided'[TopKey].tag = "stopped"
          /\ D.tag = "stopped" =>
                D.rooms \in SUBSET RoomOf /\ decided'[TopKey].rooms = Joined(D.rooms, f.room)
          /\ D.tag # "stopped" => decided'[TopKey].rooms = {f.room}
      BY <1>3, KeptStop DEF Tabled
    <2>2. S.tag = "stopped" => S.rooms \in SUBSET RoomOf
      BY DEF Tabled, Entry
    <2>3. \A of \in RoomOf : Covers(D, of) \/ Within(of, f.room) => Covers(decided'[TopKey], of)
      <3> SUFFICES ASSUME NEW of \in RoomOf, Covers(D, of) \/ Within(of, f.room)
                   PROVE  Covers(decided'[TopKey], of)
        OBVIOUS
      <3>1. CASE D.tag = "stopped"
        BY <2>1, <3>1, JoinedRooms DEF Covers
      <3>2. CASE D.tag # "stopped"
        BY <2>1, <3>2 DEF Covers
      <3>3. QED BY <3>1, <3>2
    <2>4. S.tag = "stopped" => /\ Apart(S.rooms)
                               /\ \A of \in S.rooms : Covers(D, of)
      BY <1>1 DEF Agree, Unanswered
    <2>5. Agree(decided'[TopKey], settled'[TopKey])
      <3>1. CASE f.mode # "settle" /\ settled' = settled
        BY <2>2, <2>3, <2>4, <3>1 DEF Agree
      <3>2. CASE f.mode = "settle" /\ settled' = KeepStop(settled, TopKey, met, f.room)
        <4>1. /\ S.tag = "stopped" => settled'[TopKey].rooms = Joined(S.rooms, f.room)
              /\ S.tag # "stopped" => settled'[TopKey].rooms = {f.room}
          BY <1>3, <3>2, KeptStop DEF Tabled
        <4>2. Covers(decided'[TopKey], f.room)
          BY <2>3, WithinOrders
        <4>3. CASE S.tag = "stopped"
          <5>1. \A of \in S.rooms : ~Within(f.room, of)
            BY <3>2, <4>3 DEF Unanswered, Covers
          <5>2. Apart(settled'[TopKey].rooms)
            BY <2>2, <2>4, <4>1, <4>3, <5>1, JoinedRooms
          <5>3. \A of \in settled'[TopKey].rooms : Covers(decided'[TopKey], of)
            BY <2>2, <2>3, <2>4, <4>1, <4>2, <4>3 DEF Joined
          <5>4. QED BY <5>2, <5>3 DEF Agree
        <4>4. CASE S.tag # "stopped"
          BY <4>1, <4>2, <4>4 DEF Agree, Apart
        <4>5. QED BY <4>3, <4>4
      <3>3. QED BY <1>3, <3>1, <3>2
    <2>6. QED BY <1>1, <2>1, <2>5
  <1>4. QED BY <1>2, <1>3, KeepCases

(* It touches the entries of that pair alone.                              *)
LEMMA KeepElsewhere ==
    ASSUME Tabled, TopKey \in Key, NEW f, f.val = Top.val, f.room \in RoomOf,
           NEW r, NEW met \in Stop, Keep(f, r, met), NEW k \in Key, k # TopKey
    PROVE  decided'[k] = decided[k] /\ settled'[k] = settled[k]
  <1>1. CASE /\ decided' = [decided EXCEPT ![TopKey] = [tag |-> "answered", admitted |-> r = "yes"]]
             /\ settled' = settled
    BY <1>1 DEF Tabled
  <1>2. CASE /\ met \in Code /\ decided' = KeepStop(decided, TopKey, met, f.room)
             /\ \/ f.mode = "settle" /\ settled' = KeepStop(settled, TopKey, met, f.room)
                \/ f.mode # "settle" /\ settled' = settled
    BY <1>2, KeptStop DEF Tabled
  <1>3. QED BY <1>1, <1>2, KeepCases

(* A stop kept with more definitions open is no answer to a walk with fewer. *)
LEMMA KeepLeavesOuter ==
    ASSUME Tabled, TopKey \in Key, NEW f, f.val = Top.val, f.room \in RoomOf,
           NEW met \in Code, Keep(f, StoppedIn(f.mode), met),
           NEW mode, NEW room \in RoomOf, room.unfolded < f.room.unfolded,
           Unanswered(decided[TopKey], settled[TopKey], mode, room)
    PROVE  Unanswered(decided'[TopKey], settled'[TopKey], mode, room)
  <1>1. f.mode = "settle" <=> StoppedIn(f.mode) = "yes"
    BY DEF StoppedIn
  <1>2. met \in Stop /\ met # None
    BY DEF Stop, Code, None
  <1>3. /\ decided' = KeepStop(decided, TopKey, met, f.room)
        /\ \/ settled' = KeepStop(settled, TopKey, met, f.room)
           \/ settled' = settled
    BY <1>1, <1>2, KeepCases
  <1>4. decided'[TopKey].tag # "answered"
    BY <1>3, KeptStop DEF Tabled
  <1>5. ASSUME mode = "settle" PROVE ~Covers(settled'[TopKey], room)
    <2>1. CASE settled' = settled
      BY <1>5, <2>1 DEF Unanswered
    <2>2. CASE settled' = KeepStop(settled, TopKey, met, f.room)
      <3>1. settled'[TopKey].rooms \in {Joined(settled[TopKey].rooms, f.room), {f.room}}
            /\ (settled[TopKey].tag # "stopped" => settled'[TopKey].rooms = {f.room})
        BY <2>2, KeptStop DEF Tabled
      <3>2. ~Within(room, f.room)
        BY DEF Within, RoomOf
      <3>3. QED BY <1>5, <3>1, <3>2 DEF Unanswered, Covers, Joined
    <2>3. QED BY <1>3, <2>1, <2>2
  <1>6. QED BY <1>4, <1>5 DEF Unanswered

-----------------------------------------------------------------------------
(* The walks the memo is waiting for.                                      *)

PairIn(f)       == <<f.val, Schema[f.node].def>>
Awaits(f, d, s) == f.pc = "inside" /\ f.keeping => Unanswered(d[PairIn(f)], s[PairIn(f)], f.mode, f.room)
Waiting         == \A i \in DOMAIN stack : Awaits(stack[i], decided, settled)
MemoBooks       == SettledStopsKnown /\ Waiting

LEMMA MemoKept ==
    ASSUME MemoBooks, InsideKept, kept' = kept
    PROVE  MemoBooks'
  <1>1. decided' = decided /\ settled' = settled
    BY DEF kept
  <1>2. SettledStopsKnown'
    BY <1>1 DEF MemoBooks, SettledStopsKnown
  <1>3. ASSUME NEW i \in DOMAIN stack' PROVE Awaits(stack'[i], decided, settled)
    BY DEF MemoBooks, Waiting, InsideKept, Awaits
  <1>4. QED BY <1>1, <1>2, <1>3 DEF MemoBooks, Waiting

(* A definition is entered: its walk is kept where the memo had no answer.  *)
LEMMA EnterMemo ==
    ASSUME Inv, Books, MemoBooks, RefEnter
    PROVE  MemoBooks'
  <1>1. decided' = decided /\ settled' = settled
    BY DEF RefEnter, kept
  <1>2. SettledStopsKnown'
    BY <1>1 DEF MemoBooks, SettledStopsKnown
  <1>3. Awaits(stack'[Len(stack)], decided, settled)
    <2>1. SUFFICES ASSUME Keeps
                   PROVE  Unanswered(decided[TopKey], settled[TopKey], Top.mode, Top.room)
      BY EnterShape DEF Awaits, PairIn, TopKey, TopNode
    <2>2. ~Recalled.found
      BY <2>1, EnterShape DEF Keeps, Walks
    <2>3. TopKey \in Key
      <3>1. Top \in Frame /\ TopNode \in Rows
        BY EnterShape, TopIsAFrame DEF Inv, StackOK
      <3>2. QED BY <3>1 DEF TopKey, Key, Frame, Rows
    <2>4. QED BY <2>2, <2>3, NotRecalled DEF Recalled
  <1>4. Len(stack) \in Nat \ {0} /\ DOMAIN stack = 1 .. Len(stack)
    BY EnterShape DEF Inv, StackOK
  <1>5. ASSUME NEW i \in DOMAIN stack' PROVE Awaits(stack'[i], decided, settled)
    <2>1. CASE i = Len(stack)
      BY <1>3, <2>1
    <2>2. CASE i = Len(stack) + 1
      BY <2>2, EnterShape DEF Awaits
    <2>3. CASE i \in 1 .. Len(stack) - 1
      BY <1>4, <2>3, EnterShape DEF MemoBooks, Waiting
    <2>4. QED BY <1>4, <2>1, <2>2, <2>3, EnterShape
  <1>6. QED BY <1>1, <1>2, <1>5 DEF MemoBooks, Waiting

(* A reference is left: what it came to is kept, and no walk of an enclosing *)
(* definition finds its answer there.                                      *)
LEMMA LeaveMemo ==
    ASSUME Inv, Books, MemoBooks, RefRefused \/ RefReturn
    PROVE  MemoBooks'
  <1>1. stack # <<>> /\ stack' = Pop /\ ~RefEnter
    <2>1. CASE RefRefused
      BY <2>1 DEF RefRefused, RefEnter, Close, Walks, At, Calling
    <2>2. CASE RefReturn
      BY <2>2 DEF RefReturn, RefEnter, Close, Walks, At, Calling, Back, Returning
    <2>3. QED BY <2>1, <2>2
  <1>2. /\ stack \in Seq(Frame) /\ InPlay /\ Tabled /\ TopKey \in Key
        /\ Top \in Frame /\ Top.room \in RoomOf /\ stopped \in Stop /\ SettledStopsKnown
    <2>1. stack \in Seq(Frame) /\ InPlay /\ Top \in Frame /\ TopKey \in Key
      BY <1>1, InTheBooks, TopIsAFrame DEF Inv, StackOK
    <2>2. QED BY <2>1 DEF Inv, RestOK, Tabled, MemoBooks, Frame
  <1>3. /\ DOMAIN stack' = 1 .. Len(stack) - 1 /\ Len(stack) \in DOMAIN stack
        /\ \A i \in 1 .. Len(stack) - 1 :
              i \in DOMAIN stack /\ i < Len(stack) /\ stack'[i] = stack[i]
              /\ Awaits(stack[i], decided, settled)
    <2>1. /\ stack' \in Seq(Frame) /\ Len(stack') = Len(stack) - 1
          /\ \A i \in 1 .. Len(stack) - 1 : stack'[i] = stack[i]
      BY <1>1, <1>2, PopFrames
    <2>2. DOMAIN stack' = 1 .. Len(stack') /\ DOMAIN stack = 1 .. Len(stack) /\ Len(stack) \in Nat \ {0}
      BY <1>1, <1>2, <2>1
    <2>3. QED BY <2>1, <2>2 DEF MemoBooks, Waiting
  <1>4. CASE kept' = kept
    BY <1>1, <1>4, MemoKept, StepKeepsInside DEF Step
  <1>5. ASSUME NEW i \in 1 .. Len(stack) - 1, stack[i].pc = "inside"
        PROVE  /\ PairIn(stack[i]) \in Key /\ stack[i].room \in RoomOf
               /\ stack[i].room.unfolded < Len(trail)
               /\ stack[i].room.unfolded \in Nat
               /\ trail[stack[i].room.unfolded + 1] = PairIn(stack[i])
    <2>1. stack[i] \in Frame /\ trail \in Seq(Key) /\ stack[i].room.unfolded \in Nat
          /\ stack[i].room.unfolded < Len(trail)
          /\ trail[stack[i].room.unfolded + 1] = PairIn(stack[i])
      BY <1>2, <1>3, <1>5, OnPath DEF PairOf, PairIn, InPlay
    <2>2. stack[i].room.unfolded + 1 \in DOMAIN trail
      BY <2>1
    <2>3. stack[i].room \in RoomOf
      BY <2>1 DEF Frame
    <2>4. QED BY <2>1, <2>2, <2>3
  <1>6. CASE RefRefused /\ kept' # kept
    <2> DEFINE code == IF OnTrail THEN "recursion_loop" ELSE "recursion_limit"
    <2>1. Walks /\ Keeps /\ Keep(Top, StoppedIn(Top.mode), code)
      BY <1>6 DEF RefRefused, kept
    <2>2. code \in Code /\ code \in Stop
      BY DEF Code, Stop
    <2> HIDE DEF code
    <2>3. Unanswered(decided[TopKey], settled[TopKey], Top.mode, Top.room)
      BY <1>2, <2>1, NotRecalled DEF Walks, Keeps, Recalled
    <2>4. SettledStopsKnown'
      BY <1>2, <2>1, <2>2, <2>3, KeepKnows
    <2>5. Top.room.unfolded = Len(trail)
      BY <1>1, <2>1, OnlyRefsInside DEF Walks, At
    <2>6. ASSUME NEW i \in 1 .. Len(stack) - 1
          PROVE  Awaits(stack[i], decided', settled')
      <3> SUFFICES ASSUME stack[i].pc = "inside", stack[i].keeping
                   PROVE  Unanswered(decided'[PairIn(stack[i])], settled'[PairIn(stack[i])],
                                     stack[i].mode, stack[i].room)
        BY DEF Awaits
      <3>1. Unanswered(decided[PairIn(stack[i])], settled[PairIn(stack[i])],
                       stack[i].mode, stack[i].room)
        BY <1>3 DEF Awaits
      <3>2. CASE PairIn(stack[i]) = TopKey
        BY <1>2, <1>5, <2>1, <2>2, <2>5, <3>1, <3>2, KeepLeavesOuter
      <3>3. CASE PairIn(stack[i]) # TopKey
        BY <1>2, <1>5, <2>1, <2>2, <3>1, <3>3, KeepElsewhere
      <3>4. QED BY <3>2, <3>3
    <2>7. Waiting'
      BY <1>3, <2>6 DEF Waiting
    <2>8. QED BY <2>4, <2>7 DEF MemoBooks
  <1>7. CASE RefReturn /\ kept' # kept
    <2>1. Top.keeping /\ Keep(Top, ret, stopped) /\ Top.pc = "inside"
      BY <1>1, <1>7, OnlyRefsInside DEF RefReturn, Back, kept
    <2>2. Unanswered(decided[TopKey], settled[TopKey], Top.mode, Top.room)
      <3>1. Awaits(Top, decided, settled)
        BY <1>3 DEF MemoBooks, Waiting, Top
      <3>2. QED BY <2>1, <3>1 DEF Awaits, PairIn, TopKey, TopNode
    <2>3. SettledStopsKnown'
      BY <1>2, <2>1, <2>2, KeepKnows
    <2>4. ASSUME NEW i \in 1 .. Len(stack) - 1, stack[i].pc = "inside"
          PROVE  PairIn(stack[i]) # TopKey
      <3> DEFINE u == stack[i].room.unfolded
                 t == Top.room.unfolded
      <3>1. u < t /\ u \in Nat /\ t \in Nat /\ t < Len(trail) /\ trail[t + 1] = TopKey
            /\ trail[u + 1] = PairIn(stack[i]) /\ trail \in Seq(Key)
        BY <1>2, <1>3, <1>5, <2>1, <2>4, OnPath DEF Top, PairOf, TopKey, TopNode, InPlay
      <3> HIDE DEF u, t
      <3>2. u + 1 \in DOMAIN trail /\ t + 1 \in DOMAIN trail /\ u + 1 # t + 1
        BY <3>1
      <3>3. \A j, k \in DOMAIN trail : trail[j] = trail[k] => j = k
        BY <1>2 DEF InPlay, TrailIsPath
      <3>4. QED BY <3>1, <3>2, <3>3
    <2>5. ASSUME NEW i \in 1 .. Len(stack) - 1
          PROVE  Awaits(stack[i], decided', settled')
      <3> SUFFICES ASSUME stack[i].pc = "inside", stack[i].keeping
                   PROVE  Unanswered(decided'[PairIn(stack[i])], settled'[PairIn(stack[i])],
                                     stack[i].mode, stack[i].room)
        BY DEF Awaits
      <3>1. Unanswered(decided[PairIn(stack[i])], settled[PairIn(stack[i])],
                       stack[i].mode, stack[i].room)
        BY <1>3 DEF Awaits
      <3>2. QED BY <1>2, <1>5, <2>1, <2>4, <3>1, KeepElsewhere
    <2>6. Waiting'
      BY <1>3, <2>5 DEF Waiting
    <2>7. QED BY <2>3, <2>6 DEF MemoBooks
  <1>8. QED BY <1>4, <1>6, <1>7

LEMMA MemoNext ==
    ASSUME Inv, Books, MemoBooks, [Next]_vars
    PROVE  MemoBooks'
  <1>1. CASE Step /\ ~RefEnter /\ ~RefRefused /\ ~RefReturn
    <2>1. kept' = kept
      BY <1>1 DEF Step, Unwind, TooDeep, TestLeaf, CompareLiteral, AskPredicate, RefuseSeq, OpenSeq,
         SeqMoved, SeqElement, SeqEnd, SeqReturn, OpenUnion, UnionScalar, UnionBranch, UnionReturn,
         UnionEnd, OpenMeet, MeetMember, MeetReturn, MeetEnd, OpenNot, NotInner, NotReturn, OpenRef,
         RefFound
    <2>2. QED BY <1>1, <2>1, StepKeepsInside, MemoKept
  <1>2. CASE RefEnter
    BY <1>2, EnterMemo
  <1>3. CASE RefRefused \/ RefReturn
    BY <1>3, LeaveMemo
  <1>4. CASE Write \/ UNCHANGED vars
    <2>1. stack' = stack /\ kept' = kept
      BY <1>4 DEF Write, vars, kept
    <2>2. QED BY <2>1, MemoKept DEF InsideKept
  <1>5. QED BY <1>1, <1>2, <1>3, <1>4 DEF Next

(***************************************************************************)
(* The memo's two tables never disagree about a pair: what a settling walk *)
(* stopped at is kept once for each room no other covers, and a deciding   *)
(* walk with no more room finds the pair answered or stopped too, through  *)
(* any nesting of walks that keep, whatever room each has left (memo.rs,   *)
(* keep_decided).                                                          *)
(***************************************************************************)
THEOREM WalkMemoAgrees == Spec => []SettledStopsKnown
  <1>1. Init => MemoBooks
    <2> SUFFICES ASSUME Init PROVE MemoBooks
      OBVIOUS
    <2>1. \A k \in Key : settled[k].tag = "absent"
      BY DEF Init
    <2>2. stack = <<Start(asked.node, asked.val, "fast")>> /\ \A i \in DOMAIN stack : stack[i].pc = "start"
      BY DEF Init, Start
    <2>3. QED BY <2>1, <2>2 DEF MemoBooks, SettledStopsKnown, Waiting, Awaits
  <1>2. MemoBooks => SettledStopsKnown
    BY DEF MemoBooks
  <1>3. QED BY InitInv, InitBooks, NextInv, NextBooks, MemoNext, <1>1, <1>2, PTL DEF Spec
=============================================================================
