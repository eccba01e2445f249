-------------------------------- MODULE Walk --------------------------------
(***************************************************************************)
(* The membership walk of the binding (check/walk.rs, check/ctx.rs,        *)
(* check/memo.rs): does a Python value belong to the set a schema denotes? *)
(*                                                                         *)
(* The walk is recursive; here it is a machine whose `stack` holds one     *)
(* frame per call of `member`, so that what may happen between two calls   *)
(* (another thread, or code the walk runs, writing to a list) is a step of *)
(* its own.  `ret` carries the answer of the call that just returned to    *)
(* the frame now on top.                                                   *)
(*                                                                         *)
(* A walk is run in one of two modes here: "fast", which is_valid asks,    *)
(* and "settle", a complement's inner walk, which reads its answer in      *)
(* Kleene's strong logic: a walk that stopped answers yes with its code in *)
(* the cell `stopped`.                                                     *)
(***************************************************************************)
EXTENDS MemoPlan

CONSTANTS Value,               \* the values, by address
          Lists,               \* those that are lists
          Contents,            \* the element sequences a list may hold
          Heaps,               \* the initial contents of the lists
          Tables,              \* the definition tables of the schemas checked
          Roots,               \* their root nodes
          Targets,             \* the values asked about
          MaxWalkDepth,        \* levels one walk holds open
          MaxRecursionDepth,   \* definitions unfolded on one path
          MaxWrites            \* bound: writes to the lists during the walk

ASSUME ListsAreValues  == Lists \subseteq Value /\ Targets \subseteq Value
ASSUME WalksAreFinite  == IsFiniteSet(Value) /\ IsFiniteSet(Def)
ASSUME HeapsHoldValues == Contents \subseteq Seq(Value) /\ Heaps \subseteq [Lists -> Contents]
ASSUME TablesAreNodes  == Tables \subseteq [Def -> Node] /\ Roots \subseteq Node
ASSUME BoundsAreNats   == MaxWalkDepth \in Nat /\ MaxRecursionDepth \in Nat /\ MaxWrites \in Nat
ASSUME SchemaIsATable  ==
    Schema \in [Node -> [kind : NodeKinds, kids : Seq(Node), tail : Node \cup {NoNode},
                         def : Def, admits : SUBSET Value, raises : SUBSET Value,
                         kills : SUBSET Value]]
ASSUME NotHasOneKid == \A n \in Node : Schema[n].kind = "not" => Len(Schema[n].kids) = 1

VARIABLES
    defs,     \* the definitions' bodies: fixed for the walk
    plan,     \* the validator's memo plan: fixed for the walk
    asked,    \* the root node and the value asked about: fixed for the walk
    heap,     \* what each list holds now
    writes,   \* how many times a list was written to, up to MaxWrites
    stack,    \* the open calls of `member`, innermost last
    ret,      \* the answer just returned to the top frame: "none", "yes", "no"
    depth,    \* WalkState.depth
    trail,    \* WalkState.guard: the (value, definition) pairs being walked
    stopped,  \* Signals.stopped: the first stop met
    fatal,    \* Signals.fatal_seen
    moves,    \* Rare.moves: scans that found their list moved
    memo,     \* Memo: definitions entered, and the flags USED and ARMED
    decided,  \* Kept.decided
    settled   \* Kept.settled

fixed == <<defs, plan, asked>>
world == <<heap, writes>>
kept  == <<decided, settled>>
vars  == <<defs, plan, asked, heap, writes, stack, ret, depth, trail, stopped, fatal, moves, memo,
           decided, settled>>

-----------------------------------------------------------------------------
(* The domains.                                                            *)

Mode   == {"fast", "settle"}
None   == "none"
Code   == {"recursion_limit", "recursion_loop", "mutated", "predicate_error"}
Stop   == Code \cup {None}
Reply  == {"yes", "no"}
Key    == Value \X Def
RoomOf == [levels : Nat, unfolded : Nat]
Unread == -1

Frame == [node : Node, val : Value, mode : Mode, pc : {"start", "open", "inside"},
          at : Nat \ {0}, count : Nat, entered : Nat \cup {Unread}, earlier : Stop, met : Stop,
          moves : Nat, arming : BOOLEAN, outer : BOOLEAN, keeping : BOOLEAN, room : RoomOf]

\* A pair the memo holds nothing for, one answered, and one refused at a stop
\* with the rooms of the walks that met it.
Entry == [tag : {"absent"}]
           \cup [tag : {"answered"}, admitted : BOOLEAN]
           \cup [tag : {"stopped"}, code : Code, rooms : SUBSET RoomOf]

\* A call of `member`.
Start(n, v, m) ==
    [node |-> n, val |-> v, mode |-> m, pc |-> "start", at |-> 1, count |-> 0,
     entered |-> Unread, earlier |-> None, met |-> None, moves |-> 0, arming |-> FALSE,
     outer |-> FALSE, keeping |-> FALSE, room |-> [levels |-> 0, unfolded |-> 0]]

Top       == stack[Len(stack)]
TopNode   == Schema[Top.node]
Calling   == stack # <<>> /\ ret = "none"
Returning == stack # <<>> /\ ret # "none"
Opening(kind) == Calling /\ Top.pc = "start" /\ ~fatal /\ depth < MaxWalkDepth /\ TopNode.kind = kind
At(kind, pc)  == Calling /\ Top.pc = pc /\ TopNode.kind = kind
Back(kind)    == Returning /\ TopNode.kind = kind

-----------------------------------------------------------------------------
(* What the steps share.                                                   *)

\* Option::or on stop codes: the first is kept.
Or(first, second) == IF first # None THEN first ELSE second
RecordStop(code)  == stopped' = Or(stopped, code)

\* Mutant of StoppedIn: a settling walk refuses at a stop, as a fast one does.
StoppedRefuses(mode) == "no"

\* What a walk that stopped answers (`stopped`), and a Boolean's reply.
StoppedIn(mode) == IF mode = "settle" THEN "yes" ELSE "no"
Says(b)         == IF b THEN "yes" ELSE "no"

Pop         == SubSeq(stack, 1, Len(stack) - 1)

\* Mutant of AnswerAt: a call that opened no level closes one.
AnswerClosing(r) == stack' = Pop /\ ret' = r /\ depth' = depth - 1

Become(f)   == stack' = [stack EXCEPT ![Len(stack)] = f] /\ ret' = "none"
Open(f)     == Become([f EXCEPT !.pc = "open"]) /\ depth' = depth + 1
Close(r)    == stack' = Pop /\ ret' = r /\ depth' = depth - 1
AnswerAt(r) == stack' = Pop /\ ret' = r /\ UNCHANGED depth

\* The top frame, become f, calls `member`; an armed call is one of
\* `member_again` at a node the plan says shares a definition.
Call(f, n, v, m, armed) ==
    /\ stack' = Append([stack EXCEPT ![Len(stack)] =
                            [f EXCEPT !.arming = armed, !.outer = memo.armed]], Start(n, v, m))
    /\ memo' = IF armed THEN [memo EXCEPT !.used = TRUE, !.armed = TRUE] ELSE memo
    /\ ret' = "none"
    /\ UNCHANGED depth

\* Mutant of Disarmed: the memo is left armed.
LeftArmed(f) == memo

\* The memo once the call returned: the arming the node found is put back.
Disarmed(f) == IF f.arming THEN [memo EXCEPT !.armed = f.outer] ELSE memo

\* A node that read `entered` where its first member was walked arms the walk
\* of a later one once a definition was entered in between.
Again(f) == f.entered # Unread /\ memo.entered # f.entered /\ f.node \in plan.shared

-----------------------------------------------------------------------------
(* The memo's tables.                                                      *)

\* Mutant of Within: the rooms are not compared.
WithinAny(room, of) == TRUE

Within(room, of)       == room.levels >= of.levels /\ room.unfolded >= of.unfolded
Covers(entry, room)    == entry.tag = "stopped" /\ \E of \in entry.rooms : Within(room, of)
Found(admitted, code)  == [found |-> TRUE, admitted |-> admitted, code |-> code]
NotFound               == [found |-> FALSE, admitted |-> FALSE, code |-> None]
Read(table, key, room) ==
    IF table[key].tag = "answered" THEN Found(table[key].admitted, None)
    ELSE IF Covers(table[key], room) THEN Found(FALSE, table[key].code)
    ELSE NotFound

\* A settling walk takes an answer, and a stop only where a settling walk met it.
Recall(key, room, mode) ==
    LET any == Read(decided, key, room)
    IN  IF mode = "settle" /\ (~any.found \/ any.code # None)
        THEN Read(settled, key, room)
        ELSE any

\* The rooms kept for one pair: those no other covers.
Joined(rooms, room) == {of \in rooms : ~Within(of, room)} \cup {room}
KeepStop(table, key, code, room) ==
    IF table[key].tag = "stopped"
    THEN [table EXCEPT ![key].rooms = Joined(@, room)]
    ELSE [table EXCEPT ![key] = [tag |-> "stopped", code |-> code, rooms |-> {room}]]

\* Mutant of Keep: what a settling walk stopped at is kept for settling walks alone.
KeepSettledAlone(f, r, met) ==
    LET key      == <<f.val, TopNode.def>>
        settling == f.mode = "settle"
    IN  IF met # None /\ settling /\ r = "yes"
        THEN settled' = KeepStop(settled, key, met, f.room) /\ UNCHANGED decided
        ELSE IF met # None /\ ~settling /\ r = "no"
        THEN decided' = KeepStop(decided, key, met, f.room) /\ UNCHANGED settled
        ELSE /\ decided' = [decided EXCEPT ![key] = [tag |-> "answered", admitted |-> r = "yes"]]
             /\ UNCHANGED settled

\* keep_decided: what a walk in `mode` that answered `r` and met `met` leaves.
Keep(f, r, met) ==
    LET key      == <<f.val, TopNode.def>>
        settling == f.mode = "settle"
        refusal  == met # None /\ (settling <=> r = "yes")
    IN  IF refusal
        THEN /\ decided' = KeepStop(decided, key, met, f.room)
             /\ settled' = IF settling THEN KeepStop(settled, key, met, f.room) ELSE settled
        ELSE /\ decided' = [decided EXCEPT ![key] = [tag |-> "answered", admitted |-> r = "yes"]]
             /\ UNCHANGED settled

-----------------------------------------------------------------------------
(* The prologue of `member`, and the nodes that test the value themselves. *)

\* A fatal signal recorded earlier unwinds every later call.
Unwind ==
    /\ Calling /\ Top.pc = "start" /\ fatal
    /\ AnswerAt("no")
    /\ UNCHANGED <<fixed, world, trail, stopped, fatal, moves, memo, kept>>

\* No level is free: the walk stops, in the answer its mode has for a stop.
TooDeep ==
    /\ Calling /\ Top.pc = "start" /\ ~fatal /\ depth >= MaxWalkDepth
    /\ RecordStop("recursion_limit")
    /\ AnswerAt(StoppedIn(Top.mode))
    /\ UNCHANGED <<fixed, world, trail, fatal, moves, memo, kept>>

\* A type test. Its level is opened and closed within the step.
TestLeaf ==
    /\ Opening("leaf")
    /\ AnswerAt(Says(Top.val \in TopNode.admits))
    /\ UNCHANGED <<fixed, world, trail, stopped, fatal, moves, memo, kept>>

\* A comparison with a constant may run the value's own `==`: one that raises
\* refuses and is no stop, and one that is interrupted unwinds the walk.
CompareLiteral ==
    /\ Opening("literal")
    /\ fatal' = (Top.val \in TopNode.kills)
    /\ AnswerAt(Says(Top.val \in TopNode.admits \ (TopNode.raises \cup TopNode.kills)))
    /\ UNCHANGED <<fixed, world, trail, stopped, moves, memo, kept>>

\* A predicate passes or fails, raises (the walk stops), or is interrupted.
AskPredicate ==
    /\ Opening("pred")
    /\ \/ /\ Top.val \in TopNode.kills
          /\ fatal' = TRUE /\ AnswerAt("no") /\ UNCHANGED stopped
       \/ /\ Top.val \in TopNode.raises \ TopNode.kills
          /\ RecordStop("predicate_error") /\ AnswerAt(StoppedIn(Top.mode)) /\ UNCHANGED fatal
       \/ /\ Top.val \notin TopNode.raises \cup TopNode.kills
          /\ AnswerAt(Says(Top.val \in TopNode.admits)) /\ UNCHANGED <<stopped, fatal>>
    /\ UNCHANGED <<fixed, world, trail, moves, memo, kept>>

-----------------------------------------------------------------------------
(* Sequences.                                                              *)

HasArity(n, len) == IF Schema[n].tail = NoNode THEN len = Len(Schema[n].kids)
                                               ELSE len >= Len(Schema[n].kids)
ElementOf(n, i)  == IF i <= Len(Schema[n].kids) THEN Schema[n].kids[i] ELSE Schema[n].tail

IsArray(n, v)    == v \in Lists /\ HasArity(n, Len(heap[v]))

\* A value of another kind, or of another length.
RefuseSeq ==
    /\ Opening("seq") /\ ~IsArray(Top.node, Top.val)
    /\ AnswerAt("no")
    /\ UNCHANGED <<fixed, world, trail, stopped, fatal, moves, memo, kept>>

OpenSeq ==
    /\ Opening("seq") /\ IsArray(Top.node, Top.val)
    /\ Open([Top EXCEPT !.count = Len(heap[Top.val])])
    /\ UNCHANGED <<fixed, world, trail, stopped, fatal, moves, memo, kept>>

\* Mutant of SeqMoved: the scan waits for the length it began with.
SeqMovedWaits ==
    /\ At("seq", "open") /\ Len(heap[Top.val]) # Top.count
    /\ RecordStop("mutated")
    /\ UNCHANGED <<fixed, world, stack, ret, depth, trail, fatal, moves, memo, kept>>

\* The list no longer has the length the scan began with: no answer.
SeqMoved ==
    /\ At("seq", "open") /\ Len(heap[Top.val]) # Top.count
    /\ moves' = moves + 1
    /\ RecordStop("mutated")
    /\ Close("no")
    /\ UNCHANGED <<fixed, world, trail, fatal, memo, kept>>

SeqElement ==
    /\ At("seq", "open") /\ Len(heap[Top.val]) = Top.count /\ Top.at <= Top.count
    /\ Call(Top, ElementOf(Top.node, Top.at), heap[Top.val][Top.at], Top.mode, FALSE)
    /\ UNCHANGED <<fixed, world, trail, stopped, fatal, moves, kept>>

SeqEnd ==
    /\ At("seq", "open") /\ Len(heap[Top.val]) = Top.count /\ Top.at > Top.count
    /\ Close("yes")
    /\ UNCHANGED <<fixed, world, trail, stopped, fatal, moves, memo, kept>>

\* The scan goes on past an element that holds and ends at one that does not,
\* without asking the list's length again.
SeqReturn ==
    /\ Back("seq")
    /\ \/ ret = "yes" /\ Become([Top EXCEPT !.at = @ + 1]) /\ UNCHANGED depth
       \/ ret = "no" /\ Close("no")
    /\ UNCHANGED <<fixed, world, trail, stopped, fatal, moves, memo, kept>>

-----------------------------------------------------------------------------
(* Unions: read until a branch admits.  A settling walk reads each branch   *)
(* with the cell cleared, and reads past a branch that stopped.             *)

Branch      == TopNode.kids[Top.at]
ReadInPlace == Schema[Branch].kind = "leaf" /\ depth < MaxWalkDepth

OpenUnion ==
    /\ Opening("union")
    /\ Open([Top EXCEPT !.earlier = IF Top.mode = "settle" THEN stopped ELSE None])
    /\ stopped' = IF Top.mode = "settle" THEN None ELSE stopped
    /\ UNCHANGED <<fixed, world, trail, fatal, moves, memo, kept>>

\* What the union does with a branch's reply `r`.
AfterBranch(f, r) ==
    \/ /\ f.mode = "fast"
       /\ \/ r = "yes" /\ Close("yes")
          \/ r = "no" /\ Become([f EXCEPT !.at = @ + 1]) /\ UNCHANGED depth
       /\ UNCHANGED stopped
    \/ /\ f.mode = "settle"
       /\ \/ r = "yes" /\ stopped = None /\ Close("yes") /\ stopped' = f.earlier
          \/ /\ r = "no" \/ stopped # None
             /\ Become([f EXCEPT !.at = @ + 1, !.met = IF r = "yes" THEN Or(@, stopped) ELSE @])
             /\ stopped' = None /\ UNCHANGED depth

\* A scalar branch is its type test, asked where a level is free.
UnionScalar ==
    /\ At("union", "open") /\ Top.at <= Len(TopNode.kids) /\ ReadInPlace
    /\ AfterBranch(Top, Says(~fatal /\ Top.val \in Schema[Branch].admits))
    /\ UNCHANGED <<fixed, world, trail, fatal, moves, memo, kept>>

UnionBranch ==
    /\ At("union", "open") /\ Top.at <= Len(TopNode.kids) /\ ~ReadInPlace
    /\ Call([Top EXCEPT !.entered = IF @ = Unread THEN memo.entered ELSE @],
            Branch, Top.val, Top.mode, Again(Top))
    /\ UNCHANGED <<fixed, world, trail, stopped, fatal, moves, kept>>

UnionReturn ==
    /\ Back("union")
    /\ AfterBranch([Top EXCEPT !.arming = FALSE], ret)
    /\ memo' = Disarmed(Top)
    /\ UNCHANGED <<fixed, world, trail, fatal, moves, kept>>

UnionEnd ==
    /\ At("union", "open") /\ Top.at > Len(TopNode.kids)
    /\ stopped' = IF Top.mode = "settle" THEN Or(Top.earlier, Top.met) ELSE stopped
    /\ Close(Says(Top.met # None))
    /\ UNCHANGED <<fixed, world, trail, fatal, moves, memo, kept>>

-----------------------------------------------------------------------------
(* Meets: every member must hold, and the first that does not ends it.     *)

OpenMeet ==
    /\ Opening("meet")
    /\ Open([Top EXCEPT !.entered = memo.entered])
    /\ UNCHANGED <<fixed, world, trail, stopped, fatal, moves, memo, kept>>

MeetMember ==
    /\ At("meet", "open") /\ Top.at <= Len(TopNode.kids)
    /\ Call(Top, TopNode.kids[Top.at], Top.val, Top.mode, Again(Top))
    /\ UNCHANGED <<fixed, world, trail, stopped, fatal, moves, kept>>

MeetReturn ==
    /\ Back("meet")
    /\ \/ /\ ret = "yes"
          /\ Become([Top EXCEPT !.at = @ + 1, !.arming = FALSE]) /\ UNCHANGED depth
       \/ ret = "no" /\ Close("no")
    /\ memo' = Disarmed(Top)
    /\ UNCHANGED <<fixed, world, trail, stopped, fatal, moves, kept>>

MeetEnd ==
    /\ At("meet", "open") /\ Top.at > Len(TopNode.kids)
    /\ Close("yes")
    /\ UNCHANGED <<fixed, world, trail, stopped, fatal, moves, memo, kept>>

-----------------------------------------------------------------------------
(* Complements: the inner walk settles; a stop or a move is no answer.     *)

OpenNot ==
    /\ Opening("not")
    /\ Open([Top EXCEPT !.earlier = stopped, !.moves = moves])
    /\ stopped' = None
    /\ UNCHANGED <<fixed, world, trail, fatal, moves, memo, kept>>

NotInner ==
    /\ At("not", "open")
    /\ Call(Top, TopNode.kids[1], Top.val, "settle", FALSE)
    /\ UNCHANGED <<fixed, world, trail, stopped, fatal, moves, kept>>

\* What the inner walk met that leaves the complement without an answer.
InnerStop == IF moves # Top.moves THEN "mutated"
             ELSE IF ret = "yes" THEN stopped ELSE None

\* Mutant of NotReturn: the inner walk's refusal is taken though its value moved.
NotReturnMoved ==
    /\ Back("not")
    /\ \/ ret = "no" /\ stopped' = Top.earlier /\ Close("yes")
       \/ /\ ret = "yes" /\ stopped' = Or(Top.earlier, stopped)
          /\ Close(IF stopped # None THEN StoppedIn(Top.mode) ELSE "no")
    /\ UNCHANGED <<fixed, world, trail, fatal, moves, memo, kept>>

NotReturn ==
    /\ Back("not")
    /\ \/ /\ moves = Top.moves /\ ret = "no"
          /\ stopped' = Top.earlier
          /\ Close("yes")
       \/ /\ moves # Top.moves \/ ret = "yes"
          /\ stopped' = Or(Top.earlier, InnerStop)
          /\ Close(IF InnerStop # None THEN StoppedIn(Top.mode) ELSE "no")
    /\ UNCHANGED <<fixed, world, trail, fatal, moves, memo, kept>>

-----------------------------------------------------------------------------
(* References: found in the memo, refused on the trail, or walked.         *)

TopKey    == <<Top.val, TopNode.def>>
RoomHere  == [levels |-> depth, unfolded |-> Len(trail)]
Asks      == memo.used /\ TopNode.def \in plan.remembered
Recalled  == Recall(TopKey, Top.room, Top.mode)
\* Mutant of OnTrail: only the pair just entered is asked.
OnTrailLast == trail # <<>> /\ trail[Len(trail)] = TopKey

OnTrail   == \E i \in DOMAIN trail : trail[i] = TopKey
TrailFull == Len(trail) >= MaxRecursionDepth

\* The level is open and the definition counted as entered; `keeping` says
\* the memo is asked, and later whether this walk is kept.
OpenRef ==
    /\ Opening("ref")
    /\ Open([Top EXCEPT !.keeping = Asks,
                        !.room = [levels |-> depth + 1, unfolded |-> Len(trail)]])
    /\ memo' = [memo EXCEPT !.entered = @ + 1]
    /\ UNCHANGED <<fixed, world, trail, stopped, fatal, moves, kept>>

RefFound ==
    /\ At("ref", "open") /\ Top.keeping /\ Recalled.found
    /\ IF Recalled.code # None
       THEN RecordStop(Recalled.code) /\ Close(StoppedIn(Top.mode))
       ELSE Close(Says(Recalled.admitted)) /\ UNCHANGED stopped
    /\ UNCHANGED <<fixed, world, trail, fatal, moves, memo, kept>>

\* A walk the memo does not answer, kept where the memo is armed: the cell is
\* cleared for it and read after it.
Walks == At("ref", "open") /\ ~(Top.keeping /\ Recalled.found)
Keeps == Top.keeping /\ memo.armed

\* Mutant of RefRefused: a settling walk refuses too.
RefRefusedNo ==
    /\ Walks /\ (OnTrail \/ TrailFull)
    /\ RecordStop("recursion_loop")
    /\ Close("no")
    /\ UNCHANGED <<fixed, world, trail, fatal, moves, memo, kept>>

\* The pair is on the trail, or the trail is full: the walk stops. An armed one
\* keeps the stop.
RefRefused ==
    /\ Walks /\ (OnTrail \/ TrailFull)
    /\ LET code == IF OnTrail THEN "recursion_loop" ELSE "recursion_limit"
       IN  /\ RecordStop(code)
           /\ IF Keeps THEN Keep(Top, StoppedIn(Top.mode), code) ELSE UNCHANGED kept
    /\ Close(StoppedIn(Top.mode))
    /\ UNCHANGED <<fixed, world, trail, fatal, moves, memo>>

RefEnter ==
    /\ Walks /\ ~OnTrail /\ ~TrailFull
    /\ trail' = Append(trail, TopKey)
    /\ stopped' = IF Keeps THEN None ELSE stopped
    /\ Call([Top EXCEPT !.pc = "inside", !.keeping = Keeps,
                        !.earlier = IF Keeps THEN stopped ELSE None],
            defs[TopNode.def], Top.val, Top.mode, FALSE)
    /\ UNCHANGED <<fixed, world, fatal, moves, kept>>

\* Mutant of RefReturn: what an unwound walk answered is kept.
RefReturnKeeps ==
    /\ Back("ref")
    /\ trail' = SubSeq(trail, 1, Len(trail) - 1)
    /\ stopped' = Or(Top.earlier, stopped)
    /\ IF Top.keeping THEN Keep(Top, ret, stopped) ELSE UNCHANGED kept
    /\ Close(ret)
    /\ UNCHANGED <<fixed, world, fatal, moves, memo>>

RefReturn ==
    /\ Back("ref")
    /\ trail' = SubSeq(trail, 1, Len(trail) - 1)
    /\ stopped' = Or(Top.earlier, stopped)
    /\ IF Top.keeping /\ ~fatal THEN Keep(Top, ret, stopped) ELSE UNCHANGED kept
    /\ Close(ret)
    /\ UNCHANGED <<fixed, world, fatal, moves, memo>>

-----------------------------------------------------------------------------
(* The world beside the walk, and the specification.                       *)

\* Another thread, or code the walk runs, writes to a list.
Write ==
    /\ stack # <<>> /\ writes < MaxWrites
    /\ \E l \in Lists, c \in Contents :
          c # heap[l] /\ heap' = [heap EXCEPT ![l] = c]
    /\ writes' = writes + 1
    /\ UNCHANGED <<fixed, stack, ret, depth, trail, stopped, fatal, moves, memo, kept>>

Init ==
    /\ defs \in Tables
    /\ heap \in Heaps
    /\ writes = 0
    /\ asked \in [node : Roots, val : Targets]
    /\ plan = Plan(asked.node, defs)
    /\ stack = <<Start(asked.node, asked.val, "fast")>>
    /\ ret = "none"
    /\ depth = 0
    /\ trail = <<>>
    /\ stopped = None
    /\ fatal = FALSE
    /\ moves = 0
    /\ memo = [entered |-> 0, used |-> FALSE, armed |-> FALSE]
    /\ decided = [k \in Key |-> [tag |-> "absent"]]
    /\ settled = [k \in Key |-> [tag |-> "absent"]]

Step ==
    \/ Unwind \/ TooDeep \/ TestLeaf \/ CompareLiteral \/ AskPredicate
    \/ RefuseSeq \/ OpenSeq \/ SeqMoved \/ SeqElement \/ SeqEnd \/ SeqReturn
    \/ OpenUnion \/ UnionScalar \/ UnionBranch \/ UnionReturn \/ UnionEnd
    \/ OpenMeet \/ MeetMember \/ MeetReturn \/ MeetEnd
    \/ OpenNot \/ NotInner \/ NotReturn
    \/ OpenRef \/ RefFound \/ RefRefused \/ RefEnter \/ RefReturn

Next == Step \/ Write

\* The walk is a loop of its own thread: it takes its next step whenever it has one.
Spec == Init /\ [][Next]_vars /\ WF_vars(Step)

Done == stack = <<>>

\* What is_valid returns: a fatal signal is raised again instead of an answer.
Outcome == IF fatal THEN "raised" ELSE ret

-----------------------------------------------------------------------------
(* The type invariant, and the walk's own bookkeeping.                     *)

(***************************************************************************)
(* Every part of the walk's state has its type, and an open scan reads a   *)
(* list, of a length its sequence's arity admits.                          *)
(***************************************************************************)
TypeOK ==
    /\ defs \in [Def -> Node]
    /\ asked \in [node : Node, val : Value]
    /\ plan \in [remembered : SUBSET Def, shared : SUBSET Node]
    /\ heap \in [Lists -> Contents]
    /\ writes \in 0 .. MaxWrites
    /\ stack \in Seq(Frame)
    /\ ret \in Reply \cup {"none"}
    /\ depth \in Nat
    /\ trail \in Seq(Key)
    /\ stopped \in Stop
    /\ fatal \in BOOLEAN
    /\ moves \in Nat
    /\ memo \in [entered : Nat, used : BOOLEAN, armed : BOOLEAN]
    /\ decided \in [Key -> Entry]
    /\ settled \in [Key -> Entry]
    /\ \A i \in DOMAIN stack :
          Schema[stack[i].node].kind = "seq" /\ stack[i].pc # "start"
            => stack[i].val \in Lists /\ HasArity(stack[i].node, stack[i].count)

\* One level is open per frame past its prologue, and only the top is before it.
LevelsOpen ==
    /\ \A i \in DOMAIN stack : stack[i].pc = "start" => i = Len(stack) /\ ret = "none"
    /\ depth = IF stack # <<>> /\ Top.pc = "start" THEN Len(stack) - 1 ELSE Len(stack)
    /\ depth <= MaxWalkDepth

\* A frame inside its definition, where it put its pair on the trail.
Inside(i) == i \in DOMAIN stack /\ stack[i].pc = "inside"
PairOf(i) == <<stack[i].val, Schema[stack[i].node].def>>

TrailIsPath ==
    /\ \A i \in DOMAIN stack :
          /\ stack[i].pc = "inside" => Schema[stack[i].node].kind = "ref"
          /\ Inside(i) => /\ stack[i].room.unfolded < Len(trail)
                          /\ trail[stack[i].room.unfolded + 1] = PairOf(i)
          /\ Schema[stack[i].node].kind = "ref" /\ stack[i].pc = "open" =>
                stack[i].room.unfolded = Len(trail) /\ i = Len(stack) /\ ret = "none"
    /\ \A i, j \in DOMAIN stack :
          i < j /\ Inside(i) /\ Inside(j) => stack[i].room.unfolded < stack[j].room.unfolded
    /\ \A k \in DOMAIN trail : \E i \in DOMAIN stack : Inside(i) /\ stack[i].room.unfolded + 1 = k
    /\ Len(trail) <= MaxRecursionDepth
    /\ \A j, k \in DOMAIN trail : trail[j] = trail[k] => j = k

\* The memo is armed inside the frames that armed it and nowhere else.
ArmedInside ==
    /\ memo.armed = (\E i \in DOMAIN stack : stack[i].arming)
    /\ \A i \in DOMAIN stack : stack[i].arming =>
          stack[i].outer = (\E j \in DOMAIN stack : j < i /\ stack[j].arming)
    /\ memo.armed => memo.used

(***************************************************************************)
(* Whatever early return a walk takes, at a bound, a loop, a move, a       *)
(* signal, an answer from the memo, it closes the level it opened, takes   *)
(* its own pair off the trail, and puts back the arming it found; the      *)
(* trail never holds one pair twice nor more than its bound (ctx.rs,       *)
(* Descent, Trail; memo.rs, Memo::armed).                                  *)
(***************************************************************************)
Balanced == LevelsOpen /\ TrailIsPath /\ ArmedInside

(***************************************************************************)
(* What a settling walk stopped at is kept once for each room that no other *)
(* covers, and is known as well to every deciding walk with no more room:  *)
(* the two tables never disagree about a pair (memo.rs, keep_decided).     *)
(***************************************************************************)
Apart(rooms) == \A r, s \in rooms : Within(r, s) => r = s

SettledStopsKnown ==
    \A key \in Key : settled[key].tag = "stopped" =>
        /\ Apart(settled[key].rooms)
        /\ \/ decided[key].tag = "answered"
           \/ \A room \in settled[key].rooms : Covers(decided[key], room)

(***************************************************************************)
(* A fatal signal unwinds the walk: from the step after it, no call opens  *)
(* a level, no definition is entered, and nothing is kept in the memo,     *)
(* through complements that turn the refusals of the calls below into      *)
(* answers yes, and scans that go on past them and may yet find their list *)
(* moved (walk.rs, `member`, remembered_ref; memo.rs, keep_decided).       *)
(***************************************************************************)
FatalUnwinds ==
    [][fatal => /\ UNCHANGED <<fatal, decided, settled>>
                /\ memo'.entered = memo.entered
                /\ Len(trail') <= Len(trail) /\ depth' <= depth]_vars

(***************************************************************************)
(* Every walk ends, a value that holds itself and a list that moves under  *)
(* it included.                                                            *)
(***************************************************************************)
WalkEnds == <>Done
=============================================================================
