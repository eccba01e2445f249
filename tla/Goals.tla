------------------------------- MODULE Goals -------------------------------
(***************************************************************************)
(* Whether one schema is below another: the rules of decision.rs, the      *)
(* split of records across a union of decision/records.rs, and what a      *)
(* query keeps of the goals it asked.                                      *)
(*                                                                         *)
(* A goal is a pair of terms.  It is decided by structural rules, under    *)
(* the hypothesis of every goal that unfolded a reference above it (the    *)
(* trail); a goal the rules leave undecided is read by the bounds of the   *)
(* lattice, and at the root by the readings of `decided_by_sets`, which    *)
(* read back what the root's own goals answered (HELD) rather than ask     *)
(* again.  Emptiness asks goals and goals ask emptiness, on one budget and *)
(* one thread, each by Decide: an instance gives it Decision, below.       *)
(*                                                                         *)
(* Where the code chains readings with `or_else`, a sequence names them    *)
(* and FirstAnswer asks them in turn.  The readings of literals, lengths,  *)
(* sequences, collections and attribute records have no term of the        *)
(* fragment to read.  `Arc::ptr_eq` and addresses are equality of terms.   *)
(***************************************************************************)
EXTENDS Emptiness

CONSTANTS MembersHeld,        \* a record of the root holds a bit for each member
          LeafReading,        \* the steps a goal read by the sets is charged
          NoneDerives(_, _),  \* that no value of a kind is of a class
          RelatesInside       \* the goals deciding a class makes Python ask

ASSUME RecordsAreBounded == {MembersHeld, LeafReading} \subseteq Nat \ {0}

LOCAL Sequence == INSTANCE SequencesExt
LOCAL Items(s) == {s[i] : i \in DOMAIN s}
LOCAL Least(a, b) == IF a < b THEN a ELSE b
LOCAL Pop(s) == SubSeq(s, 1, Len(s) - 1)

(* An answer to a goal, and what a verdict of the difference says of it.   *)
Says(answer, cx) == Answer(answer, Opaque, cx)
Unsaid(cx) == Says("Unknown", cx)
Decided(held) == IF held THEN "Holds" ELSE "Fails"
Proven(held) == IF held THEN "Holds" ELSE "Unknown"
OfDifference(verdict) ==
  CASE verdict = "Empty" -> "Holds" [] verdict = "Inhabited" -> "Fails" [] OTHER -> "Unknown"
OfMismatch(subject) == [subject EXCEPT !.v = OfDifference(@)]
ProofOnly(answer) == [answer EXCEPT !.v = Proven(@ = "Holds")]
RefutationOnly(answer) == [answer EXCEPT !.v = IF @ = "Fails" THEN @ ELSE "Unknown"]

All(answers) ==
  CASE "Fails" \in Items(answers) -> "Fails"
    [] "Unknown" \in Items(answers) -> "Unknown"
    [] OTHER -> "Holds"

-----------------------------------------------------------------------------
(* What is read off two terms with no step.                                *)

PlacedByMembership(sub, sup) ==
  \/ Is("Union", sup) /\ sub \in Items(Members(sup))
  \/ Is("Meet", sub) /\ sup \in Items(Members(sub))

PushedComplement(inner) ==
  LET complements == {Complement(m) : m \in Items(Members(inner))}
  IN  IF Is("Union", inner) THEN MeetWithin(complements, Defs) ELSE UnionWithin(complements, Defs)

PushedComplementIsPlaced(sub, sup) ==
  /\ Is("Not", sub)
  /\ Inner(sub)[1] \in {"Union", "Meet"}
  /\ PushedComplement(Inner(sub)) = sup \/ PlacedByMembership(PushedComplement(Inner(sub)), sup)

(* Two branches that differ by one term, held and complemented, are their  *)
(* meet without it.                                                        *)
Conjuncts(s) == IF Is("Meet", s) THEN Items(Members(s)) ELSE {s}

Splits(members) ==
  {split \in (DOMAIN members) \X (DOMAIN members) \X UNION {Conjuncts(m) : m \in Items(members)} :
     LET at == split[1]
         paired == split[2]
         complement == split[3]
         shared == Conjuncts(members[at]) \ {complement}
     IN  /\ at # paired
         /\ Is("Meet", members[at]) /\ Is("Meet", members[paired])
         /\ complement \in Conjuncts(members[at]) /\ Is("Not", complement)
         /\ Conjuncts(members[paired]) = shared \union Conjuncts(Inner(complement))
         /\ DenotesASet(Inner(complement), Vouched, Defs)}

MergedSplit(members) ==
  LET split == CHOOSE one \in Splits(members) : \A other \in Splits(members) : one[1] <= other[1]
      shared == Conjuncts(members[split[1]]) \ {split[3]}
      rest == {members[i] : i \in DOMAIN members \ {split[1], split[2]}}
  IN  UnionWithin(rest \union {MeetWithin(shared, Defs)}, Defs)

(* The kinds of values one term holds and the other does not.              *)
KindRegions(kind) ==
  CASE kind = "int" -> {"bool", "int"} [] kind \in {"bool", "str"} -> {kind} [] OTHER -> {"other"}

SpillsPast(sub, sup) ==
  /\ RegionSet(sub) # Opaque
  /\ TypeTag(sup) # Untagged
  /\ ~(RegionSet(sub) \subseteq KindRegions(TypeTag(sup)))

SpillsAKindInto(sub, sup) == ~(Whole(sub) \subseteq Possibly(sup))
SpillsAKind(sub, sup) == (sub = Anything \/ Is("Not", sub)) /\ SpillsAKindInto(sub, sup)
MissesAKind(s) == Possibly(s) # Kinds

OutsideTheClass(sub, sup) ==
  LET excluded == TypeTag(Inner(sub))
      kinds == CASE Is("Not", sub) /\ excluded # Untagged -> {k \in Kinds : excluded \notin Sharing(k)}
                 [] TypeTag(sub) # Untagged -> {TypeTag(sub)}
                 [] OTHER -> {}
  IN  Is("Instance", sup) /\ \E k \in kinds : NoneDerives(k, Inner(sup))

(* The lengths of a string where no branch holds one, and the empty dict.  *)
HoldsNoString(s) ==
  "str" \notin Possibly(s) /\ (TypeTag(s) # Untagged \/ ~HasReference(s)) /\ ~Is("Refine", s)

RefusedByLength(sub, sup) ==
  \/ sub = Str /\ sup[1] \in {"Map", "Union"} /\ \A b \in Items(Branches(sup)) : HoldsNoString(b)
  \/ /\ TypeTag(sub) = "dict"
     /\ HoldsTheEmptyDict(sub) = "yes"
     /\ HoldsTheEmptyDict(sup) = "no"

RECURSIVE HoldsParts(_)
HoldsParts(s) ==
  \/ s[1] \in {"Map", "Ref"}
  \/ s[1] \in {"Union", "Meet", "Not"} /\ \E child \in Children(s) : HoldsParts(child)

SetsBelow(sub, sup) == OfDifference(Outside("below", Meet(<<sub, sup>>)))
-----------------------------------------------------------------------------
(* Goals asked one after another: until one answers with a stop, or, where *)
(* `Spent` is a stop, one has declined and no step is left.                *)

IsSubtypeRec(sub, sup, cx) == Decide("goal", <<sub, sup>>, cx)
IsEmptyRec(s, cx) == Decide("emptiness", s, cx)

RECURSIVE Asked(_, _, _, _)
AskedNext(goals, stops, answers, first) ==
  Asked(Tail(goals), stops, Append(answers, first.v), first.cx)
Asked(goals, stops, answers, cx) ==
  LET stopped == answers # <<>> /\ answers[Len(answers)] \in stops
  IN  IF ~stopped /\ "Spent" \in stops /\ "Unknown" \in Items(answers) /\ cx.left = 0
      THEN [answers |-> answers, spent |-> TRUE, cx |-> BoundMet(cx)]
      ELSE IF stopped \/ goals = <<>> THEN [answers |-> answers, spent |-> FALSE, cx |-> cx]
      ELSE AskedNext(goals, stops, answers, IsSubtypeRec(goals[1][1], goals[1][2], cx))

EachBelow(members, sup) == [i \in DOMAIN members |-> <<members[i], sup>>]
BelowEach(sub, members) == [i \in DOMAIN members |-> <<sub, members[i]>>]
Saying(answer, answers) == {i \in DOMAIN answers : answers[i] = answer}

(* A budget of its own within the query: what it spends is not charged,    *)
(* and the hypotheses of the path are not its own.                         *)
Within(steps, cx) == [NewQuery(cx) EXCEPT !.left = steps, !.number = cx.number]
Allowance(cx) == Least(cx.left, cx.allowance)

AskedWithin(sub, sup, steps, unnumbered) ==
  LET cx == Numbered(unnumbered)
  IN  Answered(cx, IsSubtypeRec(sub, sup, Within(steps, cx)))

(* A goal decided under the hypothesis of another.                         *)

\* Mutant of Assuming: the goal it unfolds to is held in its place.
AssumingWhatItUnfoldsTo(goal, below, cx) ==
  LET held == [goal |-> below, crossed |-> cx.crossed]
  IN  [IsSubtypeRec(below[1], below[2], [cx EXCEPT !.trail = Append(@, held)])
         EXCEPT !.cx.trail = Pop(@)]

Assuming(goal, below, cx) ==
  LET held == [goal |-> goal, crossed |-> cx.crossed]
  IN  [IsSubtypeRec(below[1], below[2], [cx EXCEPT !.trail = Append(@, held)])
         EXCEPT !.cx.trail = Pop(@)]

OnTheTrail(goal, cx) == {at \in DOMAIN cx.trail : cx.trail[at].goal = goal}

MetOnTheTrail(goal, cx) ==
  LET at == CHOOSE one \in OnTheTrail(goal, cx) : \A other \in OnTheTrail(goal, cx) : other <= one
  IN  [cx EXCEPT !.unguarded = @ \/ cx.trail[at].crossed = cx.crossed]

-----------------------------------------------------------------------------
(* What a query keeps.  The goals the root asked of one side's members are *)
(* kept for the readings past the rules, which take the record as they     *)
(* read it.                                                                *)

NoRecord == <<>>

AtTheRoot(cx) == cx.depth = 1

Recorded(subject, whole, placed, refuted, unnumbered) ==
  LET cx == Numbered(unnumbered)
  IN  [cx EXCEPT !.held = [number |-> cx.number, subject |-> subject, whole |-> whole,
                           placed |-> placed, refuted |-> refuted]]

Taken(cx) == [cx EXCEPT !.held = NoRecord]

IsRecordOf(subject, whole, cx) ==
  /\ cx.held # NoRecord
  /\ cx.held.number = cx.number
  /\ cx.held.subject = subject
  /\ cx.held.whole = whole

(* A term the set representation reads empty, read once a query.           *)
DenotesNoValue(s, unnumbered) ==
  LET cx == Numbered(unnumbered)
      key == <<cx.number, s>>
      none == Outside("sets", s) = "Empty"
  IN  IF key \in DOMAIN cx.readings THEN Says(Proven(cx.readings[key]), cx)
      ELSE Says(Proven(none), [cx EXCEPT !.readings = With(@, key, none)])

(* A meet narrowed by its members, asked once a query under what budget is *)
(* left; a meet met inside such a reading is narrowed without a table.     *)
AskedOfTheNarrowed(narrowed, sup, cx) ==
  IF narrowed = Unnarrowed THEN Unsaid(cx) ELSE IsSubtypeRec(narrowed, sup, cx)

NarrowingOpen(cx) == [cx EXCEPT !.narrowing = cx.number]

\* Mutant of KeptNarrowed: the reading opened is not closed.
KeptNarrowedOpen(key, narrowing, answer) ==
  [answer EXCEPT !.cx.asked = With(@, key, answer.v)]

KeptNarrowed(key, narrowing, answer) ==
  [answer EXCEPT !.cx.asked = With(@, key, answer.v), !.cx.narrowing = narrowing]

NarrowedKey(members, sup, cx) ==
  [number |-> cx.number, members |-> members, given |-> Allowance(cx), sup |-> sup]

NarrowedMeetBelow(members, sup, unnumbered) ==
  LET cx == Numbered(unnumbered)
      key == NarrowedKey(members, sup, cx)
      narrowed == NarrowedMeet(members)
  IN  IF cx.narrowing = cx.number THEN AskedOfTheNarrowed(narrowed, sup, cx)
      ELSE IF key \in DOMAIN cx.asked THEN Says(cx.asked[key], cx)
      ELSE KeptNarrowed(key, cx.narrowing,
             Answered(cx, AskedOfTheNarrowed(narrowed, sup,
                                             NarrowingOpen(Within(Allowance(cx), cx)))))

-----------------------------------------------------------------------------
(* Closed records, as a slot for each label: any other is absent.          *)

Slot(type, absent) == [type |-> type, absent |-> absent]

Labels(map) ==
  [name \in {f.name : f \in Items(Inner(map))} |->
     LET f == CHOOSE one \in Items(Inner(map)) : one.name = name
     IN  Slot(f.schema, ~f.required)]

SlotOf(labels, name) == IF name \in DOMAIN labels THEN labels[name] ELSE Slot(Nothing, TRUE)

\* Mutant of SlotWithout: what is left of a slot may not be absent.
SlotWithoutAbsence(mine, theirs) ==
  Slot(MeetWithin({mine.type, Complement(theirs.type)}, <<>>), FALSE)

SlotWithout(mine, theirs) ==
  Slot(MeetWithin({mine.type, Complement(theirs.type)}, <<>>), mine.absent /\ ~theirs.absent)

(* The record a meet of records is: a slot is absent where every record    *)
(* that names it leaves it out, and holds what all of them hold there.     *)
Maps(members) == SelectSeq(members, LAMBDA m : Is("Map", m))

RecordOfMaps(members) ==
  LET maps == {Labels(m) : m \in Items(Maps(members))}
  IN  [name \in UNION {DOMAIN labels : labels \in maps} |->
         Slot(MeetWithin({SlotOf(labels, name).type : labels \in maps}, <<>>),
              \A labels \in maps : SlotOf(labels, name).absent)]

(* A part of the supertype a term shares no value with, by its kinds alone *)
(* where a definition is being resolved.                                   *)
SharesNoValueWith(sub, part, cx) ==
  LET beside == VerdictBeside(sub, part, cx)
  IN  IF cx.visiting = <<>> THEN [holds |-> beside.v = "Empty", cx |-> beside.cx]
      ELSE [holds |-> DisjointWith(sub, part) \/ Possibly(sub) \intersect Possibly(part) = {},
            cx |-> cx]

SlotsApart(mine, theirs, cx) ==
  IF mine.absent /\ theirs.absent THEN [holds |-> FALSE, cx |-> cx]
  ELSE SharesNoValueWith(mine.type, theirs.type, cx)

RECURSIVE AnySlotApart(_, _, _, _)
OrTheNextSlot(names, mine, theirs, first) ==
  IF first.holds THEN first ELSE AnySlotApart(names, mine, theirs, first.cx)
AnySlotApart(names, mine, theirs, cx) ==
  LET name == CHOOSE one \in names : TRUE
  IN  IF names = {} THEN [holds |-> FALSE, cx |-> cx]
      ELSE OrTheNextSlot(names \ {name}, mine, theirs,
                         SlotsApart(SlotOf(mine, name), SlotOf(theirs, name), cx))

(* The slots a value must fill, until one is found with no value.          *)
RECURSIVE SlotsHold(_, _, _)
AndTheNextSlot(types, sofar, first) ==
  IF first.v = "Empty" THEN first ELSE SlotsHold(types, Every(sofar, first.v), first.cx)
SlotsHold(types, sofar, cx) ==
  IF types = <<>> THEN Answer(sofar, Opaque, cx)
  ELSE AndTheNextSlot(Tail(types), sofar, IsEmptyRec(Head(types), cx))

RECURSIVE Ordered(_)
Ordered(names) ==
  IF names = {} THEN <<>>
  ELSE LET name == CHOOSE one \in names : TRUE IN <<name>> \o Ordered(names \ {name})

RequiredTypes(labels) ==
  LET names == Ordered({name \in DOMAIN labels : ~labels[name].absent})
  IN  [i \in DOMAIN names |-> labels[names[i]].type]

(* A record below a union of records, label by label: what the first       *)
(* record it can meet leaves of a slot is for the others to cover.         *)
RECURSIVE Phi(_, _, _), EachLabelCovered(_, _, _, _)

DescendingTo(subject, branches, cx) ==
  IF cx.depth >= MaxDecisionDepth THEN Unsaid(BoundMet(cx))
  ELSE [Phi(subject, branches, [cx EXCEPT !.depth = @ + 1]) EXCEPT !.cx.depth = cx.depth]

SlotBelow(mine, theirs, cx) ==
  IF mine.absent /\ ~theirs.absent THEN Says("Fails", cx)
  ELSE IsSubtypeRec(mine.type, theirs.type, cx)

CoveredByTheRest(name, slot, subject, rest, cx) ==
  DescendingTo([label \in DOMAIN subject \union {name} |->
                IF label = name THEN slot ELSE subject[label]], rest, cx)

OrByTheRest(name, slot, subject, rest, held) ==
  IF held.v = "Empty" THEN Says("Holds", held.cx)
  ELSE CoveredByTheRest(name, slot, subject, rest, held.cx)

Covered(name, slot, subject, rest, cx) ==
  IF slot.absent THEN CoveredByTheRest(name, slot, subject, rest, cx)
  ELSE OrByTheRest(name, slot, subject, rest, IsEmptyRec(slot.type, cx))

AndTheNextLabel(names, subject, branches, here, covered) ==
  CASE covered.v = "Holds" -> EachLabelCovered(names, subject, branches, covered.cx)
    [] here = "Fails" /\ covered.v = "Fails" -> covered
    [] OTHER -> Unsaid(covered.cx)

LabelCovered(names, mine, theirs, subject, branches, here) ==
  IF here.v = "Holds" THEN EachLabelCovered(Tail(names), subject, branches, here.cx)
  ELSE AndTheNextLabel(Tail(names), subject, branches, here.v,
         Covered(Head(names), SlotWithout(mine, theirs), subject, Tail(branches), here.cx))

EachLabelCovered(names, subject, branches, cx) ==
  LET mine == SlotOf(subject, Head(names))
      theirs == SlotOf(branches[1], Head(names))
  IN  IF names = <<>> THEN Says("Holds", cx)
      ELSE LabelCovered(names, mine, theirs, subject, branches, SlotBelow(mine, theirs, cx))

(* The records a value of the subject can be of: those apart from it pass. *)
RECURSIVE PastThoseApart(_, _, _)
UnlessApart(subject, branches, apart) ==
  IF apart.holds THEN PastThoseApart(subject, Tail(branches), apart.cx)
  ELSE EachLabelCovered(Ordered(DOMAIN subject \union DOMAIN branches[1]),
                        subject, branches, apart.cx)
PastThoseApart(subject, branches, cx) ==
  IF branches = <<>> THEN OfMismatch(SlotsHold(RequiredTypes(subject), "Inhabited", cx))
  ELSE UnlessApart(subject, branches,
         AnySlotApart(DOMAIN subject \union DOMAIN branches[1], subject, branches[1], cx))

Crossed(cx) == [cx EXCEPT !.crossed = @ + 1]

Phi(subject, branches, cx) ==
  IF cx.left = 0 THEN Unsaid(BoundMet(cx))
  ELSE [PastThoseApart(subject, branches, Crossed([cx EXCEPT !.left = @ - 1]))
          EXCEPT !.cx.crossed = cx.crossed]

(* A member that is no record is set aside: the answer is then a proof     *)
(* alone, unless no value of the record is one of its.                     *)
SplitAcross(subject, map, members, cx) ==
  LET branches == Maps(members)
      answer == Phi(subject, [i \in DOMAIN branches |-> Labels(branches[i])], cx)
      aside == {m \in Items(members) : ~Is("Map", m)}
  IN  CASE branches = <<>> -> Unsaid(cx)
        [] \A m \in aside : DisjointWith(map, m) -> answer
        [] OTHER -> ProofOnly(answer)

SplitTheMaps(members, branches, cx) ==
  LET maps == Maps(members)
  IN  SplitAcross(IF Len(maps) = 1 THEN Labels(maps[1]) ELSE RecordOfMaps(members),
                  maps[1], branches, cx)

(* Records field by field: a label one requires and the other leaves out   *)
(* refutes; one it never names must have no value to be left out.          *)
Named(fields, name) == SelectSeq(fields, LAMBDA f : f.name = name)

RECURSIVE FieldsBelow(_, _, _, _, _), FieldsUnnamed(_, _, _)
FieldGoal(theirs, given) ==
  IF given = <<>> \/ (theirs.required /\ ~given[1].required) THEN <<>>
  ELSE <<given[1].schema, theirs.schema>>

(* A goal the field before asked is not asked again.                       *)
FieldBelow(theirs, goal, before, cx) ==
  CASE goal = <<>> -> Says(Decided(~theirs.required), cx)
    [] goal # <<>> /\ goal = before.goal -> Says(before.v, cx)
    [] OTHER -> IsSubtypeRec(goal[1], goal[2], cx)

AndTheNextField(theirs, mine, goal, before, answers, first) ==
  FieldsBelow(theirs, mine, IF goal = <<>> THEN before ELSE [goal |-> goal, v |-> first.v],
              Append(answers, first.v), first.cx)
FieldsBelow(theirs, mine, before, answers, cx) ==
  LET goal == FieldGoal(Head(theirs), Named(mine, Head(theirs).name))
  IN  IF theirs = <<>> \/ "Fails" \in Items(answers) THEN [answers |-> answers, cx |-> cx]
      ELSE AndTheNextField(Tail(theirs), mine, goal, before, answers,
                           FieldBelow(Head(theirs), goal, before, cx))

AndTheNextUnnamed(fields, answers, first) ==
  FieldsUnnamed(fields, Append(answers, OfDifference(first.v)), first.cx)
FieldsUnnamed(fields, answers, cx) ==
  IF fields = <<>> \/ "Fails" \in Items(answers) THEN Says(All(answers), cx)
  ELSE AndTheNextUnnamed(Tail(fields), answers, IsEmptyRec(Head(fields).schema, cx))

KeyedMapSubtype(mine, theirs, cx) ==
  LET named == FieldsBelow(theirs, mine, [goal |-> <<>>, v |-> "Holds"], <<>>, Crossed(cx))
      unnamed == SelectSeq(mine, LAMBDA f : Named(theirs, f.name) = <<>>)
  IN  [FieldsUnnamed(unnamed, named.answers, named.cx) EXCEPT !.cx.crossed = cx.crossed]
-----------------------------------------------------------------------------
(* The rules by shape.                                                     *)

(* What the bindings say of a class, for which they may run Python, and    *)
(* Python ask goals of its own.                                            *)
RelatedInside(goal, inside) ==
  [inside.cx EXCEPT !.told = @ \union {<<goal, inside.v>>}, !.inside = @ - 1]

AlsoAskedOfPython(class, cx) ==
  IF class \in DOMAIN RelatesInside /\ cx.inside < MaxInside
  THEN RelatedInside(RelatesInside[class],
         Decide("inclusion", Tail(RelatesInside[class]), Interrupted(cx)))
  ELSE cx

LeafSubtype(sub, sup, cx) ==
  IF ~Is("Instance", sub) THEN Unsaid(cx)
  ELSE Says(OfDifference(Outside("class", Meet(<<sub, sup>>))),
            AlsoAskedOfPython(Inner(sub), AskedOfPython(Inner(sub), cx)))

(* Past the structural rules: a kind, a region or a class of one side that *)
(* the other leaves out, what the bindings say, and the base of a          *)
(* refinement, which refutes and does not prove.                           *)
OrTheBase(sub, sup, leaf) ==
  IF leaf.v # "Unknown" \/ ~Is("Refine", sup) THEN leaf
  ELSE RefutationOnly(IsSubtypeRec(sub, Inner(sup), leaf.cx))

OrTheLength(sub, sup, read) ==
  IF read.v = "Unknown" /\ sub[1] \in {"Refine", "Str", "Map"} /\ RefusedByLength(sub, sup)
  THEN Says("Fails", read.cx) ELSE read

Unstructured(sub, sup, cx) ==
  IF \/ SpillsPast(sub, sup) \/ OutsideTheClass(sub, sup)
     \/ SpillsAKind(sub, sup) \/ DisjointWith(sub, sup)
  THEN Says("Fails", cx)
  ELSE OrTheLength(sub, sup, OrTheBase(sub, sup, LeafSubtype(sub, sup, cx)))

(* A reference stands for its definition, which is decided under the       *)
(* hypothesis of the goal it unfolds.                                      *)
BelowAReference(sub, sup, cx) ==
  IF Is("Ref", sup) /\ Inner(sup) \in DOMAIN Defs
  THEN Assuming(<<sub, sup>>, <<sub, Defs[Inner(sup)]>>, cx) ELSE Unsaid(cx)

LeftReducesBelow(sub, sup, cx) ==
  CASE Is("Ref", sub) /\ Inner(sub) \in DOMAIN Defs ->
         Assuming(<<sub, sup>>, <<Defs[Inner(sub)], sup>>, cx)
    [] Is("Refine", sub) -> ProofOnly(IsSubtypeRec(Inner(sub), sup, cx))
    [] OTHER -> Unsaid(cx)

RefinementSubtype(sub, sup, cx) ==
  LET bases == ProofOnly(IsSubtypeRec(Inner(sub), Inner(sup), cx))
  IN  IF sup[3] \subseteq sub[3] THEN bases ELSE Unsaid(bases.cx)

(* A union is below where each member is; the root records which were.     *)
OfEachMember(subject, whole, asked) ==
  LET answer == All(asked.answers)
      keeps == Len(Members(whole)) <= MembersHeld /\ ~asked.spent
  IN  Says(answer,
           IF answer = "Unknown" /\ AtTheRoot(asked.cx) /\ keeps
           THEN Recorded(subject, whole, Saying("Holds", asked.answers), {}, asked.cx)
           ELSE asked.cx)

UnionBelow(sub, sup, cx) ==
  OfEachMember(sup, sub,
               Asked(EachBelow(Members(sub), sup), {"Fails", "Spent"}, <<>>, cx))

BelowEachMember(sub, sup, cx) ==
  OfEachMember(sub, sup, Asked(BelowEach(sub, Members(sup)), {"Fails"}, <<>>, cx))

RECURSIVE FirstAnswer(_, _, _, _)

(* Below a union: a branch, or the branches together.  The root records    *)
(* the branches refuted.                                                   *)

\* Mutant of BranchesRefuted: a branch that declined is refuted too.
BranchesNotHeld(sub, sup, asked) ==
  LET refuted == DOMAIN asked.answers \ Saying("Holds", asked.answers)
  IN  IF AtTheRoot(asked.cx) /\ Len(Members(sup)) <= MembersHeld /\ refuted # {}
      THEN Recorded(sub, sup, {}, refuted, asked.cx) ELSE asked.cx

BranchesRefuted(sub, sup, asked) ==
  LET refuted == Saying("Fails", asked.answers)
  IN  IF AtTheRoot(asked.cx) /\ Len(Members(sup)) <= MembersHeld /\ refuted # {}
      THEN Recorded(sub, sup, {}, refuted, asked.cx) ELSE asked.cx

OfTheBranches(sub, sup, asked) ==
  IF "Holds" \in Items(asked.answers) THEN Says("Holds", asked.cx)
  ELSE FirstAnswer(<<"merged split", "map split">>
                     \o (IF "Fails" \in Items(asked.answers)
                         THEN <<"branches not apart", "branches met">> ELSE <<>>)
                     \o <<"reduced in a union", "unstructured">>,
                   sub, sup, BranchesRefuted(sub, sup, asked))

BelowAUnion(sub, sup, cx) ==
  IF sub \in Items(Members(sup)) THEN Says("Holds", cx)
  ELSE OfTheBranches(sub, sup, Asked(BelowEach(sub, Members(sup)), {"Holds"}, <<>>, cx))

BelowAMergedSplit(sub, sup, cx) ==
  LET meets == {at \in DOMAIN Members(sup) : Is("Meet", Members(sup)[at])}
  IN  IF ~Is("Union", sup) \/ Cardinality(meets) < 2 \/ Splits(Members(sup)) = {} THEN Unsaid(cx)
      ELSE IsSubtypeRec(sub, MergedSplit(Members(sup)), cx)

MapSplit(sub, sup, cx) ==
  IF ~Is("Map", sub) \/ Len(Maps(Members(sup))) < 2 THEN Unsaid(cx)
  ELSE SplitAcross(Labels(sub), sub, Members(sup), cx)

(* The branches the subject can meet, by their kinds or in full: looked    *)
(* for until one is apart, and then each is read.                          *)
ApartFrom(sub, branch, full, cx) ==
  IF full THEN SharesNoValueWith(sub, branch, cx)
  ELSE [holds |-> DisjointWith(sub, branch), cx |-> cx]

RECURSIVE AnyBranchApart(_, _, _, _), BranchesMet(_, _, _, _, _)
OrTheNextApart(sub, branches, full, first) ==
  IF first.holds THEN first ELSE AnyBranchApart(sub, branches, full, first.cx)
AnyBranchApart(sub, branches, full, cx) ==
  IF branches = <<>> THEN [holds |-> FALSE, cx |-> cx]
  ELSE OrTheNextApart(sub, Tail(branches), full, ApartFrom(sub, Head(branches), full, cx))

AndTheNextMet(sub, branches, full, met, first) ==
  BranchesMet(sub, Tail(branches), full,
              IF first.holds THEN met ELSE Append(met, Head(branches)), first.cx)
BranchesMet(sub, branches, full, met, cx) ==
  IF branches = <<>> THEN [met |-> met, cx |-> cx]
  ELSE AndTheNextMet(sub, branches, full, met, ApartFrom(sub, Head(branches), full, cx))

BelowThoseMet(sub, narrowed) ==
  CASE narrowed.met = <<>> -> Says("Fails", narrowed.cx)
    [] Len(narrowed.met) = 1 -> IsSubtypeRec(sub, narrowed.met[1], narrowed.cx)
    [] OTHER -> IsSubtypeRec(sub, Union(narrowed.met), narrowed.cx)

WhereOneIsApart(sub, branches, full, apart) ==
  IF apart.holds THEN BelowThoseMet(sub, BranchesMet(sub, branches, full, <<>>, apart.cx))
  ELSE Unsaid(apart.cx)

BelowTheBranchesItCanMeet(sub, sup, full, cx) ==
  WhereOneIsApart(sub, Members(sup), full, AnyBranchApart(sub, Members(sup), full, cx))

OrTheClass(sub, sup, reduced) ==
  IF reduced.v = "Holds" THEN reduced
  ELSE LET leaf == LeafSubtype(sub, sup, reduced.cx)
       IN  IF leaf.v = "Holds" THEN leaf
           ELSE Says(RefutationOnly(reduced).v, leaf.cx)

(* The member a meet is, where every other holds it: read with the leaves, *)
(* under no hypothesis.                                                    *)
ReadsMembers(cx) == cx.leaves /\ cx.trail = <<>> /\ cx.visiting = <<>> /\ ~AnyOpen(cx)

RECURSIVE MemberThatIsTheMeet(_, _, _)
OrTheNextMember(members, at, asked) ==
  IF All(asked.answers) = "Holds" THEN [at |-> at, cx |-> asked.cx]
  ELSE MemberThatIsTheMeet(members, at + 1, asked.cx)
MemberThatIsTheMeet(members, at, cx) ==
  IF at > Len(members) \/ ~ReadsMembers(cx) THEN [at |-> 0, cx |-> cx]
  ELSE OrTheNextMember(members, at,
         Asked(BelowEach(members[at], Without(members, at)), {"Fails", "Unknown"}, <<>>, cx))

(* Below, by the member it is, or that one of its members or one branch of *)
(* the supertype places it.                                                *)
ByItsMember(members, sup, found) ==
  IF found.at = 0 THEN Unsaid(found.cx) ELSE IsSubtypeRec(members[found.at], sup, found.cx)

OrABranch(sub, sup, asked) ==
  IF "Holds" \in Items(asked.answers) THEN Says("Holds", asked.cx)
  ELSE IF ~Is("Union", sup) THEN Unsaid(asked.cx)
  ELSE LET branches == Asked(BelowEach(sub, Members(sup)), {"Holds"}, <<>>, asked.cx)
       IN  Says(Proven("Holds" \in Items(branches.answers)), branches.cx)

APartIsPlaced(sub, sup, cx) ==
  OrABranch(sub, sup, Asked(EachBelow(Members(sub), sup), {"Holds"}, <<>>, cx))

NoKindIsLeft(sub, sup) ==
  /\ Is("Ref", sup) \/ \E m \in Items(Members(sub)) : Is("Not", m)
  /\ Possibly(sub) = {}

KeyedMeetBelow(sub, sup, cx) ==
  LET maps == Maps(Members(sub))
      answer == SplitTheMaps(Members(sub), Branches(sup), cx)
  IN  IF \/ sup[1] \notin {"Map", "Union"} \/ Len(maps) < 2
         \/ \A b \in Items(Branches(sup)) : ~Is("Map", b)
      THEN Unsaid(cx)
      ELSE IF Len(maps) < Len(Members(sub)) THEN ProofOnly(answer) ELSE answer

Beside(sub, sup, cx) ==
  IF Is("Not", sup) THEN OfMismatch(VerdictBeside(sub, Inner(sup), cx)) ELSE Unsaid(cx)

(* A term below a complement, past what the two sides share.               *)
OtherThanRemoved(sub, sup, below) ==
  IF below.v = "Holds" THEN OfMismatch(IsEmptyRec(sub, below.cx))
  ELSE IF SpillsAKind(sub, sup) THEN Says("Fails", below.cx)
  ELSE LET leaf == LeafSubtype(sub, sup, below.cx)
       IN  IF leaf.v # "Unknown" THEN leaf ELSE DenotesNoValue(Inner(sup), leaf.cx)

BelowAComplement(sub, sup, cx) == OtherThanRemoved(sub, sup, IsSubtypeRec(sub, Inner(sup), cx))

(* The readings of the first shape the two sides have.                     *)
ShapeReadings(sub, sup) ==
  CASE Is("Union", sub) -> <<"each member below">>
    [] Is("Meet", sup) -> <<"below each member">>
    [] Is("Meet", sub) ->
         <<"placed", "a part placed", "merged split", "its member", "records met", "beside",
           "unstructured", "definition", "narrowed">>
    [] Is("Union", sup) -> <<"branches">>
    [] Is("Ref", sub) /\ Inner(sub) \in DOMAIN Defs -> <<"reduced">>
    [] Is("Ref", sub) \/ Is("Ref", sup) -> <<"definition">>
    [] Is("Map", sub) /\ Is("Map", sup) -> <<"fields">>
    [] Is("Not", sub) /\ Is("Not", sup) -> <<"turned", "nothing removed">>
    [] Is("Not", sup) -> <<"beside", "removed">>
    [] Is("Refine", sub) /\ Is("Refine", sup) -> <<"refinements", "unstructured">>
    [] Is("Refine", sub) -> <<"reduced", "unstructured">>
    [] OTHER -> <<"unstructured">>

ShapeReading(reading, sub, sup, cx) ==
  CASE reading = "each member below" -> UnionBelow(sub, sup, cx)
    [] reading = "below each member" -> BelowEachMember(sub, sup, cx)
    [] reading = "placed" ->
         Says(Proven(PlacedByMembership(sub, sup) \/ NoKindIsLeft(sub, sup)), cx)
    [] reading = "a part placed" -> APartIsPlaced(sub, sup, cx)
    [] reading = "merged split" -> BelowAMergedSplit(sub, sup, cx)
    [] reading = "its member" ->
         ByItsMember(Members(sub), sup, MemberThatIsTheMeet(Members(sub), 1, cx))
    [] reading = "records met" -> KeyedMeetBelow(sub, sup, cx)
    [] reading = "beside" -> Beside(sub, sup, cx)
    [] reading = "narrowed" -> NarrowedMeetBelow(Members(sub), sup, cx)
    [] reading = "branches" -> BelowAUnion(sub, sup, cx)
    [] reading = "map split" -> MapSplit(sub, sup, cx)
    [] reading = "branches not apart" -> BelowTheBranchesItCanMeet(sub, sup, FALSE, cx)
    [] reading = "branches met" -> BelowTheBranchesItCanMeet(sub, sup, TRUE, cx)
    [] reading = "reduced in a union" -> OrTheClass(sub, sup, LeftReducesBelow(sub, sup, cx))
    [] reading = "reduced" -> LeftReducesBelow(sub, sup, cx)
    [] reading = "definition" -> BelowAReference(sub, sup, cx)
    [] reading = "fields" -> KeyedMapSubtype(Inner(sub), Inner(sup), cx)
    [] reading = "turned" -> IsSubtypeRec(Inner(sup), Inner(sub), cx)
    [] reading = "nothing removed" -> DenotesNoValue(Inner(sup), cx)
    [] reading = "removed" -> BelowAComplement(sub, sup, cx)
    [] reading = "refinements" -> RefinementSubtype(sub, sup, cx)
    [] reading = "unstructured" -> Unstructured(sub, sup, cx)

(* The bounds of the lattice, where the rules decline.                     *)
UnionComplementIsEmpty(sup, cx) ==
  LET flat == Flattened(Items(Members(sup)), "Union", Nothing)
      meet == MeetWithin({Complement(m) : m \in flat}, Defs)
      held == IsEmptyRec(meet, cx)
  IN  IF ~Is("Union", sup) \/ \A m \in Items(Members(sup)) : RegionSet(m) # Opaque
      THEN Unsaid(cx)
      ELSE IF held.v = "Empty" THEN Says("Holds", held.cx) ELSE DenotesNoValue(meet, held.cx)

BoundedBy(sup, held) ==
  IF held.v = "Empty" \/ CoversTheUniverse(sup) THEN Says("Holds", held.cx)
  ELSE UnionComplementIsEmpty(sup, held.cx)

OrBounded(sub, sup, answer) ==
  IF answer.v # "Unknown" THEN answer ELSE BoundedBy(sup, IsEmptyRec(sub, answer.cx))

SubtypeDecide(sub, sup, cx) ==
  IF RegionSet(sup) = Regions \/ PushedComplementIsPlaced(sub, sup) THEN Says("Holds", cx)
  ELSE OrBounded(sub, sup, FirstAnswer(ShapeReadings(sub, sup), sub, sup, cx))

(* A step spent, the regions compared, and a goal on the trail assumed.    *)
SubtypeByRules(sub, sup, unspent) ==
  LET cx == [unspent EXCEPT !.left = @ - 1]
      mine == RegionSet(sub)
      theirs == RegionSet(sup)
  IN  CASE sub = sup -> Says("Holds", unspent)
        [] sub # sup /\ unspent.left = 0 ->
             Says(Proven(PlacedByMembership(sub, sup)), BoundMet(unspent))
        [] sub # sup /\ unspent.left > 0 ->
             IF Opaque \notin {mine, theirs} THEN Says(Decided(mine \subseteq theirs), cx)
             ELSE IF OnTheTrail(<<sub, sup>>, cx) # {}
             THEN Says("Holds", MetOnTheTrail(<<sub, sup>>, cx))
             ELSE IF cx.depth >= MaxDecisionDepth THEN Unsaid(BoundMet(cx))
             ELSE [SubtypeDecide(sub, sup, [cx EXCEPT !.depth = @ + 1]) EXCEPT !.cx.depth = cx.depth]

(* A refutation stands where the subject has a value.                      *)
OfItsMember(members, found) ==
  IF found.at = 0 THEN Unsaid(found.cx) ELSE OfMismatch(IsEmptyRec(members[found.at], found.cx))

WitnessedBy(sub, held) ==
  IF held.v = "Unknown" /\ held.cx.leaves /\ Is("Meet", sub)
  THEN OfItsMember(Members(sub), MemberThatIsTheMeet(Members(sub), 1, held.cx))
  ELSE OfMismatch(held)

HoldsAKindWhole(s) == Is("Not", s) /\ MissesAKind(Inner(s))

Witnessed(sub, answer) ==
  IF answer.v = "Holds" \/ HoldsAValueShallowly(sub) \/ Is("Union", sub) \/ HoldsAKindWhole(sub)
  THEN answer ELSE WitnessedBy(sub, IsEmptyRec(sub, answer.cx))

(* A goal the rules declined, read by the sets where leaves are.           *)
AGoalDeclined(sub, sup, cx) ==
  IF ~cx.leaves \/ <<sub, sup>> = cx.whole \/ HasReference(sub) \/ HasReference(sup)
  THEN Unsaid(cx)
  ELSE IF cx.left < LeafReading THEN Unsaid(BoundMet(cx))
  ELSE Says(SetsBelow(sub, sup), [cx EXCEPT !.left = @ - LeafReading])

OrDeclined(sub, sup, answer) ==
  IF answer.v = "Unknown" THEN AGoalDeclined(sub, sup, answer.cx) ELSE Witnessed(sub, answer)

Goal(sub, sup, cx) == OrDeclined(sub, sup, SubtypeByRules(sub, sup, cx))
-----------------------------------------------------------------------------
(* The readings past the rules.  A side read empty settles the pair.       *)
NoValue(s, cx) ==
  IF s[1] \in {"Ref", "Map"} /\ ~HoldsAValueShallowly(s) /\ HasReference(s)
  THEN IsEmptyWith(s, cx) ELSE Declined(cx)

OrTheSetsBelow(goal, answer) ==
  IF answer.v = "Unknown" THEN Says(SetsBelow(goal[1], goal[2]), answer.cx) ELSE answer

AComplementOfNoValue(sup, held) ==
  IF held.v = "Empty" THEN IsSubtypeRec(Anything, sup, held.cx) ELSE Unsaid(held.cx)

OfTheEmptySide(sub, sup, held) ==
  IF held.v = "Empty" THEN OrTheSetsBelow(<<sub, Nothing>>, IsSubtypeRec(sub, Nothing, held.cx))
  ELSE IF Is("Not", sub) THEN AComplementOfNoValue(sup, NoValue(Inner(sub), held.cx))
  ELSE Unsaid(held.cx)

ASideWithNoValue(sub, sup, cx) == OfTheEmptySide(sub, sup, NoValue(sup, cx))

(* The readings in their order: of a pair, of a pair a part of it stands   *)
(* for, and of a pair asked again.                                         *)
WholeReadings == <<"rules", "empty side", "sets", "parts", "respelled", "leaves", "emptiness">>
PartReadings == <<"rules", "empty side", "sets", "parts narrowly", "emptiness">>
AgainReadings == <<"rules", "empty side", "parts", "respelled", "leaves", "emptiness">>

(* A member of a union subject, or of a meet supertype, at a time: what    *)
(* the root's record says of it, or the rules; then the sets, and for a    *)
(* member of the subject its own parts.  The record is taken as it is read.*)
HeldBelow(subject, whole, cx) == IF IsRecordOf(subject, whole, cx) THEN {cx.held.placed} ELSE {}

AskedOrHeld(goal, at, held, cx) ==
  IF held = {} THEN IsSubtypeRec(goal[1], goal[2], cx) ELSE Says(Proven(at \in UNION held), cx)

OrItsParts(goal, answer) ==
  IF answer.v = "Unknown" THEN FirstAnswer(<<"parts narrowly">>, goal[1], goal[2], answer.cx) ELSE answer

OrTheSetsOfAMember(goal, answer) ==
  CASE answer.v # "Unknown" -> answer
    [] answer.v = "Unknown" /\ Outside("lowers", goal[2]) = "Empty" -> OrTheSetsBelow(goal, answer)
    [] OTHER -> DenotesNoValue(goal[1], answer.cx)

OfAPart(goal, ofUnion, answer) ==
  IF ofUnion THEN OrItsParts(goal, OrTheSetsOfAMember(goal, answer)) ELSE OrTheSetsBelow(goal, answer)

RECURSIVE EachPart(_, _, _, _, _)
AndTheNextPart(goals, ofUnion, held, answers, first) ==
  EachPart(goals, ofUnion, held, Append(answers, first.v), first.cx)
EachPart(goals, ofUnion, held, answers, cx) ==
  LET at == Len(answers) + 1
  IN  IF at > Len(goals) \/ "Fails" \in Items(answers) THEN Says(All(answers), cx)
      ELSE AndTheNextPart(goals, ofUnion, held, answers,
             OfAPart(goals[at], ofUnion, AskedOrHeld(goals[at], at, held, cx)))

(* A union supertype: the branches the subject can meet, or where it can   *)
(* meet them all a branch alone, of those the rules did not refute.        *)
RefutedAtTheRoot(sub, sup, cx) == IF IsRecordOf(sub, sup, cx) THEN cx.held.refuted ELSE {}

RECURSIVE SomeBranchPlaces(_, _, _, _, _)
UnlessRefuted(sub, members, at, refuted, asked) ==
  IF asked.v # "Fails" /\ SetsBelow(sub, members[at]) = "Holds" THEN Says("Holds", asked.cx)
  ELSE SomeBranchPlaces(sub, members, at + 1, refuted, asked.cx)
SomeBranchPlaces(sub, members, at, refuted, cx) ==
  IF at > Len(members) THEN Unsaid(cx)
  ELSE IF at \in refuted THEN SomeBranchPlaces(sub, members, at + 1, refuted, cx)
  ELSE UnlessRefuted(sub, members, at, refuted,
         IF Len(members) <= MembersHeld THEN Unsaid(cx) ELSE IsSubtypeRec(sub, members[at], cx))

OfTheBranchesMet(sub, sup, byBranch, narrowed) ==
  LET members == Members(sup)
      refuted == RefutedAtTheRoot(sub, sup, narrowed.cx)
  IN  CASE Len(narrowed.met) < Len(members) ->
             FirstAnswer(IF byBranch THEN WholeReadings ELSE PartReadings, sub,
                         UnionWithin(Items(narrowed.met), <<>>), narrowed.cx)
        [] Len(narrowed.met) = Len(members) /\ byBranch ->
             SomeBranchPlaces(sub, members, 1, refuted, Taken(narrowed.cx))
        [] OTHER -> Unsaid(Taken(narrowed.cx))

SharedFieldRefuted(mine, theirs) ==
  \E f \in Items(mine), g \in Items(theirs) :
    f.name = g.name /\ SetsBelow(f.schema, g.schema) = "Fails"

Parted(sub, sup, byBranch, cx) ==
  CASE Is("Union", sub) ->
         EachPart(EachBelow(Members(sub), sup), TRUE, HeldBelow(sup, sub, cx), <<>>, Taken(cx))
    [] Is("Map", sub) /\ Is("Map", sup) ->
         IF SharedFieldRefuted(Inner(sub), Inner(sup)) THEN OfMismatch(IsEmptyRec(sub, cx))
         ELSE Unsaid(cx)
    [] ~Is("Union", sub) /\ Is("Meet", sup) ->
         IF \A m \in Items(Members(sup)) : DenotesASet(m, Vouched, Defs) THEN Unsaid(cx)
         ELSE EachPart(BelowEach(sub, Members(sup)), FALSE, HeldBelow(sub, sup, cx), <<>>, Taken(cx))
    [] ~Is("Union", sub) /\ Is("Union", sup) ->
         OfTheBranchesMet(sub, sup, byBranch, BranchesMet(sub, Members(sup), TRUE, <<>>, cx))
    [] OTHER -> Unsaid(cx)

ByParts(sub, sup, byBranch, cx) ==
  IF cx.left = 0 THEN Unsaid(BoundMet(cx)) ELSE Parted(sub, sup, byBranch, cx)

(* The rules once more with the leaves read by the sets.                   *)
ByItsLeaves(sub, sup, whole, unnumbered) ==
  LET cx == Numbered(unnumbered)
      reading == [Within(Allowance(cx), cx) EXCEPT !.leaves = TRUE, !.whole = whole]
  IN  IF HoldsParts(sub) \/ HoldsParts(sup) THEN Answered(cx, IsSubtypeRec(sub, sup, reading))
      ELSE Unsaid(unnumbered)

(* A meet of a term and one complement is the term below what it removes,  *)
(* and a complement that holds nothing is of every value.                  *)
OrByItsLeaves(rest, inner, answer) ==
  IF answer.v = "Unknown" THEN ByItsLeaves(rest, inner, <<>>, answer.cx) ELSE answer

BelowTheSetItComplements(s, cx) ==
  LET removed == {m \in Items(Members(s)) : Is("Not", m)}
      inner == Inner(CHOOSE m \in removed : TRUE)
      rest == MeetWithin(Items(Members(s)) \ removed, Defs)
  IN  IF ~Is("Meet", s) \/ Cardinality(removed) # 1 THEN Unsaid(cx)
      ELSE IF ~DenotesASet(inner, Vouched, Defs) THEN Unsaid(cx)
      ELSE OrByItsLeaves(rest, inner, AskedWithin(rest, inner, cx.left, cx))

ComplementOfTheUniverse(s, cx) ==
  IF Is("Not", s) THEN AskedWithin(Anything, Inner(s), Allowance(cx), cx) ELSE Unsaid(cx)

AsARelation(s, cx) ==
  IF Is("Meet", s) THEN BelowTheSetItComplements(s, cx) ELSE ComplementOfTheUniverse(s, cx)

(* The spellings the algebra gives a pair.                                 *)
SetComplements(members) ==
  {m \in Items(members) : Is("Not", m) /\ DenotesASet(Inner(m), Vouched, Defs)}

Negates(sup) == Is("Not", sup) \/ (Is("Union", sup) /\ \E m \in Items(Members(sup)) : Is("Not", m))

OrTheDifference(sub, sup, answer) ==
  LET held == EmptinessUnder(MeetWithin({sub, Complement(sup)}, Defs), answer.cx)
  IN  IF answer.v = "Unknown" THEN Says(Proven(held.v = "Empty"), held.cx) ELSE answer

PastTheComplements(sub, sup, cx) ==
  LET removed == SetComplements(Members(sup))
      meet == MeetWithin({sub} \union {Inner(m) : m \in removed}, Defs)
      rest == UnionWithin(Items(Members(sup)) \ removed, Defs)
  IN  IF removed = {} THEN Unsaid(cx)
      ELSE OrTheDifference(sub, sup, IsSubtypeRec(meet, rest, cx))

ApartAndHeld(sub, met) ==
  IF met.v # "Empty" THEN Unsaid(met.cx)
  ELSE LET held == IsEmptyRec(sub, met.cx)
       IN  Says(IF held.v = "Inhabited" THEN "Fails" ELSE "Unknown", held.cx)

OrTurnedRound(sub, inner, answer) ==
  IF answer.v = "Unknown" THEN IsSubtypeRec(inner, Complement(sub), answer.cx) ELSE answer
OrReadEmpty(meet, answer) ==
  LET held == EmptinessUnder(meet, answer.cx)
  IN  IF answer.v = "Unknown" THEN Says(Proven(held.v = "Empty"), held.cx) ELSE answer
OrBelowItsComplement(meet, answer) ==
  IF answer.v = "Unknown" THEN BelowTheSetItComplements(meet, answer.cx) ELSE answer

AgainstAComplement(sub, inner, cx) ==
  LET meet == MeetWithin({sub, inner}, Defs)
  IN  OrBelowItsComplement(meet, OrReadEmpty(meet, OrTurnedRound(sub, inner,
        IsSubtypeRec(meet, Nothing, cx))))

RespelledWithin(sub, sup, cx) ==
  CASE Is("Union", sup) -> PastTheComplements(sub, sup, cx)
    [] Is("Not", sup) -> AgainstAComplement(sub, Inner(sup), cx)
    [] OTHER -> ApartAndHeld(sub, IsEmptyRec(MeetWithin({sub, sup}, Defs), cx))

SharingTheAllowance(sub, sup, unnumbered) ==
  LET cx == Numbered(unnumbered)
  IN  IF (Is("Meet", sub) /\ Is("Meet", sup)) \/ Negates(sup)
      THEN Answered(cx, RespelledWithin(sub, sup, Within(Allowance(cx), cx))) ELSE Unsaid(unnumbered)

OrWithinTheAllowance(sub, sup, related) ==
  CASE sup = Nothing -> related
    [] sup # Nothing /\ related.v = "Holds" -> related
    [] OTHER -> SharingTheAllowance(sub, sup, related.cx)

OrAsARelation(sub, sup, answer) ==
  IF answer.v # "Unknown" THEN answer
  ELSE OrWithinTheAllowance(sub, sup, AsARelation(sub, answer.cx))

PushedBelow(sub, sup, cx) ==
  IF Is("Not", sub) /\ Is("Union", Inner(sub))
  THEN AskedWithin(PushedComplement(Inner(sub)), sup, Allowance(cx), cx) ELSE Unsaid(cx)

Respelled(sub, sup, cx) ==
  IF SpillsAKindInto(sub, sup) THEN Says("Fails", cx)
  ELSE OrAsARelation(sub, sup, PushedBelow(sub, sup, cx))

(* The bounds once more, on steps of their own, where none are left.       *)
OrTheMeetIsEmpty(sub, sup, held) ==
  IF held.v = "Empty" \/ ~Is("Not", sup) THEN Says(Proven(held.v = "Empty"), held.cx)
  ELSE LET meet == IsEmptyWith(MeetWithin({sub, Inner(sup)}, Defs), held.cx)
       IN  Says(Proven(meet.v = "Empty"), meet.cx)

BelowByEmptiness(sub, sup, cx) ==
  IF cx.left > 0 THEN Unsaid(cx) ELSE OrTheMeetIsEmpty(sub, sup, IsEmptyWith(sub, cx))

PairReading(reading, sub, sup, cx) ==
  CASE reading = "rules" -> IsSubtypeRec(sub, sup, cx)
    [] reading = "empty side" -> ASideWithNoValue(sub, sup, cx)
    [] reading = "sets" -> Says(SetsBelow(sub, sup), cx)
    [] reading = "parts" -> ByParts(sub, sup, TRUE, cx)
    [] reading = "parts narrowly" -> ByParts(sub, sup, FALSE, cx)
    [] reading = "respelled" -> Respelled(sub, sup, cx)
    [] reading = "leaves" -> ByItsLeaves(sub, sup, <<sub, sup>>, cx)
    [] reading = "emptiness" -> BelowByEmptiness(sub, sup, cx)
    [] OTHER -> ShapeReading(reading, sub, sup, cx)

OrTheNextAnswer(readings, sub, sup, first) ==
  IF first.v = "Unknown" THEN FirstAnswer(readings, sub, sup, first.cx) ELSE first
FirstAnswer(readings, sub, sup, cx) ==
  IF readings = <<>> THEN Unsaid(cx)
  ELSE OrTheNextAnswer(Tail(readings), sub, sup, PairReading(Head(readings), sub, sup, cx))

-----------------------------------------------------------------------------
(* The questions a caller asks: of inclusion, and of both inclusions under *)
(* one budget.                                                             *)

OrSubtypeAgain(sub, sup, cx, first) ==
  IF first.v = "Unknown" /\ AsksAgain(cx.met, first.cx)
  THEN SecondAskingClosed(FirstAnswer(AgainReadings, sub, sup,
         [NewQuery(BackIn(cx, first.cx)) EXCEPT !.allowance = RespellingAgain]))
  ELSE first

IsSubtypeUnder(sub, sup, cx) ==
  Answered(cx, OrSubtypeAgain(sub, sup, cx, FirstAnswer(WholeReadings, sub, sup, NewQuery(cx))))

AndTheOtherWay(sub, sup, answer) ==
  IF answer.v = "Holds" THEN FirstAnswer(WholeReadings, sup, sub, answer.cx) ELSE answer

BothWays(sub, sup, cx) == AndTheOtherWay(sub, sup, FirstAnswer(WholeReadings, sub, sup, cx))

OrBothWaysAgain(sub, sup, cx, first) ==
  IF first.v = "Unknown" /\ AsksAgain(cx.met, first.cx)
  THEN SecondAskingClosed(BothWays(sub, sup,
         [NewQuery(BackIn(cx, first.cx)) EXCEPT !.allowance = RespellingAgain]))
  ELSE first

IsEquivalentUnder(sub, sup, cx) ==
  Answered(cx, OrBothWaysAgain(sub, sup, cx, BothWays(sub, sup, NewQuery(cx))))

(* What emptiness reads of the relation.                                   *)
OfRelation(answer) ==
  CASE answer = "Holds" -> "Empty" [] answer = "Fails" -> "Inhabited" [] OTHER -> "Unknown"

RemovedBranches(members) ==
  LET removed == SelectSeq(members, LAMBDA m : Is("Not", m))
  IN  Sequence!FlattenSeq([i \in DOMAIN removed |-> Branches(Inner(removed[i]))])

OfTheRecords(s, cx) ==
  LET records == SplitTheMaps(Members(s), RemovedBranches(Members(s)), cx)
  IN  Answer(OfRelation(records.v), Opaque, records.cx)

OfTheMeetBelow(s, cx) ==
  LET related == AsARelation(s, cx)
  IN  Answer(IF related.v = "Holds" THEN "Empty" ELSE "Unknown", Opaque, related.cx)

(* What Decide answers.                                                    *)
Decision(asks, of, cx) ==
  CASE asks = "goal" -> Goal(of[1], of[2], cx)
    [] asks = "emptiness" -> EmptyAndRegion(of, cx)
    [] asks = "inclusion" -> IsSubtypeUnder(of[1], of[2], cx)
    [] asks = "equivalence" -> IsEquivalentUnder(of[1], of[2], cx)
    [] asks = "no value" -> IsEmptyWith(of, cx)
    [] asks = "records" -> OfTheRecords(of, cx)
    [] asks = "relation" -> OfTheMeetBelow(of, cx)
=============================================================================
