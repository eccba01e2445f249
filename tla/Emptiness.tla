----------------------------- MODULE Emptiness -----------------------------
(***************************************************************************)
(* Whether a schema holds a value: the recursion of decision/emptiness.rs, *)
(* the budget and the context of decision.rs, the key-by-key meet of       *)
(* closed records of decision/records.rs, and what a thread keeps from one *)
(* question to the next.                                                   *)
(*                                                                         *)
(* A recursive schema is decided under hypotheses: a reference met again   *)
(* while it is resolved, and a meet met again while it is distributed, are *)
(* read as empty.  A verdict that rests on a hypothesis must not outlive   *)
(* it, yet verdicts are kept, so the state below is what a hypothesis and  *)
(* a kept verdict are made of.  One record carries it through a reading:   *)
(*   left, depth   the steps and levels of the budget (`Budget`)           *)
(*   owner         which live budget it is; a question asked inside        *)
(*                 another has a budget of its own                         *)
(*   visiting, number   the context: definitions being resolved, the       *)
(*                 query's number, zero until it reads one                 *)
(*   met           how often a reading stopped at a bound (BOUNDS_MET)     *)
(*   open, again   the meets held open, and the least place at which one   *)
(*                 was met again (OPEN_MEETS, MET_AGAIN)                   *)
(*   verdicts, spared   the verdicts kept and the steps they spare         *)
(*   numbers, allowance   QUERIES, RESPELLING_NOW                          *)
(*   trail, leaves, whole   the context where a goal of the relation is    *)
(*                 asked: the goals assumed, whether leaves are read by    *)
(*                 the sets, and the goal so read whole (Goals)            *)
(*   readings, held, narrowing, asked   READINGS, HELD, NARROWING and      *)
(*                 ASKED_NARROWED, which the relation's rules keep         *)
(* and four that only record: `crossed`, the constructors on the path,     *)
(* `unguarded`, that a hypothesis was met again with none between, `told`, *)
(* what Python was answered where it asked inside a question, and          *)
(* `inside`, the questions so interrupted.                                 *)
(*                                                                         *)
(* What this procedure asks of the relation is answered by a parameter,    *)
(* Decide, which an instance takes from Goals or declines; what the set    *)
(* representation and the bindings would answer of a term is another,      *)
(* Outside.                                                                *)
(***************************************************************************)
EXTENDS Schemas

CONSTANTS DecisionBudget, MaxDecisionDepth,
          Respelling, RespellingAgain,
          ReadingsHeld, MaxDistributedTerms,
          Outside(_, _),  \* the verdict of a reading that is not modelled here
          Decide(_, _, _),  \* what this procedure and the relation's answer each other
          AsksInside,     \* what deciding a class makes Python ask: classes to terms
          MaxInside       \* a bound on the questions inside one another

ASSUME BoundsAreNaturals ==
  /\ {DecisionBudget, MaxDecisionDepth, Respelling, RespellingAgain,
      ReadingsHeld, MaxDistributedTerms, MaxInside} \subseteq Nat \ {0}
  /\ Respelling < RespellingAgain

Verdicts == {"Empty", "Inhabited", "Unknown"}
Nowhere == 1000000  \* MET_AGAIN's usize::MAX: past every place

LOCAL Items(s) == {s[i] : i \in DOMAIN s}
LOCAL Least(a, b) == IF a < b THEN a ELSE b
LOCAL Monus(a, b) == IF a < b THEN 0 ELSE a - b
LOCAL Pop(s) == SubSeq(s, 1, Len(s) - 1)

Fresh == [left |-> DecisionBudget, depth |-> 0, owner |-> 0, visiting |-> <<>>, number |-> 0,
          met |-> 0, open |-> <<>>, again |-> Nowhere, verdicts |-> <<>>, spared |-> 0,
          numbers |-> 0, allowance |-> Respelling, trail |-> <<>>, leaves |-> FALSE,
          whole |-> <<>>, readings |-> <<>>, held |-> <<>>, narrowing |-> 0, asked |-> <<>>,
          crossed |-> 0, unguarded |-> FALSE, told |-> {}, inside |-> 0]

(* A context and a budget for a new question on the same thread.           *)
NewQuery(cx) ==
  [cx EXCEPT !.left = DecisionBudget, !.depth = 0, !.owner = @ + 1,
             !.visiting = <<>>, !.number = 0, !.trail = <<>>, !.leaves = FALSE, !.whole = <<>>]

(* Back in the question that was interrupted: its own, and what the thread *)
(* keeps as it now is.                                                     *)
BackIn(cx, inner) ==
  [inner EXCEPT !.left = cx.left, !.depth = cx.depth, !.owner = cx.owner,
                !.visiting = cx.visiting, !.number = cx.number, !.trail = cx.trail,
                !.leaves = cx.leaves, !.whole = cx.whole]

Answer(v, r, cx) == [v |-> v, r |-> r, cx |-> cx]
Declined(cx) == Answer("Unknown", Opaque, cx)

\* Mutant of BoundMet: a reading stopped at a bound is not counted.
BoundMissed(cx) == cx

BoundMet(cx) == [cx EXCEPT !.met = @ + 1]

(* The query's number, given when it is first read.                        *)
Numbered(cx) ==
  IF cx.number # 0 THEN cx
  ELSE [cx EXCEPT !.numbers = @ + 1, !.number = cx.numbers + 1]

(* A product's verdict from its parts', and a union's.                     *)
Every(a, b) ==
  IF "Empty" \in {a, b} THEN "Empty"
  ELSE IF "Unknown" \in {a, b} THEN "Unknown" ELSE "Inhabited"
Some(a, b) ==
  IF "Inhabited" \in {a, b} THEN "Inhabited"
  ELSE IF "Unknown" \in {a, b} THEN "Unknown" ELSE "Empty"

-----------------------------------------------------------------------------
(* The readings of a meet that spend no step.                              *)

(* A branch shares nothing with the members beside the one it came from.   *)
SharesNothingBeside(branch, members, at) ==
  LET beside == Items(Without(members, at))
      set(s) == DenotesASet(s, Vouched, Defs)
      held(inner) ==
        CASE Is("Meet", inner) -> Items(Members(inner)) \subseteq beside
          [] Is("Union", inner) -> beside \intersect ({inner} \union Items(Members(inner))) # {}
          [] OTHER -> inner \in beside
  IN  \/ Is("Not", branch) /\ held(Inner(branch)) /\ set(Inner(branch))
      \/ \E m \in beside :
           /\ Is("Not", m)
           /\ \/ Inner(m) = branch
              \/ Is("Union", Inner(m)) /\ branch \in Items(Members(Inner(m)))
           /\ set(m)

Unnarrowed == <<"unnarrowed">>

(* Read beside each other once more, where the narrowing left such a pair. *)
NothingWhereAPairIsLeft(narrowed) ==
  LET parts == Members(narrowed)
  IN  IF Is("Meet", narrowed) /\ \E at \in DOMAIN parts :
           SharesNothingBeside(parts[at], parts, at)
      THEN Nothing ELSE narrowed

NarrowedMeet(members) ==
  LET drops(at) ==
        IF Is("Union", members[at])
        THEN {b \in Items(Members(members[at])) : SharesNothingBeside(b, members, at)} ELSE {}
      kept(at) ==
        IF Is("Union", members[at])
        THEN UnionWithin(Items(Members(members[at])) \ drops(at), Defs) ELSE members[at]
  IN  IF \A at \in DOMAIN members : drops(at) = {} THEN Unnarrowed
      ELSE NothingWhereAPairIsLeft(MeetWithin({kept(at) : at \in DOMAIN members}, Defs))

(* The clauses a meet's normal form spans are few, none of them a meet or  *)
(* a union itself.                                                         *)
RECURSIVE Clauses(_)
Clauses(members) ==
  IF members = <<>> THEN 1
  ELSE Clauses(Tail(members)) *
       (IF Is("Union", Head(members)) THEN Len(Members(Head(members))) ELSE 1)

NormalFormWithin(members, bound) ==
  /\ \A m \in Items(members) :
       Is("Union", m) => \A b \in Items(Members(m)) : b[1] \notin {"Union", "Meet"}
  /\ Clauses(members) <= bound

(* The complement of a union or a meet, pushed one level in, is nothing.   *)
PushedComplementIsNothing(inner) ==
  /\ Is("Union", inner)
  /\ MeetWithin({Complement(b) : b \in Items(Members(inner))}, Defs) = Nothing

AComplementedMemberHoldsAValue(inner) ==
  IF Is("Meet", inner) /\ \E m \in Items(Members(inner)) :
       Is("Not", m) /\ HoldsAValueShallowly(Inner(m))
  THEN "Inhabited" ELSE "Unknown"

(* Every member holds the exact empty dict, where one is a record.         *)
TheEmptyContainerInEveryMember(members) ==
  IF /\ \E m \in Items(members) : TypeTag(m) = "dict"
     /\ \A m \in Items(members) : HoldsTheEmptyDict(m) = "yes"
  THEN "Inhabited" ELSE "Unknown"

(* A record minus records, read by the subtype rules: a member of another  *)
(* shape is left out, so the answer is then a proof of emptiness alone.    *)
ADifferenceOfSets(members, cx) ==
  LET removed == {m \in Items(members) : Is("Not", m)}
      maps == {m \in Items(members) : Is("Map", m)}
      answer == Decide("records", Meet(members), cx)
  IN  IF \/ {} \in {removed, maps}
         \/ \E m \in removed : ~DenotesASet(Inner(m), Vouched, Defs)
      THEN Declined(cx)
      ELSE IF answer.v = "Inhabited" /\ Items(members) # removed \union maps
      THEN Declined(answer.cx) ELSE answer

-----------------------------------------------------------------------------
(* A meet held open while the path below decides it: the hypothesis of one *)
(* query's path, kept beside the budget that opened it.                    *)

AnyOpen(cx) == \E held \in Items(cx.open) : held.owner = cx.owner

\* Mutant of PlaceOf: a meet another query holds open is one of this query's.
PlaceOfAny(goal, cx) ==
  LET places == {at \in DOMAIN cx.open : cx.open[at].goal = goal}
  IN  IF places = {} THEN Nowhere ELSE CHOOSE at \in places : \A other \in places : at <= other

\* Mutant of PlaceOf: of the meets held open, only the innermost is looked at.
PlaceOfInnermost(goal, cx) ==
  IF cx.open # <<>> /\ cx.open[Len(cx.open)].owner = cx.owner /\ cx.open[Len(cx.open)].goal = goal
  THEN Len(cx.open) ELSE Nowhere

PlaceOf(goal, cx) ==
  LET places == {at \in DOMAIN cx.open :
                   cx.open[at].owner = cx.owner /\ cx.open[at].goal = goal}
  IN  IF places = {} THEN Nowhere ELSE CHOOSE at \in places : \A other \in places : at <= other

OpenMeet(goal, cx) ==
  [cx EXCEPT !.open = Append(@, [owner |-> cx.owner, goal |-> goal, crossed |-> cx.crossed])]

CloseMeet(cx) == [cx EXCEPT !.open = Pop(@)]

MetAgain(goal, cx) ==
  LET at == PlaceOf(goal, cx)
  IN  [cx EXCEPT !.again = Least(@, at),
                 !.unguarded = @ \/ cx.open[at].crossed = cx.crossed]

(* A hypothesis of the path, a goal's or a definition's, and no verdict is *)
(* kept or read back.                                                      *)

\* Mutant of UnderAHypothesis: the goals assumed are none.
UnderADefinition(cx) == cx.visiting # <<>>

UnderAHypothesis(cx) == cx.trail # <<>> \/ cx.visiting # <<>>

(* A reading is under a meet open, or is part of a narrowed question.      *)
ReadsUnder(cx) == AnyOpen(cx) \/ cx.narrowing = cx.number

(* A verdict rests on nothing: no meet open before its reading was met     *)
(* again, and it is decided or, under nothing, no bound stopped it.        *)

\* Mutant of RestsOnNothing: any decision is a fact, whatever it rests on.
RestsOnADecision(open, verdict, metAgain, stopped) ==
  IF open THEN verdict # "Unknown" ELSE verdict # "Unknown" \/ ~stopped

RestsOnNothing(open, verdict, metAgain, stopped) ==
  IF open THEN verdict # "Unknown" /\ ~metAgain ELSE verdict # "Unknown" \/ ~stopped

\* Mutant of ReadsBack: a decline read with nothing open is read back.
ReadsBackAll(open, verdict) == TRUE

(* A decline is not read back where a meet is open: its reading unfolds    *)
(* what the one held left folded.                                          *)
ReadsBack(open, verdict) == ~(open /\ verdict = "Unknown")

Affords(steps, cx) == steps <= cx.left

(* A table of what was read, emptied when it is full.                      *)
With(table, key, answer) ==
  LET held == IF Cardinality(DOMAIN table) >= ReadingsHeld THEN <<>> ELSE table
  IN  [k \in DOMAIN held \union {key} |-> IF k = key THEN answer ELSE held[k]]

Keep(key, verdict, spent, cx) ==
  [cx EXCEPT !.verdicts = With(@, key, [v |-> verdict, spent |-> spent])]

-----------------------------------------------------------------------------
(* The recursion.  Each operator answers a verdict, regions and the state. *)

RECURSIVE Descending(_, _), IsEmptyWith(_, _)

(* Descending is handed over as an argument so that TLC, which looks for   *)
(* the level of a definition along every path through those it uses, stops.*)
LOCAL Ask(question(_, _), s, cx) == question(s, cx)
EmptyAndRegion(s, cx) == Ask(Descending, s, cx)

(* Every part of a product, until one is empty.                            *)
RECURSIVE EveryVerdict(_, _)
EveryVerdict(parts, cx) ==
  IF parts = <<>> THEN Answer("Inhabited", Opaque, cx)
  ELSE LET first == EmptyAndRegion(Head(parts), cx)
           rest == EveryVerdict(Tail(parts), first.cx)
       IN  IF first.v = "Empty" THEN Answer("Empty", Opaque, first.cx)
           ELSE Answer(Every(first.v, rest.v), Opaque, rest.cx)

(* The parts are a constructor below.                                      *)
UnderAConstructor(parts, cx) ==
  LET held == EveryVerdict(parts, [cx EXCEPT !.crossed = @ + 1])
  IN  [held EXCEPT !.cx.crossed = cx.crossed]

(* A reference met again on its own path is empty; else its definition is. *)
ReferenceVerdict(d, cx) ==
  LET again == SelectSeq(cx.visiting, LAMBDA held : held.def = d)
      body == EmptyAndRegion(Defs[d],
                [cx EXCEPT !.visiting = Append(@, [def |-> d, crossed |-> cx.crossed])])
  IN  IF again # <<>>
      THEN Answer("Empty", Opaque,
                  [cx EXCEPT !.unguarded = @ \/ again[Len(again)].crossed = cx.crossed])
      ELSE IF d \notin DOMAIN Defs THEN Declined(cx)
      ELSE Answer(body.v, Opaque, [body.cx EXCEPT !.visiting = Pop(@)])

(* A refinement by callbacks is empty where its base is, a union's base    *)
(* read a branch at a time, and else is not for the rules to say.          *)
RECURSIVE RefinementVerdict(_, _, _), AnyBranchRefined(_, _, _)
RefinementVerdict(base, callbacks, cx) ==
  LET held == EmptyAndRegion(base, cx)
  IN  IF Is("Refine", base) THEN EmptyAndRegion(RefineWithin(base, callbacks), cx)
      ELSE IF held.v = "Empty" THEN Answer("Empty", Opaque, held.cx)
      ELSE IF Is("Union", base) THEN AnyBranchRefined(Members(base), callbacks, held.cx)
      ELSE Declined(held.cx)
AnyBranchRefined(branches, callbacks, cx) ==
  IF branches = <<>> THEN Answer("Empty", Opaque, cx)
  ELSE LET first == RefinementVerdict(Head(branches), callbacks, cx)
           rest == AnyBranchRefined(Tail(branches), callbacks, first.cx)
       IN  IF first.v = "Inhabited" THEN Answer("Inhabited", Opaque, first.cx)
           ELSE Answer(Some(first.v, rest.v), Opaque, rest.cx)

(* Where leaves are read by the sets, so is a refinement the rules left    *)
(* undecided, for a step; a reference in it stands for none of theirs.     *)
RECURSIVE HasReference(_)
HasReference(s) == Is("Ref", s) \/ \E child \in Children(s) : HasReference(child)

AValueTheSetsRead(s, cx) ==
  IF HasReference(s) THEN Declined(cx)
  ELSE IF cx.left = 0 THEN Declined(BoundMet(cx))
  ELSE Answer(IF Outside("sets", s) = "Inhabited" THEN "Inhabited" ELSE "Unknown",
              Opaque, [cx EXCEPT !.left = @ - 1])

RefinementRead(s, held) ==
  IF held.v = "Unknown" /\ held.cx.leaves THEN AValueTheSetsRead(s, held.cx) ELSE held

(* A union: on, until it is not proved empty and its regions are opaque.   *)
RECURSIVE UnionVerdict(_, _)
UnionVerdict(members, sofar) ==
  IF members = <<>> \/ (sofar.v # "Empty" /\ sofar.r = Opaque) THEN sofar
  ELSE LET m == EmptyAndRegion(Head(members), sofar.cx)
       IN  UnionVerdict(Tail(members),
                        Answer(Some(sofar.v, m.v), JoinRegions(sofar.r, m.r), m.cx))

ComplementVerdict(inner, cx) ==
  LET held == EmptyAndRegion(inner, cx)
      region == OutsideRegions(held.r)
      verdict ==
        IF RegionsVerdict(region) # "Unknown" THEN RegionsVerdict(region)
        ELSE IF CoversTheUniverse(inner) \/ PushedComplementIsNothing(inner) THEN "Empty"
        ELSE AComplementedMemberHoldsAValue(inner)
  IN  Answer(verdict, region, held.cx)

(* Closed records meet key by key: empty where a key one requires has no   *)
(* value in the meet of its types, or is none of another's.  The keys are  *)
(* read in a map's order.                                                  *)
RECURSIVE RequiredKeysMeet(_, _, _, _)
RequiredKeysMeet(names, maps, sofar, cx) ==
  IF names = {} THEN Answer(sofar, Opaque, cx)
  ELSE LET name == CHOOSE one \in names : TRUE
           types == [i \in DOMAIN maps |->
                       SelectSeq(Inner(maps[i]), LAMBDA f : f.name = name)]
           given == SelectSeq(types, LAMBDA fields : fields # <<>>)
           meet == Meet([i \in DOMAIN given |-> given[i][1].schema])
           held == IF Len(given) > 1 THEN EmptyAndRegion(meet, cx)
                   ELSE Answer("Inhabited", Opaque, cx)
       IN  IF held.v = "Empty" \/ Len(given) < Len(maps) THEN Answer("Empty", Opaque, held.cx)
           ELSE RequiredKeysMeet(names \ {name}, maps, Every(sofar, held.v), held.cx)

KeyedMapMeetVerdict(members, cx) ==
  LET maps == SelectSeq(members, LAMBDA m : Is("Map", m))
      names == {f.name : f \in UNION {Items(Required(m)) : m \in Items(maps)}}
      met == RequiredKeysMeet(names, maps, "Inhabited", [cx EXCEPT !.crossed = @ + 1])
      back == [met.cx EXCEPT !.crossed = cx.crossed]
  IN  IF Len(maps) < 2 THEN Declined(cx)
      ELSE IF met.v # "Empty" /\ Len(maps) < Len(members) THEN Declined(back)
      ELSE Answer(met.v, Opaque, back)

(* A meet's reading, kept where it rests on nothing.                       *)
ReadNow(key, readBack, cx, read) ==
  LET metAgain == read.cx.again <= Len(cx.open)
      after == [read.cx EXCEPT !.again = Least(cx.again, @)]
      spent == Monus(Monus(cx.left, after.left), after.spared - cx.spared)
      spared == [after EXCEPT !.spared = IF readBack = "Spared" THEN @ + spent ELSE @]
  IN  Answer(read.v, Opaque,
             IF RestsOnNothing(ReadsUnder(cx), read.v, metAgain, after.met # cx.met)
             THEN Keep(key, read.v, spent, spared) ELSE after)

(* The verdict of a meet, read once a query where it rests on nothing.     *)
HeldVerdict(meet, readBack, unnumbered) ==
  LET cx == Numbered(unnumbered)
      key == <<cx.number, meet>>
      known == cx.verdicts[key]
      kept == key \in DOMAIN cx.verdicts /\ ReadsBack(ReadsUnder(cx), known.v)
  IN  IF UnderAHypothesis(cx) THEN [EmptyAndRegion(meet, cx) EXCEPT !.r = Opaque]
      ELSE IF kept /\ readBack = "Spared" THEN Answer(known.v, Opaque, cx)
      ELSE IF kept /\ Affords(known.spent, cx)
      THEN Answer(known.v, Opaque, [cx EXCEPT !.left = @ - known.spent])
      ELSE ReadNow(key, readBack, cx, EmptyAndRegion(meet, [cx EXCEPT !.again = Nowhere]))

(* Whether two terms share a value: by their kinds, or by their meet.      *)
VerdictBeside(s, t, cx) ==
  IF DisjointWith(s, t) THEN Answer("Empty", Opaque, cx)
  ELSE HeldVerdict(MeetWithin({s, t}, Defs), "AsRead", cx)

(* The meet distributed over the branches of one member, every copy of     *)
(* which a branch's meet drops.                                            *)
BranchMeet(branch, members, at) ==
  Meet((IF Is("Meet", branch) THEN Members(branch) ELSE <<branch>>)
         \o SelectSeq(members, LAMBDA m : m # members[at]))

RECURSIVE Distributed(_, _, _, _, _)
Distributed(branches, members, at, sofar, cx) ==
  IF branches = <<>> \/ sofar = "Inhabited" THEN Answer(sofar, Opaque, cx)
  ELSE LET held == EmptyAndRegion(BranchMeet(Head(branches), members, at), cx)
       IN  Distributed(Tail(branches), members, at, Some(sofar, held.v), held.cx)

(* A meet unfolded is held open on the way, and met again it is empty.     *)
HeldOpen(branches, members, at, cx) ==
  LET goal == Items(members)
  IN  IF PlaceOf(goal, cx) # Nowhere THEN Answer("Empty", Opaque, MetAgain(goal, cx))
      ELSE [Distributed(branches, members, at, "Empty", OpenMeet(goal, cx))
              EXCEPT !.cx = CloseMeet(@)]

(* A union is distributed where a reference is a branch or a meet is open  *)
(* already, the meet then held open, or where the normal form is small.    *)
ThroughAUnion(branches, members, at, cx) ==
  IF (\E b \in Items(branches) : Is("Ref", b)) \/ AnyOpen(cx)
  THEN HeldOpen(branches, members, at, cx)
  ELSE IF NormalFormWithin(members, MaxDistributedTerms)
  THEN Distributed(branches, members, at, "Empty", cx) ELSE Declined(cx)

Branches(s) == IF Is("Union", s) THEN Members(s) ELSE <<s>>

(* A meet through the first reference a definition resolves, or the first  *)
(* union.                                                                  *)
MeetThroughAReference(members, cx) ==
  LET first(S) == CHOOSE at \in S : \A other \in S : at <= other
      unions == {at \in DOMAIN members : Is("Union", members[at])}
      resolved(defs) ==
        {at \in DOMAIN members : Is("Ref", members[at]) /\ Inner(members[at]) \in DOMAIN defs}
      through(defs, references) ==
        IF references # {}
        THEN HeldOpen(Branches(defs[Inner(members[first(references)])]), members,
                      first(references), cx)
        ELSE IF unions # {}
        THEN ThroughAUnion(Members(members[first(unions)]), members, first(unions), cx)
        ELSE Declined(cx)
  IN  through(Defs, resolved(Defs))

(* A reading on at most an allowance of the steps left, charged to them.   *)
ThroughAReferenceWithin(cap, members, cx) ==
  LET allowed == Least(cx.left, cap)
      held == MeetThroughAReference(members, [cx EXCEPT !.left = allowed])
  IN  [held EXCEPT !.cx.left = cx.left - Monus(allowed, @)]

OrDistributed(members, held) ==
  IF held.v # "Unknown" THEN held
  ELSE ThroughAReferenceWithin(held.cx.allowance, members, held.cx)

NarrowedOrDistributed(members, narrowed, cx) ==
  IF narrowed = Unnarrowed THEN MeetThroughAReference(members, cx)
  ELSE OrDistributed(members, HeldVerdict(narrowed, "Spared", cx))

(* A class beside the rest of the meet is a question to Python, which may  *)
(* ask the core one of its own before it answers.                          *)
Interrupted(cx) == [cx EXCEPT !.inside = @ + 1]
Told(s, inside) ==
  [inside.cx EXCEPT !.told = @ \union {<<s, inside.v>>}, !.inside = @ - 1]

AskedOfPython(class, cx) ==
  IF class \in DOMAIN AsksInside /\ cx.inside < MaxInside
  THEN Told(AsksInside[class], IsEmptyWith(AsksInside[class], Interrupted(cx))) ELSE cx

RECURSIVE AClassBelowTheComplementBesideIt(_, _, _)
OrTheNextClass(members, at, cx) ==
  LET outside == Not(MeetWithin(Items(Without(members, at)), Defs))
  IN  IF Outside("class", Meet(<<members[at], outside>>)) = "Empty"
      THEN Answer("Empty", Opaque, cx)
      ELSE AClassBelowTheComplementBesideIt(members, at + 1, cx)
AClassBelowTheComplementBesideIt(members, at, cx) ==
  IF at > Len(members) THEN Declined(cx)
  ELSE IF ~Is("Instance", members[at])
  THEN AClassBelowTheComplementBesideIt(members, at + 1, cx)
  ELSE OrTheNextClass(members, at, AskedOfPython(Inner(members[at]), cx))

(* Refinements of one base are one refinement of it.                       *)
OneRefinementOfItsMembers(members, cx) ==
  IF \A m \in Items(members) : Is("Refine", m) /\ Inner(m) = Inner(members[1])
  THEN EmptyAndRegion(Refine(Inner(members[1]), UNION {m[3] : m \in Items(members)}), cx)
  ELSE Declined(cx)

(* The members of a meet, until one is empty and the regions are opaque.   *)
RECURSIVE EachMember(_, _, _, _)
EachMember(members, anyEmpty, region, cx) ==
  IF members = <<>> \/ (anyEmpty /\ region = Opaque)
  THEN [empty |-> anyEmpty, r |-> region, cx |-> cx]
  ELSE LET m == EmptyAndRegion(Head(members), cx)
       IN  EachMember(Tail(members), anyEmpty \/ m.v = "Empty", MeetRegions(region, m.r), m.cx)

(* The readings of a meet the rules decline, in the order they are asked,  *)
(* each where those before it left the meet undecided.                     *)
MeetReadings == <<"one refinement", "empty container", "class", "distributed", "difference">>

MeetReading(reading, members, cx) ==
  CASE reading = "one refinement" -> OneRefinementOfItsMembers(members, cx)
    [] reading = "empty container" ->
         Answer(TheEmptyContainerInEveryMember(members), Opaque, cx)
    [] reading = "class" -> AClassBelowTheComplementBesideIt(members, 1, cx)
    [] reading = "distributed" -> NarrowedOrDistributed(members, NarrowedMeet(members), cx)
    [] reading = "difference" -> ADifferenceOfSets(members, cx)

RECURSIVE FirstDecided(_, _, _)
OrTheNext(readings, members, first) ==
  IF first.v # "Unknown" THEN first ELSE FirstDecided(readings, members, first.cx)
FirstDecided(readings, members, cx) ==
  IF readings = <<>> THEN Declined(cx)
  ELSE OrTheNext(Tail(readings), members, MeetReading(Head(readings), members, cx))

IntersectionVerdict(members, cx) ==
  LET held == EachMember(members, FALSE, Regions, cx)
      set == Items(members)
      ruledEmpty == \/ held.empty
                    \/ held.r = {}
                    \/ HasComplementaryPair(set, "Meet", Vouched, <<>>)
                    \/ HasDisjointPair(members)
      maps == KeyedMapMeetVerdict(members, held.cx)
      settled == IF RegionsVerdict(held.r) # "Unknown" THEN RegionsVerdict(held.r) ELSE maps.v
      noKindLeft == /\ \E m \in set : Is("Not", m)
                    /\ Possibly(Meet(members)) = {}
      answer == IF ruledEmpty THEN Answer("Empty", held.r, held.cx)
                ELSE IF maps.v = "Empty" THEN Answer("Empty", held.r, maps.cx)
                ELSE IF settled # "Unknown" THEN Answer(settled, held.r, maps.cx)
                ELSE IF HasComplementaryPair(set, "Meet", Vouched, Defs) \/ noKindLeft
                THEN Answer("Empty", held.r, maps.cx)
                ELSE FirstDecided(MeetReadings, members, maps.cx)
  IN  [answer EXCEPT !.r = held.r]

(* One level of the recursion, a step spent.                               *)
EmptyAndRegionAt(s, unspent) ==
  LET cx == [unspent EXCEPT !.left = @ - 1]
      region == RegionSet(s)
  IN  IF unspent.left = 0 THEN Declined(BoundMet(unspent))
      ELSE CASE s[1] \in DOMAIN AtomRegion \union {"Nothing", "Anything"} ->
                  Answer(RegionsVerdict(region), region, cx)
             [] Is("Ref", s) -> ReferenceVerdict(Inner(s), cx)
             [] Is("Refine", s) ->
                  IF s[3] = {} THEN EmptyAndRegion(Inner(s), cx)
                  ELSE [RefinementRead(s, RefinementVerdict(Inner(s), s[3], cx)) EXCEPT !.r = Opaque]
             [] Is("Meet", s) -> IntersectionVerdict(Members(s), cx)
             [] Is("Map", s) ->
                  UnderAConstructor([i \in DOMAIN Required(s) |-> Required(s)[i].schema], cx)
             [] Is("Union", s) -> UnionVerdict(Members(s), Answer("Empty", {}, cx))
             [] Is("Not", s) -> ComplementVerdict(Inner(s), cx)
             [] Is("Instance", s) ->
                  Answer(IF Inner(s) \in Vouched THEN "Inhabited" ELSE "Unknown", Opaque, cx)

Descending(s, cx) ==
  IF cx.depth >= MaxDecisionDepth THEN Declined(BoundMet(cx))
  ELSE [EmptyAndRegionAt(s, [cx EXCEPT !.depth = @ + 1]) EXCEPT !.cx.depth = cx.depth]

-----------------------------------------------------------------------------
(* A question.  The set representation, a string's texts among its sets,  *)
(* is asked where the rules decline, a union then a member at a time, and  *)
(* last the relation of a meet below the set it complements.               *)

RECURSIVE EmptinessUnder(_, _), EveryMemberEmpty(_, _)
OrTheSets(s, rules) ==
  IF rules.v # "Unknown" THEN rules
  ELSE IF Outside("sets", s) = "Empty" THEN Answer("Empty", Opaque, rules.cx)
  ELSE IF Is("Union", s) THEN EveryMemberEmpty(Members(s), rules.cx) ELSE rules
EmptinessUnder(s, cx) == OrTheSets(s, EmptyAndRegion(s, cx))
EveryMemberEmpty(members, cx) ==
  IF members = <<>> THEN Answer("Empty", Opaque, cx)
  ELSE LET first == EmptinessUnder(Head(members), cx)
       IN  IF first.v = "Empty" THEN EveryMemberEmpty(Tail(members), first.cx)
           ELSE Declined(first.cx)

OrTheRelation(s, under) ==
  IF under.v = "Unknown" /\ s[1] \in {"Meet", "Not"}
  THEN Decide("relation", s, under.cx) ELSE under
EmptinessOn(s, cx) == OrTheRelation(s, EmptinessUnder(s, cx))

(* A first asking that a bound stopped, with steps of its own left and in  *)
(* no second asking, is asked again with a larger allowance for the        *)
(* readings that respell a meet.                                           *)
AsksAgain(met, cx) == cx.met # met /\ cx.left > 0 /\ cx.allowance = Respelling

(* Back at who asked, what the thread keeps as it now is.                  *)
Answered(cx, answer) == Answer(answer.v, Opaque, BackIn(cx, answer.cx))

SecondAskingClosed(answer) == [answer EXCEPT !.cx.allowance = Respelling]

AskedAgain(s, cx) ==
  SecondAskingClosed(EmptinessOn(s, [NewQuery(cx) EXCEPT !.allowance = RespellingAgain]))

OrAskedAgain(s, cx, first) ==
  IF first.v = "Unknown" /\ AsksAgain(cx.met, first.cx)
  THEN AskedAgain(s, BackIn(cx, first.cx)) ELSE first

IsEmptyWith(s, cx) == Answered(cx, OrAskedAgain(s, cx, EmptinessOn(s, NewQuery(cx))))
=============================================================================
