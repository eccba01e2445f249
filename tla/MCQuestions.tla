---------------------------- MODULE MCQuestions ----------------------------
(***************************************************************************)
(* Instances of Questions.  `Guarded` unfolds through a guard that         *)
(* narrows to the very meet being decided; `Endless` and `Wide` have no    *)
(* finite value; `Tree` stops; `Even` and `Odd` take turns; deciding the   *)
(* class in `Classed` asks about `Classed`.                                *)
(***************************************************************************)
EXTENDS QuestionsMeaning

\* Terms as their constructors leave them.
Or(S) == Union(Sorted(S))
And(S) == Meet(Sorted(S))
A(required, schema) == Map(<<Field("a", required, schema)>>)
NotStr == Not(Str)
Guard == And({NotStr, Or({Str, Ref("Guarded")})})

P == Refine(Int, {"P"})

(* Eight clauses, which only a meet held open distributes, and a guard     *)
(* that narrows to them.                                                   *)
First == Or({A(TRUE, NotStr), Int})
Second == Or({A(TRUE, Str), Str})
Third == Or({A(TRUE, Int), Str})
NotC == Not(Class("C"))
WideGuard == And({First, Second, Or({A(TRUE, Int), Class("C"), Str}), NotC})

MCDefs ==
  [d \in {"Guarded", "Endless", "Tree", "Even", "Odd", "Wide", "Classed"} |->
     CASE d = "Guarded" -> Or({A(TRUE, Guard), P})
       [] d = "Endless" -> A(TRUE, Ref("Endless"))
       [] d = "Tree" -> Or({Str, A(FALSE, Ref("Tree"))})
       [] d = "Even" -> Or({Bool, A(TRUE, Ref("Odd"))})
       [] d = "Wide" -> Or({A(TRUE, WideGuard), A(TRUE, Ref("Wide"))})
       [] d = "Classed" -> Or({A(TRUE, And({Class("C"), Ref("Tree")})), P})
       [] d = "Odd" -> A(TRUE, Ref("Even"))]

MCVouched == {"C", "D"}
MCClassOf == [c \in MCVouched |-> IF c = "C" THEN {"instance"} ELSE {"int", "bool"}]
MCAsksInside == [c \in {"C"} |-> And({Ref("Classed"), NotStr})]

(* The bindings answer a class below a set where no value refutes it, and  *)
(* the other readings decline.                                             *)
MCOutside(reading, s) ==
  IF reading = "class" /\ Inner(Members(s)[1]) \in MCVouched
     /\ \A v \in Values : ~CanHold(Meet(<<Members(s)[1], Inner(Members(s)[2])>>), v)
  THEN "Empty" ELSE "Unknown"

MCDecide(asks, of, cx) == Declined(cx)

Parts ==
  {Int, Str, NotStr, P, Class("C"), Class("D"), Class("hooked"), Not(P),
   Or({Str, Not(P)}), Or({NotStr, P}),
   A(TRUE, Int), A(TRUE, Nothing), A(FALSE, Str), Not(A(TRUE, Int)),
   Or({Int, Not(A(TRUE, Int))}), Or({Class("C"), Not(Class("C"))})}
    \union {Guard} \union {Ref(d) : d \in DOMAIN MCDefs} \union {Not(Ref(d)) : d \in {"Guarded", "Tree", "Even"}}

PartPairs == {{x, y} : x, y \in Parts}
Unions == {UnionWithin(p, MCDefs) : p \in PartPairs}
Meets == {MeetWithin(p, MCDefs) : p \in PartPairs}

(* A union by itself, a meet also below a constructor.                     *)
Alone == {<<Root(s)>> : s \in Unions \union Meets \union {A(TRUE, m) : m \in Meets}}

(* A few pairs two to a query in every order, and two queries in turn.     *)
Pair(x, y) == <<x, y>>
Few == {Pair(Ref("Guarded"), NotStr), Pair(A(TRUE, Guard), NotStr), Pair(Guard, A(FALSE, Str)),
        Pair(And({First, Second}), And({Third, NotC})), Pair(Ref("Wide"), NotC),
        Pair(Guard, Not(Ref("Tree"))), Pair(Class("C"), Guard), Pair(Ref("Guarded"), Guard),
        Pair(Ref("Even"), Or({NotStr, Ref("Odd")}))}
InTurn ==
  {<<Query(<<p, q>>)>> : p, q \in Few}
    \union {<<Query(<<p>>), Root(MeetWithin({p[1], p[2]}, MCDefs)), Query(<<p, p>>)>> : p \in Few}

MCScripts == Alone \union InTurn
=============================================================================
