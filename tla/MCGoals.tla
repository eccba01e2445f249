------------------------------ MODULE MCGoals ------------------------------
(***************************************************************************)
(* Instances of Relations.                                                 *)
(***************************************************************************)
EXTENDS RelationsMeaning

Or(S) == Union(Sorted(S))
And(S) == Meet(Sorted(S))
A(required, schema) == Map(<<Field("a", required, schema)>>)
AB(a, b) == Map(<<Field("a", TRUE, a), Field("b", TRUE, b)>>)
NotStr == Not(Str)
P == Refine(Int, {"P"})
Q == Refine(Int, {"P", "Q"})

MCDefs ==
  [d \in {"Guarded", "Endless", "Tree", "Grove", "Even", "Odd", "Chain", "Classed",
         "Ended", "Unended"} |->
     CASE d = "Guarded" -> Or({A(TRUE, And({NotStr, Or({Str, Ref("Guarded")})})), P})
       [] d = "Endless" -> A(TRUE, Ref("Endless"))
       [] d = "Tree" -> Or({Str, A(FALSE, Ref("Tree"))})
       [] d = "Grove" -> Or({Str, Bool, A(FALSE, Ref("Grove"))})
       [] d = "Even" -> Or({Bool, A(TRUE, Ref("Odd"))})
       [] d = "Odd" -> A(TRUE, Ref("Even"))
       [] d = "Chain" -> Or({Bool, A(TRUE, Ref("Chain"))})
       [] d = "Classed" -> Or({A(TRUE, And({Class("C"), Ref("Tree")})), P})
       [] d = "Ended" -> Or({A(TRUE, Or({A(TRUE, Ref("Ended")), Class("D")})), Class("D")})
       [] d = "Unended" ->
            A(TRUE, And({A(TRUE, Anything), Not(And({A(TRUE, Anything), Not(A(TRUE, Ref("Unended")))}))}))]

MCVouched == {"C", "D"}
MCClassOf == [c \in MCVouched |-> IF c = "C" THEN {"instance"} ELSE {"int", "bool"}]
MCAsksInside == [c \in {"C"} |-> And({Ref("Guarded"), NotStr})]
MCRelatesInside ==
  [c \in {"C"} |-> <<"Below", And({NotStr, Or({Str, Ref("Chain")})}), Ref("Even")>>]
MCNoneDerives(kind, class) == class \in MCVouched /\ kind \notin ClassOf[class]

(* The sets read a term with no reference and no callback exactly, and the *)
(* bindings a class.                                                       *)
Lowers(s) == Unvouched(s, {}) = {} /\ ~HasReference(s)

VerdictOf(s) ==
  CASE \A v \in Values : ~CanHold(s, v) -> "Empty"
    [] \E v \in Values : ~CanMiss(s, v) -> "Inhabited"
    [] OTHER -> "Unknown"

MCOutside(reading, s) ==
  CASE reading = "class" /\ Inner(Members(s)[1]) \in MCVouched ->
         VerdictOf(Meet(<<Members(s)[1], Not(Members(s)[2])>>))
    [] reading = "below" /\ Lowers(s) -> VerdictOf(Meet(<<Members(s)[1], Not(Members(s)[2])>>))
    [] reading = "sets" /\ Lowers(s) -> VerdictOf(s)
    [] reading = "lowers" /\ Lowers(s) -> "Empty"
    [] OTHER -> "Unknown"

(* Goals is handed over as an argument so that TLC, which follows a call    *)
(* through every definition it reaches, stops at one.                      *)
Through(answer(_, _, _), asks, of, cx) == answer(asks, of, cx)
MCDecide(asks, of, cx) == LET decided == Through(Decision, asks, of, cx) IN decided

Terms ==
  {Int, Str, NotStr, P, Q, Not(P), Class("C"), Class("hooked"),
   A(TRUE, Int), A(FALSE, Str), Not(A(TRUE, Int)), A(TRUE, P),
   Or({Str, P}), Or({A(TRUE, Int), A(TRUE, Str)}), AB(Int, Str),
   A(TRUE, Or({Int, Str}))}
    \union {Ref(d) : d \in DOMAIN MCDefs \ {"Ended", "Unended"}} \union {Not(Ref(d)) : d \in {"Guarded", "Tree", "Even"}}

Below(s, t) == Question("subtype", <<s, t>>)

(* Sides of several members: as many as a record holds and one more, meets *)
(* that narrow, and branches a term splits.                                *)
Sides ==
  {Or({Str, P, A(TRUE, Int)}), Or({Str, P, A(TRUE, Int), Ref("Even")}),
   Or({A(TRUE, Int), A(FALSE, Str)}), And({NotStr, Or({Str, Ref("Guarded")})}),
   And({A(FALSE, Or({Int, Str})), Not(P), Not(Ref("Guarded"))}),
   And({A(TRUE, Or({Int, Str})), Not(A(TRUE, Str))}), And({A(TRUE, Int), AB(Int, Str)}),
   Or({And({Ref("Even"), Not(A(TRUE, Int))}), And({Ref("Even"), A(TRUE, Int)})}),
   And({Ref("Grove"), Not(Ref("Tree"))}), And({Class("C"), Or({Int, Ref("Tree")})})}

(* Chains under a goal assumed, whose meets are read where the goal stands. *)
Assumed == {<<Below(Ref(d), Ref(e))>> : d, e \in {"Ended", "Unended", "Endless", "Chain"}}

Alone ==
  {<<Below(s, t)>> : s \in Terms, t \in Terms \union Sides}
    \union {<<Below(s, t)>> : s \in Sides, t \in Terms \union Sides}

(* Questions that leave a record, a reading or a narrowed meet behind, each *)
(* asked before and after every other.                                     *)
Few ==
  {Below(Or({Str, P, A(TRUE, Int)}), Not(Ref("Guarded"))), Below(Ref("Guarded"), Ref("Classed")),
   Below(A(TRUE, Int), And({A(FALSE, Or({Int, Str})), Not(P), Not(Ref("Guarded"))})),
   Below(Ref("Chain"), Or({Ref("Guarded"), Ref("Even")})),
   Question("equivalent", <<Ref("Even"), Ref("Chain")>>),
   Question("equivalent", <<Or({Str, P}), Or({Str, Q})>>),
   Question("empty", <<And({Ref("Guarded"), NotStr})>>)}
InTurn == {<<x, y, x>> : x, y \in Few}

MCScripts == Alone \union Assumed \union InTurn
=============================================================================
