------------------------------- MODULE Values -------------------------------
(***************************************************************************)
(* What a term holds, read off the term with no procedure.  A callback,    *)
(* and a class nobody vouches for, may answer each of its occurrences as   *)
(* it likes, so a value can belong to a term, can miss it, or either.      *)
(* Recursive definitions are read on finite values, which is the least     *)
(* solution the code decides.                                              *)
(***************************************************************************)
EXTENDS Schemas

CONSTANTS ClassOf,  \* the values each vouched class admits: classes to tags
          Height    \* a bound on the height of the values looked at

LOCAL Items(s) == {s[i] : i \in DOMAIN s}

RECURSIVE ValuesTo(_)
ValuesTo(height) ==
  {<<tag, {}>> : tag \in {"bool", "int", "str", "list", "object", "instance", "dict"}}
    \union IF height = 0 THEN {} ELSE {<<"dict", {<<"a", v>>}>> : v \in ValuesTo(height - 1)}

(* Those of a chain of fields, and records of two.                         *)
Wide == {<<"dict", {<<"a", <<x, {}>>>>, <<"b", <<y, {}>>>>}>> : x, y \in {"bool", "int", "str"}}

Values == ValuesTo(Height) \union Wide

RECURSIVE CanHold(_, _), CanMiss(_, _)
CanHold(s, v) ==
  CASE s = Anything -> TRUE
    [] s[1] \in DOMAIN AtomRegion -> v[1] \in AtomRegion[s[1]]
    [] Is("Instance", s) -> Inner(s) \in Vouched => v[1] \in ClassOf[Inner(s)]
    [] Is("Ref", s) -> Inner(s) \in DOMAIN Defs => CanHold(Defs[Inner(s)], v)
    [] Is("Refine", s) -> CanHold(Inner(s), v)
    [] Is("Not", s) -> CanMiss(Inner(s), v)
    [] Is("Union", s) -> \E m \in Items(Members(s)) : CanHold(m, v)
    [] Is("Meet", s) -> \A m \in Items(Members(s)) : CanHold(m, v)
    [] Is("Map", s) ->
         /\ v[1] = "dict"
         /\ \A f \in Items(Required(s)) : \E held \in v[2] : held[1] = f.name
         /\ \A held \in v[2] : \E f \in Items(Inner(s)) :
              f.name = held[1] /\ CanHold(f.schema, held[2])
    [] OTHER -> FALSE
CanMiss(s, v) ==
  CASE s = Nothing -> TRUE
    [] s[1] \in DOMAIN AtomRegion -> v[1] \notin AtomRegion[s[1]]
    [] Is("Instance", s) -> Inner(s) \in Vouched => v[1] \notin ClassOf[Inner(s)]
    [] Is("Ref", s) -> Inner(s) \in DOMAIN Defs => CanMiss(Defs[Inner(s)], v)
    [] Is("Refine", s) -> s[3] # {} \/ CanMiss(Inner(s), v)
    [] Is("Not", s) -> CanHold(Inner(s), v)
    [] Is("Union", s) -> \A m \in Items(Members(s)) : CanMiss(m, v)
    [] Is("Meet", s) -> \E m \in Items(Members(s)) : CanMiss(m, v)
    [] Is("Map", s) ->
         \/ v[1] # "dict"
         \/ \E f \in Items(Required(s)) : \A held \in v[2] : held[1] # f.name
         \/ \E held \in v[2] : \A f \in Items(Inner(s)) :
              f.name = held[1] => CanMiss(f.schema, held[2])
    [] OTHER -> FALSE

(* A verdict is true of a term: no value can belong to it, or one does     *)
(* whatever its callbacks answer.                                          *)
TrueOf(verdict, s) ==
  CASE verdict = "Empty" -> \A v \in Values : ~CanHold(s, v)
    [] verdict = "Inhabited" -> \E v \in Values : ~CanMiss(s, v)
    [] OTHER -> TRUE

-----------------------------------------------------------------------------
(* Between two terms, a callback answers one value alike wherever it       *)
(* occurs: `answers` are the values each of them takes.                    *)

RECURSIVE Unvouched(_, _)
Unvouched(s, open) ==
  CASE Is("Instance", s) -> {Inner(s)} \ Vouched
    [] Is("Ref", s) -> IF Inner(s) \in open \/ Inner(s) \notin DOMAIN Defs THEN {}
                       ELSE Unvouched(Defs[Inner(s)], open \union {Inner(s)})
    [] Is("Refine", s) -> s[3] \union Unvouched(Inner(s), open)
    [] OTHER -> UNION {Unvouched(child, open) : child \in Children(s)}

RECURSIVE Held(_), Belongs(_, _, _)
Held(v) == {v} \union UNION {Held(item[2]) : item \in v[2]}

Belongs(s, v, answers) ==
  CASE s = Anything -> TRUE
    [] s[1] \in DOMAIN AtomRegion -> v[1] \in AtomRegion[s[1]]
    [] Is("Instance", s) -> IF Inner(s) \in Vouched THEN v[1] \in ClassOf[Inner(s)]
                            ELSE <<Inner(s), v>> \in answers
    [] Is("Ref", s) -> Belongs(Defs[Inner(s)], v, answers)
    [] Is("Refine", s) -> Belongs(Inner(s), v, answers) /\ \A c \in s[3] : <<c, v>> \in answers
    [] Is("Not", s) -> ~Belongs(Inner(s), v, answers)
    [] Is("Union", s) -> \E m \in Items(Members(s)) : Belongs(m, v, answers)
    [] Is("Meet", s) -> \A m \in Items(Members(s)) : Belongs(m, v, answers)
    [] Is("Map", s) ->
         /\ v[1] = "dict"
         /\ \A f \in Items(Required(s)) : \E held \in v[2] : held[1] = f.name
         /\ \A held \in v[2] : \E f \in Items(Inner(s)) :
              f.name = held[1] /\ Belongs(f.schema, held[2], answers)
    [] OTHER -> FALSE

Answers(s, t, v) == SUBSET ((Unvouched(s, {}) \union Unvouched(t, {})) \X Held(v))

(* An answer is true of a pair: every value of the one is of the other     *)
(* while callbacks answer alike, or one is outside whatever they answer.   *)
TrueOfThePair(answer, sub, sup) ==
  CASE answer = "Holds" ->
         \A v \in Values : \A answers \in Answers(sub, sup, v) :
           Belongs(sub, v, answers) => Belongs(sup, v, answers)
    [] answer = "Fails" -> \E v \in Values : ~CanMiss(sub, v) /\ ~CanHold(sup, v)
    [] OTHER -> TRUE
=============================================================================
