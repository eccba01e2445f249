------------------------------ MODULE Schemas ------------------------------
(***************************************************************************)
(* Schemas as terms, and what is read off a term without deciding          *)
(* anything: the lattice constructors of ir.rs, the walk that says whether *)
(* a term is a set (oracle.rs), the partition of the scalars (kind.rs) and *)
(* the readings by kind (decision/readings.rs).                            *)
(*                                                                         *)
(* A term is a tuple that starts with its constructor.  The fragment keeps *)
(* the shapes the emptiness recursion is about: scalar atoms, a class, a   *)
(* callback that narrows a base, a closed record, a reference and the      *)
(* three connectives.  Two scalar atoms stand for the five that behave     *)
(* alike (Str, Bool) and Int keeps its overlap with Bool; a list is only a *)
(* kind no term of the fragment names.                                     *)
(***************************************************************************)
EXTENDS Naturals, FiniteSets, Sequences

CONSTANT Defs,     \* what each definition stands for: a function to terms
         Vouched   \* the classes the bindings say leave isinstance alone

LOCAL Items(s) == {s[i] : i \in DOMAIN s}

Nothing == <<"Nothing">>
Anything == <<"Anything">>
Bool == <<"Bool">>
Int == <<"Int">>
Str == <<"Str">>
Class(c) == <<"Instance", c>>
Ref(d) == <<"Ref", d>>
Not(s) == <<"Not", s>>
Union(members) == <<"Union", members>>
Meet(members) == <<"Meet", members>>

(* A refinement by callbacks, each named: what one answers is not the      *)
(* core's to know.                                                         *)
Refine(base, callbacks) == <<"Refine", base, callbacks>>

(* A closed record: its fields in the order of their names.                *)
Field(name, required, schema) ==
  [name |-> name, required |-> required, schema |-> schema]
Map(fields) == <<"Map", fields>>

Is(tag, s) == s[1] = tag
Inner(s) == s[2]
Members(s) == s[2]
Required(s) == SelectSeq(s[2], LAMBDA f : f.required)

(* The derived order a constructor sorts by: the variants in the order of  *)
(* the enum, and terms of one variant in some order that depends on them   *)
(* alone.                                                                  *)
Variant ==
  [Anything |-> 1, Nothing |-> 2, Bool |-> 3, Int |-> 4, Str |-> 5, Map |-> 6, Union |-> 7,
   Meet |-> 8, Not |-> 9, Instance |-> 10, Refine |-> 11, Ref |-> 12]

RECURSIVE Sorted(_)
Sorted(S) ==
  IF S = {} THEN <<>>
  ELSE LET least == CHOOSE s \in S : \A t \in S : Variant[s[1]] <= Variant[t[1]]
       IN  <<least>> \o Sorted(S \ {least})

Without(s, at) == [i \in 1..Len(s) - 1 |-> IF i < at THEN s[i] ELSE s[i + 1]]

-----------------------------------------------------------------------------
(* Whether a term is a set: no callback is reached from it, nor a class    *)
(* nobody vouches for, nor a reference with no definition.  A definition   *)
(* met again inside its own body is not read twice.                        *)

AsksNoCallback(s, vouched) ==
  /\ Is("Instance", s) => Inner(s) \in vouched
  /\ Is("Refine", s) => s[3] = {}

Children(s) ==
  CASE s[1] \in {"Union", "Meet"} -> Items(Members(s))
    [] s[1] \in {"Not", "Refine"} -> {Inner(s)}
    [] Is("Map", s) -> {f.schema : f \in Items(Inner(s))}
    [] OTHER -> {}

RECURSIVE EveryNodeAsksNoCallback(_, _, _, _)
EveryNodeAsksNoCallback(s, vouched, defs, open) ==
  IF Is("Ref", s)
  THEN \/ Inner(s) \in open
       \/ /\ Inner(s) \in DOMAIN defs
          /\ EveryNodeAsksNoCallback(defs[Inner(s)], vouched, defs, open \union {Inner(s)})
  ELSE /\ AsksNoCallback(s, vouched)
       /\ \A child \in Children(s) : EveryNodeAsksNoCallback(child, vouched, defs, open)

DenotesASet(s, vouched, defs) == EveryNodeAsksNoCallback(s, vouched, defs, {})

(* The complement law: a member stands beside its complement, a complement *)
(* of a term of the connective's own kind being paired with its members.   *)
HasComplementaryPair(members, connective, vouched, defs) ==
  \E m \in members :
    /\ Is("Not", m)
    /\ \/ Inner(m) \in members
       \/ Is(connective, Inner(m)) /\ Items(Members(Inner(m))) \subseteq members
    /\ DenotesASet(Inner(m), vouched, defs)

-----------------------------------------------------------------------------
(* The constructors, with no oracle: a nested connective is flattened, the *)
(* unit drops out, the bound absorbs and the complement law folds.         *)

Flattened(S, connective, unit) ==
  UNION {IF Is(connective, s) THEN Items(Members(s)) ELSE {s} : s \in S \ {unit}}

UnionWithin(S, defs) ==
  LET flat == Flattened(S, "Union", Nothing)
  IN  CASE Anything \in S \/ HasComplementaryPair(flat, "Union", {}, defs) -> Anything
        [] flat = {} -> Nothing
        [] Cardinality(flat) = 1 -> CHOOSE s \in flat : TRUE
        [] OTHER -> Union(Sorted(flat))

MeetWithin(S, defs) ==
  LET flat == Flattened(S, "Meet", Anything)
  IN  CASE Nothing \in S \/ HasComplementaryPair(flat, "Meet", {}, defs) -> Nothing
        [] flat = {} -> Anything
        [] Cardinality(flat) = 1 -> CHOOSE s \in flat : TRUE
        [] OTHER -> Meet(Sorted(flat))

Complement(s) ==
  CASE Is("Not", s) -> Inner(s)
    [] s = Anything -> Nothing
    [] s = Nothing -> Anything
    [] OTHER -> Not(s)

(* A refinement of a refinement is one.                                    *)
RefineWithin(base, callbacks) ==
  LET all == callbacks \union (IF Is("Refine", base) THEN base[3] ELSE {})
      under == IF Is("Refine", base) THEN Inner(base) ELSE base
  IN  IF all = {} THEN under ELSE Refine(under, all)

-----------------------------------------------------------------------------
(* The partition: a region for each scalar, one for everything else.  A    *)
(* term has regions only where it names them exactly.                      *)

Regions == {"bool", "int", "str", "other"}
Opaque == {"opaque"}  \* no set of regions

AtomRegion ==
  [tag \in {"Bool", "Int", "Str"} |->
     CASE tag = "Bool" -> {"bool"} [] tag = "Int" -> {"bool", "int"} [] tag = "Str" -> {"str"}]

JoinRegions(a, b) == IF a = Opaque \/ b = Opaque THEN Opaque ELSE a \union b
MeetRegions(a, b) == IF a = Opaque \/ b = Opaque THEN Opaque ELSE a \intersect b
OutsideRegions(a) == IF a = Opaque THEN Opaque ELSE Regions \ a

RegionsVerdict(a) ==
  IF a = Opaque THEN "Unknown" ELSE IF a = {} THEN "Empty" ELSE "Inhabited"

RECURSIVE RegionSet(_)
RegionSet(s) ==
  LET parts == {RegionSet(m) : m \in Items(Members(s))}
  IN  CASE s[1] \in DOMAIN AtomRegion -> AtomRegion[s[1]]
        [] s = Nothing -> {}
        [] s = Anything -> Regions
        [] Is("Not", s) -> OutsideRegions(RegionSet(Inner(s)))
        [] Is("Union", s) /\ Opaque \notin parts -> UNION parts
        [] Is("Meet", s) /\ Opaque \notin parts ->
             {r \in Regions : \A part \in parts : r \in part}
        [] OTHER -> Opaque

(* A union past the members the partition cannot read.                     *)
CoversTheUniverse(s) ==
  IF Is("Union", s)
  THEN Regions = UNION ({RegionSet(m) : m \in Items(Members(s))} \ {Opaque})
  ELSE RegionSet(s) = Regions

-----------------------------------------------------------------------------
(* The kinds: what every value of a term is built as.                      *)

Kinds == {"bool", "int", "str", "list", "dict"}
Untagged == "untagged"

RECURSIVE TypeTag(_)
TypeTag(s) ==
  CASE Is("Bool", s) -> "bool"
    [] Is("Int", s) -> "int"
    [] Is("Str", s) -> "str"
    [] Is("Map", s) -> "dict"
    [] Is("Refine", s) -> TypeTag(Inner(s))
    [] OTHER -> Untagged

Sharing(kind) == IF kind \in {"bool", "int"} THEN {"bool", "int"} ELSE {kind}

RECURSIVE Whole(_), Possibly(_)
Whole(s) ==
  CASE s = Anything -> Kinds
    [] s[1] \in {"Bool", "Str"} -> {TypeTag(s)}
    [] s = Int -> Sharing("int")
    [] Is("Union", s) -> UNION {Whole(m) : m \in Items(Members(s))}
    [] Is("Meet", s) -> {k \in Kinds : \A m \in Items(Members(s)) : k \in Whole(m)}
    [] Is("Not", s) -> Kinds \ Possibly(Inner(s))
    [] Is("Ref", s) /\ Inner(s) \in DOMAIN Defs -> Whole(Defs[Inner(s)])
    [] OTHER -> {}
Possibly(s) ==
  CASE s = Nothing -> {}
    [] Is("Union", s) -> UNION {Possibly(m) : m \in Items(Members(s))}
    [] Is("Meet", s) -> {k \in Kinds : \A m \in Items(Members(s)) : k \in Possibly(m)}
    [] Is("Not", s) -> Kinds \ Whole(Inner(s))
    [] Is("Refine", s) -> Possibly(Inner(s))
    [] Is("Ref", s) /\ Inner(s) \in DOMAIN Defs -> Possibly(Defs[Inner(s)])
    [] TypeTag(s) # Untagged -> Sharing(TypeTag(s))
    [] OTHER -> Kinds

(* Whether two terms provably share no value.  The bindings decline to say *)
(* which kinds a class admits.                                             *)
ReadByKind(s) ==
  \/ TypeTag(s) # Untagged
  \/ Is("Union", s) /\ \A m \in Items(Members(s)) : TypeTag(m) # Untagged

RECURSIVE DisjointWith(_, _)
DisjointWith(a, b) ==
  LET excludes(meet, other) ==
        \E m \in Items(Members(meet)) : ReadByKind(m) /\ DisjointWith(m, other)
  IN  CASE a = Nothing \/ b = Nothing -> TRUE
        [] Is("Union", a) -> \A m \in Items(Members(a)) : DisjointWith(m, b)
        [] Is("Union", b) -> \A m \in Items(Members(b)) : DisjointWith(a, m)
        [] Is("Map", a) /\ Is("Map", b) ->
             \E f \in Items(Required(a)), g \in Items(Required(b)) :
               f.name = g.name /\ DisjointWith(f.schema, g.schema)
        [] TypeTag(a) # Untagged /\ TypeTag(b) # Untagged -> TypeTag(b) \notin Sharing(TypeTag(a))
        [] Is("Meet", a) /\ TypeTag(b) # Untagged -> excludes(a, b)
        [] Is("Meet", b) /\ TypeTag(a) # Untagged -> excludes(b, a)
        [] OTHER -> FALSE

HasDisjointPair(members) ==
  \E i, j \in DOMAIN members : i < j /\ DisjointWith(members[i], members[j])

-----------------------------------------------------------------------------
(* Whether the exact empty dict is a value, and whether a value is seen    *)
(* without a descent.                                                      *)

RECURSIVE HoldsTheEmptyDict(_)
HoldsTheEmptyDict(s) ==
  LET parts == {HoldsTheEmptyDict(m) : m \in Items(Members(s))}
      inner == HoldsTheEmptyDict(Inner(s))
  IN  CASE s = Anything -> "yes"
        [] s[1] \in {"Nothing", "Bool", "Int", "Str"} -> "no"
        [] Is("Map", s) -> IF Required(s) = <<>> THEN "yes" ELSE "no"
        [] Is("Refine", s) -> IF inner = "yes" THEN "unread" ELSE inner
        [] Is("Not", s) ->
             CASE inner = "yes" -> "no" [] inner = "no" -> "yes" [] OTHER -> inner
        [] Is("Union", s) ->
             IF "yes" \in parts THEN "yes" ELSE IF "unread" \in parts THEN "unread" ELSE "no"
        [] Is("Meet", s) ->
             IF "no" \in parts THEN "no" ELSE IF "unread" \in parts THEN "unread" ELSE "yes"
        [] OTHER -> "unread"

RECURSIVE HoldsAValueShallowly(_)
HoldsAValueShallowly(s) ==
  \/ s[1] \in {"Anything", "Bool", "Int", "Str"}
  \/ Is("Map", s) /\ Required(s) = <<>>
  \/ Is("Union", s) /\ \E m \in Items(Members(s)) : HoldsAValueShallowly(m)
=============================================================================
