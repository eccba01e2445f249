--------------------------- MODULE BuildMeaning ---------------------------
(***************************************************************************)
(* What the frontend's schemas mean and how large they are, read from the  *)
(* annotations alone: no stack, no table of definitions, no count.         *)
(*                                                                         *)
(* A set is written by its members to a depth: the shapes a value of it    *)
(* may have, each with the sets of its parts.  A union is the shapes of    *)
(* its members, so how it was flattened shows nowhere, and an alias and a  *)
(* reference are what they stand for.                                      *)
(***************************************************************************)
EXTENDS Refusals

CONSTANT MeaningDepth  \* bound: how deep two meanings are compared

Cut == {<<"...", <<>>>>}

RECURSIVE Denoted(_, _)
Denoted(a, k) ==
    LET r == Reading[a]
        Nested[n \in 1 .. r.whole + 1, left \in 0 .. k] ==
            IF left = 0 THEN Cut
            ELSE {<<r.name, IF n = r.whole THEN <<>> ELSE <<Nested[n + 1, left - 1]>> >>}
    IN  IF k = 0 THEN Cut
        ELSE CASE r.kind = "scalar" -> {<<r.name, <<>> >>}
               [] r.kind = "validator" -> Nested[1, k]
               [] r.kind \in {"form", "class"} ->
                    {<<r.name, [i \in DOMAIN r.parts |-> Denoted(r.parts[i], k - 1)]>>}
               [] r.kind = "join" -> UNION {Denoted(r.parts[i], k) : i \in DOMAIN r.parts}
               [] r.kind \in {"alias", "newtype"} -> Denoted(r.parts[1], k)

\* The set a schema denotes, its references read in ds.
RECURSIVE Means(_, _, _)
Means(t, ds, k) ==
    LET parts == Parts(t)
    IN  IF k = 0 THEN Cut
        ELSE IF t[1].ref # 0 THEN Means(ds[t[1].ref], ds, k)
        ELSE IF t[1].name = "|" THEN UNION {Means(parts[i], ds, k) : i \in DOMAIN parts}
        ELSE {<<t[1].name, [i \in DOMAIN parts |-> Means(parts[i], ds, k - 1)]>>}

\* The schema a build ends with denotes what its annotation says, whichever
\* aliases name one another and wherever each was tied.
ReadsAsWritten ==
    EndedOk =>
        Means(last.result.term, last.defs, MeaningDepth) = Denoted(last.ann, MeaningDepth)

-----------------------------------------------------------------------------
(* How large the schema of an annotation is, aliases that name themselves  *)
(* held once.  (Two aliases that name each other are tied where the first  *)
(* of them is met, which these do not read.)                               *)

NamesItself(a) == Reading[a].kind = "alias" /\ a \in Names[a]
Tied(a)        == {b \in Within(a) : NamesItself(b)}
Largest(S)     == CHOOSE n \in S : \A m \in S : m <= n

RECURSIVE Levelled(_), Spelt(_)
Levelled(a) ==
    LET r == Reading[a]
    IN  CASE r.kind \in {"scalar", "refused"} \/ NamesItself(a) -> 1
          [] r.kind = "validator" -> r.whole
          [] r.kind \in {"alias", "newtype"} /\ ~NamesItself(a) -> Levelled(r.parts[1])
          [] r.kind \in {"form", "join", "class"} -> 1 + Largest({0} \cup {Levelled(b) : b \in PartsOf[a]})
Spelt(a) ==
    LET r == Reading[a]
    IN  CASE r.kind \in {"scalar", "refused"} \/ NamesItself(a) -> 1
          [] r.kind = "validator" -> r.whole
          [] r.kind \in {"alias", "newtype"} /\ ~NamesItself(a) -> Spelt(r.parts[1])
          [] r.kind \in {"form", "join", "class"} -> 1 + SumFunction([i \in DOMAIN r.parts |-> Spelt(r.parts[i])])

TooDeep(a)  == Largest({Levelled(a)} \cup {Levelled(Reading[b].parts[1]) : b \in Tied(a)}) > MaxSchemaDepth
TooLarge(a) == Spelt(a) + SumFunction([b \in Tied(a) |-> Spelt(Reading[b].parts[1])]) > MaxSchemaNodes

\* The frontend refuses nothing for its depth that the construction bound would
\* accept, in a build begun inside another too.
DeepIsDeep == Refused("deep") => NeverEnds(last.ann) \/ TooDeep(last.ann)

\* A schema within the node bound is never refused for its size.
LargeIsLarge == Refused("large") => NeverEnds(last.ann) \/ TooLarge(last.ann)
=============================================================================
