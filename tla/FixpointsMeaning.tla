-------------------------- MODULE FixpointsMeaning --------------------------
(***************************************************************************)
(* What the validators of Fixpoints mean, and what is promised of them.    *)
(*                                                                         *)
(* A term is read twice: as it was written, a mu-term whose variables are  *)
(* the markers, and as the schema and the table it was built into.  Both   *)
(* are read on values of bounded height, a marker still free as each of a  *)
(* few sets of values.                                                     *)
(***************************************************************************)
EXTENDS Fixpoints, Composing, TLC

CONSTANTS Height,        \* of the values read
          Environments   \* what a marker still free may stand for

\* Values: a scalar, a pair of them, a list of at most one item.
Scalars == {<<"int">>, <<"str">>}

RECURSIVE ValuesOf(_)

ValuesOf(h) ==
  IF h = 0 THEN Scalars
  ELSE Scalars \cup {<<"pair", <<v, w>> >> : v, w \in Scalars}
         \cup {<<"list", << >> >>} \cup {<<"list", <<v>> >> : v \in ValuesOf(h - 1)}

Values == ValuesOf(Height)

RECURSIVE Admits(_, _, _, _), Means(_, _, _, _)

\* Whether the schema admits the value, its definitions unfolded.
Admits(v, s, defs, free) ==
  CASE Tag(s) = "anything" -> TRUE
    [] Tag(s) = "nothing"  -> FALSE
    [] Tag(s) \in {"int", "str"} -> v = s
    [] Tag(s) = "list"  -> /\ v[1] = "list"
                           /\ \A x \in ElementsOf(v[2]) : Admits(x, s[2], defs, free)
    [] Tag(s) = "pair"  -> /\ v[1] = "pair"
                           /\ \A k \in 1..2 : Admits(v[2][k], s[k + 1], defs, free)
    [] Tag(s) = "union" -> \E m \in ElementsOf(s[2]) : Admits(v, m, defs, free)
    [] Tag(s) = "meet"  -> \A m \in ElementsOf(s[2]) : Admits(v, m, defs, free)
    [] Tag(s) = "not"   -> ~Admits(v, s[2], defs, free)
    [] Tag(s) = "ref"   -> Admits(v, defs[s[2]], defs, free)
    [] Tag(s) = "self"  -> v \in free

\* Whether the term as written does, bound holding the bodies its variables
\* are bound to.
Means(v, w, bound, free) ==
  CASE Tag(w) = "mu"    -> Means(v, w[3], [t \in {w[2]} |-> w[3]] @@ bound, free)
    [] Tag(w) = "self"  -> IF w[2] \in DOMAIN bound
                           THEN Means(v, bound[w[2]], bound, free)
                           ELSE v \in free
    [] Tag(w) = "list"  -> /\ v[1] = "list"
                           /\ \A x \in ElementsOf(v[2]) : Means(x, w[2], bound, free)
    [] Tag(w) = "pair"  -> /\ v[1] = "pair"
                           /\ \A k \in 1..2 : Means(v[2][k], w[k + 1], bound, free)
    [] Tag(w) = "union" -> \E m \in ElementsOf(w[2]) : Means(v, m, bound, free)
    [] Tag(w) = "meet"  -> \A m \in ElementsOf(w[2]) : Means(v, m, bound, free)
    [] Tag(w) = "not"   -> ~Means(v, w[2], bound, free)
    [] OTHER            -> Admits(v, w, << >>, free)

RECURSIVE FreeIn(_), MeetsBare(_, _)

\* The markers a written term leaves free, and whether it meets the marker
\* with no list or pair in between.
FreeIn(w) ==
  CASE Tag(w) = "mu"   -> FreeIn(w[3]) \ {w[2]}
    [] Tag(w) = "self" -> {w[2]}
    [] OTHER           -> UNION {FreeIn(c) : c \in ElementsOf(Children(w))}

MeetsBare(w, token) ==
  CASE Tag(w) = "mu"              -> MeetsBare(w[3], token)
    [] Tag(w) = "self"            -> w[2] = token
    [] Tag(w) \in {"list", "pair"} -> FALSE
    [] OTHER -> \E c \in ElementsOf(Children(w)) : MeetsBare(c, token)

RECURSIVE Proper(_)

\* No variable in the term meets itself so: what it says is then a set.
Proper(w) ==
  CASE Tag(w) = "mu" -> ~MeetsBare(w[3], w[2]) /\ Proper(w[3])
    [] OTHER         -> \A c \in ElementsOf(Children(w)) : Proper(c)

-----------------------------------------------------------------------------
(* One schema up to the numbering of its definitions: a permutation of the *)
(* table makes one validator the other.                                    *)

Permutations_(n) == {p \in [1..n -> 1..n] : \A i, j \in 1..n : p[i] = p[j] => i = j}

IsUnder(p, v, w) ==
  /\ Renumbered(v.schema, p) = w.schema
  /\ \A i \in DOMAIN p : Renumbered(v.defs[i], p) = w.defs[p[i]]

Same(v, w) ==
  /\ Len(v.defs) = Len(w.defs)
  /\ \E p \in Permutations_(Len(v.defs)) : IsUnder(p, v, w)

\* Two definitions of one table that are one up to its own numbering.
Twins(v) ==
  \E p \in Permutations_(Len(v.defs)) :
    \E i \in DOMAIN p :
      /\ p[i] # i
      /\ \A j \in Reached({i}, v.defs) : Renumbered(v.defs[j], p) = v.defs[p[j]]

-----------------------------------------------------------------------------
(* What is promised.                                                       *)

\* A call is refused for its placeholder only where what was written has a
\* marker that no builder running on the thread of the call stands for, and for
\* its body only where that meets its own variable outside every structure:
\* checked and recursive.
RefusedForCause ==
  /\ refused.cause = "placeholder" =>
       \E th \in refused.by : FreeIn(refused.of) \ Running(th) # {}
  /\ refused.cause = "not contractive" =>
       MeetsBare(refused.of[3], refused.of[2])

\* Every name is of a definition there is, every definition is reached, and
\* none meets itself outside every structure, its own body or another's in
\* between: what checked and recursive leave.
Whole(v) ==
  /\ Reached(Named(v.schema), v.defs) = DOMAIN v.defs
  /\ \A i \in DOMAIN v.defs : i \notin BareReached(Bare(v.defs[i]), v.defs)

\* A validator made is whole, and admits what it was written to admit, whatever
\* table its definitions were composed into, shared with, renumbered in and
\* dropped from (a join that meets its variable bare and folds to a bound is
\* read as the bound alone).
ReadsAsWritten ==
  \A v \in made :
    /\ Whole(v)
    /\ Proper(v.written) =>
         \A free \in Environments, x \in Values :
           Admits(x, v.schema, v.defs, free) <=> Means(x, v.written, << >>, free)

\* Equal validators are one schema up to how definitions are numbered: no pair
\* of definitions outlives the reading that made it, equality.rs.
EqualIsSame == \A v, w \in made : SchemasEqual(v, w) => Same(v, w)

\* And hash alike, whatever the order of definitions and members.
EqualHashAlike ==
  \A v, w \in made :
    SchemasEqual(v, w) => Digest(v.schema, v.defs) = Digest(w.schema, w.defs)

\* One schema up to how its definitions are numbered is equal, where no two
\* definitions of the table are one.
SameIsEqual ==
  \A v, w \in made : Same(v, w) /\ ~Twins(v) => SchemasEqual(v, w)

-----------------------------------------------------------------------------
(* What comments of the code say that it does not keep.                    *)

Finished == {v \in made : AllMarkers(v) = {}}

\* Every definition of a finished validator names itself, by way of others or
\* not: recursive says a body that never names the fixpoint is that body.
DefinitionsNameThemselves ==
  \A v \in Finished : \A i \in DOMAIN v.defs : i \in Reached(Named(v.defs[i]), v.defs)
=============================================================================
