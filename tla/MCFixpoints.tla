---------------------------- MODULE MCFixpoints ----------------------------
(***************************************************************************)
(* Fixpoints on small instances.                                           *)
(***************************************************************************)
EXTENDS FixpointsMeaning

CONSTANTS t1, t2

\* Two threads pass placeholders about, within calls and past them.
Passed ==
  [begun |-> {}, threads |-> {t1, t2}, leaf |-> {},
   forms |-> {"list", "itself"}, most |-> 4, calls |-> 2]

\* And pair each other's while both their builders run, or one does.
Mixed == [Passed EXCEPT !.forms = {"pair"}, !.most = 3]

\* One thread nests calls, over pairs and over joins.
Nested ==
  [begun |-> {}, threads |-> {t1}, leaf |-> {Int},
   forms |-> {"pair"}, most |-> 3, calls |-> 2]

Folded ==
  [begun |-> {}, threads |-> {t1}, leaf |-> {Int},
   forms |-> {"union", "complement", "list"}, most |-> 3, calls |-> 2]

-----------------------------------------------------------------------------
(* Finished fixpoints of two names, as Finish makes them, to compose.      *)

Leaf(s)   == Validator(s, << >>, s)
Marker(t) == Validator(<<"self", t>>, << >>, <<"self", t>>)

TiedTo(token, v, tied) ==
  AsPruned(Validator(v.schema, v.defs, <<"mu", token, v.written>>),
           Pruned(<<"ref", tied.index>>, Append(tied.defs, tied.body)))

Fixpoint(token, v) ==
  IF token \in AllMarkers(v) THEN TiedTo(token, v, Tied(v, token))
  ELSE [v EXCEPT !.written = <<"mu", token, @>>]

\* One scalar, or a list of what v says: the scalar tells one level from another.
ChainOf(token, scalar, v) ==
  Fixpoint(token, Compiles("union", <<Leaf(scalar), Compiles("list", << v >>)>>))

\* The inner names itself or the outer, the outer itself or the inner: chains
\* whose levels go round, are all alike, or are alike past the first.
Levels(inner) ==
  {Marker(11)} \cup {ChainOf(12, inner, v) : v \in {Marker(11), Marker(12)}}

Chains == UNION {{ChainOf(11, outer, v) : v \in Levels(inner)} : outer, inner \in {Int, Str}}

\* One scalar, a list of itself, or a pair of a chain that is a table's already.
Fork(scalar, chain) ==
  Fixpoint(11, Compiles("union", <<Leaf(scalar), Compiles("list", << Marker(11) >>),
                                   Compiles("pair", <<chain, chain>>)>>))

Forks == {Fork(scalar, ChainOf(12, below, Marker(12))) : scalar, below \in {Int, Str}}

\* And of pairs, empty all of them: the tables of equal sets that differ.
Inner == {Fixpoint(12, Compiles("pair", <<x, y>>)) :
            x \in {Leaf(Int), Marker(11), Marker(12)}, y \in {Marker(12)}}

Library ==
  {Fixpoint(11, Compiles("pair", <<v, w>>)) :
     v \in Inner \cup {Marker(11)}, w \in Inner \cup {Marker(11), Leaf(Int)}}

TablesOf(finished) ==
  {[begun |-> {v, w}, threads |-> {t1}, leaf |-> {},
    forms |-> {"union", "complement"}, most |-> 4, calls |-> 0] : v, w \in finished}

MCPrograms == {Passed, Mixed, Nested, Folded} \cup TablesOf(Library)
                \cup TablesOf(Chains \cup Forks)

\* The annotation Union over the top, inside a builder.
Unions == [Nested EXCEPT !.leaf = {Anything}, !.forms = {"pair", "Union"}]

UnionsAlone == {Unions}

FreeSets == {{}, {<<"int">>}}
=============================================================================
