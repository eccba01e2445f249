------------------------------ MODULE Composing ------------------------------
(***************************************************************************)
(* Compiling a form over validators into one table of definitions:         *)
(* build.rs (compose, place_definitions, combine) and the combinators of   *)
(* lib.rs.                                                                 *)
(***************************************************************************)
EXTENDS Pairing

-----------------------------------------------------------------------------
(* Composing: an inner validator's definitions find their places in the    *)
(* table being built, and its schema names them there.                     *)

\* Where the whole block of them stands already.
Offsets(inner, defs) ==
  {start \in 0..Len(defs) :
     /\ start + Len(inner) <= Len(defs)
     /\ SubSeq(defs, start + 1, start + Len(inner)) = Reindexed(inner, start)}

Shifted(inner, defs, start) ==
  [defs |-> IF start = Len(defs) THEN defs \o Reindexed(inner, start) ELSE defs,
   table |-> [i \in DOMAIN inner |-> i + start]]

\* A defect: the names of those found go to the last of the table.
RenamedToTheLast(inner, defs, paired) ==
  LET rest  == DOMAIN inner \ DOMAIN paired
      table == [i \in DOMAIN inner |->
                  IF i \in rest THEN Len(defs) + Cardinality({j \in rest : j <= i})
                  ELSE Len(defs)]
      at(k) == CHOOSE i \in rest : table[i] = Len(defs) + k
  IN  [defs |-> defs \o [k \in 1..Cardinality(rest) |-> Renumbered(inner[at(k)], table)],
       table |-> table]

\* Those a pairing found where they are, the rest appended.
RenamedInto(inner, defs, paired) ==
  LET rest  == DOMAIN inner \ DOMAIN paired
      table == [i \in DOMAIN inner |->
                  IF i \in rest THEN Len(defs) + Cardinality({j \in rest : j <= i})
                  ELSE paired[i]]
      at(k) == CHOOSE i \in rest : table[i] = Len(defs) + k
  IN  [defs |-> defs \o [k \in 1..Cardinality(rest) |-> Renumbered(inner[at(k)], table)],
       table |-> table]

Placed(inner, defs, paired) ==
  IF paired = << >> THEN Shifted(inner, defs, Len(defs))
  ELSE RenamedInto(inner, defs, paired)

PlaceDefinitions(inner, defs) ==
  LET offsets == Offsets(inner, defs) IN
  CASE inner = << >>  -> Shifted(inner, defs, Len(defs))
    [] inner # << >> /\ offsets # {} ->
         Shifted(inner, defs, CHOOSE s \in offsets : \A o \in offsets : s <= o)
    [] OTHER -> Placed(inner, defs, Placement(inner, defs))

Appended(read, v, placed) ==
  [schemas |-> Append(read.schemas, Renumbered(v.schema, placed.table)),
   defs    |-> placed.defs]

RECURSIVE Composed(_)

\* The arguments compiled into one table, in order.
Composed(args) ==
  IF args = << >> THEN [schemas |-> << >>, defs |-> << >>]
  ELSE LET read == Composed(SubSeq(args, 1, Len(args) - 1))
           v    == args[Len(args)]
       IN  Appended(read, v, PlaceDefinitions(v.defs, read.defs))

\* The node a form puts over what it read: the native forms list and pair and
\* the annotation Union, which reads no definitions; the functions union,
\* intersection and complement; and an argument alone.
Node(form, schemas, defs) ==
  CASE form = "list"         -> <<"list", schemas[1]>>
    [] form = "pair"         -> <<"pair", schemas[1], schemas[2]>>
    [] form = "Union"        -> Joined("union", schemas, << >>)
    [] form = "union"        -> Joined("union", schemas, defs)
    [] form = "intersection" -> Joined("meet", schemas, defs)
    [] form = "complement"   -> Complemented(schemas[1])
    [] form = "itself"       -> schemas[1]

Compiled(form, args) ==
  LET read == Composed(args)
  IN  [schema |-> Node(form, read.schemas, read.defs), defs |-> read.defs]
=============================================================================
