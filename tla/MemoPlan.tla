------------------------------ MODULE MemoPlan ------------------------------
(***************************************************************************)
(* The memo plan of a validator: which definitions a walk may remember,    *)
(* and which nodes arm the memo (check/memo.rs, `plan`).                   *)
(*                                                                         *)
(* A schema is a table of nodes.  Each node is a record                    *)
(*   kind    what the walk does at it (NodeKinds)                          *)
(*   kids    its members, or the prefix of a sequence                      *)
(*   tail    the repeated element of a sequence, or NoNode                 *)
(*   def     the definition a "ref" names                                  *)
(* and, for the kinds that test the value itself,                          *)
(*   admits, raises, kills   the values it admits, and those user code it  *)
(*           runs raises for, ordinarily and fatally.                      *)
(* The graph of children has no cycle: only a reference, whose definition  *)
(* is no child of it, closes one.                                          *)
(***************************************************************************)
EXTENDS Integers, Sequences, FiniteSets

CONSTANTS Node,     \* the nodes of the table
          NoNode,   \* the absent tail
          Def,      \* the definitions
          Schema    \* [Node -> record], the table

ASSUME NoNodeIsNoNode == NoNode \notin Node

NodeKinds == {"leaf", "literal", "pred", "seq", "union", "meet", "not", "ref"}

\* The schemas directly below a node, references not followed.
Children(n) == {Schema[n].kids[i] : i \in DOMAIN Schema[n].kids} \cup ({Schema[n].tail} \ {NoNode})

\* A node and every node below it.
below[n \in Node] == {n} \cup UNION {below[m] : m \in Children(n)}

ASSUME NodesAreTrees ==
    /\ IsFiniteSet(Node)
    /\ \A n \in Node : /\ n \in below[n] /\ below[n] \subseteq Node
                       /\ \A m \in Children(n) : below[m] \subseteq below[n] \ {n}

\* The definitions a node names, without following them.
names[n \in Node] ==
    IF Schema[n].kind = "ref" THEN {Schema[n].def}
    ELSE UNION {names[m] : m \in Children(n)}

\* A node that calls user code at each occurrence, references not followed.
calls[n \in Node] ==
    Schema[n].kind = "pred" \/ \E m \in Children(n) : calls[m]

\* `named` together with everything the definitions it names reach.
Through(reach, named) == named \cup UNION {reach[d] : d \in named}

\* One pass over the table follows each reach through the reaches it names.
Pass(reach) == [d \in Def |-> Through(reach, reach[d])]

\* As many passes as the table is long.
Closure(named) ==
    LET after[i \in Nat] == IF i = 0 THEN named ELSE Pass(after[i - 1])
    IN  after[Cardinality(Def)]

\* Two members of the node reach a remembered definition in common.
Shares(reach, remembered, n) ==
    LET Reached(i) == Through(reach, names[Schema[n].kids[i]]) \cap remembered
    IN  \E i, j \in DOMAIN Schema[n].kids : i < j /\ Reached(i) \cap Reached(j) # {}

\* The plan of the schema at `root` over a table of definitions, whose bodies
\* are the nodes `defs` gives.
Plan(root, defs) ==
    LET reach      == Closure([d \in Def |-> names[defs[d]]])
        calling    == {d \in Def : calls[defs[d]]}
        remembered == {d \in Def \ calling : reach[d] \cap calling = {}}
        nodes      == below[root] \cup UNION {below[defs[d]] : d \in Def}
    IN  [remembered |-> remembered,
         shared |-> {n \in Node : /\ n \in nodes /\ Schema[n].kind \in {"union", "meet"}
                                  /\ Shares(reach, remembered, n)}]
=============================================================================
