------------------------------ MODULE Rewrites ------------------------------
(***************************************************************************)
(* Schema terms that name definitions, and the rewrites that move those    *)
(* names: crates/valgebra-core/src/ir.rs, ir/transform.rs and oracle.rs.   *)
(*                                                                         *)
(* A term is a tuple that begins with its constructor's name.  Two         *)
(* scalars stand for every leaf, the homogeneous list and the pair for     *)
(* every structural constructor, and a join's or a meet's members are a    *)
(* sequence in the order construction sorts them in.  <<"ref", i>> names   *)
(* the i-th definition of the table the term is read with (the code counts *)
(* from 0, a sequence from 1), and <<"self", t>> is the marker a           *)
(* recursive builder's placeholder carries.                                *)
(***************************************************************************)
EXTENDS Naturals, Sequences, FiniteSets

Anything == <<"anything">>
Nothing  == <<"nothing">>
Int      == <<"int">>
Str      == <<"str">>

Joins == {"union", "meet"}

Tag(s) == s[1]

\* What a traversal reads below a node.
Children(s) ==
  CASE Tag(s) \in {"list", "not"} -> << s[2] >>
    [] Tag(s) = "pair"            -> << s[2], s[3] >>
    [] Tag(s) \in Joins           -> s[2]
    [] OTHER                      -> << >>

ElementsOf(seq) == {seq[k] : k \in DOMAIN seq}

-----------------------------------------------------------------------------
(* The order terms are sorted in: the constructors in the order they are   *)
(* declared, then what each holds, from the left.                          *)

Rank == [anything |-> 1, nothing |-> 2, int |-> 3, str |-> 4, list |-> 5,
         pair |-> 6, union |-> 7, meet |-> 8, not |-> 9, ref |-> 10, self |-> 11]

RECURSIVE Precedes(_, _), PrecedesIn(_, _)

Precedes(a, b) ==
  IF Tag(a) # Tag(b) THEN Rank[Tag(a)] < Rank[Tag(b)]
  ELSE IF Tag(a) \in {"ref", "self"} THEN a[2] < b[2]
  ELSE PrecedesIn(Children(a), Children(b))

PrecedesIn(as, bs) ==
  /\ bs # << >>
  /\ \/ as = << >>
     \/ Precedes(Head(as), Head(bs))
     \/ Head(as) = Head(bs) /\ PrecedesIn(Tail(as), Tail(bs))

\* A set of members, sorted and without repeats.
Canonical(members) ==
  LET set == ElementsOf(members)
  IN  [k \in 1..Cardinality(set) |->
         CHOOSE m \in set : Cardinality({n \in set : Precedes(n, m)}) = k - 1]

-----------------------------------------------------------------------------
(* Moving names.  refs maps the indices it moves and selves the markers it *)
(* resolves; any other name stands.  A set whose members moved is put back *)
(* in order, and no law is read again.                                     *)

RECURSIVE Renamed(_, _, _)

Renamed(s, refs, selves) ==
  CASE Tag(s) = "ref" /\ s[2] \in DOMAIN refs    -> <<"ref", refs[s[2]]>>
    [] Tag(s) = "self" /\ s[2] \in DOMAIN selves -> <<"ref", selves[s[2]]>>
    [] Tag(s) \in {"list", "not"}  -> <<Tag(s), Renamed(s[2], refs, selves)>>
    [] Tag(s) = "pair" ->
         <<"pair", Renamed(s[2], refs, selves), Renamed(s[3], refs, selves)>>
    [] Tag(s) \in Joins ->
         <<Tag(s), Canonical([k \in DOMAIN s[2] |-> Renamed(s[2][k], refs, selves)])>>
    [] OTHER -> s

Renumbered(s, table) == Renamed(s, table, << >>)

\* Past the first `shift` slots of the table the definitions are appended to.
Reindexed(defs, shift) ==
  [i \in DOMAIN defs |-> Renumbered(defs[i], [j \in DOMAIN defs |-> j + shift])]

ResolveSelf(s, token, index) == Renamed(s, << >>, [t \in {token} |-> index])

-----------------------------------------------------------------------------
(* Reading a term through its definitions.                                 *)

RECURSIVE Named(_)

\* The indices a term names, and no further.
Named(s) ==
  IF Tag(s) = "ref" THEN {s[2]}
  ELSE UNION {Named(c) : c \in ElementsOf(Children(s))}

RECURSIVE Reached(_, _)

Reached(indices, defs) ==
  LET more == indices \cup
                UNION {Named(defs[i]) : i \in indices \cap DOMAIN defs}
  IN  IF more = indices THEN indices ELSE Reached(more, defs)

\* A schema with the definitions it reaches, in the order they stood in.
Pruned(schema, defs) ==
  LET kept  == Reached(Named(schema), defs)
      moved == [i \in kept |-> Cardinality({j \in kept : j <= i})]
      at(k) == CHOOSE i \in kept : moved[i] = k
  IN  IF kept = DOMAIN defs
      THEN [schema |-> schema, defs |-> defs]
      ELSE [schema |-> Renumbered(schema, moved),
            defs   |-> [k \in 1..Cardinality(kept) |-> Renumbered(defs[at(k)], moved)]]

RECURSIVE Bare(_)

\* The definitions a term names outside every structural constructor.
Bare(s) ==
  CASE Tag(s) = "ref"               -> {s[2]}
    [] Tag(s) \in {"list", "pair"}  -> {}
    [] OTHER -> UNION {Bare(c) : c \in ElementsOf(Children(s))}

RECURSIVE BareReached(_, _)

BareReached(indices, defs) ==
  LET more == indices \cup
                UNION {Bare(defs[i]) : i \in indices \cap DOMAIN defs}
  IN  IF more = indices THEN indices ELSE BareReached(more, defs)

\* A defect: only what the body itself shows is read.
OccursUnguardedAlone(body, target, defs) == target \in Bare(body)

\* Whether the body meets the definition unguarded, its own or another's body
\* in between: a definition is entered once.
OccursUnguardedUnder(body, target, defs) ==
  target \in BareReached(Bare(body), defs)

RECURSIVE Markers(_)

Markers(s) ==
  IF Tag(s) = "self" THEN {s[2]}
  ELSE UNION {Markers(c) : c \in ElementsOf(Children(s))}

RECURSIVE DepthOf(_), NodesOf(_), SumOver(_)

MaxOver(set) == CHOOSE n \in set : \A m \in set : m <= n

DepthOf(s) == 1 + MaxOver({0} \cup {DepthOf(c) : c \in ElementsOf(Children(s))})

SumOver(seq) == IF seq = << >> THEN 0 ELSE NodesOf(Head(seq)) + SumOver(Tail(seq))

NodesOf(s) == 1 + SumOver(Children(s))

\* What one walk of a tree reads off it.
MeasureOf(s) == [depth |-> DepthOf(s), nodes |-> NodesOf(s), markers |-> Markers(s)]

-----------------------------------------------------------------------------
(* Joins and meets.                                                        *)

\* Whether a term is known to be a set: every definition it reaches is at
\* hand, and no marker stands in for one.
DenotesASet(s, defs) ==
  LET reached == Reached(Named(s), defs)
  IN  /\ reached \subseteq DOMAIN defs
      /\ Markers(s) = {} /\ \A i \in reached : Markers(defs[i]) = {}

\* A member beside its own complement, or every part of a complemented join
\* (in a meet, of a complemented meet) beside it.
ComplementaryPair(op, members, defs) ==
  \E m \in ElementsOf(members) :
    /\ Tag(m) = "not"
    /\ \/ m[2] \in ElementsOf(members)
       \/ Tag(m[2]) = op /\ ElementsOf(m[2][2]) \subseteq ElementsOf(members)
    /\ DenotesASet(m[2], defs)

RECURSIVE Flat(_, _)

Flat(op, members) ==
  IF members = << >> THEN << >>
  ELSE LET m == Head(members) IN
       (IF Tag(m) = op THEN m[2] ELSE << m >>) \o Flat(op, Tail(members))

Absorbing(op) == IF op = "union" THEN Anything ELSE Nothing
Neutral(op)   == IF op = "union" THEN Nothing ELSE Anything

Settled(op, flat, defs) ==
  CASE ComplementaryPair(op, flat, defs) -> Absorbing(op)
    [] Len(flat) = 0 -> Neutral(op)
    [] Len(flat) = 1 -> flat[1]
    [] OTHER         -> <<op, flat>>

Joined(op, members, defs) ==
  IF Absorbing(op) \in ElementsOf(members) THEN Absorbing(op)
  ELSE Settled(op,
               Canonical(Flat(op, SelectSeq(members, LAMBDA m : m # Neutral(op)))),
               defs)

Complemented(s) ==
  CASE Tag(s) = "not" -> s[2]
    [] s = Anything   -> Nothing
    [] s = Nothing    -> Anything
    [] OTHER          -> <<"not", s>>
=============================================================================
