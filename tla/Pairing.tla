------------------------------ MODULE Pairing ------------------------------
(***************************************************************************)
(* Whether two schemas are one, up to how their definitions are numbered:  *)
(* crates/valgebra-py/src/equality.rs.                                     *)
(*                                                                         *)
(* A comparison pairs definitions as it meets references, before it reads  *)
(* their bodies, and takes back what a refusal paired wherever it goes on  *)
(* to try something else.  It is threaded through the reading: a reading   *)
(* is taken with the pairs and the steps so far, and answers with those it *)
(* left.  Pooled constants are not in the fragment, so reading one by its  *)
(* slot and by its value differ only in whether a digest narrows a search. *)
(***************************************************************************)
EXTENDS Rewrites

CONSTANTS MaxComparisonDepth, MaxComparisonSteps

ASSUME ComparisonBounds ==
  MaxComparisonDepth \in Nat /\ MaxComparisonSteps \in Nat

\* A reading so far: the pairs <<left, right>> in the order made, the steps
\* taken, and the answer.
Start == [yes |-> TRUE, pairs |-> << >>, steps |-> 0]

No(r)  == [r EXCEPT !.yes = FALSE]
Yes(r) == [r EXCEPT !.yes = TRUE]

\* A defect: what a refusal paired is left.
LeftPaired(mark, r) == r

TakenBackTo(mark, r) ==
  IF r.yes THEN r ELSE [r EXCEPT !.pairs = SubSeq(r.pairs, 1, mark)]

-----------------------------------------------------------------------------
(* The digest: a term as a term with its sets as bags, a reference as the  *)
(* body it names with that body's own references unread.                   *)

BagOf(seq) == [d \in ElementsOf(seq) |-> Cardinality({k \in DOMAIN seq : seq[k] = d})]

\* A defect: members are folded in their order.
InItsOrder(digests) == digests

Unordered(digests) == BagOf(digests)

RECURSIVE Digest(_, _)

Digest(s, defs) ==
  CASE Tag(s) = "ref" ->
         IF s[2] \in DOMAIN defs THEN <<"ref", Digest(defs[s[2]], << >>)>> ELSE <<"ref">>
    [] Tag(s) = "self" -> <<"self">>
    [] Tag(s) \in Joins ->
         <<Tag(s), Unordered([k \in DOMAIN s[2] |-> Digest(s[2][k], defs)])>>
    [] OTHER ->
         <<Tag(s), [k \in DOMAIN Children(s) |-> Digest(Children(s)[k], defs)]>>

\* What any renaming keeps of two tables.
SameBodies(left, right) ==
  BagOf([i \in DOMAIN left |-> Digest(left[i], << >>)])
    = BagOf([i \in DOMAIN right |-> Digest(right[i], << >>)])

-----------------------------------------------------------------------------
(* One comparison.  cx holds the two tables, whether it makes pairs or     *)
(* reads both tables in one order, and whether a search is narrowed by     *)
(* digests.                                                                *)

RECURSIVE Compared(_, _, _, _, _), ReferencesCompared(_, _, _, _, _),
          InOrder(_, _, _, _, _), MembersCompared(_, _, _, _, _),
          Matched(_, _, _, _, _, _), Found(_, _, _, _, _, _, _)

\* The two nodes, inside `depth` open levels.
Compared(cx, a, b, depth, r) ==
  IF cx.searching /\ (depth >= MaxComparisonDepth \/ r.steps >= MaxComparisonSteps)
  THEN No(r)
  ELSE LET next == [r EXCEPT !.steps = IF cx.searching THEN @ + 1 ELSE @] IN
       CASE Tag(a) # Tag(b)   -> No(next)
         [] Tag(a) = "ref"    -> ReferencesCompared(cx, a[2], b[2], depth + 1, next)
         [] Tag(a) \in Joins  -> MembersCompared(cx, a[2], b[2], depth + 1, next)
         [] Tag(a) = "self"   -> IF a = b THEN Yes(next) ELSE No(next)
         [] OTHER -> InOrder(cx, Children(a), Children(b), depth + 1, next)

ReferencesCompared(cx, a, b, depth, r) ==
  LET pairs == ElementsOf(r.pairs) IN
  CASE ~cx.searching     -> IF a = b THEN Yes(r) ELSE No(r)
    [] <<a, b>> \in pairs -> Yes(r)
    [] <<a, b>> \notin pairs /\ \E p \in pairs : p[1] = a \/ p[2] = b -> No(r)
    [] OTHER -> Compared(cx, cx.left[a], cx.right[b], depth,
                         [r EXCEPT !.pairs = Append(@, <<a, b>>)])

\* Children in their places, stopping at the first that parts.
InOrder(cx, as, bs, depth, r) ==
  IF as = << >> THEN Yes(r)
  ELSE LET first == Compared(cx, Head(as), Head(bs), depth, r) IN
       IF first.yes THEN InOrder(cx, Tail(as), Tail(bs), depth, first) ELSE first

\* A defect: members are read in their places alone.
MembersInPlace(cx, as, bs, depth, r) ==
  IF Len(as) # Len(bs) THEN No(r) ELSE InOrder(cx, as, bs, depth, r)

\* A set's members: in place as far as they match, then each of the rest among
\* those left, the pair that parted first not read again.
MembersCompared(cx, as, bs, depth, r) ==
  IF Len(as) # Len(bs) THEN No(r)
  ELSE IF as = << >> THEN Yes(r)
  ELSE LET first == TakenBackTo(Len(r.pairs), Compared(cx, Head(as), Head(bs), depth, r)) IN
       IF first.yes THEN MembersCompared(cx, Tail(as), Tail(bs), depth, first)
       ELSE Matched(cx, as, bs, TRUE, depth, first)

Matched(cx, items, others, parted, depth, r) ==
  IF items = << >> THEN Yes(r)
  ELSE LET found == Found(cx, Head(items), others, 1, parted, depth, r) IN
       IF ~found.yes THEN found
       ELSE Matched(cx, Tail(items),
                    SubSeq(others, 1, found.at - 1) \o SubSeq(others, found.at + 1, Len(others)),
                    FALSE, depth, [yes |-> TRUE, pairs |-> found.pairs, steps |-> found.steps])

\* The first of the others, from k on, that the item is.
Found(cx, item, others, k, parted, depth, r) ==
  IF k > Len(others) THEN No(r)
  ELSE IF \/ parted /\ k = 1
          \/ cx.digested /\ Digest(item, cx.left) # Digest(others[k], cx.right)
  THEN Found(cx, item, others, k + 1, parted, depth, r)
  ELSE LET met == TakenBackTo(Len(r.pairs), Compared(cx, item, others[k], depth, r)) IN
       IF met.yes THEN [yes |-> TRUE, pairs |-> met.pairs, steps |-> met.steps, at |-> k]
       ELSE Found(cx, item, others, k + 1, parted, depth, met)

-----------------------------------------------------------------------------
(* Pairing two tables, and what it is for.                                 *)

RECURSIVE PairedFrom(_, _, _, _)

\* Each left definition from a on, with the first right one from b on that is
\* free and equal to it under the pairs so far: the reading that leaves.
PairedFrom(cx, a, b, r) ==
  LET taken == ElementsOf(r.pairs) IN
  IF a > Len(cx.left) THEN r
  ELSE IF b > Len(cx.right) \/ \E p \in taken : p[1] = a THEN PairedFrom(cx, a + 1, 1, r)
  ELSE IF \E p \in taken : p[2] = b THEN PairedFrom(cx, a, b + 1, r)
  ELSE PairedFrom(cx, a, b + 1,
                  TakenBackTo(Len(r.pairs), ReferencesCompared(cx, a, b, 0, r)))

Searching(left, right, digested) ==
  [left |-> left, right |-> right, searching |-> TRUE, digested |-> digested]

InOneOrder(left, right) ==
  [left |-> left, right |-> right, searching |-> FALSE, digested |-> TRUE]

\* Which definition of target each definition of inner is, where it holds one.
Placement(inner, target) ==
  LET pairs == ElementsOf(PairedFrom(Searching(inner, target, FALSE), 1, 1, Start).pairs)
  IN  [i \in {p[1] : p \in pairs} |-> CHOOSE j \in {p[2] : p \in pairs} : <<i, j>> \in pairs]

EqualInOrder(v, w) ==
  /\ Len(v.defs) = Len(w.defs)
  /\ Compared(InOneOrder(v.defs, w.defs), v.schema, w.schema, 0, Start).yes
  /\ \A i \in DOMAIN v.defs :
       Compared(InOneOrder(v.defs, w.defs), v.defs[i], w.defs[i], 0, Start).yes

\* The schemas, read on from the pairs and the steps that pairing the tables left.
EqualUnder(v, w, paired) ==
  /\ Len(paired.pairs) = Len(v.defs)
  /\ Compared(Searching(v.defs, w.defs, TRUE), v.schema, w.schema, 0, paired).yes

\* Whether two validators are equal.
SchemasEqual(v, w) ==
  \/ EqualInOrder(v, w)
  \/ /\ Len(v.defs) >= 2
     /\ Len(v.defs) = Len(w.defs)
     /\ SameBodies(v.defs, w.defs)
     /\ EqualUnder(v, w, PairedFrom(Searching(v.defs, w.defs, TRUE), 1, 1, Start))
=============================================================================
