---------------------------- MODULE MeaningProofs ----------------------------
(***************************************************************************)
(* An answer of the walk is never wrong, for every schema, value, bound    *)
(* and list: what it answers, where no stop was met, is what the least     *)
(* fixpoint of the definitions says.                                       *)
(***************************************************************************)
EXTENDS WalkMeaning, WalkProofs, SumProofs

-----------------------------------------------------------------------------
(* A node at every value is read from the nodes below it.                  *)

Truths == {"yes", "no", "maybe"}
Heap   == [Lists -> Contents]

JudgedBy(f, t, h, n, v) == Judged(LAMBDA m, w : f[m][w], Told(t, <<v, Schema[n].def>>), h, n, v)

\* Two readings are alike at a node.
AlikeAt(f, g, m) == \A w \in Value : f[m][w] = g[m][w]

LEMMA NodeReads ==
    ASSUME NEW n \in Node
    PROVE  /\ Schema[n].kind \in NodeKinds /\ Schema[n].kids \in Seq(Node) /\ Schema[n].def \in Def
           /\ Schema[n].tail \in Node \cup {NoNode}
           /\ \A i \in DOMAIN Schema[n].kids : Schema[n].kids[i] \in Children(n) \cap Node
           /\ Children(n) \in SUBSET Node
  <1>1. Schema[n] \in [kind : NodeKinds, kids : Seq(Node), tail : Node \cup {NoNode},
                         def : Def, admits : SUBSET Value, raises : SUBSET Value, kills : SUBSET Value]
    BY SchemaIsATable
  <1>2. Schema[n].kids \in Seq(Node)
    BY <1>1
  <1>3. \A i \in DOMAIN Schema[n].kids : Schema[n].kids[i] \in Node
    BY <1>2
  <1>4. Children(n) \in SUBSET Node
    BY <1>1, <1>3 DEF Children
  <1>5. QED BY <1>1, <1>3, <1>4 DEF Children

(* The elements of a list that has the arity of a sequence are read by     *)
(* nodes below it.                                                         *)
LEMMA ElementsReadBelow ==
    ASSUME NEW n \in Node, NEW items \in Seq(Value), HasArity(n, Len(items)),
           NEW i \in DOMAIN items
    PROVE  ElementOf(n, i) \in Children(n) \cap Node /\ items[i] \in Value
  <1>1. i \in 1 .. Len(items) /\ items[i] \in Value
    OBVIOUS
  <1>2. /\ Schema[n].kids \in Seq(Node) /\ Schema[n].tail \in Node \cup {NoNode}
        /\ \A j \in DOMAIN Schema[n].kids : Schema[n].kids[j] \in Children(n) \cap Node
    BY NodeReads
  <1>3. CASE i <= Len(Schema[n].kids)
    BY <1>1, <1>2, <1>3 DEF ElementOf
  <1>4. CASE ~(i <= Len(Schema[n].kids))
    <2>1. Schema[n].tail # NoNode
      BY <1>1, <1>2, <1>4 DEF HasArity
    <2>2. ElementOf(n, i) = Schema[n].tail
      BY <1>4 DEF ElementOf
    <2>3. Schema[n].tail \in Children(n) \cap Node
      BY <2>1, <1>2 DEF Children
    <2>4. QED BY <1>1, <2>2, <2>3
  <1>5. QED BY <1>3, <1>4

LEMMA ItemsOf ==
    ASSUME NEW h \in Heap, NEW v \in Lists
    PROVE  h[v] \in Seq(Value) /\ v \in Value
  BY HeapsHoldValues, ListsAreValues DEF Heap

(* A node is read alike from two readings alike below it.                  *)
LEMMA JudgedAlike ==
    ASSUME NEW n \in Node, NEW v \in Value, NEW t, NEW h \in Heap, NEW f, NEW g,
           \A m \in Children(n) : AlikeAt(f, g, m)
    PROVE  JudgedBy(f, t, h, n, v) = JudgedBy(g, t, h, n, v)
  <1> DEFINE kids == Schema[n].kids
  <1>1. \A i \in DOMAIN kids : f[kids[i]][v] = g[kids[i]][v]
    BY NodeReads DEF AlikeAt
  <1>2. CASE Schema[n].kind = "seq"
    <2>1. CASE v \in Lists /\ HasArity(n, Len(h[v]))
      <3>1. h[v] \in Seq(Value)
        BY <2>1, ItemsOf
      <3>2. \A i \in DOMAIN h[v] : f[ElementOf(n, i)][h[v][i]] = g[ElementOf(n, i)][h[v][i]]
        BY <2>1, <3>1, ElementsReadBelow DEF AlikeAt
      <3>3. {f[ElementOf(n, i)][h[v][i]] : i \in DOMAIN h[v]} = {g[ElementOf(n, i)][h[v][i]] : i \in DOMAIN h[v]}
        BY <3>2
      <3>4. QED BY <1>2, <2>1, <3>3 DEF JudgedBy, Judged
    <2>2. CASE ~(v \in Lists /\ HasArity(n, Len(h[v])))
      BY <1>2, <2>2 DEF JudgedBy, Judged
    <2>3. QED BY <2>1, <2>2
  <1>3. CASE Schema[n].kind \in {"union", "meet"}
    <2>1. {f[kids[i]][v] : i \in DOMAIN kids} = {g[kids[i]][v] : i \in DOMAIN kids}
      BY <1>1
    <2>2. QED BY <1>3, <2>1 DEF JudgedBy, Judged
  <1>4. CASE Schema[n].kind = "not"
    <2>1. 1 \in DOMAIN kids
      BY <1>4, NotHasOneKid, NodeReads
    <2>2. QED BY <1>1, <1>4, <2>1 DEF JudgedBy, Judged
  <1>5. CASE Schema[n].kind \in {"leaf", "literal", "pred", "ref"}
    BY <1>5 DEF JudgedBy, Judged
  <1>6. Schema[n].kind \in {"leaf", "literal", "pred", "seq", "union", "meet", "not", "ref"}
    BY NodeReads DEF NodeKinds
  <1>7. QED BY <1>2, <1>3, <1>4, <1>5, <1>6

-----------------------------------------------------------------------------
(* Schemas are trees: every node is read, from the lowest up.              *)

Height(n) == Cardinality(below[n])
Low(k)    == {n \in Node : Height(n) <= k}
Row(f, t, h, n)    == [v \in Value |-> JudgedBy(f, t, h, n, v)]
ReadsOf(f, S, t, h) == f = [n \in S |-> Row(f, t, h, n)]

LEMMA HeightsFall ==
    ASSUME NEW n \in Node
    PROVE  /\ Height(n) \in Nat \ {0} /\ Height(n) <= Cardinality(Node)
           /\ Cardinality(Node) \in Nat
           /\ \A m \in Children(n) : Height(m) < Height(n)
  <1>1. IsFiniteSet(Node) /\ Cardinality(Node) \in Nat
    BY NodesAreTrees, FS_CardinalityType
  <1>2. \A m \in Node : /\ m \in below[m] /\ below[m] \in SUBSET Node /\ IsFiniteSet(below[m])
                        /\ Height(m) \in Nat /\ Height(m) <= Cardinality(Node)
    BY <1>1, NodesAreTrees, FS_Subset, FS_CardinalityType DEF Height
  <1>3. \A m \in Node : Height(m) # 0
    BY <1>2, FS_EmptySet DEF Height
  <1>4. ASSUME NEW m \in Children(n) PROVE Height(m) < Height(n)
    <2>1. m \in Node
      BY NodeReads
    <2>2. below[m] \in SUBSET below[n] /\ below[m] # below[n]
      BY <1>2, NodesAreTrees
    <2>3. Height(m) <= Height(n) /\ Height(m) # Height(n)
      BY <1>2, <2>1, <2>2, FS_Subset DEF Height
    <2>4. QED BY <1>2, <2>1, <2>3
  <1>5. QED BY <1>1, <1>2, <1>3, <1>4

LEMMA ReadsExist ==
    ASSUME NEW t, NEW h \in Heap
    PROVE  \E f : ReadsOf(f, Node, t, h)
  <1> DEFINE T == {k \in Nat : \E f : ReadsOf(f, Low(k), t, h)}
  <1>1. 0 \in T
    <2> DEFINE none == [n \in {} |-> TRUE]
    <2>1. Low(0) = {}
      BY HeightsFall DEF Low
    <2>2. none = [n \in {} |-> Row(none, t, h, n)]
      OBVIOUS
    <2>3. ReadsOf(none, Low(0), t, h)
      BY <2>1, <2>2 DEF ReadsOf
    <2>4. QED BY <2>3
  <1>2. ASSUME NEW k \in T PROVE k + 1 \in T
    <2>1. PICK f : ReadsOf(f, Low(k), t, h)
      OBVIOUS
    <2>2. k \in Nat
      OBVIOUS
    <2> HIDE DEF T
    <2> DEFINE g == [n \in Low(k + 1) |-> Row(f, t, h, n)]
    <2>3. \A n \in Low(k) : n \in Low(k + 1) /\ n \in Node
      BY <2>2, HeightsFall DEF Low
    <2>4. \A n \in Low(k) : f[n] = Row(f, t, h, n)
      BY <2>1 DEF ReadsOf
    <2>5. \A n \in Low(k) : g[n] = f[n]
      BY <2>3, <2>4
    <2>6. \A n \in Low(k + 1) : g[n] = Row(f, t, h, n)
      OBVIOUS
    <2> HIDE DEF g
    <2>7. ASSUME NEW n \in Low(k + 1) PROVE Row(f, t, h, n) = Row(g, t, h, n)
      <3>1. n \in Node /\ Height(n) <= k + 1
        BY DEF Low
      <3>2. \A m \in Children(n) : m \in Low(k)
        BY <2>2, <3>1, HeightsFall, NodeReads DEF Low
      <3>3. \A m \in Children(n) : AlikeAt(f, g, m)
        BY <2>5, <3>2 DEF AlikeAt
      <3>4. \A v \in Value : JudgedBy(f, t, h, n, v) = JudgedBy(g, t, h, n, v)
        BY <3>1, <3>3, JudgedAlike
      <3>5. QED BY <3>4 DEF Row
    <2>8. g = [n \in Low(k + 1) |-> Row(g, t, h, n)]
      <3>1. [n \in Low(k + 1) |-> Row(f, t, h, n)] = [n \in Low(k + 1) |-> Row(g, t, h, n)]
        BY <2>7
      <3>2. g = [n \in Low(k + 1) |-> Row(f, t, h, n)]
        BY DEF g
      <3>3. QED BY <3>1, <3>2
    <2>9. ReadsOf(g, Low(k + 1), t, h)
      BY <2>8 DEF ReadsOf
    <2>10. QED BY <2>2, <2>9 DEF T
  <1>3. T \in SUBSET Nat
    OBVIOUS
  <1> HIDE DEF T
  <1>4. T = Nat
    BY <1>1, <1>2, <1>3, EveryNumber
  <1>5. CASE Node = {}
    <2>1. Low(0) = Node
      BY <1>5 DEF Low
    <2>2. QED BY <1>4, <2>1 DEF T
  <1>6. CASE Node # {}
    <2>1. Cardinality(Node) \in Nat /\ Low(Cardinality(Node)) = Node
      BY <1>6, HeightsFall DEF Low
    <2>2. QED BY <1>4, <2>1 DEF T
  <1>7. QED BY <1>5, <1>6

(* What a node is, once every node is read.                                *)
LEMMA EvalIs ==
    ASSUME NEW t, NEW h \in Heap, NEW n \in Node, NEW v \in Value
    PROVE  Eval(t, h)[n][v] = JudgedBy(Eval(t, h), t, h, n, v)
  <1> DEFINE e == Eval(t, h)
  <1>1. e = CHOOSE f : ReadsOf(f, Node, t, h)
    BY DEF Eval, ReadsOf, Row, JudgedBy
  <1>2. ReadsOf(e, Node, t, h)
    BY <1>1, ReadsExist, Zenon
  <1>3. e[n] = Row(e, t, h, n)
    BY <1>2 DEF ReadsOf
  <1>4. QED BY <1>3 DEF Row
(* What holds of a node where it holds of those below it holds of all.     *)
LEMMA EveryNode ==
    ASSUME NEW S \in SUBSET Node, \A n \in Node : (\A m \in Children(n) : m \in S) => n \in S
    PROVE  S = Node
  <1> DEFINE T == {k \in Nat : \A n \in Node : Height(n) <= k => n \in S}
  <1>1. 0 \in T
    BY HeightsFall
  <1>2. ASSUME NEW k \in T PROVE k + 1 \in T
    <2>1. ASSUME NEW n \in Node, Height(n) <= k + 1 PROVE n \in S
      <3>1. \A m \in Children(n) : m \in Node /\ Height(m) \in Nat /\ Height(m) <= k
        BY <2>1, HeightsFall, NodeReads
      <3>2. QED BY <3>1
    <2>2. QED BY <2>1
  <1>3. T \in SUBSET Nat
    OBVIOUS
  <1>4. \A n \in Node : Height(n) \in T => n \in S
    BY HeightsFall
  <1> HIDE DEF T
  <1>5. T = Nat
    BY <1>1, <1>2, <1>3, EveryNumber
  <1>6. QED BY <1>4, <1>5, HeightsFall

-----------------------------------------------------------------------------
(* The least fixpoint decides what follows from what it decides.           *)

\* What is decided stays so.
Grows(a, b) == a # "maybe" => b = a

\* Nothing is told two ways, and what is told at first is told then.
OneAnswer(t) == \A key \in Key : ~(<<key, "yes">> \in t /\ <<key, "no">> \in t)
Before(s, t) == s \in SUBSET t /\ OneAnswer(t)

LEMMA ToldGrows ==
    ASSUME NEW s, NEW t, Before(s, t), NEW key \in Key
    PROVE  Grows(Told(s, key), Told(t, key))
  BY DEF Before, OneAnswer, Told, Grows

\* Members whose answers grow to others'.
GrowTo(A, B) == /\ \A x \in A : x # "maybe" => x \in B
                /\ "maybe" \notin A => A = B

LEMMA LogicGrows ==
    ASSUME NEW A, NEW B, GrowTo(A, B)
    PROVE  Grows(AllOf(A), AllOf(B)) /\ Grows(AnyOf(A), AnyOf(B))
  <1>1. Grows(AllOf(A), AllOf(B))
    BY DEF AllOf, Grows, GrowTo
  <1>2. Grows(AnyOf(A), AnyOf(B))
    BY DEF AnyOf, Grows, GrowTo
  <1>3. QED BY <1>1, <1>2

LEMMA NodeGrows ==
    ASSUME NEW n \in Node, NEW v \in Value, NEW s, NEW t, Before(s, t), NEW h \in Heap, NEW f, NEW g,
           \A m \in Children(n) : \A w \in Value : Grows(f[m][w], g[m][w])
    PROVE  Grows(JudgedBy(f, s, h, n, v), JudgedBy(g, t, h, n, v))
  <1> DEFINE kids == Schema[n].kids
  <1>1. \A i \in DOMAIN kids : Grows(f[kids[i]][v], g[kids[i]][v])
    BY NodeReads
  <1>2. CASE Schema[n].kind = "seq"
    <2>1. CASE v \in Lists /\ HasArity(n, Len(h[v]))
      <3> DEFINE A == {f[ElementOf(n, i)][h[v][i]] : i \in DOMAIN h[v]}
                 B == {g[ElementOf(n, i)][h[v][i]] : i \in DOMAIN h[v]}
      <3>1. h[v] \in Seq(Value)
        BY <2>1, ItemsOf
      <3>2. \A i \in DOMAIN h[v] : Grows(f[ElementOf(n, i)][h[v][i]], g[ElementOf(n, i)][h[v][i]])
        BY <2>1, <3>1, ElementsReadBelow
      <3>3. GrowTo(A, B)
        BY <3>2 DEF GrowTo, Grows
      <3>4. Grows(AllOf(A), AllOf(B))
        BY <3>3, LogicGrows
      <3>5. QED BY <1>2, <2>1, <3>4 DEF JudgedBy, Judged
    <2>2. CASE ~(v \in Lists /\ HasArity(n, Len(h[v])))
      BY <1>2, <2>2 DEF JudgedBy, Judged, Grows
    <2>3. QED BY <2>1, <2>2
  <1>3. CASE Schema[n].kind \in {"union", "meet"}
    <2> DEFINE A == {f[kids[i]][v] : i \in DOMAIN kids}
               B == {g[kids[i]][v] : i \in DOMAIN kids}
    <2>1. GrowTo(A, B)
      BY <1>1 DEF GrowTo, Grows
    <2>2. Grows(AllOf(A), AllOf(B)) /\ Grows(AnyOf(A), AnyOf(B))
      BY <2>1, LogicGrows
    <2>3. QED BY <1>3, <2>2 DEF JudgedBy, Judged
  <1>4. CASE Schema[n].kind = "not"
    <2>1. 1 \in DOMAIN kids
      BY <1>4, NotHasOneKid, NodeReads
    <2>2. Grows(Negated(f[kids[1]][v]), Negated(g[kids[1]][v]))
      BY <1>1, <2>1 DEF Grows, Negated
    <2>3. QED BY <1>4, <2>2 DEF JudgedBy, Judged
  <1>5. CASE Schema[n].kind \in {"leaf", "literal", "pred"}
    BY <1>5 DEF JudgedBy, Judged, Grows
  <1>6. CASE Schema[n].kind = "ref"
    <2>1. <<v, Schema[n].def>> \in Key
      BY NodeReads DEF Key
    <2>2. QED BY <1>6, <2>1, ToldGrows DEF JudgedBy, Judged
  <1>7. Schema[n].kind \in {"leaf", "literal", "pred", "seq", "union", "meet", "not", "ref"}
    BY NodeReads DEF NodeKinds
  <1>8. QED BY <1>2, <1>3, <1>4, <1>5, <1>6, <1>7

LEMMA EvalGrows ==
    ASSUME NEW s, NEW t, Before(s, t), NEW h \in Heap
    PROVE  \A n \in Node : \A v \in Value : Grows(Eval(s, h)[n][v], Eval(t, h)[n][v])
  <1> DEFINE f == Eval(s, h)
             g == Eval(t, h)
             S == {n \in Node : \A v \in Value : Grows(f[n][v], g[n][v])}
  <1>1. \A n \in Node, v \in Value : /\ f[n][v] = JudgedBy(f, s, h, n, v)
                                     /\ g[n][v] = JudgedBy(g, t, h, n, v)
    BY EvalIs
  <1> HIDE DEF f, g
  <1>2. ASSUME NEW n \in Node, \A m \in Children(n) : m \in S PROVE n \in S
    <2>1. \A m \in Children(n) : \A w \in Value : Grows(f[m][w], g[m][w])
      BY <1>2
    <2>2. \A v \in Value : Grows(JudgedBy(f, s, h, n, v), JudgedBy(g, t, h, n, v))
      BY <2>1, NodeGrows
    <2>3. QED BY <1>1, <2>2
  <1>3. S \in SUBSET Node
    OBVIOUS
  <1> HIDE DEF S
  <1>4. S = Node
    BY <1>2, <1>3, EveryNode
  <1>5. QED BY <1>4 DEF S, f, g

LEMMA AnswersAre ==
    /\ \A d \in Answers : /\ d = <<d[1], d[2]>> /\ d[1] \in Key /\ d[2] \in Reply
                          /\ d[1][1] \in Value /\ d[1][2] \in Def
    /\ \A key \in Key, r \in Reply : <<key, r>> \in Answers
  BY DEF Answers, Key

LEMMA RoundIs ==
    ASSUME NEW t, NEW h
    PROVE  Round(t, h) = {d \in Answers : Eval(t, h)[defs[d[1][2]]][d[1][1]] = d[2]}
  <1> DEFINE Judge(key) == Eval(t, h)[defs[key[2]]][key[1]]
             R == {d \in {<<key, Judge(key)>> : key \in Key} : d[2] \in Reply}
             S == {d \in Answers : Judge(d[1]) = d[2]}
  <1>1. Round(t, h) = R
    BY DEF Round
  <1> HIDE DEF Judge
  <1>2. ASSUME NEW d \in R PROVE d \in S
    <2>1. PICK key \in Key : d = <<key, Judge(key)>>
      OBVIOUS
    <2>2. d[1] = key /\ d[2] = Judge(key) /\ d[2] \in Reply
      BY <2>1
    <2>3. QED BY <2>1, <2>2, AnswersAre
  <1>3. ASSUME NEW d \in S PROVE d \in R
    <2>1. d = <<d[1], d[2]>> /\ d[1] \in Key /\ d[2] \in Reply /\ d[2] = Judge(d[1])
      BY AnswersAre
    <2>2. d = <<d[1], Judge(d[1])>>
      BY <2>1
    <2>3. QED BY <2>1, <2>2
  <1>4. R = S
    BY <1>2, <1>3
  <1>5. QED BY <1>1, <1>4 DEF Judge

LEMMA RoundSays ==
    ASSUME NEW t, NEW h
    PROVE  /\ OneAnswer(Round(t, h)) /\ Round(t, h) \in SUBSET Answers
           /\ \A key \in Key, r \in Reply :
                 <<key, r>> \in Round(t, h) <=> Eval(t, h)[defs[key[2]]][key[1]] = r
  <1>1. \A key \in Key, r \in Reply :
           <<key, r>> \in Round(t, h) <=> Eval(t, h)[defs[key[2]]][key[1]] = r
    BY AnswersAre, RoundIs
  <1>2. QED BY <1>1, RoundIs DEF OneAnswer, Reply

LEMMA RoundGrows ==
    ASSUME NEW s, NEW t, Before(s, t), NEW h \in Heap, defs \in [Def -> Node]
    PROVE  Before(Round(s, h), Round(t, h))
  <1>1. \A d \in Answers : defs[d[1][2]] \in Node /\ d[1][1] \in Value /\ d[2] # "maybe"
    BY AnswersAre DEF Reply
  <1>2. \A d \in Answers : Grows(Eval(s, h)[defs[d[1][2]]][d[1][1]], Eval(t, h)[defs[d[1][2]]][d[1][1]])
    BY <1>1, EvalGrows
  <1>3. Round(s, h) \in SUBSET Round(t, h)
    BY <1>1, <1>2, RoundIs DEF Grows
  <1>4. QED BY <1>3, RoundSays DEF Before

(* The rounds, and where they end.                                         *)
Pairs           == Cardinality(Key)
RoundsOf(f, h, n) == f = [i \in 0 .. n |-> IF i = 0 THEN {} ELSE Round(f[i - 1], h)]

LEMMA RoundsExist == ASSUME NEW h, NEW n \in Nat PROVE \E f : RoundsOf(f, h, n)
  <1> DEFINE T == {m \in Nat : \E f : RoundsOf(f, h, m)}
  <1>1. 0 \in T
    <2> DEFINE f == [i \in 0 .. 0 |-> {}]
    <2>1. \A i \in 0 .. 0 : i = 0
      OBVIOUS
    <2>2. f = [i \in 0 .. 0 |-> IF i = 0 THEN {} ELSE Round(f[i - 1], h)]
      BY <2>1
    <2>3. QED BY <2>2 DEF RoundsOf
  <1>2. ASSUME NEW m \in T PROVE m + 1 \in T
    <2>1. PICK f : f = [i \in 0 .. m |-> IF i = 0 THEN {} ELSE Round(f[i - 1], h)]
      BY <1>2 DEF RoundsOf
    <2> DEFINE g == [i \in 0 .. m + 1 |-> IF i = m + 1 THEN Round(f[m], h) ELSE f[i]]
    <2>2. m \in Nat
      OBVIOUS
    <2>3. ASSUME NEW i \in 0 .. m + 1
          PROVE  g[i] = IF i = 0 THEN {} ELSE Round(g[i - 1], h)
      <3>1. CASE i = m + 1
        BY <2>2, <3>1
      <3>2. CASE i # m + 1
        <4>1. i \in 0 .. m /\ g[i] = f[i]
          BY <2>2, <3>2
        <4>2. i # 0 => i - 1 \in 0 .. m /\ i - 1 # m + 1
          BY <2>2, <4>1
        <4>3. i # 0 => g[i - 1] = f[i - 1]
          BY <2>2, <4>2
        <4> HIDE DEF g
        <4>4. f[i] = IF i = 0 THEN {} ELSE Round(f[i - 1], h)
          BY <2>1, <4>1
        <4>5. QED BY <4>1, <4>3, <4>4
      <3>3. QED BY <3>1, <3>2
    <2>4. g = [i \in 0 .. m + 1 |-> g[i]]
      OBVIOUS
    <2> HIDE DEF g
    <2>5. [i \in 0 .. m + 1 |-> g[i]] = [i \in 0 .. m + 1 |-> IF i = 0 THEN {} ELSE Round(g[i - 1], h)]
      BY <2>3
    <2>6. RoundsOf(g, h, m + 1)
      BY <2>4, <2>5 DEF RoundsOf
    <2>7. QED BY <2>2, <2>6
  <1> HIDE DEF T
  <1>3. T = Nat
    BY <1>1, <1>2, EveryNumber DEF T
  <1>4. QED BY <1>3 DEF T

LEMMA FixpointRounds ==
    ASSUME NEW h
    PROVE  /\ Pairs \in Nat /\ IsFiniteSet(Key)
           /\ \E f : /\ LeastFixpoint(h) = f[Pairs] /\ f[0] = {}
                     /\ \A i \in 0 .. Pairs : i # 0 => f[i] = Round(f[i - 1], h)
  <1>1. Pairs \in Nat /\ IsFiniteSet(Key)
    BY WalksAreFinite, FS_Product, FS_CardinalityType DEF Pairs, Key
  <1> DEFINE f == CHOOSE g : RoundsOf(g, h, Pairs)
  <1>2. RoundsOf(f, h, Pairs)
    BY <1>1, RoundsExist, Zenon
  <1>3. LeastFixpoint(h) = f[Pairs]
    BY DEF LeastFixpoint, RoundsOf, Pairs
  <1> HIDE DEF f, Pairs
  <1>4. f = [i \in 0 .. Pairs |-> IF i = 0 THEN {} ELSE Round(f[i - 1], h)]
    BY <1>2 DEF RoundsOf
  <1>5. \A i \in 0 .. Pairs : f[i] = IF i = 0 THEN {} ELSE Round(f[i - 1], h)
    BY <1>4, Zenon
  <1>6. 0 \in 0 .. Pairs
    BY <1>1
  <1>7. QED BY <1>1, <1>3, <1>5, <1>6, Zenon

(* The pairs an answer is told of.                                         *)
Decided(t) == {key \in Key : Told(t, key) # "maybe"}

LEMMA DecidedCounts ==
    ASSUME NEW s, NEW t, Before(s, t), s \in SUBSET Answers, t \in SUBSET Answers, IsFiniteSet(Key)
    PROVE  /\ Cardinality(Decided(s)) \in Nat /\ Cardinality(Decided(t)) \in Nat
           /\ Cardinality(Decided(s)) <= Pairs
           /\ s = t \/ Cardinality(Decided(s)) < Cardinality(Decided(t))
           /\ Cardinality(Decided(s)) = Pairs => s = t
  <1>1. Decided(s) \in SUBSET Decided(t) /\ Decided(t) \in SUBSET Key /\ Decided(s) \in SUBSET Key
    BY ToldGrows DEF Decided, Grows
  <1>2. \A S \in SUBSET Key : IsFiniteSet(S) /\ Cardinality(S) \in Nat /\ Cardinality(S) <= Pairs
    BY FS_Subset, FS_CardinalityType DEF Pairs
  <1>3. Decided(s) = Decided(t) => s = t
    <2> SUFFICES ASSUME Decided(s) = Decided(t), NEW d \in t PROVE d \in s
      BY DEF Before
    <2>1. d \in Answers
      OBVIOUS
    <2>2. d = <<d[1], d[2]>> /\ d[1] \in Key /\ d[2] \in {"yes", "no"}
      BY <2>1, AnswersAre DEF Reply
    <2>3. d[1] \in Decided(t)
      BY <2>2 DEF Decided, Told
    <2>4. Told(s, d[1]) # "maybe"
      BY <2>3 DEF Decided
    <2>5. <<d[1], "yes">> \in s \/ <<d[1], "no">> \in s
      BY <2>4 DEF Told
    <2>6. QED BY <2>2, <2>5 DEF Before, OneAnswer
  <1>4. Decided(s) # Decided(t) => Cardinality(Decided(s)) < Cardinality(Decided(t))
    <2>1. Cardinality(Decided(s)) <= Cardinality(Decided(t))
      BY <1>1, <1>2, FS_Subset
    <2>2. Cardinality(Decided(s)) = Cardinality(Decided(t)) => Decided(s) = Decided(t)
      BY <1>1, <1>2, FS_Subset
    <2>3. QED BY <1>1, <1>2, <2>1, <2>2
  <1>5. Cardinality(Decided(s)) = Pairs => Decided(s) = Decided(t)
    BY <1>1, FS_Subset DEF Pairs
  <1>6. QED BY <1>1, <1>2, <1>3, <1>4, <1>5

(* One more round of the fixpoint decides nothing more.                    *)
LEMMA FixpointIs ==
    ASSUME NEW h \in Heap, defs \in [Def -> Node]
    PROVE  Round(LeastFixpoint(h), h) = LeastFixpoint(h)
  <1>1. Pairs \in Nat /\ IsFiniteSet(Key)
    BY FixpointRounds
  <1>2. PICK f : /\ LeastFixpoint(h) = f[Pairs] /\ f[0] = {}
                 /\ \A i \in 0 .. Pairs : i # 0 => f[i] = Round(f[i - 1], h)
    BY FixpointRounds
  <1> DEFINE Goes(i) == /\ f[i] \in SUBSET Answers /\ OneAnswer(f[i])
                        /\ Before(f[i], Round(f[i], h))
                        /\ \/ Cardinality(Decided(f[i])) >= i
                           \/ Round(f[i], h) = f[i]
             T == {i \in Nat : i <= Pairs => Goes(i)}
  <1>3. 0 \in T
    <2>1. OneAnswer({}) /\ Before({}, Round({}, h)) /\ Before({}, {})
      BY RoundSays DEF Before, OneAnswer
    <2>2. Cardinality(Decided({})) \in Nat
      BY <1>1, <2>1, DecidedCounts
    <2>3. QED BY <1>2, <2>1, <2>2
  <1>4. ASSUME NEW i \in T PROVE i + 1 \in T
    <2> SUFFICES ASSUME i + 1 <= Pairs PROVE Goes(i + 1)
      OBVIOUS
    <2>1. i \in Nat /\ Goes(i)
      BY <1>1
    <2>2. f[i + 1] = Round(f[i], h)
      BY <1>1, <1>2, <2>1
    <2> HIDE DEF T
    <2>3. f[i + 1] \in SUBSET Answers /\ OneAnswer(f[i + 1])
      BY <2>2, RoundSays
    <2>4. Before(f[i], f[i + 1])
      BY <2>1, <2>2
    <2>5. Before(f[i + 1], Round(f[i + 1], h))
      BY <2>2, <2>4, RoundGrows
    <2>6. Cardinality(Decided(f[i + 1])) >= i + 1 \/ Round(f[i + 1], h) = f[i + 1]
      <3>1. CASE f[i] = f[i + 1]
        BY <2>2, <3>1
      <3>2. CASE f[i] # f[i + 1]
        <4>1. /\ Cardinality(Decided(f[i])) \in Nat /\ Cardinality(Decided(f[i + 1])) \in Nat
              /\ Cardinality(Decided(f[i])) < Cardinality(Decided(f[i + 1]))
          BY <1>1, <2>1, <2>3, <2>4, <3>2, DecidedCounts
        <4>2. Cardinality(Decided(f[i])) >= i
          BY <2>1, <2>2, <3>2
        <4>3. QED BY <2>1, <4>1, <4>2
      <3>3. QED BY <3>1, <3>2
    <2>7. QED BY <2>3, <2>5, <2>6
  <1>5. T \in SUBSET Nat
    OBVIOUS
  <1> HIDE DEF T
  <1>6. T = Nat
    BY <1>3, <1>4, <1>5, EveryNumber
  <1>7. Goes(Pairs)
    BY <1>1, <1>6 DEF T
  <1> DEFINE t == f[Pairs]
  <1>8. Cardinality(Decided(t)) >= Pairs => Round(t, h) = t
    <2>1. Round(t, h) \in SUBSET Answers
      BY RoundSays
    <2>2. /\ Cardinality(Decided(t)) \in Nat /\ Cardinality(Decided(t)) <= Pairs
          /\ Cardinality(Decided(t)) = Pairs => t = Round(t, h)
      BY <1>1, <1>7, <2>1, DecidedCounts
    <2>3. QED BY <1>1, <2>2
  <1>9. QED BY <1>2, <1>7, <1>8

(* What a definition's body is, the definition is.                         *)
LEMMA FixpointTells ==
    ASSUME NEW h \in Heap, defs \in [Def -> Node], NEW d \in Def, NEW v \in Value, NEW r \in Reply,
           Eval(LeastFixpoint(h), h)[defs[d]][v] = r
    PROVE  Told(LeastFixpoint(h), <<v, d>>) = r
  <1> DEFINE t == LeastFixpoint(h)
  <1>1. <<v, d>> \in Key
    BY DEF Key
  <1>2. Round(t, h) = t
    BY FixpointIs
  <1> HIDE DEF t
  <1>3. OneAnswer(t) /\ <<<<v, d>>, r>> \in t
    <2>1. Eval(t, h)[defs[<<v, d>>[2]]][<<v, d>>[1]] = r
      BY DEF t
    <2>2. OneAnswer(Round(t, h)) /\ <<<<v, d>>, r>> \in Round(t, h)
      BY <1>1, <2>1, RoundSays
    <2>3. QED BY <1>2, <2>2
  <1>4. Told(t, <<v, d>>) = r
    BY <1>1, <1>3 DEF OneAnswer, Told, Reply
  <1>5. QED BY <1>4 DEF t
-----------------------------------------------------------------------------
(* What the parts of a node say of it.                                     *)

\* The answers to the calls, read off the truth.
Ev          == Eval(truth, heap)
TruthIs     == truth = LeastFixpoint(heap)
Known       == RestOK /\ TruthIs

IsKind(n, kinds) == Schema[n].kind \in kinds
KidSays(n, v, j, answer)     == Ev[Schema[n].kids[j]][v] = answer
ElementSays(n, v, j, answer) == Ev[ElementOf(n, j)][heap[v][j]] = answer

LEMMA EvIs ==
    ASSUME Known, NEW n \in Node, NEW v \in Value
    PROVE  Ev[n][v] = JudgedBy(Ev, truth, heap, n, v)
  BY EvalIs DEF Known, RestOK, Heap, Ev

LEMMA TestAnswers ==
    ASSUME Known, NEW n \in Node, NEW v \in Value
    PROVE  /\ IsKind(n, {"leaf"}) => Ev[n][v] = Says(v \in Schema[n].admits)
           /\ IsKind(n, {"literal", "pred"}) => Ev[n][v] = Tested(n, v)
  BY EvIs DEF IsKind, JudgedBy, Judged

LEMMA SeqAnswers ==
    ASSUME Known, NEW n \in Node, NEW v \in Value, IsKind(n, {"seq"})
    PROVE  /\ ~IsArray(n, v) => Ev[n][v] = "no"
           /\ IsArray(n, v) =>
                 /\ (\A j \in DOMAIN heap[v] : ElementSays(n, v, j, "yes")) => Ev[n][v] = "yes"
                 /\ (\E j \in DOMAIN heap[v] : ElementSays(n, v, j, "no")) => Ev[n][v] = "no"
  <1> DEFINE A == {Ev[ElementOf(n, i)][heap[v][i]] : i \in DOMAIN heap[v]}
  <1>1. Ev[n][v] = IF IsArray(n, v) THEN AllOf(A) ELSE "no"
    BY EvIs DEF IsKind, JudgedBy, Judged, IsArray
  <1>2. (\A j \in DOMAIN heap[v] : ElementSays(n, v, j, "yes")) => AllOf(A) = "yes"
    BY DEF AllOf, ElementSays
  <1>3. (\E j \in DOMAIN heap[v] : ElementSays(n, v, j, "no")) => AllOf(A) = "no"
    BY DEF AllOf, ElementSays
  <1>4. QED BY <1>1, <1>2, <1>3

LEMMA KidsAnswer ==
    ASSUME Known, NEW n \in Node, NEW v \in Value
    PROVE  /\ IsKind(n, {"union"}) =>
                 /\ (\E j \in DOMAIN Schema[n].kids : KidSays(n, v, j, "yes")) => Ev[n][v] = "yes"
                 /\ (\A j \in DOMAIN Schema[n].kids : KidSays(n, v, j, "no")) => Ev[n][v] = "no"
           /\ IsKind(n, {"meet"}) =>
                 /\ (\A j \in DOMAIN Schema[n].kids : KidSays(n, v, j, "yes")) => Ev[n][v] = "yes"
                 /\ (\E j \in DOMAIN Schema[n].kids : KidSays(n, v, j, "no")) => Ev[n][v] = "no"
  <1> DEFINE A == {Ev[Schema[n].kids[i]][v] : i \in DOMAIN Schema[n].kids}
  <1>1. /\ IsKind(n, {"union"}) => Ev[n][v] = AnyOf(A)
        /\ IsKind(n, {"meet"}) => Ev[n][v] = AllOf(A)
    BY EvIs DEF IsKind, JudgedBy, Judged
  <1>2. /\ (\A j \in DOMAIN Schema[n].kids : KidSays(n, v, j, "yes")) => AllOf(A) = "yes"
        /\ (\E j \in DOMAIN Schema[n].kids : KidSays(n, v, j, "no")) => AllOf(A) = "no"
    BY DEF AllOf, KidSays
  <1>3. /\ (\E j \in DOMAIN Schema[n].kids : KidSays(n, v, j, "yes")) => AnyOf(A) = "yes"
        /\ (\A j \in DOMAIN Schema[n].kids : KidSays(n, v, j, "no")) => AnyOf(A) = "no"
    BY DEF AnyOf, KidSays
  <1>4. QED BY <1>1, <1>2, <1>3

LEMMA NotAnswers ==
    ASSUME Known, NEW n \in Node, NEW v \in Value, IsKind(n, {"not"})
    PROVE  /\ KidSays(n, v, 1, "yes") => Ev[n][v] = "no"
           /\ KidSays(n, v, 1, "no") => Ev[n][v] = "yes"
  <1>1. Ev[n][v] = Negated(Ev[Schema[n].kids[1]][v])
    BY EvIs DEF IsKind, JudgedBy, Judged
  <1>2. QED BY <1>1 DEF KidSays, Negated

LEMMA RefAnswers ==
    ASSUME Known, NEW n \in Node, NEW v \in Value, IsKind(n, {"ref"})
    PROVE  /\ Ev[n][v] = Told(truth, <<v, Schema[n].def>>)
           /\ \A r \in Reply : Ev[defs[Schema[n].def]][v] = r => Told(truth, <<v, Schema[n].def>>) = r
  <1>1. Ev[n][v] = Told(truth, <<v, Schema[n].def>>)
    BY EvIs DEF IsKind, JudgedBy, Judged
  <1>2. Schema[n].def \in Def
    BY NodeReads
  <1>3. heap \in Heap /\ defs \in [Def -> Node] /\ truth = LeastFixpoint(heap)
    BY DEF Known, RestOK, TruthIs, Heap
  <1>4. QED BY <1>1, <1>2, <1>3, FixpointTells DEF Ev
-----------------------------------------------------------------------------
(* What the frames have read, and the calls they wait for.                 *)

\* A reply is right of a call where it is not the one its mode has for a stop, or where
\* no stop is in the cell.
Right(n, v, m, r, code) == (r # StoppedIn(m) \/ code = None) => Ev[n][v] = r

\* A frame that put the cell aside, and what the cell will be to the frame below it, as
\* far as is known: what it put aside, or what is in the cell where it stands.
Resets(f)     == \/ IsKind(f.node, {"not"}) /\ f.pc # "start"
                 \/ IsKind(f.node, {"union"}) /\ f.pc # "start" /\ f.mode = "settle"
                 \/ IsKind(f.node, {"ref"}) /\ f.pc = "inside" /\ f.keeping
Sunk(f, code) == IF Resets(f) THEN f.earlier ELSE code

\* No stop is in the cell frame i reads, n frames open: the first above it that put the
\* cell aside found none, or none did and there is none.
Clear(s, code, i, n) ==
    /\ (\A j \in i + 1 .. n : ~Resets(s[j])) => code = None
    /\ \A j \in i + 1 .. n :
          Resets(s[j]) /\ (\A k \in i + 1 .. j - 1 : ~Resets(s[k])) => s[j].earlier = None

\* The call a frame that waits has made.
CalledNode(f) == CASE Schema[f.node].kind = "seq" -> ElementOf(f.node, f.at)
                   [] Schema[f.node].kind \in {"union", "meet"} -> Schema[f.node].kids[f.at]
                   [] Schema[f.node].kind = "not" -> Schema[f.node].kids[1]
                   [] Schema[f.node].kind = "ref" -> defs[Schema[f.node].def]
CalledVal(f)  == IF IsKind(f.node, {"seq"}) THEN heap[f.val][f.at] ELSE f.val
CalledMode(f) == IF IsKind(f.node, {"not"}) THEN "settle" ELSE f.mode

Waits(f) == /\ IsKind(f.node, {"seq", "union", "meet", "not", "ref"})
            /\ IsKind(f.node, {"seq"}) => f.at \in DOMAIN heap[f.val]
            /\ IsKind(f.node, {"union", "meet"}) => f.at \in DOMAIN Schema[f.node].kids
Links(f, g) == Waits(f) /\ g.node = CalledNode(f) /\ g.val = CalledVal(f) /\ g.mode = CalledMode(f)

\* What a frame has from the members it has read: a scan or a meet goes on past those that
\* hold, a union past those that do not, and either may have stopped.
ElementsHold(f)       == \A j \in DOMAIN heap[f.val] : j < f.at => ElementSays(f.node, f.val, j, "yes")
KidsSay(f, answer)    == \A j \in DOMAIN Schema[f.node].kids : j < f.at => KidSays(f.node, f.val, j, answer)
Scanned(f, clear) ==
    /\ IsArray(f.node, f.val) /\ f.count = Len(heap[f.val])
    /\ (f.mode = "fast" \/ clear) => ElementsHold(f)
HasMet(f, clear)  == (f.mode = "fast" \/ clear) => KidsSay(f, "yes")
Refused(f, clear) ==
    /\ f.mode = "fast" => f.met = None
    /\ (f.met = None /\ (f.mode = "settle" \/ clear)) => KidsSay(f, "no")

HasRead(f, clear) ==
    IF f.pc = "start" THEN f.at = 1 /\ f.met = None
    ELSE /\ IsKind(f.node, {"seq"}) => Scanned(f, clear)
         /\ IsKind(f.node, {"meet"}) => HasMet(f, clear)
         /\ IsKind(f.node, {"union"}) => Refused(f, clear)

Frames(s, code) ==
    /\ \A i \in 1 .. Len(s) : HasRead(s[i], Clear(s, code, i, Len(s)))
    /\ s # <<>> => s[1].node = asked.node /\ s[1].val = asked.val /\ s[1].mode = "fast"
    /\ \A i \in 1 .. Len(s) - 1 : Links(s[i], s[i + 1])

Replied(s, r, code) ==
    IF s = <<>> THEN Right(asked.node, asked.val, "fast", r, code)
    ELSE LET f == s[Len(s)]
         IN  Waits(f) /\ Right(CalledNode(f), CalledVal(f), CalledMode(f), r, code)

LEMMA ClearAtTop == ASSUME NEW s, NEW code, NEW n \in Nat PROVE Clear(s, code, n, n) <=> code = None
  <1>1. n + 1 .. n = {}
    OBVIOUS
  <1>2. QED BY <1>1 DEF Clear

LEMMA ClearPeels ==
    ASSUME NEW s, NEW code, NEW n \in Nat, NEW i \in 1 .. n - 1
    PROVE  Clear(s, code, i, n) <=> Clear(s, Sunk(s[n], code), i, n - 1)
  <1>1. n \in i + 1 .. n /\ \A j \in i + 1 .. n : j = n \/ j \in i + 1 .. n - 1
    OBVIOUS
  <1>2. \A j \in i + 1 .. n - 1 : j \in i + 1 .. n /\ j # n
    OBVIOUS
  <1>3. CASE Resets(s[n])
    <2>1. Sunk(s[n], code) = s[n].earlier
      BY <1>3 DEF Sunk
    <2>2. Clear(s, code, i, n) <=>
             \A j \in i + 1 .. n :
                Resets(s[j]) /\ (\A k \in i + 1 .. j - 1 : ~Resets(s[k])) => s[j].earlier = None
      BY <1>1, <1>3, Zenon DEF Clear
    <2>3. QED BY <1>1, <1>2, <1>3, <2>1, <2>2 DEF Clear
  <1>4. CASE ~Resets(s[n])
    <2>1. Sunk(s[n], code) = code
      BY <1>4 DEF Sunk
    <2>2. (\A j \in i + 1 .. n : ~Resets(s[j])) <=> (\A j \in i + 1 .. n - 1 : ~Resets(s[j]))
      BY <1>1, <1>2, <1>4, Zenon
    <2>3. QED BY <1>1, <1>2, <1>4, <2>1, <2>2, Zenon DEF Clear
  <1>5. QED BY <1>3, <1>4

LEMMA ClearAlike ==
    ASSUME NEW s, NEW q, NEW code, NEW n \in Nat, NEW i \in Nat, \A j \in 1 .. n : s[j] = q[j]
    PROVE  Clear(s, code, i, n) <=> Clear(q, code, i, n)
  <1>1. \A j \in i + 1 .. n : s[j] = q[j]
    OBVIOUS
  <1>2. \A j \in i + 1 .. n : \A k \in i + 1 .. j - 1 : s[k] = q[k]
    OBVIOUS
  <1>3. QED BY <1>1, <1>2 DEF Clear

LEMMA ClearOfLess ==
    ASSUME NEW s, NEW c, NEW d, NEW n, NEW i, c = None => d = None
    PROVE  Clear(s, c, i, n) => Clear(s, d, i, n)
  BY DEF Clear

LEMMA ReadOfLess ==
    ASSUME NEW f, NEW c \in BOOLEAN, NEW d \in BOOLEAN, c => d
    PROVE  HasRead(f, d) => HasRead(f, c)
  BY DEF HasRead, Scanned, HasMet, Refused
(* The frames below the top one have what they had, where the cell is no   *)
(* clearer to them than it was.                                            *)
LEMMA LowerRead ==
    ASSUME NEW s, NEW q, NEW c, NEW d, NEW e, NEW n \in Nat \ {0}, NEW m \in Nat,
           \A j \in 1 .. n - 1 : s[j] = q[j],
           \A i \in 1 .. n - 1 : HasRead(s[i], Clear(s, c, i, n)),
           \A i \in 1 .. n - 1 : Clear(q, d, i, m) => Clear(q, e, i, n - 1),
           e = None => Sunk(s[n], c) = None
    PROVE  \A i \in 1 .. n - 1 : HasRead(q[i], Clear(q, d, i, m))
  <1> SUFFICES ASSUME NEW i \in 1 .. n - 1 PROVE HasRead(q[i], Clear(q, d, i, m))
    OBVIOUS
  <1>1. Clear(q, d, i, m) => Clear(q, e, i, n - 1)
    OBVIOUS
  <1>2. Clear(q, e, i, n - 1) => Clear(q, Sunk(s[n], c), i, n - 1)
    BY ClearOfLess
  <1>3. Clear(q, Sunk(s[n], c), i, n - 1) <=> Clear(s, Sunk(s[n], c), i, n - 1)
    <2>1. n - 1 \in Nat /\ i \in Nat /\ \A j \in 1 .. n - 1 : q[j] = s[j]
      OBVIOUS
    <2>2. QED BY <2>1, ClearAlike
  <1>4. Clear(s, Sunk(s[n], c), i, n - 1) <=> Clear(s, c, i, n)
    BY ClearPeels
  <1>5. Clear(q, d, i, m) => Clear(s, c, i, n)
    BY <1>1, <1>2, <1>3, <1>4
  <1>6. Clear(q, d, i, m) \in BOOLEAN /\ Clear(s, c, i, n) \in BOOLEAN
    BY DEF Clear
  <1>7. HasRead(s[i], Clear(s, c, i, n)) /\ s[i] = q[i]
    OBVIOUS
  <1>8. QED BY <1>5, <1>6, <1>7, ReadOfLess

\* One frame does another's work.
SameCall(g, f) == g.node = f.node /\ g.val = f.val /\ g.mode = f.mode

LEMMA SameLinks ==
    ASSUME NEW g, NEW f, SameCall(g, f), NEW e
    PROVE  Links(e, g) <=> Links(e, f)
  BY DEF SameCall, Links

(* A return: the frame below has its answer.                               *)
LEMMA PopRight ==
    ASSUME stack \in Seq(Frame), stack # <<>>, Frames(stack, stopped), stack' = Pop, NEW r,
           Right(Top.node, Top.val, Top.mode, r, stopped'),
           stopped' = None => Sunk(Top, stopped) = None
    PROVE  Frames(stack', stopped') /\ Replied(stack', r, stopped')
  <1> DEFINE n == Len(stack)
             q == stack'
             d == stopped'
  <1>1. /\ n \in Nat \ {0} /\ q \in Seq(Frame) /\ Len(q) = n - 1 /\ Top = stack[n]
        /\ \A j \in 1 .. n - 1 : stack[j] = q[j]
    BY PopFrames DEF Top
  <1> HIDE DEF n, q, d
  <1>2. \A i \in 1 .. n - 1 : HasRead(q[i], Clear(q, d, i, n - 1))
    <2>1. \A i \in 1 .. n - 1 : HasRead(stack[i], Clear(stack, stopped, i, n))
      BY <1>1 DEF Frames, n
    <2>2. d = None => Sunk(stack[n], stopped) = None
      BY <1>1 DEF d
    <2>3. n - 1 \in Nat
      BY <1>1
    <2>4. QED BY <1>1, <2>1, <2>2, <2>3, LowerRead
  <1>3. q # <<>> => q[1] = stack[1]
    BY <1>1
  <1>4. \A i \in 1 .. n - 1 : Links(stack[i], stack[i + 1])
    BY DEF Frames, n
  <1>5. \A i \in 1 .. Len(q) - 1 : Links(q[i], q[i + 1])
    <2>1. \A i \in 1 .. Len(q) - 1 : i \in 1 .. n - 1 /\ i + 1 \in 1 .. n - 1
      BY <1>1
    <2>2. QED BY <1>1, <1>4, <2>1
  <1>6. Frames(q, d)
    BY <1>1, <1>2, <1>3, <1>5 DEF Frames
  <1>7. Replied(q, r, d)
    <2>1. CASE n = 1
      <3>1. q = <<>>
        BY <1>1, <2>1
      <3>2. Top.node = asked.node /\ Top.val = asked.val /\ Top.mode = "fast"
        BY <1>1, <2>1 DEF Frames
      <3>3. QED BY <3>1, <3>2 DEF Replied, d
    <2>2. CASE n # 1
      <3>1. q # <<>> /\ q[Len(q)] = stack[n - 1] /\ Links(stack[n - 1], stack[n])
        <4>1. n - 1 \in 1 .. n - 1 /\ n - 1 + 1 = n
          BY <1>1, <2>2
        <4>2. Links(stack[n - 1], stack[n - 1 + 1])
          BY <1>4, <4>1
        <4>3. QED BY <1>1, <4>1, <4>2
      <3>2. QED BY <1>1, <3>1 DEF Replied, Links, d
    <2>3. QED BY <2>1, <2>2
  <1>8. QED BY <1>6, <1>7 DEF q, d

(* A step of the top frame's own.                                          *)
LEMMA BecomeRight ==
    ASSUME stack \in Seq(Frame), stack # <<>>, Frames(stack, stopped), NEW g \in Frame, Become(g),
           SameCall(g, Top), HasRead(g, stopped' = None),
           Sunk(g, stopped') = None => Sunk(Top, stopped) = None
    PROVE  Frames(stack', stopped')
  <1> DEFINE n == Len(stack)
             q == stack'
             d == stopped'
  <1>1. /\ n \in Nat \ {0} /\ q \in Seq(Frame) /\ Len(q) = n /\ Top = stack[n] /\ q[n] = g
        /\ \A j \in 1 .. n - 1 : stack[j] = q[j]
    BY BecomeFrames DEF Top
  <1> HIDE DEF n, q, d
  <1>2. \A i \in 1 .. n - 1 : HasRead(q[i], Clear(q, d, i, n))
    <2>1. \A i \in 1 .. n - 1 : HasRead(stack[i], Clear(stack, stopped, i, n))
      BY <1>1 DEF Frames, n
    <2>2. \A i \in 1 .. n - 1 : Clear(q, d, i, n) => Clear(q, Sunk(g, d), i, n - 1)
      BY <1>1, ClearPeels
    <2>3. Sunk(g, d) = None => Sunk(stack[n], stopped) = None
      BY <1>1 DEF d
    <2>4. QED BY <1>1, <2>1, <2>2, <2>3, LowerRead
  <1>3. HasRead(q[n], Clear(q, d, n, n))
    <2>1. Clear(q, d, n, n) <=> d = None
      BY <1>1, ClearAtTop
    <2>2. Clear(q, d, n, n) \in BOOLEAN /\ (d = None) \in BOOLEAN
      BY DEF Clear
    <2>3. HasRead(g, d = None)
      BY DEF d
    <2>4. QED BY <1>1, <2>1, <2>2, <2>3, ReadOfLess
  <1>4. \A i \in 1 .. n : HasRead(q[i], Clear(q, d, i, n))
    <2>1. \A i \in 1 .. n : i = n \/ i \in 1 .. n - 1
      BY <1>1
    <2>2. QED BY <1>2, <1>3, <2>1
  <1>5. q[1].node = asked.node /\ q[1].val = asked.val /\ q[1].mode = "fast"
    <2>1. stack[1].node = asked.node /\ stack[1].val = asked.val /\ stack[1].mode = "fast"
      BY DEF Frames
    <2>2. q[1] = stack[1] \/ (q[1] = g /\ stack[1] = Top)
      BY <1>1
    <2>3. QED BY <2>1, <2>2 DEF SameCall
  <1>6. ASSUME NEW i \in 1 .. n - 1 PROVE Links(q[i], q[i + 1])
    <2>1. Links(stack[i], stack[i + 1])
      BY DEF Frames, n
    <2>2. q[i] = stack[i]
      BY <1>1
    <2>3. i + 1 = n \/ i + 1 \in 1 .. n - 1
      BY <1>1
    <2>4. q[i + 1] = stack[i + 1] \/ (q[i + 1] = g /\ stack[i + 1] = Top)
      BY <1>1, <2>3
    <2>5. QED BY <2>1, <2>2, <2>4, SameLinks
  <1>7. QED BY <1>1, <1>4, <1>5, <1>6 DEF Frames, q, d

(* A call: the frame on top waits for it.                                  *)
LEMMA CallRight ==
    ASSUME stack \in Seq(Frame), stack # <<>>, Frames(stack, stopped), NEW g \in Frame,
           NEW v \in Node, NEW w \in Value, NEW m \in Mode,
           stack' = Append([stack EXCEPT ![Len(stack)] = g], Start(v, w, m)),
           SameCall(g, Top), HasRead(g, stopped' = None), Links(g, Start(v, w, m)),
           Sunk(g, stopped') = None => Sunk(Top, stopped) = None
    PROVE  Frames(stack', stopped')
  <1> DEFINE n == Len(stack)
             q == stack'
             d == stopped'
             call == Start(v, w, m)
  <1>1. /\ n \in Nat \ {0} /\ q \in Seq(Frame) /\ Len(q) = n + 1 /\ Top = stack[n] /\ q[n] = g
        /\ q[n + 1] = call
        /\ \A j \in 1 .. n - 1 : stack[j] = q[j]
    BY CallFrames DEF Top
  <1>0. call.pc = "start" /\ call.at = 1 /\ call.met = None
    BY DEF Start
  <1> HIDE DEF n, q, d, call
  <1>8. ~Resets(call)
    BY <1>0 DEF Resets
  <1>9. \A i \in 1 .. n : Clear(q, d, i, n + 1) <=> Clear(q, d, i, n)
    <2> SUFFICES ASSUME NEW i \in 1 .. n PROVE Clear(q, d, i, n + 1) <=> Clear(q, d, i, n)
      OBVIOUS
    <2>1. n + 1 \in Nat /\ i \in 1 .. (n + 1) - 1 /\ (n + 1) - 1 = n
      BY <1>1
    <2>2. Sunk(q[n + 1], d) = d
      BY <1>1, <1>8 DEF Sunk
    <2>3. QED BY <2>1, <2>2, ClearPeels
  <1>2. \A i \in 1 .. n - 1 : HasRead(q[i], Clear(q, d, i, n + 1))
    <2>1. \A i \in 1 .. n - 1 : HasRead(stack[i], Clear(stack, stopped, i, n))
      BY <1>1 DEF Frames, n
    <2>2. \A i \in 1 .. n - 1 : Clear(q, d, i, n + 1) => Clear(q, Sunk(g, d), i, n - 1)
      <3> SUFFICES ASSUME NEW i \in 1 .. n - 1
                   PROVE  Clear(q, d, i, n + 1) => Clear(q, Sunk(g, d), i, n - 1)
        OBVIOUS
      <3>1. Clear(q, d, i, n + 1) <=> Clear(q, d, i, n)
        BY <1>1, <1>9
      <3>2. Clear(q, d, i, n) <=> Clear(q, Sunk(q[n], d), i, n - 1)
        BY <1>1, ClearPeels
      <3>3. QED BY <1>1, <3>1, <3>2
    <2>3. Sunk(g, d) = None => Sunk(stack[n], stopped) = None
      BY <1>1 DEF d
    <2>4. n + 1 \in Nat
      BY <1>1
    <2>5. QED BY <1>1, <2>1, <2>2, <2>3, <2>4, LowerRead
  <1>3. HasRead(q[n], Clear(q, d, n, n + 1))
    <2>1. Clear(q, d, n, n + 1) <=> d = None
      BY <1>1, <1>9, ClearAtTop
    <2>2. Clear(q, d, n, n + 1) \in BOOLEAN /\ (d = None) \in BOOLEAN
      BY DEF Clear
    <2>3. HasRead(g, d = None)
      BY DEF d
    <2>4. QED BY <1>1, <2>1, <2>2, <2>3, ReadOfLess
  <1>4. \A i \in 1 .. n + 1 : HasRead(q[i], Clear(q, d, i, n + 1))
    <2>1. \A i \in 1 .. n + 1 : i = n + 1 \/ i = n \/ i \in 1 .. n - 1
      BY <1>1
    <2>2. HasRead(q[n + 1], Clear(q, d, n + 1, n + 1))
      BY <1>0, <1>1 DEF HasRead
    <2>3. QED BY <1>2, <1>3, <2>1, <2>2
  <1>5. q[1].node = asked.node /\ q[1].val = asked.val /\ q[1].mode = "fast"
    <2>1. stack[1].node = asked.node /\ stack[1].val = asked.val /\ stack[1].mode = "fast"
      BY DEF Frames
    <2>2. q[1] = stack[1] \/ (q[1] = g /\ stack[1] = Top)
      BY <1>1
    <2>3. QED BY <2>1, <2>2 DEF SameCall
  <1>6. ASSUME NEW i \in 1 .. n PROVE Links(q[i], q[i + 1])
    <2>1. CASE i = n
      BY <1>1, <2>1 DEF call
    <2>2. CASE i # n
      <3>1. i \in 1 .. n - 1
        BY <1>1, <2>2
      <3>2. Links(stack[i], stack[i + 1])
        BY <3>1 DEF Frames, n
      <3>3. q[i] = stack[i]
        BY <1>1, <3>1
      <3>4. i + 1 = n \/ i + 1 \in 1 .. n - 1
        BY <1>1, <3>1
      <3>5. q[i + 1] = stack[i + 1] \/ (q[i + 1] = g /\ stack[i + 1] = Top)
        BY <1>1, <3>4
      <3>6. QED BY <3>2, <3>3, <3>5, SameLinks
    <2>3. QED BY <2>1, <2>2
  <1>7. (n + 1) - 1 = n /\ q # <<>>
    BY <1>1
  <1>10. QED BY <1>1, <1>4, <1>5, <1>6, <1>7 DEF Frames, q, d
-----------------------------------------------------------------------------
(* The steps, where no list was written to and no signal is set.           *)

\* What the memo answers is so.
Truthful(table) == \A key \in Key : table[key].tag = "answered" => Told(truth, key) = Says(table[key].admitted)

Standing == /\ Inv /\ TruthIs /\ ~fatal
            /\ Frames(stack, stopped)
            /\ ret # "none" => Replied(stack, ret, stopped)
            /\ Truthful(decided) /\ Truthful(settled)
Moving   == fatal' \/ (Frames(stack', stopped') /\ (ret' # "none" => Replied(stack', ret', stopped')))

LEMMA StandsOn ==
    ASSUME Standing, stack # <<>>
    PROVE  /\ Known /\ stack \in Seq(Frame)
           /\ Top \in Frame /\ Top.node \in Node /\ Top.val \in Value /\ Top.mode \in Mode
           /\ HasRead(Top, stopped = None)
           /\ Top.pc = "start" => ret = "none"
           /\ ret # "none" => /\ ret \in Reply /\ Top.pc # "start" /\ Waits(Top)
                              /\ Right(CalledNode(Top), CalledVal(Top), CalledMode(Top), ret, stopped)
           /\ stopped \in Stop
  <1>1. Known /\ stack \in Seq(Frame) /\ stopped \in Stop
    BY DEF Standing, Known, Inv, StackOK, RestOK
  <1>2. Top \in Frame /\ Top.node \in Node /\ Top.val \in Value /\ Top.mode \in Mode
    BY <1>1, TopIsAFrame
  <1>3. HasRead(Top, stopped = None)
    <2> DEFINE n == Len(stack)
    <2>1. n \in Nat /\ n \in 1 .. n
      BY <1>1
    <2>2. HasRead(Top, Clear(stack, stopped, n, n))
      BY <2>1 DEF Standing, Frames, Top
    <2>3. Clear(stack, stopped, n, n) <=> stopped = None
      BY <2>1, ClearAtTop
    <2>4. Clear(stack, stopped, n, n) \in BOOLEAN /\ (stopped = None) \in BOOLEAN
      BY DEF Clear
    <2> HIDE DEF n
    <2>5. QED BY <2>2, <2>3, <2>4, ReadOfLess
  <1>4. ret # "none" => ret \in Reply /\ Top.pc # "start"
    BY <1>1, ReturnedTo DEF Standing, Inv, StackOK, Returning
  <1>5. ret # "none" => /\ Waits(Top)
                        /\ Right(CalledNode(Top), CalledVal(Top), CalledMode(Top), ret, stopped)
    BY DEF Standing, Replied, Top
  <1>6. QED BY <1>1, <1>2, <1>3, <1>4, <1>5

(* A call that took no level answers.                                      *)
LEMMA AnswersRight ==
    ASSUME Standing, Calling, Top.pc = "start", NEW r \in Reply, AnswerAt(r),
           Right(Top.node, Top.val, Top.mode, r, stopped'),
           stopped' = None => stopped = None
    PROVE  Moving
  <1>1. stack # <<>> /\ stack' = Pop /\ ret' = r
    BY DEF Calling, AnswerAt
  <1>2. Sunk(Top, stopped) = stopped
    BY DEF Sunk, Resets
  <1>3. Frames(stack', stopped') /\ Replied(stack', r, stopped')
    BY <1>1, <1>2, StandsOn, PopRight DEF Standing
  <1>4. QED BY <1>1, <1>3 DEF Moving

(* A call that took one answers.                                           *)
LEMMA ClosesRight ==
    ASSUME Standing, stack # <<>>, NEW r \in Reply, Close(r),
           Right(Top.node, Top.val, Top.mode, r, stopped'),
           stopped' = None => Sunk(Top, stopped) = None
    PROVE  Moving
  <1>1. stack' = Pop /\ ret' = r
    BY DEF Close
  <1>2. Frames(stack', stopped') /\ Replied(stack', r, stopped')
    BY <1>1, StandsOn, PopRight DEF Standing
  <1>3. QED BY <1>1, <1>2 DEF Moving

(* A stop is no answer.                                                    *)
LEMMA StopIsRight ==
    ASSUME NEW n, NEW v, NEW m, NEW code, code # None
    PROVE  Right(n, v, m, StoppedIn(m), code)
  BY DEF Right

LEMMA OrIsNone == ASSUME NEW a, NEW b, Or(a, b) = None PROVE a = None /\ b = None
  BY DEF Or

(* A test of the value itself answers.                                     *)
LEMMA TestedRight ==
    ASSUME Standing, Calling, Top.pc = "start", NEW r \in Reply, AnswerAt(r),
           Ev[Top.node][Top.val] = r, stopped' = stopped
    PROVE  Moving
  <1>1. Right(Top.node, Top.val, Top.mode, r, stopped')
    BY DEF Right
  <1>2. QED BY <1>1, AnswersRight

LEMMA PrologueRight ==
    ASSUME Standing, Unwind \/ TooDeep \/ TestLeaf \/ CompareLiteral \/ AskPredicate
    PROVE  Moving
  <1>1. stack # <<>> /\ Calling /\ Top.pc = "start"
    BY DEF Unwind, TooDeep, TestLeaf, CompareLiteral, AskPredicate, Opening, Calling
  <1>2. /\ Known /\ Top.node \in Node /\ Top.val \in Value /\ Top.mode \in Mode
    BY <1>1, StandsOn
  <1>3. CASE Unwind
    BY <1>3 DEF Unwind, Standing
  <1>4. StoppedIn(Top.mode) \in Reply /\ \A b : Says(b) \in Reply
    BY DEF StoppedIn, Says, Reply
  <1>5. CASE TooDeep
    <2>1. stopped' # None /\ AnswerAt(StoppedIn(Top.mode))
      BY <1>5 DEF TooDeep, RecordStop, Or, None
    <2>2. QED BY <1>1, <1>4, <2>1, StopIsRight, AnswersRight
  <1>6. CASE TestLeaf
    <2> DEFINE r == Says(Top.val \in TopNode.admits)
    <2>1. AnswerAt(r) /\ stopped' = stopped /\ IsKind(Top.node, {"leaf"})
      BY <1>6 DEF TestLeaf, Opening, IsKind, TopNode
    <2>2. Ev[Top.node][Top.val] = r /\ r \in Reply
      BY <1>2, <1>4, <2>1, TestAnswers DEF TopNode
    <2> HIDE DEF r
    <2>3. QED BY <1>1, <2>1, <2>2, TestedRight
  <1>7. CASE CompareLiteral
    <2> DEFINE r == Says(Top.val \in TopNode.admits \ (TopNode.raises \cup TopNode.kills))
    <2>1. /\ fatal' = (Top.val \in TopNode.kills) /\ stopped' = stopped /\ IsKind(Top.node, {"literal"})
          /\ AnswerAt(r)
      BY <1>7 DEF CompareLiteral, Opening, IsKind, TopNode
    <2>2. CASE Top.val \notin TopNode.kills
      <3>1. Ev[Top.node][Top.val] = r /\ r \in Reply
        BY <1>2, <1>4, <2>1, <2>2, TestAnswers DEF TopNode, Tested, IsKind, Says
      <3> HIDE DEF r
      <3>2. QED BY <1>1, <2>1, <3>1, TestedRight
    <2>3. QED BY <2>1, <2>2 DEF Moving
  <1>8. CASE AskPredicate
    <2>1. IsKind(Top.node, {"pred"})
      BY <1>8 DEF AskPredicate, Opening, IsKind, TopNode
    <2>2. \/ fatal'
          \/ /\ AnswerAt(StoppedIn(Top.mode)) /\ stopped' # None
          \/ /\ Top.val \notin TopNode.raises \cup TopNode.kills /\ stopped' = stopped
             /\ AnswerAt(Says(Top.val \in TopNode.admits))
      BY <1>8 DEF AskPredicate, RecordStop, Or, None
    <2>3. CASE AnswerAt(StoppedIn(Top.mode)) /\ stopped' # None
      BY <1>1, <1>4, <2>3, StopIsRight, AnswersRight
    <2>4. CASE /\ Top.val \notin TopNode.raises \cup TopNode.kills /\ stopped' = stopped
               /\ AnswerAt(Says(Top.val \in TopNode.admits))
      <3> DEFINE r == Says(Top.val \in TopNode.admits)
      <3>1. Ev[Top.node][Top.val] = r /\ r \in Reply /\ AnswerAt(r)
        BY <1>2, <1>4, <2>1, <2>4, TestAnswers DEF TopNode, Tested, IsKind, Says
      <3> HIDE DEF r
      <3>2. QED BY <1>1, <2>4, <3>1, TestedRight
    <2>5. QED BY <2>2, <2>3, <2>4 DEF Moving
  <1>9. QED BY <1>3, <1>5, <1>6, <1>7, <1>8

\* One frame has read what another has, and put aside what it has.
SameWork(g, f) == /\ SameCall(g, f) /\ g.pc = f.pc /\ g.at = f.at /\ g.count = f.count
                  /\ g.met = f.met /\ g.keeping = f.keeping /\ g.earlier = f.earlier

LEMMA WorkIsRead ==
    ASSUME NEW g, NEW f, SameWork(g, f)
    PROVE  /\ \A clear : HasRead(g, clear) <=> HasRead(f, clear)
           /\ \A code : Sunk(g, code) = Sunk(f, code)
           /\ \A e : Links(g, e) <=> Links(f, e)
  <1>1. \A clear : HasRead(g, clear) <=> HasRead(f, clear)
    <2> SUFFICES ASSUME NEW clear PROVE HasRead(g, clear) <=> HasRead(f, clear)
      OBVIOUS
    <2>1. ElementsHold(g) <=> ElementsHold(f)
      BY DEF SameWork, SameCall, ElementsHold
    <2>2. \A r : KidsSay(g, r) <=> KidsSay(f, r)
      BY DEF SameWork, SameCall, KidsSay
    <2>3. QED BY <2>1, <2>2 DEF SameWork, SameCall, HasRead, Scanned, HasMet, Refused
  <1>2. \A code : Sunk(g, code) = Sunk(f, code)
    BY DEF SameWork, SameCall, Sunk, Resets
  <1>3. \A e : Links(g, e) <=> Links(f, e)
    BY DEF SameWork, SameCall, Links, Waits, CalledNode, CalledVal, CalledMode
  <1>4. QED BY <1>1, <1>2, <1>3

(* A frame that had read nothing has read nothing where it opens.          *)
LEMMA NothingRead ==
    ASSUME Known, NEW f, f.node \in Node, f.at = 1
    PROVE  /\ \A r : KidsSay(f, r)
           /\ IsArray(f.node, f.val) => ElementsHold(f)
  <1>1. Schema[f.node].kids \in Seq(Node)
    BY SchemaIsATable
  <1>2. \A j \in DOMAIN Schema[f.node].kids : ~(j < f.at)
    BY <1>1
  <1>3. IsArray(f.node, f.val) => heap[f.val] \in Seq(Value)
    BY HeapsHoldValues DEF IsArray, Known, RestOK
  <1>4. IsArray(f.node, f.val) => \A j \in DOMAIN heap[f.val] : ~(j < f.at)
    BY <1>3
  <1>5. QED BY <1>2, <1>4 DEF KidsSay, ElementsHold

(* A call takes a level.                                                   *)
LEMMA OpensRight ==
    ASSUME Standing, Calling, Top.pc = "start", NEW f \in Frame, Open(f), SameCall(f, Top),
           f.at = Top.at, f.met = Top.met,
           IsKind(f.node, {"seq"}) => IsArray(f.node, f.val) /\ f.count = Len(heap[f.val]),
           Sunk([f EXCEPT !.pc = "open"], stopped') = None => stopped = None
    PROVE  Moving
  <1> DEFINE g == [f EXCEPT !.pc = "open"]
  <1>1. stack # <<>> /\ Become(g)
    BY DEF Calling, Open
  <1>2. /\ g \in Frame /\ SameCall(g, Top) /\ g.pc = "open" /\ g.at = f.at /\ g.count = f.count
        /\ g.met = f.met /\ g.node = f.node /\ g.val = f.val
    BY DEF Frame, SameCall
  <1>3. Known /\ stack \in Seq(Frame) /\ f.node \in Node /\ f.at = 1 /\ f.met = None
    BY <1>1, StandsOn DEF HasRead, SameCall
  <1> HIDE DEF g
  <1>4. (\A r : KidsSay(g, r)) /\ (IsArray(g.node, g.val) => ElementsHold(g))
    BY <1>2, <1>3, NothingRead
  <1>5. HasRead(g, stopped' = None)
    BY <1>2, <1>3, <1>4 DEF HasRead, Scanned, HasMet, Refused
  <1>6. Sunk(g, stopped') = None => Sunk(Top, stopped) = None
    BY DEF g, Sunk, Resets
  <1>7. Frames(stack', stopped') /\ ret' = "none"
    BY <1>1, <1>2, <1>3, <1>5, <1>6, BecomeRight DEF Standing, Become
  <1>8. QED BY <1>7 DEF Moving

(* A frame goes on to its next member.                                     *)
LEMMA BecomesRight ==
    ASSUME Standing, stack # <<>>, NEW g \in Frame, Become(g), SameCall(g, Top),
           HasRead(g, stopped' = None), Sunk(g, stopped') = None => Sunk(Top, stopped) = None
    PROVE  Moving
  <1>1. stack \in Seq(Frame)
    BY StandsOn
  <1>2. Frames(stack', stopped') /\ ret' = "none"
    BY <1>1, BecomeRight DEF Standing, Become
  <1>3. QED BY <1>2 DEF Moving

(* A frame calls its member.                                               *)
LEMMA CallsRight ==
    ASSUME Standing, stack # <<>>, NEW f \in Frame, SameWork(f, Top), NEW armed \in BOOLEAN,
           NEW n \in Node, NEW v \in Value, NEW m \in Mode, Call(f, n, v, m, armed),
           Waits(Top), n = CalledNode(Top), v = CalledVal(Top), m = CalledMode(Top),
           stopped' = stopped
    PROVE  Moving
  <1> DEFINE g == [f EXCEPT !.arming = armed, !.outer = memo.armed]
  <1>1. /\ ret' = "none"
        /\ stack' = Append([stack EXCEPT ![Len(stack)] = g], Start(n, v, m))
    BY DEF Call
  <1>2. memo.armed \in BOOLEAN
    BY DEF Standing, Inv, RestOK, MemoWords
  <1>3. g \in Frame /\ SameWork(g, f)
    BY <1>2 DEF Frame, SameWork, SameCall
  <1> HIDE DEF g
  <1>4. SameWork(g, Top) /\ SameCall(g, Top)
    BY <1>3 DEF SameWork, SameCall
  <1>5. stack \in Seq(Frame) /\ HasRead(Top, stopped = None)
    BY StandsOn
  <1>6. /\ HasRead(g, stopped' = None)
        /\ Sunk(g, stopped') = Sunk(Top, stopped)
        /\ Links(g, Start(n, v, m)) <=> Links(Top, Start(n, v, m))
    BY <1>4, <1>5, WorkIsRead
  <1>7. Links(Top, Start(n, v, m))
    BY DEF Links, Start
  <1>8. Frames(stack', stopped')
    BY <1>1, <1>3, <1>4, <1>5, <1>6, <1>7, CallRight DEF Standing
  <1>9. QED BY <1>1, <1>8 DEF Moving

LEMMA SeqRight ==
    ASSUME Standing, RefuseSeq \/ OpenSeq \/ SeqMoved \/ SeqElement \/ SeqEnd \/ SeqReturn
    PROVE  Moving
  <1>1. /\ stack # <<>> /\ IsKind(Top.node, {"seq"})
        /\ stopped' = stopped \/ SeqMoved
    BY DEF RefuseSeq, OpenSeq, SeqMoved, SeqElement, SeqEnd, SeqReturn, Opening, At, Back, Calling,
           Returning, IsKind, TopNode
  <1>2. /\ Known /\ stack \in Seq(Frame) /\ Top \in Frame /\ Top.node \in Node /\ Top.val \in Value
        /\ Top.mode \in Mode /\ HasRead(Top, stopped = None)
    BY <1>1, StandsOn
  <1>3. Sunk(Top, stopped) = stopped /\ \A i : i \in Nat \ {0} => ~Resets([Top EXCEPT !.at = i])
    BY <1>1, <1>2 DEF Sunk, Resets, IsKind, Frame
  <1>4. Top.pc # "start" => Scanned(Top, stopped = None) /\ heap[Top.val] \in Seq(Value)
    BY <1>1, <1>2, HeapsHoldValues DEF HasRead, Scanned, IsArray, Known, RestOK
  <1>5. /\ ~IsArray(Top.node, Top.val) => Ev[Top.node][Top.val] = "no"
        /\ IsArray(Top.node, Top.val) =>
              /\ (\A j \in DOMAIN heap[Top.val] : ElementSays(Top.node, Top.val, j, "yes"))
                    => Ev[Top.node][Top.val] = "yes"
              /\ (\E j \in DOMAIN heap[Top.val] : ElementSays(Top.node, Top.val, j, "no"))
                    => Ev[Top.node][Top.val] = "no"
    BY <1>1, <1>2, SeqAnswers
  <1>6. CASE RefuseSeq
    <2>1. /\ Calling /\ Top.pc = "start" /\ AnswerAt("no") /\ stopped' = stopped
          /\ Ev[Top.node][Top.val] = "no"
      BY <1>5, <1>6 DEF RefuseSeq, Opening
    <2>2. QED BY <2>1, TestedRight DEF Reply
  <1>7. CASE OpenSeq
    <2> DEFINE f == [Top EXCEPT !.count = Len(heap[Top.val])]
    <2>1. /\ Calling /\ Top.pc = "start" /\ Open(f) /\ stopped' = stopped
          /\ IsArray(Top.node, Top.val)
      BY <1>7 DEF OpenSeq, Opening
    <2>2. Len(heap[Top.val]) \in Nat
      BY <1>2, <2>1, HeapsHoldValues DEF IsArray, Known, RestOK
    <2>3. /\ f \in Frame /\ SameCall(f, Top) /\ f.at = Top.at /\ f.met = Top.met
          /\ f.count = Len(heap[Top.val]) /\ f.node = Top.node /\ f.val = Top.val
      BY <1>2, <2>2 DEF Frame, SameCall
    <2> HIDE DEF f
    <2>4. Sunk([f EXCEPT !.pc = "open"], stopped') = stopped'
      BY <1>1, <2>3 DEF Sunk, Resets, IsKind, Frame
    <2>5. QED BY <2>1, <2>3, <2>4, OpensRight
  <1>8. CASE SeqMoved
    BY <1>4, <1>8 DEF SeqMoved, At, Scanned
  <1>9. CASE SeqElement
    <2>1. /\ Top.pc # "start" /\ Top.at <= Top.count /\ Len(heap[Top.val]) = Top.count
          /\ Call(Top, ElementOf(Top.node, Top.at), heap[Top.val][Top.at], Top.mode, FALSE)
          /\ stopped' = stopped
      BY <1>9 DEF SeqElement, At
    <2>2. Top.at \in 1 .. Top.count /\ Top.at \in DOMAIN heap[Top.val]
      BY <1>2, <1>4, <2>1 DEF Frame
    <2>3. ElementOf(Top.node, Top.at) \in Node /\ heap[Top.val][Top.at] \in Value
      BY <1>1, <2>1, <2>2, <1>4, ScanFrame DEF Standing, IsKind, TopNode
    <2>4. /\ Waits(Top) /\ ElementOf(Top.node, Top.at) = CalledNode(Top)
          /\ heap[Top.val][Top.at] = CalledVal(Top) /\ Top.mode = CalledMode(Top)
      BY <1>1, <2>2 DEF Waits, CalledNode, CalledVal, CalledMode, IsKind
    <2>5. SameWork(Top, Top)
      BY DEF SameWork, SameCall
    <2>6. QED BY <1>1, <1>2, <2>1, <2>3, <2>4, <2>5, CallsRight
  <1>10. CASE SeqEnd
    <2>1. Top.pc # "start" /\ Top.at > Top.count /\ Close("yes") /\ stopped' = stopped
      BY <1>10 DEF SeqEnd, At
    <2>2. \A j \in DOMAIN heap[Top.val] : j < Top.at
      BY <1>2, <1>4, <2>1 DEF Scanned, Frame
    <2>3. Right(Top.node, Top.val, Top.mode, "yes", stopped')
      <3>1. "yes" # StoppedIn(Top.mode) \/ stopped' = None => Top.mode = "fast" \/ stopped = None
        BY <1>2, <2>1 DEF StoppedIn, Mode
      <3>2. Top.mode = "fast" \/ stopped = None =>
               \A j \in DOMAIN heap[Top.val] : ElementSays(Top.node, Top.val, j, "yes")
        BY <1>4, <2>1, <2>2 DEF Scanned, ElementsHold
      <3>3. QED BY <1>4, <1>5, <2>1, <3>1, <3>2 DEF Right, Scanned
    <2>4. QED BY <1>1, <1>3, <2>1, <2>3, ClosesRight DEF Reply
  <1>11. CASE SeqReturn
    <2>1. ret # "none" /\ stopped' = stopped
      BY <1>11 DEF SeqReturn, Back, Returning
    <2>2. /\ ret \in Reply /\ Top.pc # "start" /\ Top.at \in DOMAIN heap[Top.val]
          /\ Right(ElementOf(Top.node, Top.at), heap[Top.val][Top.at], Top.mode, ret, stopped)
      BY <1>1, <2>1, StandsOn DEF Waits, CalledNode, CalledVal, CalledMode, IsKind
    <2>3. (ret # StoppedIn(Top.mode) \/ stopped = None) => ElementSays(Top.node, Top.val, Top.at, ret)
      BY <2>2 DEF Right, ElementSays
    <2>4. CASE ret = "yes"
      <3> DEFINE g == [Top EXCEPT !.at = @ + 1]
      <3>1. Become(g)
        BY <1>11, <2>4 DEF SeqReturn
      <3>2. Top.at + 1 \in Nat \ {0}
        BY <1>2 DEF Frame
      <3>3. /\ g \in Frame /\ SameCall(g, Top) /\ g.at = Top.at + 1 /\ g.count = Top.count
            /\ g.pc = Top.pc /\ g.node = Top.node /\ g.val = Top.val /\ g.mode = Top.mode
        BY <1>2, <3>2 DEF Frame, SameCall
      <3>4. Sunk(g, stopped') = stopped'
        BY <1>3, <3>2 DEF Sunk
      <3> HIDE DEF g
      <3>5. Top.mode = "fast" \/ stopped = None => ElementsHold(g)
        <4>1. Top.mode = "fast" \/ stopped = None => /\ ElementsHold(Top)
                                                     /\ ElementSays(Top.node, Top.val, Top.at, "yes")
          BY <1>4, <2>2, <2>3, <2>4 DEF Scanned, StoppedIn
        <4>2. \A j \in DOMAIN heap[Top.val] : j < Top.at + 1 => j < Top.at \/ j = Top.at
          BY <1>2, <1>4, <2>2 DEF Frame
        <4>3. QED BY <3>3, <4>1, <4>2 DEF ElementsHold
      <3>6. HasRead(g, stopped' = None)
        <4>1. Scanned(g, stopped' = None)
          BY <1>4, <2>1, <2>2, <3>3, <3>5 DEF Scanned
        <4>2. QED BY <1>1, <2>2, <3>3, <4>1 DEF HasRead, IsKind
      <3>7. QED BY <1>1, <1>3, <2>1, <3>1, <3>3, <3>4, <3>6, BecomesRight
    <2>5. CASE ret = "no"
      <3>1. Close("no")
        BY <1>11, <2>5 DEF SeqReturn
      <3>2. Right(Top.node, Top.val, Top.mode, "no", stopped')
        BY <1>4, <1>5, <2>1, <2>2, <2>3, <2>5 DEF Right, Scanned
      <3>3. QED BY <1>1, <1>3, <2>1, <3>1, <3>2, ClosesRight DEF Reply
    <2>6. QED BY <2>2, <2>4, <2>5 DEF Reply
  <1>12. QED BY <1>6, <1>7, <1>8, <1>9, <1>10, <1>11

(* A union goes past a branch that refuses, and ends at one that admits.   *)
LEMMA AfterRight ==
    ASSUME Standing, stack # <<>>, IsKind(Top.node, {"union"}), Top.pc # "start",
           NEW f \in Frame, SameWork(f, Top), Top.at \in DOMAIN TopNode.kids, NEW r \in Reply,
           Right(TopNode.kids[Top.at], Top.val, Top.mode, r, stopped), AfterBranch(f, r)
    PROVE  Moving
  <1>1. /\ Known /\ stack \in Seq(Frame) /\ Top \in Frame /\ Top.node \in Node /\ Top.val \in Value
        /\ Top.mode \in Mode /\ HasRead(Top, stopped = None) /\ stopped \in Stop
    BY StandsOn
  <1>2. Refused(Top, stopped = None) /\ TopNode.kids = Schema[Top.node].kids
    BY <1>1 DEF HasRead, TopNode
  <1>3. Top.mode = "settle" \/ Top.mode = "fast"
    BY <1>1 DEF Mode
  <1>4. (r # StoppedIn(Top.mode) \/ stopped = None) => KidSays(Top.node, Top.val, Top.at, r)
    BY <1>2 DEF Right, KidSays
  <1>5. (\E j \in DOMAIN TopNode.kids : KidSays(Top.node, Top.val, j, "yes")) => Ev[Top.node][Top.val] = "yes"
    BY <1>1, <1>2, KidsAnswer
  <1>6. Top.at + 1 \in Nat \ {0} /\ \A j \in DOMAIN TopNode.kids : j < Top.at + 1 => j < Top.at \/ j = Top.at
    <2>1. Top.at \in Nat /\ TopNode.kids \in Seq(Node)
      BY <1>1, <1>2, SchemaIsATable DEF Frame
    <2>2. QED BY <2>1
  <1>7. CASE Close("yes") /\ r = "yes" /\ (Top.mode = "fast" \/ stopped = None)
    <2>1. Ev[Top.node][Top.val] = "yes"
      BY <1>4, <1>5, <1>7 DEF StoppedIn
    <2>2. Right(Top.node, Top.val, Top.mode, "yes", stopped')
      BY <2>1 DEF Right
    <2>3. stopped' = None => Sunk(Top, stopped) = None
      BY <1>3, <1>7 DEF AfterBranch, Sunk, Resets, SameWork, SameCall, IsKind
    <2>4. QED BY <1>7, <2>2, <2>3, ClosesRight DEF Reply
  <1>8. CASE Top.mode = "fast" /\ r = "no"
    <2> DEFINE g == [f EXCEPT !.at = @ + 1]
    <2>1. Become(g) /\ stopped' = stopped
      BY <1>8 DEF AfterBranch, SameWork, SameCall
    <2>2. /\ g \in Frame /\ SameCall(g, Top) /\ g.at = Top.at + 1 /\ g.pc = Top.pc /\ g.met = Top.met
          /\ g.node = Top.node /\ g.val = Top.val /\ g.mode = Top.mode
      BY <1>1, <1>6 DEF Frame, SameWork, SameCall
    <2> HIDE DEF g
    <2>3. Sunk(g, stopped') = stopped /\ Sunk(Top, stopped) = stopped
      BY <1>8, <2>1, <2>2 DEF Sunk, Resets, IsKind
    <2>4. stopped = None => KidsSay(g, "no")
      <3>1. stopped = None => KidsSay(Top, "no") /\ KidSays(Top.node, Top.val, Top.at, "no")
        BY <1>2, <1>4, <1>8 DEF Refused
      <3>2. QED BY <1>2, <1>6, <2>2, <3>1 DEF KidsSay
    <2>5. HasRead(g, stopped' = None)
      <3>1. Refused(g, stopped' = None)
        BY <1>2, <1>8, <2>1, <2>2, <2>4 DEF Refused
      <3>2. QED BY <2>2, <3>1 DEF HasRead, IsKind
    <2>6. QED BY <2>1, <2>2, <2>3, <2>5, BecomesRight
  <1>9. CASE Top.mode = "settle" /\ (r = "no" \/ stopped # None)
    <2> DEFINE m == IF r = "yes" THEN Or(f.met, stopped) ELSE f.met
               g == [f EXCEPT !.at = f.at + 1, !.met = m]
               h == [f EXCEPT !.at = @ + 1, !.met = IF r = "yes" THEN Or(@, stopped) ELSE @]
    <2>1. Become(h) /\ stopped' = None
      BY <1>9 DEF AfterBranch, SameWork, SameCall
    <2>2. h = g
      BY Zenon
    <2>3. m \in Stop /\ (m = None => Top.met = None /\ r = "no")
      BY <1>1, <1>9 DEF Or, Frame, Stop, SameWork, Reply
    <2>4. f.at + 1 \in Nat \ {0} /\ f.at = Top.at
      BY <1>6 DEF SameWork
    <2> HIDE DEF m, h
    <2>5. /\ g \in Frame /\ SameCall(g, Top) /\ g.at = Top.at + 1 /\ g.pc = Top.pc /\ g.met = m
          /\ g.node = Top.node /\ g.val = Top.val /\ g.mode = Top.mode /\ g.earlier = Top.earlier
      BY <1>1, <2>3, <2>4 DEF Frame, SameWork, SameCall
    <2>6. Become(g)
      BY <2>1, <2>2
    <2> HIDE DEF g
    <2>7. Sunk(g, stopped') = Top.earlier /\ Sunk(Top, stopped) = Top.earlier
      BY <1>9, <2>5 DEF Sunk, Resets, IsKind
    <2>8. m = None => KidsSay(g, "no")
      <3>1. m = None => KidsSay(Top, "no") /\ KidSays(Top.node, Top.val, Top.at, "no")
        BY <1>2, <1>4, <1>9, <2>3 DEF Refused, StoppedIn
      <3>2. QED BY <1>2, <1>6, <2>5, <3>1 DEF KidsSay
    <2>9. HasRead(g, stopped' = None)
      <3>1. Refused(g, stopped' = None)
        BY <1>9, <2>5, <2>8 DEF Refused
      <3>2. QED BY <2>5, <3>1 DEF HasRead, IsKind
    <2>10. QED BY <2>5, <2>6, <2>7, <2>9, BecomesRight
  <1>10. QED BY <1>3, <1>7, <1>8, <1>9 DEF AfterBranch, SameWork, SameCall, Reply

LEMMA UnionRight ==
    ASSUME Standing, OpenUnion \/ UnionScalar \/ UnionBranch \/ UnionReturn \/ UnionEnd
    PROVE  Moving
  <1>1. stack # <<>> /\ IsKind(Top.node, {"union"})
    BY DEF OpenUnion, UnionScalar, UnionBranch, UnionReturn, UnionEnd, Opening, At, Back, Calling,
           Returning, IsKind, TopNode
  <1>2. /\ Known /\ stack \in Seq(Frame) /\ Top \in Frame /\ Top.node \in Node /\ Top.val \in Value
        /\ Top.mode \in Mode /\ HasRead(Top, stopped = None) /\ stopped \in Stop
    BY <1>1, StandsOn
  <1>3. Top.mode = "settle" \/ Top.mode = "fast"
    BY <1>2 DEF Mode
  <1>4. /\ TopNode = Schema[Top.node] /\ TopNode.kids \in Seq(Node) /\ Top.at \in Nat \ {0}
        /\ memo.entered \in Nat /\ None \in Stop
    BY <1>2, SchemaIsATable DEF TopNode, Frame, Known, RestOK, MemoWords, Stop
  <1>5. CASE OpenUnion
    <2> DEFINE f == [Top EXCEPT !.earlier = IF Top.mode = "settle" THEN stopped ELSE None]
    <2>1. /\ Calling /\ Top.pc = "start" /\ Open(f)
          /\ stopped' = IF Top.mode = "settle" THEN None ELSE stopped
      BY <1>5 DEF OpenUnion, Opening
    <2>2. /\ f \in Frame /\ SameCall(f, Top) /\ f.at = Top.at /\ f.met = Top.met /\ f.node = Top.node
          /\ f.earlier = (IF Top.mode = "settle" THEN stopped ELSE None) /\ f.mode = Top.mode
      BY <1>2, <1>4 DEF Frame, SameCall
    <2> HIDE DEF f
    <2>3. Sunk([f EXCEPT !.pc = "open"], stopped') = stopped
      <3> DEFINE g == [f EXCEPT !.pc = "open"]
      <3>1. g.pc = "open" /\ g.node = f.node /\ g.mode = f.mode /\ g.earlier = f.earlier
        BY <2>2 DEF Frame
      <3> HIDE DEF g
      <3>2. Sunk(g, stopped') = stopped
        BY <1>1, <1>3, <2>1, <2>2, <3>1 DEF Sunk, Resets, IsKind
      <3>3. QED BY <3>2 DEF g
    <2>4. ~IsKind(f.node, {"seq"})
      BY <1>1, <2>2 DEF IsKind
    <2>5. QED BY <2>1, <2>2, <2>3, <2>4, OpensRight
  <1>6. CASE UnionScalar
    <2> DEFINE r == Says(Top.val \in Schema[Branch].admits)
    <2>1. /\ Top.pc # "start" /\ Top.at \in DOMAIN TopNode.kids /\ AfterBranch(Top, r)
          /\ IsKind(Branch, {"leaf"})
      BY <1>4, <1>6 DEF UnionScalar, At, Standing, ReadInPlace, IsKind
    <2>2. Branch \in Node /\ r \in Reply
      BY <1>4, <2>1 DEF Branch, Says, Reply
    <2>3. Ev[Branch][Top.val] = r
      BY <1>2, <2>1, <2>2, TestAnswers
    <2> HIDE DEF r
    <2>4. Right(TopNode.kids[Top.at], Top.val, Top.mode, r, stopped)
      BY <2>3 DEF Right, Branch
    <2>5. SameWork(Top, Top)
      BY DEF SameWork, SameCall
    <2>6. QED BY <1>1, <1>2, <2>1, <2>2, <2>4, <2>5, AfterRight
  <1>7. CASE UnionBranch
    <2> DEFINE f == [Top EXCEPT !.entered = IF @ = Unread THEN memo.entered ELSE @]
    <2>1. /\ Top.pc # "start" /\ Top.at \in DOMAIN TopNode.kids /\ stopped' = stopped
          /\ Call(f, Branch, Top.val, Top.mode, Again(Top))
      BY <1>4, <1>7 DEF UnionBranch, At
    <2>2. f \in Frame /\ SameWork(f, Top)
      BY <1>2, <1>4 DEF Frame, SameWork, SameCall
    <2> HIDE DEF f
    <2>3. Branch \in Node /\ Again(Top) \in BOOLEAN
      BY <1>4, <2>1 DEF Branch, Again
    <2>4. /\ Waits(Top) /\ Branch = CalledNode(Top) /\ Top.val = CalledVal(Top)
          /\ Top.mode = CalledMode(Top)
      BY <1>1, <1>4, <2>1 DEF Waits, CalledNode, CalledVal, CalledMode, IsKind, Branch
    <2>5. QED BY <1>1, <1>2, <2>1, <2>2, <2>3, <2>4, CallsRight
  <1>8. CASE UnionReturn
    <2> DEFINE f == [Top EXCEPT !.arming = FALSE]
    <2>1. ret # "none" /\ AfterBranch(f, ret)
      BY <1>8 DEF UnionReturn, Back, Returning
    <2>2. /\ ret \in Reply /\ Top.pc # "start" /\ Top.at \in DOMAIN TopNode.kids
          /\ Right(TopNode.kids[Top.at], Top.val, Top.mode, ret, stopped)
      BY <1>1, <1>4, <2>1, StandsOn DEF Waits, CalledNode, CalledVal, CalledMode, IsKind
    <2>3. f \in Frame /\ SameWork(f, Top)
      BY <1>2 DEF Frame, SameWork, SameCall
    <2> HIDE DEF f
    <2>4. QED BY <1>1, <2>1, <2>2, <2>3, AfterRight
  <1>9. CASE UnionEnd
    <2> DEFINE r == Says(Top.met # None)
    <2>1. /\ Top.pc # "start" /\ Top.at > Len(TopNode.kids) /\ Close(r)
          /\ stopped' = IF Top.mode = "settle" THEN Or(Top.earlier, Top.met) ELSE stopped
      BY <1>9 DEF UnionEnd, At
    <2>2. Refused(Top, stopped = None) /\ r \in Reply
      BY <1>1, <1>2, <2>1 DEF HasRead, Says, Reply
    <2>3. KidsSay(Top, "no") => Ev[Top.node][Top.val] = "no"
      <3>1. \A j \in DOMAIN TopNode.kids : j < Top.at
        BY <1>4, <2>1
      <3>2. QED BY <1>1, <1>2, <1>4, <3>1, KidsAnswer DEF KidsSay
    <2>4. Right(Top.node, Top.val, Top.mode, r, stopped')
      <3>1. CASE Top.mode = "fast"
        BY <2>1, <2>2, <2>3, <3>1 DEF Right, Refused, StoppedIn, Says
      <3>2. CASE Top.mode = "settle" /\ Top.met = None
        BY <2>2, <2>3, <3>2 DEF Right, Refused, Says
      <3>3. CASE Top.mode = "settle" /\ Top.met # None
        <4>1. stopped' # None
          BY <2>1, <3>3 DEF Or
        <4>2. r = StoppedIn(Top.mode)
          BY <3>3 DEF StoppedIn, Says
        <4>3. QED BY <4>1, <4>2 DEF Right
      <3>4. QED BY <1>3, <3>1, <3>2, <3>3
    <2>5. stopped' = None => Sunk(Top, stopped) = None
      BY <1>1, <1>3, <2>1 DEF Sunk, Resets, IsKind, Or
    <2> HIDE DEF r
    <2>6. QED BY <1>1, <2>1, <2>2, <2>4, <2>5, ClosesRight
  <1>10. QED BY <1>5, <1>6, <1>7, <1>8, <1>9

LEMMA MeetRight ==
    ASSUME Standing, OpenMeet \/ MeetMember \/ MeetReturn \/ MeetEnd
    PROVE  Moving
  <1>1. stack # <<>> /\ IsKind(Top.node, {"meet"}) /\ stopped' = stopped
    BY DEF OpenMeet, MeetMember, MeetReturn, MeetEnd, Opening, At, Back, Calling, Returning, IsKind,
           TopNode
  <1>2. /\ Known /\ stack \in Seq(Frame) /\ Top \in Frame /\ Top.node \in Node /\ Top.val \in Value
        /\ Top.mode \in Mode /\ HasRead(Top, stopped = None)
    BY <1>1, StandsOn
  <1>3. /\ TopNode = Schema[Top.node] /\ TopNode.kids \in Seq(Node) /\ Top.at \in Nat \ {0}
        /\ memo.entered \in Nat
    BY <1>2, SchemaIsATable DEF TopNode, Frame, Known, RestOK, MemoWords
  <1>4. Sunk(Top, stopped) = stopped
    BY <1>1 DEF Sunk, Resets, IsKind
  <1>5. /\ (\A j \in DOMAIN TopNode.kids : KidSays(Top.node, Top.val, j, "yes")) => Ev[Top.node][Top.val] = "yes"
        /\ (\E j \in DOMAIN TopNode.kids : KidSays(Top.node, Top.val, j, "no")) => Ev[Top.node][Top.val] = "no"
    BY <1>1, <1>2, <1>3, KidsAnswer
  <1>6. Top.pc # "start" => HasMet(Top, stopped = None)
    BY <1>1, <1>2 DEF HasRead
  <1>7. CASE OpenMeet
    <2> DEFINE f == [Top EXCEPT !.entered = memo.entered]
    <2>1. Calling /\ Top.pc = "start" /\ Open(f)
      BY <1>7 DEF OpenMeet, Opening
    <2>2. f \in Frame /\ SameCall(f, Top) /\ f.at = Top.at /\ f.met = Top.met /\ f.node = Top.node
      BY <1>2, <1>3 DEF Frame, SameCall
    <2> HIDE DEF f
    <2>3. Sunk([f EXCEPT !.pc = "open"], stopped') = stopped'
      BY <1>1, <2>2 DEF Sunk, Resets, IsKind, Frame
    <2>4. ~IsKind(f.node, {"seq"})
      BY <1>1, <2>2 DEF IsKind
    <2>5. QED BY <1>1, <2>1, <2>2, <2>3, <2>4, OpensRight
  <1>8. CASE MeetMember
    <2> DEFINE n == TopNode.kids[Top.at]
    <2>1. /\ Top.pc # "start" /\ Top.at \in DOMAIN TopNode.kids
          /\ Call(Top, n, Top.val, Top.mode, Again(Top))
      BY <1>3, <1>8 DEF MeetMember, At
    <2>2. n \in Node /\ Again(Top) \in BOOLEAN
      BY <1>3, <2>1 DEF Again
    <2>3. Waits(Top) /\ n = CalledNode(Top) /\ Top.val = CalledVal(Top) /\ Top.mode = CalledMode(Top)
      BY <1>1, <1>3, <2>1 DEF Waits, CalledNode, CalledVal, CalledMode, IsKind
    <2>4. SameWork(Top, Top)
      BY DEF SameWork, SameCall
    <2> HIDE DEF n
    <2>5. QED BY <1>1, <1>2, <2>1, <2>2, <2>3, <2>4, CallsRight
  <1>9. CASE MeetReturn
    <2>1. ret # "none"
      BY <1>9 DEF MeetReturn, Back, Returning
    <2>2. /\ ret \in Reply /\ Top.pc # "start" /\ Top.at \in DOMAIN TopNode.kids
          /\ Right(TopNode.kids[Top.at], Top.val, Top.mode, ret, stopped)
      BY <1>1, <1>3, <2>1, StandsOn DEF Waits, CalledNode, CalledVal, CalledMode, IsKind
    <2>3. (ret # StoppedIn(Top.mode) \/ stopped = None) => KidSays(Top.node, Top.val, Top.at, ret)
      BY <1>3, <2>2 DEF Right, KidSays
    <2>4. CASE ret = "yes"
      <3> DEFINE g == [Top EXCEPT !.at = @ + 1, !.arming = FALSE]
      <3>1. Become(g)
        BY <1>9, <2>4 DEF MeetReturn
      <3>2. Top.at + 1 \in Nat \ {0} /\ \A j \in DOMAIN TopNode.kids : j < Top.at + 1 => j < Top.at \/ j = Top.at
        BY <1>3
      <3>3. /\ g \in Frame /\ SameCall(g, Top) /\ g.at = Top.at + 1 /\ g.pc = Top.pc
            /\ g.node = Top.node /\ g.val = Top.val /\ g.mode = Top.mode
        BY <1>2, <3>2 DEF Frame, SameCall
      <3> HIDE DEF g
      <3>4. Sunk(g, stopped') = stopped'
        BY <1>1, <3>3 DEF Sunk, Resets, IsKind
      <3>5. Top.mode = "fast" \/ stopped = None => KidsSay(g, "yes")
        <4>1. Top.mode = "fast" \/ stopped = None => /\ KidsSay(Top, "yes")
                                                     /\ KidSays(Top.node, Top.val, Top.at, "yes")
          BY <1>6, <2>2, <2>3, <2>4 DEF HasMet, StoppedIn
        <4>2. QED BY <1>3, <3>2, <3>3, <4>1 DEF KidsSay
      <3>6. HasRead(g, stopped' = None)
        <4>1. HasMet(g, stopped' = None)
          BY <1>1, <3>3, <3>5 DEF HasMet
        <4>2. QED BY <1>1, <2>2, <3>3, <4>1 DEF HasRead, IsKind
      <3>7. QED BY <1>1, <1>4, <3>1, <3>3, <3>4, <3>6, BecomesRight
    <2>5. CASE ret = "no"
      <3>1. Close("no")
        BY <1>9, <2>5 DEF MeetReturn
      <3>2. Right(Top.node, Top.val, Top.mode, "no", stopped')
        BY <1>1, <1>5, <2>2, <2>3, <2>5 DEF Right
      <3>3. QED BY <1>1, <1>4, <3>1, <3>2, ClosesRight DEF Reply
    <2>6. QED BY <2>2, <2>4, <2>5 DEF Reply
  <1>10. CASE MeetEnd
    <2>1. Top.pc # "start" /\ Top.at > Len(TopNode.kids) /\ Close("yes")
      BY <1>10 DEF MeetEnd, At
    <2>2. \A j \in DOMAIN TopNode.kids : j < Top.at
      BY <1>3, <2>1
    <2>3. Right(Top.node, Top.val, Top.mode, "yes", stopped')
      <3>1. "yes" # StoppedIn(Top.mode) \/ stopped' = None => Top.mode = "fast" \/ stopped = None
        BY <1>1, <1>2 DEF StoppedIn, Mode
      <3>2. Top.mode = "fast" \/ stopped = None =>
               \A j \in DOMAIN TopNode.kids : KidSays(Top.node, Top.val, j, "yes")
        BY <1>3, <1>6, <2>1, <2>2 DEF HasMet, KidsSay
      <3>3. QED BY <1>5, <3>1, <3>2 DEF Right
    <2>4. QED BY <1>1, <1>4, <2>1, <2>3, ClosesRight DEF Reply
  <1>11. QED BY <1>7, <1>8, <1>9, <1>10

LEMMA NotRight ==
    ASSUME Standing, OpenNot \/ NotInner \/ NotReturn
    PROVE  Moving
  <1>1. stack # <<>> /\ IsKind(Top.node, {"not"})
    BY DEF OpenNot, NotInner, NotReturn, Opening, At, Back, Calling, Returning, IsKind, TopNode
  <1>2. /\ Known /\ stack \in Seq(Frame) /\ Top \in Frame /\ Top.node \in Node /\ Top.val \in Value
        /\ Top.mode \in Mode /\ HasRead(Top, stopped = None) /\ stopped \in Stop /\ moves \in Nat
    BY <1>1, StandsOn DEF Known, RestOK
  <1>3. TopNode = Schema[Top.node] /\ TopNode.kids[1] \in Node
    <2>1. TopNode = Schema[Top.node] /\ TopNode.kids \in Seq(Node) /\ Len(TopNode.kids) = 1
      BY <1>1, <1>2, SchemaIsATable, NotHasOneKid DEF TopNode, IsKind
    <2>2. QED BY <2>1
  <1>4. Top.pc # "start" => Sunk(Top, stopped) = Top.earlier
    BY <1>1 DEF Sunk, Resets
  <1>5. CASE OpenNot
    <2> DEFINE f == [Top EXCEPT !.earlier = stopped, !.moves = moves]
    <2>1. Calling /\ Top.pc = "start" /\ Open(f)
      BY <1>5 DEF OpenNot, Opening
    <2>2. /\ f \in Frame /\ SameCall(f, Top) /\ f.at = Top.at /\ f.met = Top.met /\ f.node = Top.node
          /\ f.earlier = stopped
      BY <1>2 DEF Frame, SameCall
    <2> HIDE DEF f
    <2>3. Sunk([f EXCEPT !.pc = "open"], stopped') = stopped
      <3> DEFINE g == [f EXCEPT !.pc = "open"]
      <3>1. g.pc = "open" /\ g.node = f.node /\ g.earlier = f.earlier
        BY <2>2 DEF Frame
      <3> HIDE DEF g
      <3>2. Sunk(g, stopped') = stopped
        BY <1>1, <2>2, <3>1 DEF Sunk, Resets, IsKind
      <3>3. QED BY <3>2 DEF g
    <2>4. ~IsKind(f.node, {"seq"})
      BY <1>1, <2>2 DEF IsKind
    <2>5. QED BY <2>1, <2>2, <2>3, <2>4, OpensRight
  <1>6. CASE NotInner
    <2> DEFINE n == TopNode.kids[1]
    <2>1. Call(Top, n, Top.val, "settle", FALSE) /\ stopped' = stopped
      BY <1>6 DEF NotInner
    <2>2. Waits(Top) /\ n = CalledNode(Top) /\ Top.val = CalledVal(Top) /\ "settle" = CalledMode(Top)
      BY <1>1, <1>3 DEF Waits, CalledNode, CalledVal, CalledMode, IsKind
    <2>3. SameWork(Top, Top) /\ n \in Node /\ "settle" \in Mode
      BY <1>3 DEF SameWork, SameCall, Mode
    <2> HIDE DEF n
    <2>4. QED BY <1>1, <1>2, <2>1, <2>2, <2>3, CallsRight
  <1>7. CASE NotReturn
    <2>1. ret # "none"
      BY <1>7 DEF NotReturn, Back, Returning
    <2>2. /\ ret \in Reply /\ Top.pc # "start"
          /\ Right(TopNode.kids[1], Top.val, "settle", ret, stopped)
      BY <1>1, <1>3, <2>1, StandsOn DEF CalledNode, CalledVal, CalledMode, IsKind
    <2>3. (ret = "no" \/ stopped = None) => KidSays(Top.node, Top.val, 1, ret)
      BY <1>3, <2>2 DEF Right, KidSays, StoppedIn
    <2>4. /\ KidSays(Top.node, Top.val, 1, "yes") => Ev[Top.node][Top.val] = "no"
          /\ KidSays(Top.node, Top.val, 1, "no") => Ev[Top.node][Top.val] = "yes"
      BY <1>1, <1>2, NotAnswers
    <2>5. CASE moves = Top.moves /\ ret = "no" /\ stopped' = Top.earlier /\ Close("yes")
      <3>1. Right(Top.node, Top.val, Top.mode, "yes", stopped')
        BY <2>3, <2>4, <2>5 DEF Right
      <3>2. stopped' = None => Sunk(Top, stopped) = None
        BY <1>4, <2>2, <2>5
      <3>3. QED BY <1>1, <2>5, <3>1, <3>2, ClosesRight DEF Reply
    <2> DEFINE r == IF InnerStop # None THEN StoppedIn(Top.mode) ELSE "no"
    <2>6. CASE /\ moves # Top.moves \/ ret = "yes"
               /\ stopped' = Or(Top.earlier, InnerStop)
               /\ Close(r)
      <3>1. r \in Reply
        BY DEF Reply, StoppedIn
      <3>2. Right(Top.node, Top.val, Top.mode, r, stopped')
        <4>1. CASE InnerStop # None
          <5>1. stopped' # None /\ r = StoppedIn(Top.mode)
            BY <2>6, <4>1 DEF Or
          <5>2. QED BY <5>1, StopIsRight
        <4>2. CASE InnerStop = None
          <5>1. ret = "yes" /\ stopped = None
            BY <2>6, <4>2 DEF InnerStop, None
          <5>2. Ev[Top.node][Top.val] = "no"
            BY <2>3, <2>4, <5>1
          <5>3. r = "no"
            BY <4>2
          <5>4. QED BY <5>2, <5>3 DEF Right
        <4>3. QED BY <4>1, <4>2
      <3>3. stopped' = None => Sunk(Top, stopped) = None
        BY <1>4, <2>2, <2>6, OrIsNone
      <3> HIDE DEF r
      <3>4. QED BY <1>1, <2>6, <3>1, <3>2, <3>3, ClosesRight
    <2>7. QED BY <1>7, <2>5, <2>6 DEF NotReturn
  <1>8. QED BY <1>5, <1>6, <1>7

(* What the memo answers of the pair on top is so.                         *)
LEMMA RecalledIsSo ==
    ASSUME decided \in [Key -> Entry], settled \in [Key -> Entry], TopKey \in Key,
           Truthful(decided), Truthful(settled), Recalled.found, Recalled.code = None
    PROVE  Told(truth, TopKey) = Says(Recalled.admitted)
  <1>1. ASSUME NEW table \in [Key -> Entry], Truthful(table), NEW room,
               Read(table, TopKey, room).found, Read(table, TopKey, room).code = None
        PROVE  Told(truth, TopKey) = Says(Read(table, TopKey, room).admitted)
    <2>1. table[TopKey] \in Entry
      OBVIOUS
    <2>2. table[TopKey].tag = "answered"
      BY <1>1, <2>1 DEF Read, Found, NotFound, Covers, Entry, Code, None
    <2>3. Read(table, TopKey, room).admitted = table[TopKey].admitted
      BY <2>2 DEF Read, Found
    <2>4. QED BY <1>1, <2>2, <2>3 DEF Truthful
  <1>2. Recalled = Read(decided, TopKey, Top.room) \/ Recalled = Read(settled, TopKey, Top.room)
    BY DEF Recalled, Recall
  <1>3. QED BY <1>1, <1>2

(* What is kept of a walk is so, where what the walk answered is.          *)
LEMMA KeepTruthful ==
    ASSUME decided \in [Key -> Entry], settled \in [Key -> Entry], TopKey \in Key,
           Truthful(decided), Truthful(settled),
           NEW f, f.val = Top.val, NEW r \in Reply, NEW met, Keep(f, r, met),
           r # StoppedIn(f.mode) \/ met = None => Told(truth, TopKey) = r
    PROVE  Truthful(decided') /\ Truthful(settled')
  <1>1. <<f.val, TopNode.def>> = TopKey
    BY DEF TopKey
  <1>2. ASSUME NEW table \in [Key -> Entry], Truthful(table), NEW after,
               after = KeepStop(table, TopKey, met, f.room)
        PROVE  Truthful(after)
    <2>1. CASE table[TopKey].tag = "stopped"
      <3> DEFINE rooms == Joined(table[TopKey].rooms, f.room)
      <3>1. after = [table EXCEPT ![TopKey].rooms = rooms]
        BY <1>2, <2>1 DEF KeepStop
      <3> HIDE DEF rooms
      <3>2. after[TopKey] = [table[TopKey] EXCEPT !.rooms = rooms]
        BY <1>2, <3>1
      <3>3. after[TopKey].tag = "stopped"
        BY <1>2, <2>1, <3>2 DEF Entry
      <3>4. \A key \in Key : key # TopKey => after[key] = table[key]
        BY <1>2, <3>1
      <3>5. QED BY <1>2, <3>3, <3>4 DEF Truthful
    <2>2. CASE table[TopKey].tag # "stopped"
      <3>1. after = [table EXCEPT ![TopKey] = [tag |-> "stopped", code |-> met, rooms |-> {f.room}]]
        BY <1>2, <2>2 DEF KeepStop
      <3>2. after[TopKey].tag = "stopped" /\ \A key \in Key : key # TopKey => after[key] = table[key]
        BY <1>2, <3>1
      <3>3. QED BY <1>2, <3>2 DEF Truthful
    <2>3. QED BY <2>1, <2>2
  <1>3. CASE met # None /\ (f.mode = "settle" <=> r = "yes")
    <2>1. /\ decided' = KeepStop(decided, TopKey, met, f.room)
          /\ settled' = KeepStop(settled, TopKey, met, f.room) \/ settled' = settled
      BY <1>1, <1>3 DEF Keep
    <2>2. QED BY <1>2, <2>1
  <1>4. CASE ~(met # None /\ (f.mode = "settle" <=> r = "yes"))
    <2>1. /\ decided' = [decided EXCEPT ![TopKey] = [tag |-> "answered", admitted |-> r = "yes"]]
          /\ settled' = settled
      BY <1>1, <1>4 DEF Keep
    <2>2. r # StoppedIn(f.mode) \/ met = None
      BY <1>4 DEF StoppedIn, Reply
    <2>3. Told(truth, TopKey) = Says(r = "yes")
      BY <2>2 DEF Says, Reply
    <2>4. decided'[TopKey].admitted = (r = "yes")
      BY <2>1
    <2>5. \A key \in Key : key # TopKey => decided'[key] = decided[key]
      BY <2>1
    <2>6. Told(truth, TopKey) = Says(decided'[TopKey].admitted)
      BY <2>3, <2>4 DEF Says
    <2>7. QED BY <2>1, <2>5, <2>6 DEF Truthful
  <1>5. QED BY <1>3, <1>4

(* A definition's body answered: so has the definition.                    *)
LEMMA BodyAnswers ==
    ASSUME Standing, Back("ref")
    PROVE  ret \in Reply /\ ((ret # StoppedIn(Top.mode) \/ stopped = None)
                               => Told(truth, TopKey) = ret /\ Ev[Top.node][Top.val] = ret)
  <1>1. stack # <<>> /\ IsKind(Top.node, {"ref"}) /\ ret # "none"
    BY DEF Back, Returning, IsKind, TopNode
  <1>2. /\ Known /\ Top.node \in Node /\ Top.val \in Value /\ ret \in Reply
        /\ Right(defs[Schema[Top.node].def], Top.val, Top.mode, ret, stopped)
    BY <1>1, StandsOn DEF CalledNode, CalledVal, CalledMode, IsKind
  <1>3. TopKey = <<Top.val, Schema[Top.node].def>>
    BY DEF TopKey, TopNode
  <1>4. QED BY <1>1, <1>2, <1>3, RefAnswers DEF Right

LEMMA RefRight ==
    ASSUME Standing, OpenRef \/ RefFound \/ RefRefused \/ RefEnter \/ RefReturn
    PROVE  Moving
  <1>1. stack # <<>> /\ IsKind(Top.node, {"ref"})
    BY DEF OpenRef, RefFound, RefRefused, RefEnter, RefReturn, Walks, Opening, At, Back, Calling,
           Returning, IsKind, TopNode
  <1>2. /\ Known /\ stack \in Seq(Frame) /\ Top \in Frame /\ Top.node \in Node /\ Top.val \in Value
        /\ Top.mode \in Mode /\ HasRead(Top, stopped = None) /\ stopped \in Stop /\ TopKey \in Key
        /\ memo \in MemoWords /\ depth \in Nat /\ trail \in Seq(Key) /\ Top.earlier \in Stop
    BY <1>1, StandsOn, TopIsAFrame DEF Known, RestOK, Standing, Inv, StackOK, Frame
  <1>3. /\ TopNode = Schema[Top.node] /\ TopNode.def \in Def /\ TopKey = <<Top.val, TopNode.def>>
        /\ None \in Stop
    BY <1>2, SchemaIsATable DEF TopNode, TopKey, Stop
  <1>4. Ev[Top.node][Top.val] = Told(truth, TopKey)
    BY <1>1, <1>2, <1>3, RefAnswers
  <1>5. StoppedIn(Top.mode) \in Reply /\ \A b : Says(b) \in Reply
    BY DEF StoppedIn, Says, Reply
  <1>6. Top.pc # "inside" => Sunk(Top, stopped) = stopped
    BY <1>1 DEF Sunk, Resets, IsKind
  <1>7. CASE OpenRef
    <2> DEFINE f == [Top EXCEPT !.keeping = Asks,
                                !.room = [levels |-> depth + 1, unfolded |-> Len(trail)]]
    <2>1. Calling /\ Top.pc = "start" /\ Open(f) /\ stopped' = stopped
      BY <1>7 DEF OpenRef, Opening
    <2>2. Asks \in BOOLEAN /\ [levels |-> depth + 1, unfolded |-> Len(trail)] \in RoomOf
      BY <1>2 DEF Asks, RoomOf, MemoWords
    <2>3. f \in Frame /\ SameCall(f, Top) /\ f.at = Top.at /\ f.met = Top.met /\ f.node = Top.node
      BY <1>2, <2>2 DEF Frame, SameCall
    <2> HIDE DEF f
    <2>4. Sunk([f EXCEPT !.pc = "open"], stopped') = stopped'
      BY <1>1, <2>3 DEF Sunk, Resets, IsKind, Frame
    <2>5. ~IsKind(f.node, {"seq"})
      BY <1>1, <2>3 DEF IsKind
    <2>6. QED BY <2>1, <2>3, <2>4, <2>5, OpensRight
  <1>8. CASE RefFound
    <2>1. Top.pc = "open" /\ Recalled.found
      BY <1>8 DEF RefFound, At
    <2>2. CASE Recalled.code # None
      <3>1. Close(StoppedIn(Top.mode)) /\ stopped' # None
        BY <1>8, <2>2 DEF RefFound, RecordStop, Or
      <3>2. QED BY <1>1, <1>5, <3>1, StopIsRight, ClosesRight
    <2>3. CASE Recalled.code = None
      <3> DEFINE r == Says(Recalled.admitted)
      <3>1. Close(r) /\ stopped' = stopped
        BY <1>8, <2>3 DEF RefFound
      <3>2. r = Ev[Top.node][Top.val] /\ r \in Reply
        BY <1>2, <1>4, <1>5, <2>1, <2>3, RecalledIsSo DEF Standing, Known, RestOK
      <3> HIDE DEF r
      <3>3. Right(Top.node, Top.val, Top.mode, r, stopped')
        BY <3>2 DEF Right
      <3>4. stopped' = None => Sunk(Top, stopped) = None
        BY <1>6, <2>1, <3>1
      <3>5. QED BY <1>1, <3>1, <3>2, <3>3, <3>4, ClosesRight
    <2>4. QED BY <2>2, <2>3
  <1>9. CASE RefRefused
    <2>1. stopped' # None /\ Close(StoppedIn(Top.mode))
      BY <1>9 DEF RefRefused, RecordStop, Or, None
    <2>2. QED BY <1>1, <1>5, <2>1, StopIsRight, ClosesRight
  <1>10. CASE RefEnter
    <2> DEFINE f == [Top EXCEPT !.pc = "inside", !.keeping = Keeps,
                                !.earlier = IF Keeps THEN stopped ELSE None]
               g == [f EXCEPT !.arming = FALSE, !.outer = memo.armed]
               n == defs[TopNode.def]
    <2>1. /\ Call(f, n, Top.val, Top.mode, FALSE) /\ Top.pc = "open"
          /\ stopped' = IF Keeps THEN None ELSE stopped
      BY <1>10 DEF RefEnter, Walks, At
    <2>2. ret' = "none" /\ stack' = Append([stack EXCEPT ![Len(stack)] = g], Start(n, Top.val, Top.mode))
      BY <2>1 DEF Call
    <2>3. Keeps \in BOOLEAN /\ memo.armed \in BOOLEAN /\ n \in Node
      BY <1>2, <1>3 DEF Keeps, Frame, MemoWords, Known, RestOK
    <2>4. /\ f \in Frame /\ SameCall(f, Top) /\ f.pc = "inside" /\ f.node = Top.node
          /\ f.keeping = Keeps /\ f.earlier = IF Keeps THEN stopped ELSE None
      BY <1>2, <1>3, <2>3 DEF Frame, SameCall
    <2> HIDE DEF f
    <2>5. /\ g \in Frame /\ SameCall(g, Top) /\ g.pc = "inside" /\ g.node = Top.node
          /\ g.keeping = f.keeping /\ g.earlier = f.earlier
      BY <2>3, <2>4 DEF Frame, SameCall
    <2> HIDE DEF g
    <2>6. Sunk(g, stopped') = stopped
      BY <1>1, <2>1, <2>3, <2>4, <2>5 DEF Sunk, Resets, IsKind
    <2>7. HasRead(g, stopped' = None)
      BY <1>1, <2>5 DEF HasRead, IsKind
    <2>8. Links(g, Start(n, Top.val, Top.mode))
      BY <1>1, <1>3, <2>5 DEF Links, Waits, CalledNode, CalledVal, CalledMode, Start, IsKind, SameCall
    <2>9. Sunk(g, stopped') = None => Sunk(Top, stopped) = None
      BY <1>6, <2>1, <2>6
    <2> HIDE DEF n
    <2>10. Frames(stack', stopped')
      BY <1>1, <1>2, <2>2, <2>3, <2>5, <2>7, <2>8, <2>9, CallRight DEF Standing
    <2>11. QED BY <2>2, <2>10 DEF Moving
  <1>11. CASE RefReturn
    <2>1. Back("ref") /\ Close(ret) /\ stopped' = Or(Top.earlier, stopped)
      BY <1>11 DEF RefReturn
    <2>2. /\ ret \in Reply
          /\ (ret # StoppedIn(Top.mode) \/ stopped = None) => Ev[Top.node][Top.val] = ret
      BY <2>1, BodyAnswers
    <2>3. stopped' = None => Top.earlier = None /\ stopped = None
      BY <2>1, OrIsNone
    <2>4. Right(Top.node, Top.val, Top.mode, ret, stopped')
      BY <2>2, <2>3 DEF Right
    <2>5. stopped' = None => Sunk(Top, stopped) = None
      BY <2>3 DEF Sunk
    <2>6. QED BY <1>1, <2>1, <2>2, <2>4, <2>5, ClosesRight
  <1>12. QED BY <1>7, <1>8, <1>9, <1>10, <1>11

(* What the memo holds is so after a step of the walk.                     *)
LEMMA TablesRight ==
    ASSUME Inv, Step, ~fatal => Standing, Truthful(decided), Truthful(settled)
    PROVE  Truthful(decided') /\ Truthful(settled')
  <1>1. decided \in [Key -> Entry] /\ settled \in [Key -> Entry] /\ stack \in Seq(Frame)
    BY DEF Inv, RestOK, StackOK
  <1>2. CASE UNCHANGED kept
    BY <1>2 DEF kept
  <1>3. CASE RefRefused /\ ~UNCHANGED kept
    <2> DEFINE code == IF OnTrail THEN "recursion_loop" ELSE "recursion_limit"
               r    == StoppedIn(Top.mode)
    <2>1. Keep(Top, r, code) /\ code # None /\ r \in Reply
      BY <1>3 DEF RefRefused, None, StoppedIn, Reply
    <2>2. TopKey \in Key
      BY <1>1, <1>3, TopIsAFrame DEF RefRefused, Walks, At, Calling
    <2>3. ~(r # StoppedIn(Top.mode) \/ code = None)
      BY <2>1
    <2> HIDE DEF code, r
    <2>4. QED BY <1>1, <2>1, <2>2, <2>3, KeepTruthful
  <1>4. CASE RefReturn /\ ~UNCHANGED kept
    <2>1. Back("ref") /\ Keep(Top, ret, stopped) /\ ~fatal
      BY <1>4 DEF RefReturn
    <2>2. TopKey \in Key
      BY <1>1, <2>1, TopIsAFrame DEF Back, Returning
    <2>3. ret \in Reply /\ (ret # StoppedIn(Top.mode) \/ stopped = None => Told(truth, TopKey) = ret)
      BY <2>1, BodyAnswers
    <2>4. QED BY <1>1, <2>1, <2>2, <2>3, KeepTruthful
  <1>5. UNCHANGED kept \/ RefRefused \/ RefReturn
    BY DEF Step, Unwind, TooDeep, TestLeaf, CompareLiteral, AskPredicate, RefuseSeq, OpenSeq, SeqMoved,
           SeqElement, SeqEnd, SeqReturn, OpenUnion, UnionScalar, UnionBranch, UnionReturn, UnionEnd,
           OpenMeet, MeetMember, MeetReturn, MeetEnd, OpenNot, NotInner, NotReturn, OpenRef, RefFound,
           RefEnter
  <1>6. QED BY <1>2, <1>3, <1>4, <1>5
-----------------------------------------------------------------------------
(* The invariant of the whole.                                             *)

\* The definitions' answers are fixed by what the lists hold.
FixpointIn(h, d) ==
    LET round[i \in 0 .. Cardinality(Key)] ==
            IF i = 0 THEN {}
            ELSE {a \in {<<key, Eval(round[i - 1], h)[d[key[2]]][key[1]]>> : key \in Key} : a[2] \in Reply}
    IN  round[Cardinality(Key)]

LEMMA FixpointOfDefs == \A h : LeastFixpoint(h) = FixpointIn(h, defs)
  BY DEF LeastFixpoint, Round, FixpointIn

SameWorld == defs' = defs /\ asked' = asked /\ heap' = heap /\ truth' = truth

LEMMA TruthNext ==
    ASSUME TruthIs, defs' = defs, History
    PROVE  TruthIs'
  <1>1. (\A h : LeastFixpoint(h) = FixpointIn(h, defs))'
    BY FixpointOfDefs, PTL
  <1>2. LeastFixpoint(heap)' = FixpointIn(heap', defs')
    BY <1>1
  <1>3. \A h : LeastFixpoint(h) = FixpointIn(h, defs)
    BY FixpointOfDefs
  <1>4. CASE heap' = heap /\ truth' = truth
    BY <1>2, <1>3, <1>4 DEF TruthIs
  <1>5. CASE truth' = LeastFixpoint(heap')
    BY <1>2, <1>3, <1>5 DEF TruthIs
  <1>6. QED BY <1>4, <1>5 DEF History

LEMMA SaysAlike ==
    ASSUME SameWorld
    PROVE  /\ \A n, v, j, a : ElementSays(n, v, j, a)' <=> ElementSays(n, v, j, a)
           /\ \A n, v, j, a : KidSays(n, v, j, a)' <=> KidSays(n, v, j, a)
           /\ \A n, v, m, r, c : Right(n, v, m, r, c)' <=> Right(n, v, m, r, c)
           /\ \A n, v : IsArray(n, v)' <=> IsArray(n, v)
  BY DEF SameWorld, ElementSays, KidSays, Right, Ev, IsArray, HasArity

LEMMA FramesAlike ==
    ASSUME SameWorld
    PROVE  /\ Frames(stack, stopped)' <=> Frames(stack', stopped')
           /\ Replied(stack, ret, stopped)' <=> Replied(stack', ret', stopped')
  <1>1. \A f : ElementsHold(f)' <=> ElementsHold(f)
    BY SaysAlike DEF ElementsHold, SameWorld
  <1>2. \A f, a : KidsSay(f, a)' <=> KidsSay(f, a)
    BY SaysAlike DEF KidsSay
  <1>3. \A f, c : Scanned(f, c)' <=> Scanned(f, c)
    BY <1>1, SaysAlike DEF Scanned, SameWorld
  <1>4. \A f, c : HasMet(f, c)' <=> HasMet(f, c)
    BY <1>2 DEF HasMet
  <1>5. \A f, c : Refused(f, c)' <=> Refused(f, c)
    BY <1>2 DEF Refused
  <1>6. \A f, c : HasRead(f, c)' <=> HasRead(f, c)
    BY <1>3, <1>4, <1>5 DEF HasRead
  <1>7. \A f : /\ Waits(f)' <=> Waits(f)
               /\ CalledNode(f)' = CalledNode(f) /\ CalledVal(f)' = CalledVal(f)
               /\ CalledMode(f)' = CalledMode(f)
    BY DEF Waits, CalledNode, CalledVal, CalledMode, SameWorld
  <1>8. \A f, g : Links(f, g)' <=> Links(f, g)
    BY <1>7 DEF Links
  <1>9. Frames(stack, stopped)' <=> Frames(stack', stopped')
    BY <1>6, <1>8 DEF Frames, SameWorld
  <1>10. Replied(stack, ret, stopped)' <=> Replied(stack', ret', stopped')
    BY <1>7, SaysAlike DEF Replied, SameWorld
  <1>11. QED BY <1>9, <1>10

\* Where no list was written to, what the memo holds is so; and where no signal is set
\* either, what the frames have read is, and the answer on its way to the top one.
Whole == /\ Inv /\ TruthIs
         /\ writes = 0 => Truthful(decided) /\ Truthful(settled)
         /\ writes = 0 /\ ~fatal => /\ Frames(stack, stopped)
                                    /\ ret # "none" => Replied(stack, ret, stopped)

LEMMA InitWhole == MInit => Whole
  <1> SUFFICES ASSUME MInit PROVE Whole
    OBVIOUS
  <1>1. Inv /\ TruthIs
    BY InitInv DEF MInit, TruthIs
  <1>2. Truthful(decided) /\ Truthful(settled)
    BY DEF MInit, Init, Truthful
  <1> DEFINE call == Start(asked.node, asked.val, "fast")
  <1>3. stack = <<call>> /\ ret = "none" /\ stopped = None
    BY DEF MInit, Init
  <1>4. /\ call.node = asked.node /\ call.val = asked.val /\ call.mode = "fast"
        /\ call.pc = "start" /\ call.at = 1 /\ call.met = None
    BY DEF Start
  <1> HIDE DEF call
  <1>5. Len(stack) = 1 /\ stack[1] = call
    BY <1>3
  <1>6. Frames(stack, stopped)
    BY <1>4, <1>5 DEF Frames, HasRead
  <1>7. QED BY <1>1, <1>2, <1>3, <1>6 DEF Whole

LEMMA StepWhole ==
    ASSUME Whole, Step, History
    PROVE  Whole'
  <1>1. Inv'
    BY NextInv DEF Whole, Next
  <1>a. UNCHANGED fixed /\ UNCHANGED world
    BY DEF Step, Unwind, TooDeep, TestLeaf, CompareLiteral, AskPredicate, RefuseSeq, OpenSeq, SeqMoved,
           SeqElement, SeqEnd, SeqReturn, OpenUnion, UnionScalar, UnionBranch, UnionReturn, UnionEnd,
           OpenMeet, MeetMember, MeetReturn, MeetEnd, OpenNot, NotInner, NotReturn, OpenRef, RefFound,
           RefRefused, RefEnter, RefReturn
  <1>b. UNCHANGED fatal \/ ~fatal \/ fatal' = TRUE
    BY DEF Step, Unwind, TooDeep, TestLeaf, CompareLiteral, AskPredicate, RefuseSeq, OpenSeq, SeqMoved,
           SeqElement, SeqEnd, SeqReturn, OpenUnion, UnionScalar, UnionBranch, UnionReturn, UnionEnd,
           OpenMeet, MeetMember, MeetReturn, MeetEnd, OpenNot, NotInner, NotReturn, OpenRef, RefFound,
           RefRefused, RefEnter, RefReturn, Opening
  <1>2. /\ defs' = defs /\ asked' = asked /\ heap' = heap /\ writes' = writes /\ (fatal => fatal')
    BY <1>a, <1>b DEF fixed, world
  <1>3. TruthIs'
    BY <1>2, TruthNext DEF Whole
  <1>4. SameWorld
    BY <1>2 DEF History, SameWorld
  <1>5. writes = 0 /\ ~fatal => Standing
    BY DEF Whole, Standing
  <1>6. writes = 0 => (Truthful(decided) /\ Truthful(settled))'
    <2> SUFFICES ASSUME writes = 0 PROVE (Truthful(decided) /\ Truthful(settled))'
      OBVIOUS
    <2>1. Truthful(decided') /\ Truthful(settled')
      BY <1>5, TablesRight DEF Whole
    <2>2. QED BY <1>4, <2>1 DEF Truthful, SameWorld
  <1>7. writes = 0 /\ ~fatal => Moving
    <2> SUFFICES ASSUME Standing PROVE Moving
      BY <1>5
    <2>1. QED BY PrologueRight, SeqRight, UnionRight, MeetRight, NotRight, RefRight DEF Step
  <1>8. QED BY <1>1, <1>2, <1>3, <1>4, <1>6, <1>7, FramesAlike DEF Whole, Moving

LEMMA NextWhole == Whole /\ [MNext]_tvars => Whole'
  <1> SUFFICES ASSUME Whole, [MNext]_tvars PROVE Whole'
    OBVIOUS
  <1>1. CASE Step /\ History
    BY <1>1, StepWhole
  <1>2. CASE Write /\ History
    <2>1. Inv'
      BY <1>2, NextInv DEF Whole, Next
    <2>2. defs' = defs /\ writes' = writes + 1 /\ writes \in Nat
      BY <1>2, BoundsAreNats DEF Write, fixed, Whole, Inv, RestOK
    <2>3. TruthIs'
      BY <1>2, <2>2, TruthNext DEF Whole
    <2>4. writes' # 0
      BY <2>2
    <2>5. QED BY <2>1, <2>3, <2>4 DEF Whole
  <1>3. CASE UNCHANGED tvars
    <2>1. UNCHANGED vars /\ truth' = truth
      BY <1>3 DEF tvars
    <2>2. /\ defs' = defs /\ asked' = asked /\ heap' = heap /\ writes' = writes /\ stack' = stack
          /\ ret' = ret /\ stopped' = stopped /\ fatal' = fatal /\ decided' = decided
          /\ settled' = settled
      BY <2>1 DEF vars
    <2>3. Inv' /\ SameWorld
      BY <2>1, <2>2, NextInv DEF Whole, SameWorld
    <2>4. TruthIs'
      <3>1. History
        BY <1>3, <2>2 DEF History, tvars
      <3>2. QED BY <2>2, <3>1, TruthNext DEF Whole
    <2>5. Truthful(decided)' = Truthful(decided) /\ Truthful(settled)' = Truthful(settled)
      BY <2>2, <2>3 DEF Truthful, SameWorld
    <2>6. QED BY <2>2, <2>3, <2>4, <2>5, FramesAlike DEF Whole
  <1>4. QED BY <1>1, <1>2, <1>3 DEF MNext, Next

LEMMA AnswerIsRight ==
    ASSUME Whole, Answered
    PROVE  /\ Right(Returned.node, Returned.val, Returned.mode, ret, stopped)
           /\ Returned.mode \in Mode /\ ret \in Reply
  <1>1. Replied(stack, ret, stopped) /\ ret \in Reply
    BY DEF Whole, Answered, Inv, StackOK
  <1> DEFINE c == Returned
  <1>2. Right(c.node, c.val, c.mode, ret, stopped) /\ c.mode \in Mode
    <2>1. CASE stack = <<>>
      <3>1. c = [node |-> asked.node, val |-> asked.val, mode |-> "fast"]
        BY <2>1 DEF Returned
      <3>2. QED BY <1>1, <2>1, <3>1 DEF Replied, Mode
    <2>2. CASE stack # <<>>
      <3>1. Waits(Top) /\ Right(CalledNode(Top), CalledVal(Top), CalledMode(Top), ret, stopped)
        BY <1>1, <2>2 DEF Replied, Top
      <3>2. c.node = CalledNode(Top) /\ c.val = CalledVal(Top) /\ c.mode = CalledMode(Top)
        BY <2>2, <3>1 DEF Returned, Waits, CalledNode, CalledVal, CalledMode, IsKind, TopNode
      <3>3. Top.mode \in Mode
        BY <2>2, TopIsAFrame DEF Whole, Inv, StackOK
      <3> HIDE DEF c
      <3>4. QED BY <3>1, <3>2, <3>3 DEF CalledMode, Mode
    <2>3. QED BY <2>1, <2>2
  <1>3. QED BY <1>1, <1>2 DEF c

LEMMA WholeIsSound == Whole => Sound
  <1> SUFFICES ASSUME Whole, Answered PROVE Sound
    BY DEF Sound
  <1> DEFINE c == Returned
             t == Eval(truth, heap)[c.node][c.val]
  <1>1. Right(c.node, c.val, c.mode, ret, stopped) /\ c.mode \in Mode
    BY AnswerIsRight
  <1>2. ret # StoppedIn(c.mode) \/ stopped = None => t = ret
    BY <1>1 DEF Right, Ev
  <1> HIDE DEF c, t
  <1>3. /\ c.mode = "fast" => (ret = "yes" => t = "yes")
        /\ c.mode # "fast" => (ret = "no" => t = "no")
        /\ ret = "yes" /\ stopped = None => t = "yes"
    BY <1>1, <1>2 DEF StoppedIn, Mode
  <1>4. QED BY <1>3 DEF Sound, c, t

(***************************************************************************)
(* An answer is never wrong, whatever the schema, the value and the bounds *)
(* are: where no list is written to and no signal unwinds the walk, what   *)
(* it admits is in the set the schema denotes. A settling walk is right    *)
(* where it refuses as well, and its admission claims nothing where a stop *)
(* is in the cell (walk.rs, check_complement, settled_union; memo.rs,      *)
(* keep_decided).                                                          *)
(***************************************************************************)
THEOREM AnswersAreSound == MSpec => []Sound
  <1>1. QED BY InitWhole, NextWhole, WholeIsSound, PTL DEF MSpec

(***************************************************************************)
(* A walk that ends with no stop in the cell decided: its answer, refusals *)
(* included, is whether the value is in the set, though the memo answered  *)
(* for it, and though branches and complements stopped on the way          *)
(* (walk.rs, settled_union, check_complement; ctx.rs, Signals).            *)
(***************************************************************************)
THEOREM UnstoppedIsExact == MSpec => [](Done /\ Answered /\ stopped = None => Fits(truth, heap) = ret)
  <1>1. Whole => (Done /\ Answered /\ stopped = None => Fits(truth, heap) = ret)
    <2> SUFFICES ASSUME Whole, Done, Answered, stopped = None PROVE Fits(truth, heap) = ret
      OBVIOUS
    <2>1. Right(asked.node, asked.val, "fast", ret, stopped)
      BY DEF Whole, Answered, Replied, Done
    <2>2. QED BY <2>1 DEF Right, Ev, Fits
  <1>2. QED BY InitWhole, NextWhole, <1>1, PTL DEF MSpec
=============================================================================
