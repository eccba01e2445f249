----------------------------- MODULE SumProofs -----------------------------
(***************************************************************************)
(* Induction over the numbers, stated of a set of them, and what the sum   *)
(* of a finite set is for every set: the order its elements are taken in   *)
(* does not matter.                                                        *)
(***************************************************************************)
EXTENDS Integers, FiniteSetsExt, FiniteSetTheorems, WellFoundedInduction, TLAPS

(* A set of numbers has a least one.                                       *)
LEMMA LeastNumber ==
    ASSUME NEW T \in SUBSET Nat, T # {}
    PROVE  \E m \in T : \A n \in T : m <= n
  <1> DEFINE R == OpToRel(<, Nat)
  <1>1. IsWellFoundedOn(R, Nat)
    BY NatLessThanWellFounded
  <1>2. \A m, n \in Nat : m < n => <<m, n>> \in R
    BY DEF OpToRel
  <1> HIDE DEF R
  <1>3. PICK m \in T : \A n \in T : ~(<<n, m>> \in R)
    BY <1>1, WFMin
  <1>4. ASSUME NEW n \in T PROVE m <= n
    <2>1. m \in Nat /\ n \in Nat
      OBVIOUS
    <2>2. ~(<<n, m>> \in R)
      BY <1>3, Zenon
    <2>3. ~(n < m)
      BY <1>2, <2>1, <2>2, Zenon
    <2>4. QED BY <2>1, <2>3
  <1>5. QED BY <1>4

(* A set that holds zero, and the next of each number it holds, holds all. *)
LEMMA EveryNumber ==
    ASSUME NEW T \in SUBSET Nat, 0 \in T, \A n \in T : n + 1 \in T
    PROVE  T = Nat
  <1> SUFFICES ASSUME Nat \ T # {} PROVE FALSE
    OBVIOUS
  <1>1. PICK m \in Nat \ T : \A n \in Nat \ T : m <= n
    BY LeastNumber
  <1>2. m - 1 \in T
    BY <1>1
  <1>3. QED BY <1>1, <1>2

-----------------------------------------------------------------------------
(* The sum of a set.                                                       *)

Total(w, S) == MapThenSumSet(LAMBDA x : w[x], S)

Pick(s)         == CHOOSE x \in s : TRUE
Adds(w, f, s)   == IF s = {} THEN 0 ELSE w[Pick(s)] + f[s \ {Pick(s)}]

Weighs(w, S)    == \A x \in S : w[x] \in Nat
SumsOf(f, w, S) == f = [s \in SUBSET S |-> Adds(w, f, s)]

(* The sums of the parts of a set are a function of the part.              *)
LEMMA SumsExist ==
    ASSUME NEW S, IsFiniteSet(S), NEW w, Weighs(w, S)
    PROVE  \E f : SumsOf(f, w, S)
  <1> DEFINE Upto(n) == {s \in SUBSET S : Cardinality(s) <= n}
             Good(n) == \E f \in [Upto(n) -> Nat] : \A s \in Upto(n) : f[s] = Adds(w, f, s)
             T == {n \in Nat : Good(n)}
  <1>1. \A s \in SUBSET S : IsFiniteSet(s) /\ Cardinality(s) \in Nat /\ (Cardinality(s) = 0 <=> s = {})
    BY FS_Subset, FS_CardinalityType, FS_EmptySet
  <1>2. \A s \in SUBSET S : s # {} =>
           /\ Pick(s) \in s /\ w[Pick(s)] \in Nat
           /\ s \ {Pick(s)} \in SUBSET S /\ Cardinality(s \ {Pick(s)}) = Cardinality(s) - 1
    <2> SUFFICES ASSUME NEW s \in SUBSET S, s # {}
                 PROVE  /\ Pick(s) \in s /\ w[Pick(s)] \in Nat
                        /\ s \ {Pick(s)} \in SUBSET S /\ Cardinality(s \ {Pick(s)}) = Cardinality(s) - 1
      OBVIOUS
    <2>1. Pick(s) \in s
      BY DEF Pick
    <2>2. QED BY <1>1, <2>1, FS_RemoveElement DEF Weighs
  <1>3. 0 \in T
    <2> DEFINE f == [s \in Upto(0) |-> 0]
    <2>1. \A s \in Upto(0) : s = {}
      BY <1>1
    <2>2. f \in [Upto(0) -> Nat] /\ \A s \in Upto(0) : f[s] = Adds(w, f, s)
      BY <2>1 DEF Adds
    <2>3. Good(0)
      BY <2>2
    <2>4. QED BY <2>3
  <1>4. ASSUME NEW n \in T PROVE n + 1 \in T
    <2>1. n \in Nat /\ Good(n)
      OBVIOUS
    <2>2. PICK f \in [Upto(n) -> Nat] : \A s \in Upto(n) : f[s] = Adds(w, f, s)
      BY <2>1
    <2> DEFINE g == [s \in Upto(n + 1) |-> Adds(w, f, s)]
    <2>3. \A s \in Upto(n + 1) : s # {} => s \ {Pick(s)} \in Upto(n)
      BY <1>1, <1>2, <2>1
    <2>4. \A s \in Upto(n) : s \in Upto(n + 1) /\ g[s] = f[s]
      BY <1>1, <2>1, <2>2
    <2>5. \A s \in Upto(n + 1) : Adds(w, f, s) \in Nat
      BY <1>2, <2>3 DEF Adds
    <2>6. \A s \in Upto(n + 1) : g[s] = Adds(w, g, s)
      BY <2>3, <2>4 DEF Adds
    <2>7. g \in [Upto(n + 1) -> Nat]
      BY <2>5
    <2> HIDE DEF g
    <2>8. Good(n + 1)
      BY <2>6, <2>7
    <2> HIDE DEF Good
    <2>9. n + 1 \in Nat
      BY <2>1
    <2>10. QED BY <2>8, <2>9
  <1>5. T = Nat
    <2> HIDE DEF T
    <2>1. T \in SUBSET Nat
      BY DEF T
    <2>2. QED BY <1>3, <1>4, <2>1, EveryNumber
  <1>6. Cardinality(S) \in Nat /\ Good(Cardinality(S))
    BY <1>1, <1>5
  <1>7. Upto(Cardinality(S)) = SUBSET S
    BY <1>1, FS_Subset
  <1>8. PICK f \in [SUBSET S -> Nat] : \A s \in SUBSET S : f[s] = Adds(w, f, s)
    BY <1>6, <1>7
  <1>9. SumsOf(f, w, S)
    BY <1>8 DEF SumsOf
  <1>10. QED BY <1>9

(* Whichever element is taken first, the sum is what it weighs and the sum  *)
(* of the rest.                                                            *)
LEMMA SumsInAnyOrder ==
    ASSUME NEW S, IsFiniteSet(S), NEW w, Weighs(w, S),
           NEW f, SumsOf(f, w, S)
    PROVE  \A s \in SUBSET S : f[s] \in Nat /\ \A x \in s : f[s] = w[x] + f[s \ {x}]
  <1> DEFINE Any(s) == f[s] \in Nat /\ \A x \in s : f[s] = w[x] + f[s \ {x}]
             T == {n \in Nat : \A s \in SUBSET S : Cardinality(s) <= n => Any(s)}
  <1>1. \A s \in SUBSET S : /\ IsFiniteSet(s) /\ Cardinality(s) \in Nat
                            /\ (Cardinality(s) = 0 <=> s = {})
                            /\ f[s] = Adds(w, f, s)
    BY FS_Subset, FS_CardinalityType, FS_EmptySet DEF SumsOf
  <1>2. \A s \in SUBSET S : \A x \in s : /\ s \ {x} \in SUBSET S /\ w[x] \in Nat
                                         /\ Cardinality(s \ {x}) = Cardinality(s) - 1
    BY <1>1, FS_RemoveElement DEF Weighs
  <1>3. 0 \in T
    <2>1. f[{}] = 0
      BY <1>1 DEF Adds
    <2>2. Any({})
      BY <2>1
    <2> HIDE DEF Any
    <2>3. ASSUME NEW s \in SUBSET S, Cardinality(s) <= 0 PROVE s = {}
      <3>1. Cardinality(s) \in Nat /\ (Cardinality(s) = 0 <=> s = {})
        BY <1>1
      <3>2. QED BY <2>3, <3>1
    <2>4. \A s \in SUBSET S : Cardinality(s) <= 0 => Any(s)
      BY <2>2, <2>3, Zenon
    <2>5. QED BY <2>4
  <1>4. ASSUME NEW n \in T PROVE n + 1 \in T
    <2>1. n \in Nat /\ \A s \in SUBSET S : Cardinality(s) <= n => Any(s)
      OBVIOUS
    <2>2. ASSUME NEW s \in SUBSET S, Cardinality(s) <= n + 1, s # {} PROVE Any(s)
      <3> DEFINE y == Pick(s)
      <3>1. y \in s
        BY <2>2 DEF Pick
      <3>2. f[s] = w[y] + f[s \ {y}]
        BY <1>1, <2>2 DEF Adds
      <3> HIDE DEF y
      <3>3. ASSUME NEW x \in s
            PROVE  s \ {x} \in SUBSET S /\ Any(s \ {x}) /\ w[x] \in Nat
                   /\ Cardinality(s \ {x}) <= n
        <4>1. s \ {x} \in SUBSET S /\ w[x] \in Nat /\ Cardinality(s \ {x}) <= n
          <5>1. Cardinality(s) \in Nat /\ Cardinality(s \ {x}) = Cardinality(s) - 1
            BY <1>1, <1>2
          <5>2. QED BY <1>2, <2>1, <2>2, <5>1
        <4> HIDE DEF Any
        <4>2. QED BY <2>1, <4>1
      <3>4. ASSUME NEW x \in s, x # y PROVE f[s] = w[x] + f[s \ {x}]
        <4> DEFINE r == s \ {x, y}
        <4>1. r = (s \ {x}) \ {y} /\ r = (s \ {y}) \ {x} /\ x \in s \ {y} /\ y \in s \ {x}
          BY <3>1, <3>4
        <4>2. f[s \ {y}] = w[x] + f[r] /\ f[s \ {x}] = w[y] + f[r]
          <5>1. f[s \ {y}] = w[x] + f[(s \ {y}) \ {x}]
            BY <3>1, <3>3, <4>1
          <5>2. f[s \ {x}] = w[y] + f[(s \ {x}) \ {y}]
            BY <3>3, <4>1
          <5> HIDE DEF r
          <5>3. QED BY <4>1, <5>1, <5>2
        <4>3. f[r] \in Nat
          <5>1. r \in SUBSET S /\ Cardinality(r) = Cardinality(s \ {y}) - 1
            BY <1>2, <3>1, <3>3, <4>1
          <5>2. Cardinality(r) <= n
            <6>1. Cardinality(s \ {y}) \in Nat /\ Cardinality(s \ {y}) <= n
              BY <1>1, <3>1, <3>3
            <6>2. QED BY <2>1, <5>1, <6>1
          <5>3. QED BY <2>1, <5>1, <5>2
        <4> HIDE DEF r
        <4>4. w[x] \in Nat /\ w[y] \in Nat
          BY <3>1, <3>3
        <4>5. QED BY <3>2, <4>2, <4>3, <4>4
      <3>5. f[s] \in Nat
        <4>1. w[y] \in Nat /\ f[s \ {y}] \in Nat
          BY <3>1, <3>3
        <4>2. QED BY <3>2, <4>1
      <3>6. QED BY <3>2, <3>4, <3>5
    <2>3. Any({})
      BY <1>1 DEF Adds
    <2> HIDE DEF Any
    <2>4. n + 1 \in Nat /\ \A s \in SUBSET S : Cardinality(s) <= n + 1 => Any(s)
      <3>1. n + 1 \in Nat
        BY <2>1
      <3>2. QED BY <2>2, <2>3, <3>1, Zenon
    <2>5. QED BY <2>4
  <1>5. T = Nat
    <2> HIDE DEF T
    <2>1. T \in SUBSET Nat
      BY DEF T
    <2>2. QED BY <1>3, <1>4, <2>1, EveryNumber
  <1>6. ASSUME NEW s \in SUBSET S PROVE Any(s)
    <2>1. Cardinality(s) \in Nat
      BY <1>1
    <2> HIDE DEF Any
    <2>2. Cardinality(s) \in T /\ Cardinality(s) <= Cardinality(s)
      BY <1>5, <2>1
    <2>3. QED BY <2>2
  <1>7. QED BY <1>6

(* The sum of a set is the last of them.                                   *)
LEMMA TotalIsASum ==
    ASSUME NEW S, IsFiniteSet(S), NEW w, Weighs(w, S)
    PROVE  \E f : Total(w, S) = f[S] /\ SumsOf(f, w, S)
  <1> DEFINE iter == CHOOSE f : f = [s \in SUBSET S |-> Adds(w, f, s)]
  <1>1. Total(w, S) = iter[S]
    BY DEF Total, MapThenSumSet, MapThenFoldSet, Adds, Pick
  <1>2. iter = CHOOSE f : SumsOf(f, w, S)
    BY DEF SumsOf
  <1> HIDE DEF iter
  <1>3. SumsOf(iter, w, S)
    BY <1>2, SumsExist
  <1>4. QED BY <1>1, <1>3

(* The sum of nothing, and of a set with one element more.                 *)
LEMMA TotalOfNone == ASSUME NEW w PROVE Total(w, {}) = 0
  <1>1. PICK f : Total(w, {}) = f[{}] /\ SumsOf(f, w, {})
    <2>1. Weighs(w, {})
      BY DEF Weighs
    <2>2. QED BY <2>1, TotalIsASum, FS_EmptySet
  <1>2. {} \in SUBSET {}
    OBVIOUS
  <1>3. f[{}] = Adds(w, f, {})
    BY <1>1, <1>2 DEF SumsOf
  <1>4. QED BY <1>1, <1>3 DEF Adds

(* The sum of a set is of what its elements weigh and nothing else.        *)
LEMMA OneSum ==
    ASSUME NEW S, IsFiniteSet(S), NEW w, Weighs(w, S), NEW v, \A x \in S : v[x] = w[x],
           NEW f, SumsOf(f, w, S), NEW R, IsFiniteSet(R), S \in SUBSET R, Weighs(v, R),
           NEW g, SumsOf(g, v, R)
    PROVE  f[S] = g[S]
  <1>1. \A s \in SUBSET S : f[s] \in Nat /\ \A y \in s : f[s] = w[y] + f[s \ {y}]
    BY SumsInAnyOrder
  <1>2. \A s \in SUBSET R : g[s] \in Nat /\ \A y \in s : g[s] = v[y] + g[s \ {y}]
    BY SumsInAnyOrder
  <1> DEFINE T == {n \in Nat : \A s \in SUBSET S : Cardinality(s) = n => f[s] = g[s]}
  <1>3. \A s \in SUBSET S : IsFiniteSet(s) /\ Cardinality(s) \in Nat
                            /\ (Cardinality(s) = 0 <=> s = {})
    BY FS_Subset, FS_CardinalityType, FS_EmptySet
  <1>4. 0 \in T
    <2>1. f[{}] = 0 /\ g[{}] = 0
      BY DEF Adds, SumsOf
    <2>2. QED BY <1>3, <2>1
  <1>5. ASSUME NEW n \in T PROVE n + 1 \in T
    <2>1. ASSUME NEW s \in SUBSET S, Cardinality(s) = n + 1 PROVE f[s] = g[s]
      <3>1. s # {}
        BY <1>3, <2>1
      <3>2. PICK y \in s : TRUE
        BY <3>1
      <3>3. Cardinality(s \ {y}) = n /\ s \ {y} \in SUBSET S
        <4>1. IsFiniteSet(s)
          BY <1>3
        <4>2. Cardinality(s \ {y}) = Cardinality(s) - 1
          BY <3>2, <4>1, FS_RemoveElement
        <4>3. QED BY <2>1, <4>2
      <3>4. f[s \ {y}] = g[s \ {y}]
        BY <3>3
      <3>5. s \in SUBSET R /\ v[y] = w[y]
        BY <3>2
      <3>6. f[s] = w[y] + f[s \ {y}]
        BY <1>1, <3>2
      <3>7. g[s] = v[y] + g[s \ {y}]
        BY <1>2, <3>2, <3>5
      <3>8. QED BY <3>4, <3>5, <3>6, <3>7
    <2>2. QED BY <2>1
  <1> HIDE DEF T
  <1>6. T = Nat
    <2>1. T \in SUBSET Nat
      BY DEF T
    <2>2. QED BY <1>4, <1>5, <2>1, EveryNumber
  <1>7. Cardinality(S) \in T /\ S \in SUBSET S
    BY <1>3, <1>6
  <1>8. QED BY <1>7 DEF T

(* Sets weighed alike weigh the same.                                      *)
LEMMA TotalAlike ==
    ASSUME NEW S, IsFiniteSet(S), NEW w, Weighs(w, S), NEW v, \A x \in S : v[x] = w[x]
    PROVE  Total(v, S) = Total(w, S)
  <1>1. Weighs(v, S)
    BY DEF Weighs
  <1>2. PICK f : Total(w, S) = f[S] /\ SumsOf(f, w, S)
    BY TotalIsASum
  <1>3. PICK g : Total(v, S) = g[S] /\ SumsOf(g, v, S)
    BY <1>1, TotalIsASum
  <1>4. S \in SUBSET S
    OBVIOUS
  <1>5. f[S] = g[S]
    BY <1>1, <1>2, <1>3, <1>4, OneSum
  <1>6. QED BY <1>2, <1>3, <1>5

LEMMA TotalOfOneMore ==
    ASSUME NEW S, IsFiniteSet(S), NEW x, x \notin S,
           NEW w, Weighs(w, S \cup {x})
    PROVE  /\ Total(w, S) \in Nat
           /\ Total(w, S \cup {x}) = w[x] + Total(w, S)
  <1> DEFINE R == S \cup {x}
  <1>1. IsFiniteSet(R) /\ Weighs(w, S) /\ Weighs(w, R)
    BY FS_AddElement DEF Weighs
  <1>2. PICK f : Total(w, S) = f[S] /\ SumsOf(f, w, S)
    BY <1>1, TotalIsASum
  <1>3. PICK g : Total(w, R) = g[R] /\ SumsOf(g, w, R)
    <2> HIDE DEF R
    <2>1. QED BY <1>1, TotalIsASum
  <1>4. R \ {x} = S /\ x \in R /\ S \in SUBSET R
    OBVIOUS
  <1> HIDE DEF R
  <1>5. f[S] \in Nat
    BY <1>1, <1>2, SumsInAnyOrder
  <1>6. f[S] = g[S]
    BY <1>1, <1>2, <1>3, <1>4, OneSum
  <1>7. g[R] = w[x] + g[S]
    <2>1. R \in SUBSET R
      OBVIOUS
    <2>2. QED BY <1>1, <1>3, <1>4, <2>1, SumsInAnyOrder
  <1>8. QED BY <1>2, <1>3, <1>5, <1>6, <1>7 DEF R

(* What holds of nothing, and of a part with one element more, holds of the *)
(* whole.                                                                  *)
LEMMA EveryPart ==
    ASSUME NEW S, IsFiniteSet(S), NEW F, {} \in F,
           \A s \in F : s \in SUBSET S => \A x \in S \ s : s \cup {x} \in F
    PROVE  S \in F
  <1> DEFINE T == {n \in Nat : \A s \in SUBSET S : Cardinality(s) = n => s \in F}
  <1>1. \A s \in SUBSET S : /\ IsFiniteSet(s) /\ Cardinality(s) \in Nat
                            /\ (Cardinality(s) = 0 <=> s = {})
    BY FS_Subset, FS_CardinalityType, FS_EmptySet
  <1>2. 0 \in T
    BY <1>1
  <1>3. ASSUME NEW n \in T PROVE n + 1 \in T
    <2>1. ASSUME NEW s \in SUBSET S, Cardinality(s) = n + 1 PROVE s \in F
      <3>1. PICK y \in s : TRUE
        BY <1>1, <2>1
      <3>2. Cardinality(s \ {y}) = n /\ s \ {y} \in SUBSET S
        <4>1. IsFiniteSet(s)
          BY <1>1
        <4>2. Cardinality(s \ {y}) = Cardinality(s) - 1
          BY <3>1, <4>1, FS_RemoveElement
        <4>3. QED BY <2>1, <4>2
      <3>3. s \ {y} \in F /\ y \in S \ (s \ {y}) /\ s = (s \ {y}) \cup {y}
        BY <3>1, <3>2
      <3>4. QED BY <3>2, <3>3
    <2>2. QED BY <2>1
  <1> HIDE DEF T
  <1>4. T = Nat
    <2>1. T \in SUBSET Nat
      BY DEF T
    <2>2. QED BY <1>2, <1>3, <2>1, EveryNumber
  <1>5. Cardinality(S) \in T /\ S \in SUBSET S
    BY <1>1, <1>4
  <1>6. QED BY <1>5 DEF T

(* A part weighs no more than the whole.                                   *)
LEMMA TotalOfPart ==
    ASSUME NEW S, IsFiniteSet(S), NEW w, Weighs(w, S), NEW P \in SUBSET S
    PROVE  Total(w, P) \in Nat /\ Total(w, S) \in Nat /\ Total(w, P) <= Total(w, S)
  <1> DEFINE More(d) == Total(w, P \cup d) \in Nat /\ Total(w, P) <= Total(w, P \cup d)
             F == {d \in SUBSET (S \ P) : More(d)}
  <1>1. \A s \in SUBSET S : IsFiniteSet(s) /\ Weighs(w, s)
    BY FS_Subset DEF Weighs
  <1>2. ASSUME NEW s \in SUBSET S PROVE Total(w, s) \in Nat
    <2>1. CASE s = {}
      BY <2>1, TotalOfNone
    <2>2. CASE s # {}
      <3>1. PICK x \in s : TRUE
        BY <2>2
      <3>2. s \ {x} \in SUBSET S /\ x \notin s \ {x} /\ (s \ {x}) \cup {x} = s
        BY <3>1
      <3>3. Total(w, s \ {x}) \in Nat /\ Total(w, s) = w[x] + Total(w, s \ {x})
        <4>1. IsFiniteSet(s \ {x}) /\ Weighs(w, (s \ {x}) \cup {x})
          BY <1>1, <3>2
        <4>2. QED BY <3>2, <4>1, TotalOfOneMore
      <3>4. w[x] \in Nat
        BY <3>1 DEF Weighs
      <3>5. QED BY <3>3, <3>4
    <2>3. QED BY <2>1, <2>2
  <1>3. {} \in F
    <2>1. P \cup {} = P
      OBVIOUS
    <2>2. More({})
      BY <1>2, <2>1
    <2>3. QED BY <2>2
  <1>4. ASSUME NEW d \in F, d \in SUBSET (S \ P), NEW x \in (S \ P) \ d PROVE d \cup {x} \in F
    <2> DEFINE s == P \cup d
    <2>1. s \in SUBSET S /\ x \notin s /\ P \cup (d \cup {x}) = s \cup {x} /\ s \cup {x} \in SUBSET S
      OBVIOUS
    <2>2. Total(w, P) <= Total(w, s)
      OBVIOUS
    <2> HIDE DEF s
    <2>3. IsFiniteSet(s) /\ Weighs(w, s \cup {x})
      BY <1>1, <2>1
    <2>4. Total(w, s \cup {x}) = w[x] + Total(w, s) /\ w[x] \in Nat
      BY <2>1, <2>3, TotalOfOneMore DEF Weighs
    <2>5. Total(w, s \cup {x}) \in Nat /\ Total(w, P) <= Total(w, s \cup {x})
      BY <1>2, <2>1, <2>2, <2>4
    <2>6. QED BY <2>1, <2>5
  <1>5. S \ P \in F
    <2> HIDE DEF F
    <2>1. IsFiniteSet(S \ P)
      BY <1>1
    <2>2. QED BY <1>3, <1>4, <2>1, EveryPart
  <1>6. P \cup (S \ P) = S
    OBVIOUS
  <1>7. QED BY <1>2, <1>5, <1>6
=============================================================================
