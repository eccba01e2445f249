--------------------------- MODULE ProgramsProofs ---------------------------
(***************************************************************************)
(* The table of pattern programs, for any clients, texts and allowance:    *)
(* what its upkeep costs, and what a schema is refused for.                *)
(***************************************************************************)
EXTENDS Programs, SumProofs

-----------------------------------------------------------------------------
(* The upkeep of the table.                                                *)

(* The lesser and the greater of two numbers.                              *)
LEMMA OfTwo ==
    ASSUME NEW m \in Int, NEW n \in Int
    PROVE  /\ Min({m, n}) = IF m <= n THEN m ELSE n
           /\ Max({m, n}) = IF m <= n THEN n ELSE m
  BY DEF Min, Max

(* The entries of a table are as many as its texts at most.                *)
LEMMA ListedCounts ==
    ASSUME NEW names
    PROVE  LET listed == {t \in Text : names[t] # None}
           IN  IsFiniteSet(listed) /\ Cardinality(listed) \in 0 .. Cardinality(Text)
  <1> DEFINE listed == {t \in Text : names[t] # None}
  <1>1. listed \in SUBSET Text
    OBVIOUS
  <1> HIDE DEF listed
  <1>2. IsFiniteSet(listed) /\ Cardinality(listed) <= Cardinality(Text)
    BY <1>1, TextsAreCounted, FS_Subset
  <1>3. Cardinality(listed) \in Nat /\ Cardinality(Text) \in Nat
    BY <1>2, TextsAreCounted, FS_CardinalityType
  <1>4. QED BY <1>2, <1>3 DEF listed

(* One text more is one entry more at most.                                *)
LEMMA OneMore ==
    ASSUME NEW S, IsFiniteSet(S), NEW t, NEW T \in SUBSET (S \cup {t})
    PROVE  IsFiniteSet(T) /\ Cardinality(T) <= Cardinality(S) + 1
  <1>1. /\ IsFiniteSet(S \cup {t}) /\ Cardinality(S) \in Nat
        /\ Cardinality(S \cup {t}) = IF t \in S THEN Cardinality(S) ELSE Cardinality(S) + 1
    BY FS_AddElement, FS_CardinalityType
  <1>2. IsFiniteSet(T) /\ Cardinality(T) <= Cardinality(S \cup {t}) /\ Cardinality(T) \in Nat
    BY <1>1, FS_Subset, FS_CardinalityType
  <1>3. QED BY <1>1, <1>2

(* What the stores have paid: the table has no more entries than it may    *)
(* before it is pruned, and what they paid covers reading it by then, two  *)
(* for each entry it has yet to take.                                      *)
Paid ==
    /\ byText = [t \in Text |-> byText[t]]
    /\ pruneAt \in Nat /\ credit \in Nat
    /\ Cardinality(Listed) <= pruneAt
    /\ credit >= CreditCap \/ credit >= 2 * Cardinality(Listed) - pruneAt

LEMMA StorePaid ==
    ASSUME Paid, NEW c \in Client, Store(c)
    PROVE  Paid'
  <1> DEFINE t     == Head(left[c])
             full  == Cardinality(Listed) >= pruneAt
             alive == {u \in Listed : byText[u] \in Live(u)}
             kept  == IF full THEN [u \in Text |-> IF u \in alive THEN byText[u] ELSE None] ELSE byText
             L == Cardinality(Listed)
             A == Cardinality(alive)
             M == Cardinality(Listed')
             C == CreditCap
  <1>1. CASE UNCHANGED <<byText, pruneAt, credit>>
    BY <1>1 DEF Paid, Listed, CreditCap
  <1>2. CASE /\ byText' = [kept EXCEPT ![t] = found[c]]
             /\ pruneAt' = IF full THEN NextPrune(A) ELSE pruneAt
             /\ credit' = Min({credit + 2 - (IF full THEN L ELSE 0), CreditCap})
    <2>1. /\ IsFiniteSet(Listed) /\ L \in 0 .. C /\ C \in Nat
          /\ IsFiniteSet(Listed') /\ M \in 0 .. C
      BY ListedCounts, TextsAreCounted, FS_CardinalityType DEF Listed, CreditCap
    <2>2. IsFiniteSet(alive) /\ A \in Nat /\ A <= L
      <3>1. alive \in SUBSET Listed
        OBVIOUS
      <3> HIDE DEF alive
      <3>2. QED BY <2>1, <3>1, FS_Subset, FS_CardinalityType
    <2>3. byText' = [u \in Text |-> byText'[u]]
          /\ \A u \in Text : u # t => byText'[u] = kept[u]
      BY <1>2 DEF Paid
    <2>4. CASE full
      <3>1. Listed' \in SUBSET (alive \cup {t})
        BY <2>3, <2>4 DEF Listed
      <3>2. M <= A + 1
        <4> HIDE DEF alive, t
        <4>1. QED BY <2>2, <3>1, OneMore
      <3>3. L = pruneAt /\ pruneAt' = NextPrune(A)
        BY <1>2, <2>1, <2>4 DEF Paid
      <3>4. pruneAt' = IF A <= 1 THEN 2 ELSE 2 * A
        <4> HIDE DEF A
        <4>1. Max({A, 1}) = IF A <= 1 THEN 1 ELSE A
          BY <2>2, OfTwo
        <4>2. QED BY <3>3, <4>1 DEF NextPrune
      <3>5. credit' = IF credit + 2 - L <= C THEN credit + 2 - L ELSE C
        BY <1>2, <2>1, <2>4, OfTwo DEF Paid
      <3>6. credit >= L
        BY <2>1, <3>3 DEF Paid
      <3> HIDE DEF alive, A, L, M, C, full, t, kept
      <3>7. /\ pruneAt' \in Nat /\ credit' \in Nat /\ M <= pruneAt'
            /\ credit' >= C \/ credit' >= 2 * M - pruneAt'
        BY <2>1, <2>2, <3>2, <3>3, <3>4, <3>5, <3>6 DEF Paid
      <3>8. QED BY <2>3, <3>7 DEF Paid, M, C, CreditCap
    <2>5. CASE ~full
      <3>1. Listed' \in SUBSET (Listed \cup {t})
        BY <2>3, <2>5 DEF Listed
      <3>2. M <= L + 1
        <4> HIDE DEF t
        <4>1. QED BY <2>1, <3>1, OneMore
      <3>3. L < pruneAt /\ pruneAt' = pruneAt
        BY <1>2, <2>1, <2>5 DEF Paid
      <3>4. credit' = IF credit + 2 <= C THEN credit + 2 ELSE C
        <4>1. credit' = Min({credit + 2, C}) /\ credit + 2 \in Int /\ C \in Int
          <5>1. credit + 2 - 0 = credit + 2 /\ credit + 2 \in Int
            BY DEF Paid
          <5>2. QED BY <1>2, <2>1, <2>5, <5>1
        <4>2. QED BY <4>1, OfTwo
      <3>5. /\ pruneAt \in Nat /\ credit \in Nat
            /\ credit >= C \/ credit >= 2 * L - pruneAt
        BY DEF Paid
      <3> HIDE DEF alive, A, L, M, C, full, t, kept
      <3>6. /\ pruneAt' \in Nat /\ credit' \in Nat /\ M <= pruneAt'
            /\ credit' >= C \/ credit' >= 2 * M - pruneAt'
        BY <2>1, <3>2, <3>3, <3>4, <3>5
      <3>7. QED BY <2>3, <3>6 DEF Paid, M, C, CreditCap
    <2>6. QED BY <2>4, <2>5
  <1>3. QED BY <1>1, <1>2 DEF Store

(***************************************************************************)
(* Dropping the entries of programs gone reads no more than two of them    *)
(* for each program stored, however many texts there are, whatever dies    *)
(* between two prunings and whatever a prune finds alive (index.rs,        *)
(* Programs::hold).                                                        *)
(***************************************************************************)
THEOREM UpkeepPaid == Spec => []UpkeepIsPaid
  <1>1. Init => Paid
    <2> SUFFICES ASSUME Init PROVE Paid
      OBVIOUS
    <2>1. byText = [t \in Text |-> byText[t]] /\ Listed = {}
      BY DEF Init, NoneHeld, Listed
    <2>2. QED BY <2>1, FS_EmptySet DEF Init, Paid
  <1>2. Paid /\ [Next]_vars => Paid'
    <2> SUFFICES ASSUME Paid, [Next]_vars PROVE Paid'
      OBVIOUS
    <2>1. CASE UNCHANGED <<byText, pruneAt, credit>>
      BY <2>1 DEF Paid, Listed, CreditCap
    <2>2. CASE \E c \in Client : Store(c)
      BY <2>2, StorePaid
    <2>3. QED BY <2>1, <2>2 DEF Next, Ask, MetAgain, Look, Compile, Charge, Built, LetGo, Poison,
                                table, vars
  <1>3. Paid => UpkeepIsPaid
    BY DEF Paid, UpkeepIsPaid
  <1>4. QED BY <1>1, <1>2, <1>3, PTL DEF Spec

-----------------------------------------------------------------------------
(* What a schema is refused for.                                           *)

Phases   == {"idle", "reading", "compiling", "storing", "charging", "holding", "refused"}
Fetching == {"compiling", "storing", "charging"}
Working  == Fetching \cup {"reading"}

ClientsOK ==
    /\ at \in [Client -> Phases] /\ left \in [Client -> Seq(Text)] /\ asked \in [Client -> Seq(Text)]
    /\ room \in [Client -> Nat] /\ holds \in [Client -> [Text -> Nat]] /\ found \in [Client -> Nat]

HeldBy(h) == {t \in Text : h[t] # None}

\* One client's books: what its schema holds is what it has charged and what it
\* has yet to meet, and the room left is the allowance less what it charged.
Reckoned(a, l, q, r, h, f) ==
    /\ a \in Working \cup {"holding"} => /\ ToSet(q) = HeldBy(h) \cup ToSet(l)
                                         /\ r = Allowance - Total(Memory, HeldBy(h))
    /\ a \notin Working \cup {"holding"} => h = NoneHeld
    /\ HeldBy(h) \cap Invalid = {}
    /\ a \in Fetching => l # <<>> /\ h[Head(l)] = None
    /\ a \in {"storing", "charging"} => f # None /\ Head(l) \notin Invalid
    /\ a \notin {"storing", "charging"} => f = None
    /\ a = "holding" => l = <<>>
    /\ a = "refused" => ~Compiles(q)

ReckonedAt(c)   == Reckoned(at[c], left[c], asked[c], room[c], holds[c], found[c])
AllReckoned     == ClientsOK /\ \A c \in Client : ReckonedAt(c)

\* What a step of another client leaves a client.
Untouched(d) == /\ at'[d] = at[d] /\ left'[d] = left[d] /\ asked'[d] = asked[d]
                /\ room'[d] = room[d] /\ holds'[d] = holds[d] /\ found'[d] = found[d]

(* A sequence that goes on is its first and the rest.                      *)
LEMMA HeadAndTail ==
    ASSUME NEW s \in Seq(Text), s # <<>>
    PROVE  /\ Head(s) \in Text /\ Tail(s) \in Seq(Text) /\ ToSet(s) \in SUBSET Text
           /\ ToSet(s) = {Head(s)} \cup ToSet(Tail(s))
  <1>1. /\ Head(s) \in Text /\ Head(s) = s[1] /\ Tail(s) \in Seq(Text) /\ Len(s) \in Nat \ {0}
        /\ Len(Tail(s)) = Len(s) - 1 /\ \A i \in 1 .. Len(s) - 1 : Tail(s)[i] = s[i + 1]
    OBVIOUS
  <1>2. /\ DOMAIN s = 1 .. Len(s) /\ DOMAIN Tail(s) = 1 .. Len(s) - 1
        /\ \A i \in DOMAIN s : s[i] \in Text
    BY <1>1
  <1> DEFINE r == Tail(s)
  <1> HIDE DEF r
  <1>3. ToSet(s) = {s[i] : i \in DOMAIN s} /\ ToSet(r) = {r[i] : i \in DOMAIN r}
    BY DEF ToSet
  <1>4. ASSUME NEW t \in ToSet(s) PROVE t = Head(s) \/ t \in ToSet(r)
    <2>1. PICK i \in DOMAIN s : t = s[i]
      BY <1>3
    <2>2. CASE i = 1
      BY <1>1, <2>1, <2>2
    <2>3. CASE i # 1
      <3>1. i - 1 \in DOMAIN r /\ r[i - 1] = s[i]
        BY <1>1, <1>2, <2>3 DEF r
      <3>2. QED BY <1>3, <2>1, <3>1
    <2>4. QED BY <2>2, <2>3
  <1>5. ASSUME NEW t \in ToSet(r) PROVE t \in ToSet(s)
    <2>1. PICK i \in DOMAIN r : t = r[i]
      BY <1>3
    <2>2. i + 1 \in DOMAIN s /\ t = s[i + 1]
      BY <1>1, <1>2, <2>1 DEF r
    <2>3. QED BY <1>3, <2>2
  <1>6. Head(s) \in ToSet(s)
    <2>1. 1 \in DOMAIN s
      BY <1>1, <1>2
    <2>2. QED BY <1>1, <1>3, <2>1
  <1>7. ToSet(s) \in SUBSET Text
    BY <1>2, <1>3
  <1>8. QED BY <1>1, <1>4, <1>5, <1>6, <1>7 DEF r

(* What the texts held weigh, and what one text more adds.                 *)
LEMMA HeldWeigh ==
    ASSUME NEW H \in SUBSET Text
    PROVE  /\ Total(Memory, H) \in Nat
           /\ \A t \in Text \ H : Total(Memory, H \cup {t}) = Memory[t] + Total(Memory, H)
           /\ \A P \in SUBSET H : Total(Memory, P) <= Total(Memory, H)
  <1>1. IsFiniteSet(H) /\ \A S \in SUBSET Text : Weighs(Memory, S)
    BY TextsAreCounted, TextsWeigh, FS_Subset DEF Weighs
  <1>2. ASSUME NEW t \in Text \ H
        PROVE  Total(Memory, H \cup {t}) = Memory[t] + Total(Memory, H)
    <2>1. Weighs(Memory, H \cup {t})
      BY <1>1
    <2>2. QED BY <1>1, <2>1, TotalOfOneMore
  <1>3. Total(Memory, H) \in Nat
    BY <1>1, TotalOfPart
  <1>4. \A P \in SUBSET H : Total(Memory, P) <= Total(Memory, H)
    BY <1>1, TotalOfPart
  <1>5. QED BY <1>2, <1>3, <1>4

(* Whether a schema compiles, by the sum.                                  *)
LEMMA CompilesByTotal ==
    ASSUME NEW s
    PROVE  Compiles(s) <=> ToSet(s) \cap Invalid = {} /\ Total(Memory, ToSet(s)) <= Allowance
  BY DEF Compiles, Total

(* A program taken from the table lives, so its text compiled.             *)
LEMMA LiveCompiled ==
    ASSUME AllReckoned, NEW t \in Text
    PROVE  /\ Live(t) \in SUBSET (Nat \ {None})
           /\ Live(t) # {} => t \notin Invalid
  <1>1. ASSUME NEW n \in Live(t) PROVE n \in Nat \ {None} /\ t \notin Invalid
    <2>1. n # None /\ \E d \in Client : \/ n = holds[d][t]
                                        \/ left[d] # <<>> /\ Head(left[d]) = t /\ n = found[d]
      BY DEF Live
    <2>2. PICK d \in Client : \/ n = holds[d][t]
                              \/ left[d] # <<>> /\ Head(left[d]) = t /\ n = found[d]
      BY <2>1
    <2>3. holds[d] \in [Text -> Nat] /\ found[d] \in Nat /\ ReckonedAt(d)
      BY DEF AllReckoned, ClientsOK
    <2>4. CASE n = holds[d][t]
      <3>1. t \in HeldBy(holds[d])
        BY <2>1, <2>4 DEF HeldBy
      <3>2. QED BY <2>1, <2>3, <2>4, <3>1 DEF ReckonedAt, Reckoned
    <2>5. CASE Head(left[d]) = t /\ n = found[d]
      BY <2>1, <2>3, <2>5 DEF ReckonedAt, Reckoned
    <2>6. QED BY <2>2, <2>4, <2>5
  <1>2. QED BY <1>1

(* A text that compiles is given a number: its clients name fewer than     *)
(* there are.                                                              *)
LEMMA FreeNumber ==
    ASSUME AllReckoned, NEW c \in Client, at[c] = "compiling", NEW t \in Text, t = Head(left[c])
    PROVE  Min(Numbers \ (Live(t) \cup {byText[t]})) \in Nat \ {None}
  <1> DEFINE D      == Client \ {c}
             num(d) == IF holds[d][t] # None THEN holds[d][t] ELSE found[d]
             named  == {num(d) : d \in D}
             taken  == Live(t) \cup {byText[t]}
             C      == Cardinality(Client)
             X      == Cardinality(Text)
  <1>1. /\ IsFiniteSet(D) /\ Cardinality(D) = C - 1 /\ C \in Nat \ {0}
        /\ X \in Nat \ {0}
    <2>1. C \in Nat /\ X \in Nat /\ IsFiniteSet(D) /\ Cardinality(D) = C - 1
      BY TextsAreCounted, FS_CardinalityType, FS_RemoveElement
    <2>2. C # 0 /\ X # 0
      BY TextsAreCounted, FS_EmptySet
    <2>3. QED BY <2>1, <2>2
  <1>2. IsFiniteSet(named) /\ Cardinality(named) \in Nat /\ Cardinality(named) <= C - 1
    <2>1. IsFiniteSet(named) /\ Cardinality(named) <= Cardinality(D)
      <3> DEFINE f == [d \in D |-> num(d)]
      <3>1. f \in Surjection(D, named)
        BY DEF Surjection
      <3> HIDE DEF f, named
      <3>2. QED BY <1>1, <3>1, FS_Surjection
    <2>2. QED BY <1>1, <2>1, FS_CardinalityType
  <1>3. Live(t) \in SUBSET named
    <2> SUFFICES ASSUME NEW n \in Live(t) PROVE \E d \in D : n = num(d)
      OBVIOUS
    <2>1. n # None /\ \E d \in Client : \/ n = holds[d][t]
                                        \/ left[d] # <<>> /\ Head(left[d]) = t /\ n = found[d]
      BY DEF Live
    <2>2. PICK d \in Client : \/ n = holds[d][t]
                              \/ left[d] # <<>> /\ Head(left[d]) = t /\ n = found[d]
      BY <2>1
    <2>3. ReckonedAt(c) /\ ReckonedAt(d)
      BY DEF AllReckoned
    <2>4. holds[c][t] = None /\ found[c] = None
      BY <2>3 DEF ReckonedAt, Reckoned, Fetching
    <2>5. d \in D
      BY <2>1, <2>2, <2>4
    <2>6. n = num(d)
      <3>1. CASE n = holds[d][t]
        BY <2>1, <3>1
      <3>2. CASE Head(left[d]) = t /\ n = found[d]
        <4>1. holds[d][t] = None
          BY <2>1, <2>3, <3>2 DEF ReckonedAt, Reckoned, Fetching
        <4>2. QED BY <3>2, <4>1
      <3>3. QED BY <2>2, <3>1, <3>2
    <2>7. QED BY <2>5, <2>6
  <1> HIDE DEF named
  <1>4. taken \in SUBSET (named \cup {byText[t]})
    BY <1>3
  <1> HIDE DEF taken
  <1>5. IsFiniteSet(taken) /\ Cardinality(taken) <= C
    <2>1. IsFiniteSet(taken) /\ Cardinality(taken) <= Cardinality(named) + 1
      BY <1>2, <1>4, OneMore
    <2>2. Cardinality(taken) \in Nat
      BY <2>1, FS_CardinalityType
    <2>3. QED BY <1>1, <1>2, <2>1, <2>2
  <1>6. Cardinality(Numbers) = 2 * C * X /\ Numbers \in SUBSET Nat /\ None \notin Numbers
    <2>1. 2 * C * X \in Nat /\ 2 * C * X >= 1
      BY <1>1
    <2>2. Numbers = 1 .. 2 * C * X
      BY DEF Numbers
    <2> HIDE DEF C, X
    <2>3. Cardinality(1 .. 2 * C * X) = 2 * C * X
      BY <2>1, FS_Interval
    <2>4. QED BY <2>2, <2>3 DEF None
  <1>7. 2 * C * X > C
    <2> HIDE DEF C, X
    <2>1. C * X >= C
      BY <1>1
    <2>2. C * X \in Nat /\ 2 * C * X = 2 * (C * X)
      BY <1>1
    <2> DEFINE p == C * X
    <2> HIDE DEF p
    <2>3. QED BY <1>1, <2>1, <2>2 DEF p
  <1>8. Numbers \ taken # {}
    <2> SUFFICES ASSUME Numbers \in SUBSET taken PROVE FALSE
      OBVIOUS
    <2>1. Cardinality(Numbers) <= Cardinality(taken) /\ Cardinality(taken) \in Nat
      BY <1>5, FS_Subset, FS_CardinalityType
    <2>2. 2 * C * X \in Nat
      BY <1>1
    <2> HIDE DEF C, X
    <2>3. QED BY <1>1, <1>5, <1>6, <1>7, <2>1, <2>2
  <1>9. PICK m \in Numbers \ taken : \A n \in Numbers \ taken : m <= n
    BY <1>6, <1>8, LeastNumber
  <1>10. Min(Numbers \ taken) \in Numbers \ taken
    BY <1>9 DEF Min
  <1>11. QED BY <1>6, <1>10 DEF taken

(* A step of one client leaves the books of the others.                    *)
LEMMA OneClient ==
    ASSUME AllReckoned, NEW c \in Client, \A d \in Client \ {c} : Untouched(d),
           /\ at'[c] \in Phases /\ left'[c] \in Seq(Text) /\ asked'[c] \in Seq(Text)
           /\ room'[c] \in Nat /\ holds'[c] \in [Text -> Nat] /\ found'[c] \in Nat,
           /\ at' = [d \in Client |-> at'[d]] /\ left' = [d \in Client |-> left'[d]]
           /\ asked' = [d \in Client |-> asked'[d]] /\ room' = [d \in Client |-> room'[d]]
           /\ holds' = [d \in Client |-> holds'[d]] /\ found' = [d \in Client |-> found'[d]],
           Reckoned(at'[c], left'[c], asked'[c], room'[c], holds'[c], found'[c])
    PROVE  AllReckoned'
  <1>1. ASSUME NEW d \in Client, d # c
        PROVE  /\ at'[d] \in Phases /\ left'[d] \in Seq(Text) /\ asked'[d] \in Seq(Text)
               /\ room'[d] \in Nat /\ holds'[d] \in [Text -> Nat] /\ found'[d] \in Nat
               /\ Reckoned(at'[d], left'[d], asked'[d], room'[d], holds'[d], found'[d])
    <2>1. Untouched(d)
      BY <1>1
    <2>2. ReckonedAt(d) /\ ClientsOK
      BY DEF AllReckoned
    <2>3. QED BY <2>1, <2>2 DEF Untouched, ReckonedAt, ClientsOK
  <1>2. ClientsOK'
    BY <1>1 DEF ClientsOK
  <1>3. \A d \in Client : Reckoned(at'[d], left'[d], asked'[d], room'[d], holds'[d], found'[d])
    BY <1>1
  <1>4. QED BY <1>2, <1>3 DEF AllReckoned, ReckonedAt

LEMMA AskReckons ==
    ASSUME AllReckoned, NEW c \in Client, Ask(c)
    PROVE  AllReckoned'
  <1>1. PICK s \in Schemas : asked' = [asked EXCEPT ![c] = s] /\ left' = [left EXCEPT ![c] = s]
    BY DEF Ask
  <1>2. /\ ClientsOK /\ ReckonedAt(c) /\ at[c] = "idle" /\ s \in Seq(Text) /\ Allowance \in Nat
        /\ at' = [at EXCEPT ![c] = "reading"] /\ room' = [room EXCEPT ![c] = Allowance]
        /\ holds' = holds /\ found' = found
    BY SchemasHoldTexts, TextsWeigh DEF AllReckoned, Ask
  <1>3. /\ at'[c] = "reading" /\ left'[c] = s /\ asked'[c] = s /\ room'[c] = Allowance
        /\ holds'[c] = NoneHeld /\ found'[c] = None
    BY <1>1, <1>2 DEF ClientsOK, ReckonedAt, Reckoned, Working, Fetching
  <1>4. HeldBy(NoneHeld) = {}
    BY DEF HeldBy, NoneHeld
  <1>5. Total(Memory, {}) = 0
    BY TotalOfNone
  <1>6. Reckoned("reading", s, s, Allowance, NoneHeld, None)
    BY <1>2, <1>4, <1>5 DEF Reckoned, Working, Fetching
  <1>7. \A d \in Client \ {c} : Untouched(d)
    BY <1>1, <1>2 DEF ClientsOK, Untouched
  <1>8. QED BY <1>1, <1>2, <1>3, <1>6, <1>7, OneClient DEF ClientsOK, Phases

LEMMA MeetsReckon ==
    ASSUME AllReckoned, NEW c \in Client, MetAgain(c) \/ Look(c) \/ Built(c)
    PROVE  AllReckoned'
  <1>1. ClientsOK /\ ReckonedAt(c) /\ at[c] = "reading"
    BY DEF AllReckoned, MetAgain, Look, Built, Reads
  <1>2. CASE MetAgain(c)
    <2>1. /\ left[c] # <<>> /\ holds[c][Head(left[c])] # None /\ left' = [left EXCEPT ![c] = Tail(@)]
          /\ at' = at /\ asked' = asked /\ room' = room /\ holds' = holds /\ found' = found
      BY <1>2 DEF MetAgain, Reads
    <2>2. /\ Head(left[c]) \in Text /\ Tail(left[c]) \in Seq(Text)
          /\ ToSet(left[c]) = {Head(left[c])} \cup ToSet(Tail(left[c]))
      BY <1>1, <2>1, HeadAndTail DEF ClientsOK
    <2>3. Head(left[c]) \in HeldBy(holds[c])
      BY <2>1, <2>2 DEF HeldBy
    <2>4. left'[c] = Tail(left[c])
      BY <1>1, <2>1 DEF ClientsOK
    <2>5. Reckoned(at[c], Tail(left[c]), asked[c], room[c], holds[c], found[c])
      BY <1>1, <2>2, <2>3 DEF ReckonedAt, Reckoned, Working, Fetching
    <2>6. \A d \in Client \ {c} : Untouched(d)
      BY <1>1, <2>1 DEF ClientsOK, Untouched
    <2>7. QED BY <1>1, <2>1, <2>2, <2>4, <2>5, <2>6, OneClient DEF ClientsOK
  <1>3. CASE Look(c)
    <2> DEFINE t == Head(left[c])
    <2>1. /\ left[c] # <<>> /\ holds[c][t] = None /\ t \in Text
          /\ left' = left /\ asked' = asked /\ room' = room /\ holds' = holds
      BY <1>1, <1>3, HeadAndTail DEF Look, Reads, ClientsOK
    <2>2. CASE /\ byText[t] \in Live(t)
               /\ found' = [found EXCEPT ![c] = byText[t]] /\ at' = [at EXCEPT ![c] = "charging"]
      <3>1. byText[t] \in Nat \ {None} /\ t \notin Invalid
        BY <2>1, <2>2, LiveCompiled
      <3>2. found'[c] = byText[t] /\ at'[c] = "charging"
        BY <1>1, <2>2 DEF ClientsOK
      <3>3. Reckoned("charging", left[c], asked[c], room[c], holds[c], byText[t])
        BY <1>1, <2>1, <3>1 DEF ReckonedAt, Reckoned, Working, Fetching
      <3>4. \A d \in Client \ {c} : Untouched(d)
        BY <1>1, <2>1, <2>2 DEF ClientsOK, Untouched
      <3>5. QED BY <1>1, <2>1, <2>2, <3>1, <3>2, <3>3, <3>4, OneClient DEF ClientsOK, Phases
    <2>3. CASE at' = [at EXCEPT ![c] = "compiling"] /\ found' = found
      <3>1. at'[c] = "compiling"
        BY <1>1, <2>3 DEF ClientsOK
      <3>2. Reckoned("compiling", left[c], asked[c], room[c], holds[c], found[c])
        BY <1>1, <2>1 DEF ReckonedAt, Reckoned, Working, Fetching
      <3>3. \A d \in Client \ {c} : Untouched(d)
        BY <1>1, <2>1, <2>3 DEF ClientsOK, Untouched
      <3>4. QED BY <1>1, <2>1, <2>3, <3>1, <3>2, <3>3, OneClient DEF ClientsOK, Phases
    <2>4. QED BY <1>3, <2>2, <2>3 DEF Look
  <1>4. CASE Built(c)
    <2>1. /\ left[c] = <<>> /\ at' = [at EXCEPT ![c] = "holding"]
          /\ left' = left /\ asked' = asked /\ room' = room /\ holds' = holds /\ found' = found
      BY <1>4 DEF Built
    <2>2. at'[c] = "holding"
      BY <1>1, <2>1 DEF ClientsOK
    <2>3. Reckoned("holding", left[c], asked[c], room[c], holds[c], found[c])
      BY <1>1, <2>1 DEF ReckonedAt, Reckoned, Working, Fetching
    <2>4. \A d \in Client \ {c} : Untouched(d)
      BY <1>1, <2>1 DEF ClientsOK, Untouched
    <2>5. QED BY <1>1, <2>1, <2>2, <2>3, <2>4, OneClient DEF ClientsOK, Phases
  <1>5. QED BY <1>2, <1>3, <1>4

(* A schema is refused for what it is.                                     *)
LEMMA RefuseReckons ==
    ASSUME AllReckoned, NEW c \in Client, Refuse(c), ~Compiles(asked[c]),
           left' = left, asked' = asked, room' = room
    PROVE  AllReckoned'
  <1>1. /\ ClientsOK /\ at' = [at EXCEPT ![c] = "refused"]
        /\ holds' = [holds EXCEPT ![c] = NoneHeld] /\ found' = [found EXCEPT ![c] = None]
    BY DEF AllReckoned, Refuse
  <1>2. /\ at'[c] = "refused" /\ holds'[c] = NoneHeld /\ found'[c] = None
        /\ NoneHeld \in [Text -> Nat] /\ HeldBy(NoneHeld) = {}
    BY <1>1 DEF ClientsOK, NoneHeld, None, HeldBy
  <1>3. Reckoned("refused", left[c], asked[c], room[c], NoneHeld, None)
    BY <1>2 DEF Reckoned, Working, Fetching
  <1>4. \A d \in Client \ {c} : Untouched(d)
    BY <1>1 DEF ClientsOK, Untouched
  <1>5. None \in Nat
    BY DEF None
  <1>6. QED BY <1>1, <1>2, <1>3, <1>4, <1>5, OneClient DEF ClientsOK, Phases

LEMMA CompileReckons ==
    ASSUME AllReckoned, NEW c \in Client, Compile(c)
    PROVE  AllReckoned'
  <1> DEFINE t == Head(left[c])
             n == Min(Numbers \ (Live(t) \cup {byText[t]}))
  <1>1. /\ ClientsOK /\ ReckonedAt(c) /\ at[c] = "compiling"
        /\ left' = left /\ asked' = asked /\ room' = room
    BY DEF AllReckoned, Compile
  <1>2. /\ left[c] # <<>> /\ holds[c][t] = None /\ left[c] \in Seq(Text)
        /\ ToSet(asked[c]) = HeldBy(holds[c]) \cup ToSet(left[c])
    BY <1>1 DEF ReckonedAt, Reckoned, Fetching, Working, ClientsOK
  <1>3. t \in Text /\ t \in ToSet(left[c])
    BY <1>2, HeadAndTail
  <1>4. CASE t \in Invalid /\ Refuse(c)
    <2>1. ~Compiles(asked[c])
      BY <1>2, <1>3, <1>4, CompilesByTotal
    <2>2. QED BY <1>1, <1>4, <2>1, RefuseReckons
  <1>5. CASE /\ t \notin Invalid /\ found' = [found EXCEPT ![c] = n]
             /\ at' = [at EXCEPT ![c] = "storing"] /\ holds' = holds
    <2>1. n \in Nat \ {None}
      BY <1>1, <1>3, FreeNumber
    <2> HIDE DEF n
    <2>2. at'[c] = "storing" /\ found'[c] = n
      BY <1>1, <1>5 DEF ClientsOK
    <2>3. Reckoned("storing", left[c], asked[c], room[c], holds[c], n)
      BY <1>1, <1>5, <2>1 DEF ReckonedAt, Reckoned, Working, Fetching
    <2>4. \A d \in Client \ {c} : Untouched(d)
      BY <1>1, <1>5 DEF ClientsOK, Untouched
    <2>5. QED BY <1>1, <1>5, <2>1, <2>2, <2>3, <2>4, OneClient DEF ClientsOK, Phases
  <1>6. QED BY <1>4, <1>5 DEF Compile

LEMMA StoreReckons ==
    ASSUME AllReckoned, NEW c \in Client, Store(c) \/ LetGo(c)
    PROVE  AllReckoned'
  <1>1. ClientsOK /\ ReckonedAt(c)
    BY DEF AllReckoned
  <1>2. CASE Store(c)
    <2>1. /\ at[c] = "storing" /\ at' = [at EXCEPT ![c] = "charging"]
          /\ left' = left /\ asked' = asked /\ room' = room /\ holds' = holds /\ found' = found
      BY <1>2 DEF Store
    <2>2. at'[c] = "charging"
      BY <1>1, <2>1 DEF ClientsOK
    <2>3. Reckoned("charging", left[c], asked[c], room[c], holds[c], found[c])
      BY <1>1, <2>1 DEF ReckonedAt, Reckoned, Working, Fetching
    <2>4. \A d \in Client \ {c} : Untouched(d)
      BY <1>1, <2>1 DEF ClientsOK, Untouched
    <2>5. QED BY <1>1, <2>1, <2>2, <2>3, <2>4, OneClient DEF ClientsOK, Phases
  <1>3. CASE LetGo(c)
    <2>1. /\ at[c] \in {"holding", "refused"} /\ at' = [at EXCEPT ![c] = "idle"]
          /\ holds' = [holds EXCEPT ![c] = NoneHeld]
          /\ left' = [left EXCEPT ![c] = <<>>] /\ asked' = [asked EXCEPT ![c] = <<>>]
          /\ room' = [room EXCEPT ![c] = 0] /\ found' = found
      BY <1>3 DEF LetGo
    <2>2. /\ at'[c] = "idle" /\ left'[c] = <<>> /\ asked'[c] = <<>> /\ room'[c] = 0
          /\ holds'[c] = NoneHeld /\ found'[c] = None /\ found'[c] \in Nat
          /\ NoneHeld \in [Text -> Nat] /\ HeldBy(NoneHeld) = {} /\ <<>> \in Seq(Text)
      BY <1>1, <2>1 DEF ClientsOK, NoneHeld, None, HeldBy, ReckonedAt, Reckoned
    <2>3. Reckoned("idle", <<>>, <<>>, 0, NoneHeld, None)
      BY <2>2 DEF Reckoned, Working, Fetching
    <2>4. \A d \in Client \ {c} : Untouched(d)
      BY <1>1, <2>1 DEF ClientsOK, Untouched
    <2>5. QED BY <1>1, <2>1, <2>2, <2>3, <2>4, OneClient DEF ClientsOK, Phases
  <1>4. QED BY <1>2, <1>3

LEMMA ChargeReckons ==
    ASSUME AllReckoned, NEW c \in Client, Charge(c)
    PROVE  AllReckoned'
  <1> DEFINE t == Head(left[c])
             H == HeldBy(holds[c])
  <1>1. /\ ClientsOK /\ ReckonedAt(c) /\ at[c] = "charging" /\ asked' = asked
    BY DEF AllReckoned, Charge
  <1>2. /\ left[c] # <<>> /\ holds[c][t] = None /\ left[c] \in Seq(Text) /\ t \notin Invalid
        /\ ToSet(asked[c]) = H \cup ToSet(left[c]) /\ H \cap Invalid = {}
        /\ room[c] = Allowance - Total(Memory, H) /\ found[c] # None
    BY <1>1 DEF ReckonedAt, Reckoned, Fetching, Working, ClientsOK
  <1>3. /\ t \in Text /\ ToSet(left[c]) = {t} \cup ToSet(Tail(left[c]))
        /\ Tail(left[c]) \in Seq(Text) /\ ToSet(left[c]) \in SUBSET Text
    BY <1>2, HeadAndTail
  <1>4. /\ H \in SUBSET Text /\ t \notin H /\ H \cup {t} \in SUBSET Text
        /\ holds[c] \in [Text -> Nat] /\ found[c] \in Nat /\ room[c] \in Nat
        /\ Memory[t] \in Nat /\ Allowance \in Nat /\ Price(c) = Memory[t]
    BY <1>1, <1>2, <1>3, TextsWeigh DEF HeldBy, ClientsOK, Price
  <1>5. Total(Memory, H \cup {t}) = Memory[t] + Total(Memory, H) /\ Total(Memory, H) \in Nat
    <2> HIDE DEF H, t
    <2>1. QED BY <1>3, <1>4, HeldWeigh
  <1>6. CASE ~Affords(c) /\ Refuse(c) /\ room' = room /\ left' = left
    <2>1. ~Compiles(asked[c])
      <3> HIDE DEF H, t
      <3>1. H \cup {t} \in SUBSET ToSet(asked[c]) /\ ToSet(asked[c]) \in SUBSET Text
        BY <1>2, <1>3, <1>4
      <3>2. Total(Memory, H \cup {t}) <= Total(Memory, ToSet(asked[c]))
            /\ Total(Memory, ToSet(asked[c])) \in Nat
        BY <3>1, HeldWeigh
      <3>3. Memory[t] > room[c]
        BY <1>4, <1>6 DEF Affords
      <3>4. ~(Total(Memory, ToSet(asked[c])) <= Allowance)
        BY <1>2, <1>4, <1>5, <3>2, <3>3
      <3>5. QED BY <3>4, CompilesByTotal
    <2>2. QED BY <1>1, <1>6, <2>1, RefuseReckons
  <1>7. CASE /\ Affords(c) /\ room' = [room EXCEPT ![c] = @ - Price(c)]
             /\ holds' = [holds EXCEPT ![c][t] = found[c]]
             /\ found' = [found EXCEPT ![c] = None]
             /\ left' = [left EXCEPT ![c] = Tail(@)] /\ at' = [at EXCEPT ![c] = "reading"]
    <2> DEFINE h == [holds[c] EXCEPT ![t] = found[c]]
    <2>1. /\ at'[c] = "reading" /\ room'[c] = room[c] - Memory[t] /\ holds'[c] = h
          /\ found'[c] = None /\ left'[c] = Tail(left[c]) /\ asked'[c] = asked[c]
      BY <1>1, <1>4, <1>7 DEF ClientsOK
    <2>2. h \in [Text -> Nat] /\ HeldBy(h) = H \cup {t}
      BY <1>2, <1>3, <1>4 DEF HeldBy
    <2>3. room[c] - Memory[t] \in Nat
      BY <1>4, <1>7 DEF Affords
    <2>4. Reckoned("reading", Tail(left[c]), asked[c], room[c] - Memory[t], h, None)
      <3>1. ToSet(asked[c]) = HeldBy(h) \cup ToSet(Tail(left[c])) /\ HeldBy(h) \cap Invalid = {}
        BY <1>2, <1>3, <2>2
      <3>2. room[c] - Memory[t] = Allowance - Total(Memory, HeldBy(h))
        <4> HIDE DEF H, h, t
        <4>1. QED BY <1>2, <1>4, <1>5, <2>2
      <3> HIDE DEF h, H
      <3>3. QED BY <3>1, <3>2 DEF Reckoned, Working, Fetching
    <2>5. \A d \in Client \ {c} : Untouched(d)
      BY <1>1, <1>7 DEF ClientsOK, Untouched
    <2>6. None \in Nat
      BY DEF None
    <2> HIDE DEF h, H
    <2>7. QED BY <1>1, <1>3, <1>7, <2>1, <2>2, <2>3, <2>4, <2>5, <2>6, OneClient DEF ClientsOK, Phases
  <1>8. QED BY <1>6, <1>7 DEF Charge

(***************************************************************************)
(* What a schema is refused for is the schema alone: one that holds a text *)
(* that does not compile, or whose texts, each once, weigh more than the   *)
(* allowance, and no other, whatever programs are alive, were shared or    *)
(* were dropped meanwhile, and whichever client compiled them (index.rs,   *)
(* compile_patterns_within, program).                                      *)
(***************************************************************************)
THEOREM RefusedForItself == Spec => []RefusalIsOfTheSchema
  <1>1. Init => AllReckoned
    <2> SUFFICES ASSUME Init PROVE AllReckoned
      OBVIOUS
    <2>1. HeldBy(NoneHeld) = {} /\ NoneHeld \in [Text -> Nat] /\ None \in Nat /\ <<>> \in Seq(Text)
      BY DEF HeldBy, NoneHeld, None
    <2>2. Reckoned("idle", <<>>, <<>>, 0, NoneHeld, None)
      BY <2>1 DEF Reckoned, Working, Fetching
    <2>3. QED BY <2>1, <2>2 DEF Init, AllReckoned, ClientsOK, ReckonedAt, Phases
  <1>2. AllReckoned /\ [Next]_vars => AllReckoned'
    <2> SUFFICES ASSUME AllReckoned, [Next]_vars PROVE AllReckoned'
      OBVIOUS
    <2>1. CASE \E c \in Client : \/ Ask(c) \/ MetAgain(c) \/ Look(c) \/ Compile(c) \/ Store(c)
                                 \/ Charge(c) \/ Built(c) \/ LetGo(c)
      BY <2>1, AskReckons, MeetsReckon, CompileReckons, StoreReckons, ChargeReckons
    <2>2. CASE Poison \/ UNCHANGED vars
      BY <2>2 DEF Poison, vars, client, AllReckoned, ClientsOK, ReckonedAt
    <2>3. QED BY <2>1, <2>2 DEF Next
  <1>3. AllReckoned => RefusalIsOfTheSchema
    <2> SUFFICES ASSUME AllReckoned, NEW c \in Client
                 PROVE  /\ at[c] = "holding" => Compiles(asked[c])
                        /\ at[c] = "refused" => ~Compiles(asked[c])
      BY DEF RefusalIsOfTheSchema
    <2>1. ReckonedAt(c) /\ ClientsOK
      BY DEF AllReckoned
    <2>2. CASE at[c] = "holding"
      <3>1. ToSet(<<>>) = {}
        BY DEF ToSet
      <3>2. /\ ToSet(asked[c]) = HeldBy(holds[c]) /\ HeldBy(holds[c]) \cap Invalid = {}
            /\ room[c] = Allowance - Total(Memory, HeldBy(holds[c])) /\ room[c] \in Nat
        BY <2>1, <2>2, <3>1 DEF ReckonedAt, Reckoned, Working, ClientsOK
      <3>3. Total(Memory, HeldBy(holds[c])) \in Nat
        BY HeldWeigh DEF HeldBy
      <3>4. Total(Memory, ToSet(asked[c])) <= Allowance
        BY <3>2, <3>3, TextsWeigh
      <3>5. QED BY <2>2, <3>2, <3>4, CompilesByTotal
    <2>3. CASE at[c] = "refused"
      BY <2>1, <2>3 DEF ReckonedAt, Reckoned
    <2>4. QED BY <2>2, <2>3
  <1>4. QED BY <1>1, <1>2, <1>3, PTL DEF Spec
=============================================================================
