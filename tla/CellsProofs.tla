---------------------------- MODULE CellsProofs ----------------------------
(***************************************************************************)
(* Cells keeps the promise of KeptOnce for every number of threads, cells  *)
(* and digests, and every depth of asking inside a hash.                   *)
(***************************************************************************)
EXTENDS Cells, TLAPS

Building == {"entered", "naming", "parked", "regaining", "named"}

\* Whoever builds is alone at it, and nothing is kept yet; only a hash has askings inside it, and
\* it has no value while they last; and what an asking holds is what is kept.
Standing(t) ==
    /\ at[t] # "idle" <=> wants[t] # <<>>
    /\ at[t] \in Building =>
         /\ Lazy(Top(t).cell) /\ builder[Top(t).cell] = t /\ Empty(t)
    /\ at[t] = "detached" => Lazy(Top(t).cell)
    /\ at[t] = "hashing" => ~Lazy(Top(t).cell)
    /\ at[t] = "told" => Top(t).value # None /\ Top(t).value = kept[Top(t).cell]
    /\ at[t] \notin {"idle", "told"} => Top(t).value = None
    /\ \A i \in DOMAIN wants[t] : i > 1 => wants[t][i].value = None /\ ~Lazy(wants[t][i].cell)

Inv == TypeOK /\ \A t \in Thread : Standing(t)

LEMMA InitInv == Init => Inv
  BY NoneIsNoValue DEF Init, Inv, TypeOK, Standing, Places, Building

\* A thread asking for something has an innermost asking, of the type of one.
LEMMA TopTyped ==
    ASSUME TypeOK, NEW t \in Thread, wants[t] # <<>>
    PROVE  /\ wants[t] \in Seq(Asking) /\ 1 \in DOMAIN wants[t]
           /\ Len(wants[t]) \in Nat \ {0} /\ DOMAIN wants[t] = 1 .. Len(wants[t])
           /\ Top(t) \in Asking /\ Top(t).cell \in Cell
           /\ Top(t).value \in Value \cup {None}
<1>1. wants[t] \in Seq(Asking)
  BY DEF TypeOK
<1>2. Len(wants[t]) \in Nat \ {0} /\ DOMAIN wants[t] = 1 .. Len(wants[t])
  BY <1>1
<1>3. Top(t) \in Asking
  BY <1>1, <1>2 DEF Top
<1>. QED
  BY <1>1, <1>2, <1>3 DEF Asking

\* What is left once the innermost asking ends.
LEMMA TailTyped ==
    ASSUME NEW s \in Seq(Asking), s # <<>>
    PROVE  /\ Tail(s) \in Seq(Asking) /\ Len(Tail(s)) = Len(s) - 1
           /\ \A i \in 1 .. Len(s) - 1 : Tail(s)[i] = s[i + 1]
           /\ DOMAIN Tail(s) = 1 .. Len(s) - 1 /\ (Tail(s) = <<>> <=> Len(s) = 1)
<1>1. /\ Tail(s) \in Seq(Asking) /\ Len(Tail(s)) = Len(s) - 1
      /\ \A i \in 1 .. Len(s) - 1 : Tail(s)[i] = s[i + 1]
  OBVIOUS
<1>2. DOMAIN Tail(s) = 1 .. Len(s) - 1
  BY <1>1
<1>3. Tail(s) = <<>> <=> Len(s) = 1
  BY <1>1
<1>. QED
  BY <1>1, <1>2, <1>3

\* A thread asks for c inside what it asked for already.
LEMMA AskTyped ==
    ASSUME NEW s \in Seq(Asking), NEW c \in Cell
    PROVE  LET a == [cell |-> c, value |-> None] IN
           /\ <<a>> \o s \in Seq(Asking) /\ (<<a>> \o s)[1] = a /\ <<a>> \o s # <<>>
           /\ DOMAIN (<<a>> \o s) = 1 .. Len(s) + 1
           /\ \A i \in 2 .. Len(s) + 1 : (<<a>> \o s)[i] = s[i - 1]
<1> DEFINE a == [cell |-> c, value |-> None]
<1>0. a \in Asking
  BY DEF Asking
<1> HIDE DEF a
<1>1. <<a>> \in Seq(Asking) /\ Len(<<a>>) = 1 /\ <<a>>[1] = a
  BY <1>0
<1>2. /\ <<a>> \o s \in Seq(Asking) /\ Len(<<a>> \o s) = Len(s) + 1
      /\ (<<a>> \o s)[1] = a
      /\ \A i \in 2 .. Len(s) + 1 : (<<a>> \o s)[i] = s[i - 1]
  BY <1>1
<1>3. <<a>> \o s # <<>> /\ DOMAIN (<<a>> \o s) = 1 .. Len(s) + 1
  BY <1>2
<1>. QED
  BY <1>2, <1>3 DEF a

\* The innermost asking is given the value v.
LEMMA HoldTyped ==
    ASSUME TypeOK, NEW t \in Thread, wants[t] # <<>>, NEW v \in Value, Holds(t, v)
    PROVE  /\ wants' \in [Thread -> Seq(Asking)] /\ at' \in [Thread -> Places]
           /\ wants'[t] # <<>> /\ DOMAIN wants'[t] = DOMAIN wants[t] /\ at'[t] = "told"
           /\ Top(t)'.value = v /\ Top(t)'.cell = Top(t).cell
           /\ \A i \in DOMAIN wants[t] : i > 1 => wants'[t][i] = wants[t][i]
           /\ \A u \in Thread : u # t => wants'[u] = wants[u] /\ at'[u] = at[u]
<1> DEFINE s == wants[t]
           a == [s[1] EXCEPT !.value = v]
<1>1. s \in Seq(Asking) /\ Len(s) \in Nat \ {0} /\ DOMAIN s = 1 .. Len(s) /\ s[1] \in Asking
  BY TopTyped DEF Top
<1>2. a \in Asking /\ a.value = v /\ a.cell = s[1].cell
  BY <1>1 DEF Asking
<1>3. wants' = [wants EXCEPT ![t] = [s EXCEPT ![1] = a]]
  BY DEF Holds
<1> HIDE DEF a
<1>4. /\ [s EXCEPT ![1] = a] \in Seq(Asking) /\ DOMAIN [s EXCEPT ![1] = a] = DOMAIN s
      /\ [s EXCEPT ![1] = a][1] = a /\ [s EXCEPT ![1] = a] # <<>>
      /\ \A i \in DOMAIN s : i > 1 => [s EXCEPT ![1] = a][i] = s[i]
  BY <1>1, <1>2
<1> HIDE DEF s
<1>5. wants'[t] = [s EXCEPT ![1] = a] /\ \A u \in Thread : u # t => wants'[u] = wants[u]
  BY <1>3 DEF TypeOK
<1>6. wants' \in [Thread -> Seq(Asking)]
  BY <1>3, <1>4 DEF TypeOK
<1>7. at' \in [Thread -> Places] /\ at'[t] = "told" /\ \A u \in Thread : u # t => at'[u] = at[u]
  BY DEF Holds, TypeOK, Places
<1>. QED
  BY <1>1, <1>2, <1>4, <1>5, <1>6, <1>7 DEF Top, s

\* A thread is left standing by a step that is not its own, and keeps what is kept.
LEMMA StandsStill ==
    ASSUME Inv, NEW u \in Thread, wants'[u] = wants[u], at'[u] = at[u],
           \A c \in Cell : kept[c] # None => kept'[c] = kept[c],
           at[u] \in Building => builder'[Top(u).cell] = u /\ kept'[Top(u).cell] = None
    PROVE  Standing(u)'
<1>1. Standing(u) /\ Top(u)' = Top(u)
  BY DEF Inv, Top
<1>2. wants[u] # <<>> => Top(u).cell \in Cell
  BY TopTyped DEF Inv
<1>. QED
  BY <1>1, <1>2 DEF Standing, Empty, Building

\* The asking of t goes from one place to another, and no cell changes.
LEMMA MoveStands ==
    ASSUME Inv, NEW t \in Thread, NEW p \in Places \ {"idle", "told"}, Moves(t, p),
           at[t] # "idle", Top(t).value = None, kept' = kept,
           \A u \in Thread \ {t} : at[u] \in Building => builder'[Top(u).cell] = u,
           p \in Building => Lazy(Top(t).cell) /\ builder'[Top(t).cell] = t /\ Empty(t),
           p = "detached" => Lazy(Top(t).cell),
           p = "hashing" => ~Lazy(Top(t).cell)
    PROVE  wants' \in [Thread -> Seq(Asking)] /\ at' \in [Thread -> Places]
           /\ \A u \in Thread : Standing(u)'
<1>1. wants' = wants /\ at' \in [Thread -> Places] /\ at'[t] = p
      /\ \A u \in Thread : u # t => at'[u] = at[u]
  BY DEF Moves, Inv, TypeOK
<1>2. ASSUME NEW u \in Thread, u # t PROVE Standing(u)'
  BY <1>1, <1>2, StandsStill DEF Inv, Standing, Empty
<1>3. Standing(t)'
  BY <1>1 DEF Inv, Standing, Top, Empty
<1>. QED
  BY <1>1, <1>2, <1>3 DEF Inv, TypeOK

\* The asking of t is told what is, from now on, kept.
LEMMA HoldStands ==
    ASSUME Inv, NEW t \in Thread, NEW v \in Value, Holds(t, v), at[t] \notin {"idle", "told"},
           kept' \in [Cell -> Value \cup {None}], kept'[Top(t).cell] = v,
           \A c \in Cell : kept[c] # None => kept'[c] = kept[c],
           \A u \in Thread \ {t} : at[u] \in Building =>
               builder'[Top(u).cell] = u /\ kept'[Top(u).cell] = None
    PROVE  wants' \in [Thread -> Seq(Asking)] /\ at' \in [Thread -> Places]
           /\ \A u \in Thread : Standing(u)'
<1>0. wants[t] # <<>>
  BY DEF Inv, Standing
<1>1. /\ wants' \in [Thread -> Seq(Asking)] /\ at' \in [Thread -> Places]
      /\ wants'[t] # <<>> /\ DOMAIN wants'[t] = DOMAIN wants[t] /\ at'[t] = "told"
      /\ Top(t)'.value = v /\ Top(t)'.cell = Top(t).cell
      /\ \A i \in DOMAIN wants[t] : i > 1 => wants'[t][i] = wants[t][i]
      /\ \A u \in Thread : u # t => wants'[u] = wants[u] /\ at'[u] = at[u]
  BY <1>0, HoldTyped DEF Inv
<1>2. ASSUME NEW u \in Thread, u # t PROVE Standing(u)'
  BY <1>1, <1>2, StandsStill
<1>3. v # None
  BY NoneIsNoValue DEF Value
<1>4. Standing(t)'
  BY <1>1, <1>3 DEF Inv, Standing, Building
<1>. QED
  BY <1>1, <1>2, <1>4

\* The innermost asking of t ends, and the one around it is a hash being computed.
LEMMA EndStands ==
    ASSUME Inv, NEW t \in Thread, Ends(t), at[t] # "idle", kept' = kept, builder' = builder
    PROVE  wants' \in [Thread -> Seq(Asking)] /\ at' \in [Thread -> Places]
           /\ \A u \in Thread : Standing(u)'
<1> DEFINE s == wants[t]
<1>0. s # <<>> /\ s \in Seq(Asking) /\ Len(s) \in Nat \ {0} /\ DOMAIN s = 1 .. Len(s)
  BY TopTyped DEF Inv, Standing
<1>1. /\ Tail(s) \in Seq(Asking) /\ Len(Tail(s)) = Len(s) - 1
      /\ \A i \in 1 .. Len(s) - 1 : Tail(s)[i] = s[i + 1]
      /\ DOMAIN Tail(s) = 1 .. Len(s) - 1 /\ (Tail(s) = <<>> <=> Len(s) = 1)
  BY <1>0, TailTyped
<1> DEFINE r == Tail(s)
<1>2. wants' = [wants EXCEPT ![t] = r]
  BY DEF Ends
<1> HIDE DEF r
<1>3. /\ wants' \in [Thread -> Seq(Asking)] /\ at' \in [Thread -> Places]
      /\ wants'[t] = r /\ at'[t] = IF Len(s) = 1 THEN "idle" ELSE "hashing"
      /\ \A u \in Thread : u # t => wants'[u] = wants[u] /\ at'[u] = at[u]
  BY <1>1, <1>2 DEF Ends, Inv, TypeOK, Places, r
<1>4. ASSUME NEW u \in Thread, u # t PROVE Standing(u)'
  BY <1>3, <1>4, StandsStill DEF Inv, Standing, Empty
<1>5. \A i \in DOMAIN s : i > 1 => s[i].value = None /\ ~Lazy(s[i].cell)
  BY DEF Inv, Standing
<1>6. \A i \in 1 .. Len(s) - 1 : r[i].value = None /\ ~Lazy(r[i].cell)
  BY <1>0, <1>1, <1>5 DEF r
<1>7. Standing(t)'
  <2>1. CASE Len(s) = 1
    BY <2>1, <1>0, <1>1, <1>3 DEF Standing, Building, r
  <2>2. CASE Len(s) # 1
    <3>0. r # <<>> /\ 1 \in 1 .. Len(s) - 1
      BY <2>2, <1>0, <1>1 DEF r
    <3>1. Top(t)' = r[1] /\ r[1].value = None /\ ~Lazy(r[1].cell)
      BY <3>0, <1>3, <1>6 DEF Top
    <3>2. \A i \in DOMAIN r : i > 1 => r[i].value = None /\ ~Lazy(r[i].cell)
      BY <1>0, <1>1, <1>6 DEF r
    <3>. QED
      BY <2>2, <1>3, <3>0, <3>1, <3>2 DEF Standing, Building
  <2>. QED
    BY <2>1, <2>2
<1>. QED
  BY <1>3, <1>4, <1>7

\* An asking begins inside what t asks for already, which is hashes alone.
LEMMA AskStands ==
    ASSUME Inv, NEW t \in Thread, NEW c \in Cell, Ask(t, c)
    PROVE  wants' \in [Thread -> Seq(Asking)] /\ at' \in [Thread -> Places]
           /\ \A u \in Thread : Standing(u)'
<1> DEFINE s == wants[t]
           a == [cell |-> c, value |-> None]
           r == <<a>> \o s
<1>1. s \in Seq(Asking)
  BY DEF Inv, TypeOK
<1>2. /\ r \in Seq(Asking) /\ r[1] = a /\ r # <<>> /\ DOMAIN r = 1 .. Len(s) + 1
      /\ \A i \in 2 .. Len(s) + 1 : r[i] = s[i - 1]
  BY <1>1, AskTyped
<1>3. wants' = [wants EXCEPT ![t] = r]
  BY DEF Ask
<1> HIDE DEF r
<1>4. /\ wants' \in [Thread -> Seq(Asking)] /\ at' \in [Thread -> Places]
      /\ wants'[t] = r /\ at'[t] = "asked" /\ kept' = kept /\ builder' = builder
      /\ \A u \in Thread : u # t => wants'[u] = wants[u] /\ at'[u] = at[u]
  BY <1>2, <1>3 DEF Ask, Inv, TypeOK, Places
<1>5. ASSUME NEW u \in Thread, u # t PROVE Standing(u)'
  BY <1>4, <1>5, StandsStill DEF Inv, Standing, Empty
<1>6. \A i \in 1 .. Len(s) : s[i].value = None /\ ~Lazy(s[i].cell)
  <2>1. at[t] \in {"idle", "hashing"} /\ Standing(t)
    BY DEF Ask, InPython, At, Inv
  <2>2. CASE s = <<>>
    BY <2>2
  <2>3. CASE s # <<>>
    <3>1. at[t] = "hashing" /\ s[1].value = None /\ ~Lazy(s[1].cell)
      BY <2>1, <2>3 DEF Standing, Top
    <3>2. \A i \in 1 .. Len(s) : i > 1 => s[i].value = None /\ ~Lazy(s[i].cell)
      BY <1>1, <2>1 DEF Standing
    <3>. QED
      BY <1>1, <3>1, <3>2
  <2>. QED
    BY <2>2, <2>3
<1>7. \A i \in DOMAIN r : i > 1 => r[i].value = None /\ ~Lazy(r[i].cell)
  BY <1>1, <1>2, <1>6
<1>8. Standing(t)'
  BY <1>2, <1>4, <1>7 DEF Standing, Building, Top
<1>. QED
  BY <1>4, <1>5, <1>8

LEMMA StepInv == Inv /\ [Next]_vars => Inv'
<1>. SUFFICES ASSUME Inv, [Next]_vars PROVE Inv'
  OBVIOUS
<1> DEFINE Stands == /\ wants' \in [Thread -> Seq(Asking)] /\ at' \in [Thread -> Places]
                     /\ \A u \in Thread : Standing(u)'
           Rest   == /\ threading' \in {"gil", "free"} /\ program' \in Programs
                     /\ world' \in {"running", "stopping", "stopped"} /\ attached' \subseteq Thread
                     /\ kept' \in [Cell -> Value \cup {None}]
                     /\ builder' \in [Cell -> Thread \cup {None}]
                     /\ names' \in Thread \cup {Others, None}
<1>. SUFFICES Stands /\ Rest
  BY DEF Inv, TypeOK
<1>0. /\ \A u \in Thread : Standing(u)
      /\ \A u \in Thread : at[u] # "idle" => Top(u).cell \in Cell
  BY TopTyped DEF Inv, Standing
<1>1. ASSUME UNCHANGED calls, UNCHANGED kept, UNCHANGED builder PROVE Stands
  BY <1>0, <1>1, StandsStill DEF calls, Inv, TypeOK, Standing, Empty
<1>2. ASSUME NEW t \in Thread, Yield(t) \/ Resume(t) PROVE Stands /\ Rest
  BY <1>1, <1>2 DEF Yield, Resume, Attach, Detach, Inv, TypeOK, interpreter
<1>3. ASSUME NEW t \in Thread, EndHash(t) PROVE Stands /\ Rest
  <2>1. CASE Raise(t)
    BY <2>1, EndStands DEF Raise, At, Inv, TypeOK, interpreter
  <2>2. ASSUME NEW d \in Digest, KeepHash(t, d) PROVE Stands /\ Rest
    <3> DEFINE c == Top(t).cell
               v == IF Empty(t) THEN d ELSE kept[c]
    <3>1. c \in Cell /\ ~Lazy(c) /\ at[t] = "hashing"
      BY <2>2, <1>0 DEF KeepHash, At, Standing
    <3>2. v \in Value /\ Holds(t, v) /\ kept' = [kept EXCEPT ![c] = v] /\ builder' = builder
      BY <2>2, <3>1 DEF KeepHash, Empty, Inv, TypeOK, Value
    <3>3. /\ kept' \in [Cell -> Value \cup {None}] /\ kept'[c] = v
          /\ \A b \in Cell : b # c => kept'[b] = kept[b]
      BY <3>1, <3>2 DEF Inv, TypeOK
    <3>4. \A b \in Cell : kept[b] # None => kept'[b] = kept[b]
      BY <3>3 DEF Empty
    <3>5. \A u \in Thread \ {t} : at[u] \in Building =>
              builder'[Top(u).cell] = u /\ kept'[Top(u).cell] = None
      BY <1>0, <3>1, <3>2, <3>3 DEF Standing, Empty, Building
    <3>6. Stands
      BY <3>1, <3>2, <3>3, <3>4, <3>5, HoldStands
    <3>. QED
      BY <2>2, <3>3, <3>6 DEF KeepHash, interpreter, Inv, TypeOK
  <2>. QED
    BY <1>3, <2>1, <2>2 DEF EndHash
<1>4. ASSUME NEW t \in Thread, Proceed(t) PROVE Stands /\ Rest
  <2>. USE DEF At, interpreter, Attach, Detach
  <2>1. CASE Read(t) \/ Woken(t)
    <3> DEFINE v == kept[Top(t).cell]
    <3>1. Holds(t, v) /\ v \in Value /\ at[t] \notin {"idle", "told"} /\ kept' = kept
      BY <2>1, <1>0 DEF Read, Woken, Empty, Inv, TypeOK
    <3>2. Stands
      BY <2>1, <3>1, <1>0, HoldStands DEF Read, Woken, Inv, TypeOK, Standing, Empty
    <3>. QED
      BY <2>1, <3>2 DEF Read, Woken, Inv, TypeOK
  <2>2. CASE Return(t)
    BY <2>2, EndStands DEF Return, Inv, TypeOK
  <2>3. CASE Hash(t) \/ GoToLock(t)
    <3>1. Stands
      BY <2>3, <1>0, MoveStands DEF Hash, GoToLock, Standing, Places, Building
    <3>. QED
      BY <2>3, <3>1 DEF Hash, GoToLock, Inv, TypeOK
  <2>4. CASE Enter(t)
    <3>1. builder' \in [Cell -> Thread \cup {None}] /\ builder'[Top(t).cell] = t
          /\ \A c \in Cell : c # Top(t).cell => builder'[c] = builder[c]
      BY <2>4, <1>0 DEF Enter, Inv, TypeOK
    <3>2. \A u \in Thread \ {t} : at[u] \in Building => builder'[Top(u).cell] = u
      BY <2>4, <3>1, <1>0, NoneIsNoValue DEF Enter, Standing, Building
    <3>3. Stands
      BY <2>4, <3>1, <3>2, <1>0, MoveStands DEF Enter, Standing, Places, Building
    <3>. QED
      BY <2>4, <3>1, <3>3 DEF Enter, Inv, TypeOK
  <2>5. CASE AttachToRead(t)
    BY <2>5, <1>1 DEF AttachToRead, calls, Inv, TypeOK
  <2>6. CASE AttachToBuild(t) \/ AttachToIntern(t) \/ Intern(t) \/ Park(t) \/ Unpark(t)
    <3>1. PICK p \in Building : Moves(t, p)
      BY <2>6 DEF AttachToBuild, AttachToIntern, Intern, Park, Unpark, Building
    <3>2. at[t] \in Building /\ kept' = kept /\ builder' = builder
      BY <2>6 DEF AttachToBuild, AttachToIntern, Intern, Park, Unpark, Building
    <3>3. Stands
      BY <3>1, <3>2, <1>0, MoveStands DEF Standing, Places, Building
    <3>. QED
      BY <2>6, <3>3 DEF AttachToBuild, AttachToIntern, Intern, Park, Unpark, Inv, TypeOK
  <2>7. CASE KeepBuilt(t)
    <3> DEFINE c == Top(t).cell
    <3>1. c \in Cell /\ Lazy(c) /\ at[t] = "named" /\ builder[c] = t /\ kept[c] = None /\ t \in Value
      BY <2>7, <1>0 DEF KeepBuilt, Standing, Building, Empty, Value
    <3>2. /\ kept' = [kept EXCEPT ![c] = t] /\ builder' = [builder EXCEPT ![c] = None]
          /\ Holds(t, t) /\ names' = None
      BY <2>7 DEF KeepBuilt
    <3>3. /\ kept' \in [Cell -> Value \cup {None}] /\ kept'[c] = t
          /\ builder' \in [Cell -> Thread \cup {None}]
          /\ \A b \in Cell : b # c => kept'[b] = kept[b] /\ builder'[b] = builder[b]
      BY <3>1, <3>2 DEF Inv, TypeOK
    <3>4. \A u \in Thread \ {t} : at[u] \in Building =>
              builder'[Top(u).cell] = u /\ kept'[Top(u).cell] = None
      BY <1>0, <3>1, <3>3 DEF Standing, Empty, Building
    <3>5. Stands
      BY <3>1, <3>2, <3>3, <3>4, HoldStands
    <3>. QED
      BY <2>7, <3>2, <3>3, <3>5 DEF KeepBuilt, Inv, TypeOK
  <2>. QED
    BY <1>4, <2>1, <2>2, <2>3, <2>4, <2>5, <2>6, <2>7 DEF Proceed
<1>5. ASSUME NEW t \in Thread, NEW c \in Cell, Ask(t, c) PROVE Stands /\ Rest
  BY <1>5, AskStands DEF Ask, interpreter, Inv, TypeOK
<1>6. CASE StopTheWorld \/ Stopped \/ StartTheWorld \/ OthersIntern \/ OthersInterned
  BY <1>6, <1>1 DEF StopTheWorld, Stopped, StartTheWorld, OthersIntern, OthersInterned, Inv, TypeOK, calls
<1>7. CASE UNCHANGED vars
  BY <1>7, <1>1 DEF vars, calls, interpreter, Inv, TypeOK
<1>. QED
  BY <1>2, <1>3, <1>4, <1>5, <1>6, <1>7 DEF Next

\* Types, and who builds what: in every reachable state.
THEOREM TypesHold == Spec => []TypeOK
<1>1. Spec => []Inv
  BY InitInv, StepInv, PTL DEF Spec
<1>2. Inv => TypeOK
  BY DEF Inv
<1>. QED
  BY <1>1, <1>2, PTL

\* A value is told when it is kept already, or is kept by being told.
LEMMA TellsKept ==
    ASSUME Inv, NEW t \in Thread, NEW v \in Value, Holds(t, v), at[t] \notin {"idle", "told"},
           \/ UNCHANGED kept /\ kept[Top(t).cell] = v
           \/ kept[Top(t).cell] = None /\ kept' = [kept EXCEPT ![Top(t).cell] = v]
    PROVE  Promise!Next
<1>1. /\ wants[t] # <<>> /\ Top(t).cell \in Cell /\ Top(t).value = None
  BY TopTyped DEF Inv, Standing
<1>2. /\ Top(t)'.value = v /\ v # None /\ kept'[Top(t).cell] = v
  BY <1>1, HoldTyped, NoneIsNoValue DEF Inv, TypeOK, Value
<1>3. Promise!Tell(t)
  BY <1>1, <1>2 DEF Promise!Tell, Holds, Top
<1>4. UNCHANGED kept \/ Promise!Keep(Top(t).cell, v)
  BY DEF Promise!Keep
<1>. QED
  BY <1>1, <1>3, <1>4 DEF Promise!Next, Top

\* Each step keeps the promise or leaves what was promised alone.
LEMMA StepKeepsPromise == Inv /\ [Next]_vars => [Promise!Next]_Promise!once
<1>. SUFFICES ASSUME Inv, [Next]_vars PROVE Promise!Next \/ UNCHANGED Promise!once
  OBVIOUS
<1>. USE DEF At, Promise!once
<1>0. /\ \A u \in Thread : Standing(u)
      /\ \A u \in Thread : at[u] # "idle" =>
           wants[u] # <<>> /\ Top(u) \in Asking /\ Top(u).cell \in Cell
  BY TopTyped DEF Inv, Standing
<1>1. ASSUME NEW t \in Thread, Yield(t) \/ Resume(t) PROVE UNCHANGED Promise!once
  BY <1>1 DEF Yield, Resume, calls
<1>2. ASSUME NEW t \in Thread, Proceed(t) PROVE Promise!Next \/ UNCHANGED Promise!once
  <2>1. CASE Read(t) \/ Woken(t)
    <3>1. Holds(t, kept[Top(t).cell]) /\ kept[Top(t).cell] \in Value /\ UNCHANGED kept
          /\ at[t] \notin {"idle", "told"}
      BY <2>1, <1>0 DEF Read, Woken, Empty, Inv, TypeOK
    <3>. QED
      BY <3>1, TellsKept
  <2>2. CASE Return(t)
    <3>1. Promise!Return(t)
      BY <2>2, <1>0 DEF Return, Ends, Standing, Promise!Return, Top
    <3>. QED
      BY <3>1 DEF Promise!Next
  <2>3. CASE Hash(t) \/ GoToLock(t) \/ Enter(t) \/ AttachToRead(t)
    BY <2>3 DEF Hash, GoToLock, Enter, AttachToRead, Moves, calls
  <2>4. CASE AttachToBuild(t) \/ AttachToIntern(t) \/ Intern(t) \/ Park(t) \/ Unpark(t)
    BY <2>4 DEF AttachToBuild, AttachToIntern, Intern, Park, Unpark, Moves
  <2>5. CASE KeepBuilt(t)
    BY <2>5, <1>0, TellsKept DEF KeepBuilt, Standing, Building, Empty, Value
  <2>. QED
    BY <1>2, <2>1, <2>2, <2>3, <2>4, <2>5 DEF Proceed
<1>3. ASSUME NEW t \in Thread, EndHash(t) PROVE Promise!Next
  <2>1. CASE Raise(t)
    <3>1. Top(t).cell \in Fallible /\ Top(t).value = None /\ wants[t] # <<>>
      BY <2>1, <1>0, CellsAreOfKinds DEF Raise, Standing, Fallible, Lazy
    <3>2. Promise!Fail(t)
      BY <2>1, <3>1 DEF Raise, Ends, Promise!Fail, Top
    <3>. QED
      BY <3>2 DEF Promise!Next
  <2>2. ASSUME NEW d \in Digest, KeepHash(t, d) PROVE Promise!Next
    <3> DEFINE c == Top(t).cell
               v == IF Empty(t) THEN d ELSE kept[c]
    <3>1. c \in Cell /\ at[t] = "hashing"
      BY <2>2, <1>0 DEF KeepHash
    <3>2. v \in Value /\ Holds(t, v) /\ kept' = [kept EXCEPT ![c] = v]
      BY <2>2, <3>1 DEF KeepHash, Empty, Inv, TypeOK, Value
    <3>3. CASE Empty(t)
      BY <3>1, <3>2, <3>3, TellsKept DEF Empty
    <3>4. CASE ~Empty(t)
      <4>1. v = kept[c] /\ kept' = kept
        BY <3>1, <3>2, <3>4 DEF Inv, TypeOK
      <4>. QED
        BY <3>1, <3>2, <4>1, TellsKept
    <3>. QED
      BY <3>3, <3>4
  <2>. QED
    BY <1>3, <2>1, <2>2 DEF EndHash
<1>4. ASSUME NEW t \in Thread, NEW c \in Cell, Ask(t, c) PROVE Promise!Next
  <2>1. Promise!Ask(t, c)
    BY <1>4 DEF Ask, Promise!Ask
  <2>. QED
    BY <2>1 DEF Promise!Next
<1>5. CASE StopTheWorld \/ Stopped \/ StartTheWorld \/ OthersIntern \/ OthersInterned
  BY <1>5 DEF StopTheWorld, Stopped, StartTheWorld, OthersIntern, OthersInterned, calls
<1>6. CASE UNCHANGED vars
  BY <1>6 DEF vars, calls
<1>. QED
  BY <1>1, <1>2, <1>3, <1>4, <1>5, <1>6 DEF Next

\* One value is kept for each cell and everybody is told that one: Cells implements KeptOnce.
THEOREM PromiseKept == Spec => OneValueEach
<1>1. Init => Promise!Init
  BY DEF Init, Promise!Init
<1>2. Spec => []Inv
  BY InitInv, StepInv, PTL DEF Spec
<1>. QED
  BY <1>1, <1>2, StepKeepsPromise, PTL DEF Spec, OneValueEach, Promise!Spec
=============================================================================
