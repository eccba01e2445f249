-------------------------- MODULE FixpointsProofs --------------------------
(***************************************************************************)
(* The markers of recursive definitions, whatever schemas are and however  *)
(* they are read and measured: the definitions a thread has open are those *)
(* whose builders it runs, and what it makes names no other.               *)
(***************************************************************************)
EXTENDS Fixpoints, SequenceTheorems, TLAPS

-----------------------------------------------------------------------------
(* The calls of one thread, and the markers it has open.                   *)

\* A call whose builder returned something of X, or runs.
Asked(X) == [token : Nat, body : SUBSET X]

\* f finds in cs the call that each marker of os is open for, in their order.
Finds(f, cs, os) ==
  /\ f \in [1..Len(os) -> 1..Len(cs)]
  /\ \A j, k \in 1..Len(os) : j < k => f[j] < f[k]
  /\ \A j \in 1..Len(os) : os[j] = cs[f[j]].token /\ cs[f[j]].body = {}
  /\ \A n \in 1..Len(cs) : cs[n].body = {} => \E j \in 1..Len(os) : f[j] = n

Paired(X, cs, os) ==
  /\ cs \in Seq(Asked(X)) /\ os \in Seq(Nat)
  /\ \E f : Finds(f, cs, os)

LEMMA FrontIs ==
  ASSUME NEW S, NEW s \in Seq(S), s # << >>
  PROVE  /\ Front(s) \in Seq(S) /\ Len(Front(s)) = Len(s) - 1 /\ Len(s) \in Nat \ {0}
         /\ \A n \in 1..(Len(s) - 1) : Front(s)[n] = s[n]
  <1>1. Len(s) \in Nat \ {0} /\ \A n \in 1..(Len(s) - 1) : s[n] \in S
    OBVIOUS
  <1> DEFINE m == Len(s) - 1
  <1>2. 1 \in Int /\ m \in Int /\ \A i \in 1..m : s[i] \in S
    BY <1>1
  <1>3. /\ SubSeq(s, 1, m) \in Seq(S)
        /\ Len(SubSeq(s, 1, m)) = IF 1 <= m THEN m - 1 + 1 ELSE 0
        /\ \A i \in 1..(m - 1 + 1) : SubSeq(s, 1, m)[i] = s[1 + i - 1]
    <2> HIDE DEF m
    <2>1. QED BY <1>2, SubSeqProperties
  <1>4. \A i \in 1..m : SubSeq(s, 1, m)[i] = s[i]
    <2> TAKE i \in 1..m
    <2>1. m - 1 + 1 = m /\ 1 + i - 1 = i
      BY <1>1
    <2> HIDE DEF m
    <2>2. QED BY <1>3, <2>1
  <1>5. Front(s) = SubSeq(s, 1, m)
    BY DEF Front
  <1>6. m \in Nat
    BY <1>1
  <1> HIDE DEF m
  <1>7. m - 1 + 1 = m /\ (m = 0 \/ 1 <= m)
    BY <1>6
  <1>8. Len(SubSeq(s, 1, m)) = m
    BY <1>3, <1>6, <1>7
  <1>9. Front(s) \in Seq(S) /\ Len(Front(s)) = m /\ \A n \in 1..m : Front(s)[n] = s[n]
    BY <1>3, <1>4, <1>5, <1>8
  <1>10. QED BY <1>1, <1>9 DEF m

LEMMA NoneAsked == ASSUME NEW X PROVE Paired(X, << >>, << >>)
  <1>1. Finds([j \in 1..0 |-> 0], << >>, << >>)
    BY DEF Finds
  <1>2. QED BY <1>1 DEF Paired

LEMMA PairedMore ==
  ASSUME NEW X, NEW Y, X \in SUBSET Y, NEW cs, NEW os, Paired(X, cs, os)
  PROVE  Paired(Y, cs, os)
  <1>1. Asked(X) \in SUBSET Asked(Y)
    BY DEF Asked
  <1>2. cs \in Seq(Asked(Y))
    BY <1>1 DEF Paired
  <1>3. QED BY <1>2 DEF Paired

(* A call begins: its definition is opened.                                *)
LEMMA CallPaired ==
  ASSUME NEW X, NEW cs, NEW os, Paired(X, cs, os), NEW t \in Nat
  PROVE  Paired(X, Append(cs, [token |-> t, body |-> {}]), Append(os, t))
  <1> DEFINE c == [token |-> t, body |-> {}]
             ds == Append(cs, c)
             ps == Append(os, t)
  <1>1. c \in Asked(X) /\ c.token = t /\ c.body = {}
    BY DEF Asked
  <1>2. PICK f : Finds(f, cs, os)
    BY DEF Paired
  <1> DEFINE g == [j \in 1..(Len(os) + 1) |-> IF j = Len(os) + 1 THEN Len(cs) + 1 ELSE f[j]]
  <1>3. cs \in Seq(Asked(X)) /\ os \in Seq(Nat)
    BY DEF Paired
  <1>4. /\ ds \in Seq(Asked(X)) /\ Len(ds) = Len(cs) + 1 /\ ds[Len(cs) + 1] = c
        /\ \A n \in 1..Len(cs) : ds[n] = cs[n]
    BY <1>1, <1>3
  <1>5. /\ ps \in Seq(Nat) /\ Len(ps) = Len(os) + 1 /\ ps[Len(os) + 1] = t
        /\ \A n \in 1..Len(os) : ps[n] = os[n]
    BY <1>3
  <1>6. Len(cs) \in Nat /\ Len(os) \in Nat
    BY <1>3
  <1> HIDE DEF c, ds, ps
  <1>7. /\ g \in [1..Len(ps) -> 1..Len(ds)]
        /\ \A j \in 1..Len(os) : g[j] = f[j]
        /\ g[Len(os) + 1] = Len(cs) + 1
    BY <1>2, <1>4, <1>5, <1>6 DEF Finds
  <1> HIDE DEF g
  <1>f. \A j \in 1..Len(os) : f[j] \in 1..Len(cs)
    BY <1>2 DEF Finds
  <1>8. ASSUME NEW j \in 1..Len(ps), NEW k \in 1..Len(ps), j < k PROVE g[j] < g[k]
    <2>1. j \in 1..Len(os) /\ (k \in 1..Len(os) \/ k = Len(os) + 1)
      BY <1>5, <1>6, <1>8
    <2>2. CASE k = Len(os) + 1
      BY <2>1, <2>2, <1>6, <1>7, <1>f
    <2>3. CASE k \in 1..Len(os)
      BY <2>1, <2>3, <1>2, <1>7, <1>8 DEF Finds
    <2>4. QED BY <2>1, <2>2, <2>3
  <1>9. ASSUME NEW j \in 1..Len(ps) PROVE ps[j] = ds[g[j]].token /\ ds[g[j]].body = {}
    <2>1. CASE j = Len(os) + 1
      BY <2>1, <1>1, <1>4, <1>5, <1>7
    <2>2. CASE j \in 1..Len(os)
      <3>1. os[j] = cs[f[j]].token /\ cs[f[j]].body = {}
        BY <2>2, <1>2 DEF Finds
      <3>2. QED BY <2>2, <3>1, <1>4, <1>5, <1>7, <1>f
    <2>3. QED BY <2>1, <2>2, <1>5, <1>6
  <1>10. ASSUME NEW n \in 1..Len(ds), ds[n].body = {} PROVE \E j \in 1..Len(ps) : g[j] = n
    <2>1. CASE n = Len(cs) + 1
      BY <2>1, <1>5, <1>6, <1>7
    <2>2. CASE n \in 1..Len(cs)
      <3>1. cs[n].body = {}
        BY <2>2, <1>4, <1>10
      <3>2. PICK j \in 1..Len(os) : f[j] = n
        BY <2>2, <3>1, <1>2 DEF Finds
      <3>3. QED BY <3>2, <1>5, <1>6, <1>7
    <2>3. QED BY <2>1, <2>2, <1>4, <1>6
  <1>11. Finds(g, ds, ps)
    BY <1>7, <1>8, <1>9, <1>10 DEF Finds
  <1>12. QED BY <1>4, <1>5, <1>11 DEF Paired, ds, ps, c

(* The innermost call ends after its builder did.                          *)
LEMMA ReadPaired ==
  ASSUME NEW X, NEW cs, NEW os, Paired(X, cs, os), cs # << >>, cs[Len(cs)].body # {}
  PROVE  Paired(X, Front(cs), os)
  <1> DEFINE ds == Front(cs)
  <1>1. PICK f : Finds(f, cs, os)
    BY DEF Paired
  <1>2. cs \in Seq(Asked(X)) /\ os \in Seq(Nat)
    BY DEF Paired
  <1>3. /\ ds \in Seq(Asked(X)) /\ Len(ds) = Len(cs) - 1 /\ Len(cs) \in Nat \ {0} /\ Len(os) \in Nat
        /\ \A n \in 1..Len(ds) : ds[n] = cs[n]
    BY <1>2, FrontIs
  <1> HIDE DEF ds
  <1>4. \A j \in 1..Len(os) : f[j] # Len(cs)
    BY <1>1 DEF Finds
  <1>5. f \in [1..Len(os) -> 1..Len(ds)]
    BY <1>1, <1>3, <1>4 DEF Finds
  <1>6. \A j \in 1..Len(os) : f[j] \in 1..Len(ds) /\ ds[f[j]] = cs[f[j]]
    BY <1>3, <1>5
  <1>7. \A n \in 1..Len(ds) : n \in 1..Len(cs) /\ ds[n] = cs[n]
    BY <1>3
  <1>8. Finds(f, ds, os)
    BY <1>1, <1>5, <1>6, <1>7 DEF Finds
  <1>9. QED BY <1>2, <1>3, <1>8 DEF Paired, ds

(* The innermost call ends with its builder: its definition is closed.     *)
LEMMA RaisePaired ==
  ASSUME NEW X, NEW cs, NEW os, Paired(X, cs, os), cs # << >>, cs[Len(cs)].body = {}
  PROVE  Paired(X, Front(cs), Front(os))
  <1> DEFINE ds == Front(cs)
             ps == Front(os)
  <1>1. PICK f : Finds(f, cs, os)
    BY DEF Paired
  <1>2. cs \in Seq(Asked(X)) /\ os \in Seq(Nat)
    BY DEF Paired
  <1>3. /\ ds \in Seq(Asked(X)) /\ Len(ds) = Len(cs) - 1 /\ Len(cs) \in Nat \ {0} /\ Len(os) \in Nat
        /\ \A n \in 1..Len(ds) : ds[n] = cs[n]
    BY <1>2, FrontIs
  <1>4. PICK k \in 1..Len(os) : f[k] = Len(cs)
    BY <1>1, <1>3 DEF Finds
  <1>5. k = Len(os)
    BY <1>1, <1>3, <1>4 DEF Finds
  <1>o. os # << >>
    BY <1>2, <1>4
  <1>6. /\ ps \in Seq(Nat) /\ Len(ps) = Len(os) - 1 /\ Len(os) \in Nat \ {0}
        /\ \A j \in 1..Len(ps) : ps[j] = os[j]
    BY <1>2, <1>o, FrontIs
  <1> HIDE DEF ds, ps
  <1> DEFINE g == [j \in 1..Len(ps) |-> f[j]]
  <1>7. \A j \in 1..Len(ps) : j \in 1..Len(os) /\ f[j] \in 1..Len(cs) /\ f[j] < Len(cs)
    <2> TAKE j \in 1..Len(ps)
    <2>1. j \in 1..Len(os) /\ Len(os) \in 1..Len(os) /\ j < Len(os)
      BY <1>6
    <2>2. f[j] \in 1..Len(cs) /\ f[j] < f[Len(os)]
      BY <2>1, <1>1 DEF Finds
    <2>3. QED BY <2>1, <2>2, <1>4, <1>5
  <1>8. g \in [1..Len(ps) -> 1..Len(ds)]
    BY <1>3, <1>7
  <1>9. \A j \in 1..Len(ps) : g[j] = f[j]
    OBVIOUS
  <1> HIDE DEF g
  <1>10. \A n \in 1..Len(ds) : ds[n].body = {} => \E j \in 1..Len(ps) : g[j] = n
    <2> SUFFICES ASSUME NEW n \in 1..Len(ds), ds[n].body = {} PROVE \E j \in 1..Len(ps) : g[j] = n
      OBVIOUS
    <2>1. n \in 1..Len(cs) /\ n # Len(cs) /\ cs[n].body = {}
      BY <1>3
    <2>2. PICK j \in 1..Len(os) : f[j] = n
      BY <2>1, <1>1 DEF Finds
    <2>3. j # Len(os)
      BY <2>1, <2>2, <1>4, <1>5
    <2>4. Len(ps) = Len(os) - 1 /\ Len(os) \in Nat
      BY <1>6
    <2>5. j \in 1..Len(ps)
      BY <2>3, <2>4
    <2>6. g[j] = n
      BY <2>2, <2>5, <1>9
    <2>7. QED BY <2>5, <2>6
  <1>11. \A i, j \in 1..Len(ps) : i < j => g[i] < g[j]
    BY <1>1, <1>7, <1>9 DEF Finds
  <1>12. ASSUME NEW j \in 1..Len(ps) PROVE ps[j] = ds[g[j]].token /\ ds[g[j]].body = {}
    <2>1. os[j] = cs[f[j]].token /\ cs[f[j]].body = {}
      BY <1>1, <1>7 DEF Finds
    <2>2. f[j] \in 1..Len(ds)
      BY <1>3, <1>7
    <2>3. QED BY <2>1, <2>2, <1>3, <1>6, <1>9
  <1>14. Finds(g, ds, ps)
    BY <1>8, <1>10, <1>11, <1>12 DEF Finds
  <1>15. QED BY <1>3, <1>6, <1>14 DEF Paired, ds, ps

(* A call whose builder returned is on top, none of its own open.          *)
LEMMA ReturnedPaired ==
  ASSUME NEW X, NEW cs, NEW os, Paired(X, cs, os), NEW c \in Asked(X), c.body # {}
  PROVE  Paired(X, Append(cs, c), os)
  <1> DEFINE ds == Append(cs, c)
  <1>1. PICK f : Finds(f, cs, os)
    BY DEF Paired
  <1>2. cs \in Seq(Asked(X)) /\ os \in Seq(Nat)
    BY DEF Paired
  <1>3. /\ ds \in Seq(Asked(X)) /\ Len(ds) = Len(cs) + 1 /\ Len(cs) \in Nat /\ Len(os) \in Nat
        /\ ds[Len(cs) + 1] = c /\ \A n \in 1..Len(cs) : ds[n] = cs[n]
    BY <1>2
  <1> HIDE DEF ds
  <1>4. f \in [1..Len(os) -> 1..Len(ds)]
    BY <1>1, <1>3 DEF Finds
  <1>5. \A n \in 1..Len(ds) : ds[n].body = {} => \E j \in 1..Len(os) : f[j] = n
    BY <1>1, <1>3 DEF Finds
  <1>6. Finds(f, ds, os)
    BY <1>1, <1>3, <1>4, <1>5 DEF Finds
  <1>7. QED BY <1>2, <1>3, <1>6 DEF Paired, ds

Marks(os) == {os[k] : k \in DOMAIN os}
Runs(cs) == {cs[k].token : k \in {n \in DOMAIN cs : cs[n].body = {}}}

(* The markers open are those of the calls whose builders run.             *)
LEMMA OpenAreRunning ==
  ASSUME NEW X, NEW cs, NEW os, Paired(X, cs, os)
  PROVE  Marks(os) = Runs(cs)
  <1>1. PICK f : Finds(f, cs, os)
    BY DEF Paired
  <1>2. DOMAIN os = 1..Len(os) /\ DOMAIN cs = 1..Len(cs)
    <2>1. \A S : \A s \in Seq(S) : DOMAIN s = 1..Len(s)
      OBVIOUS
    <2>2. cs \in Seq(Asked(X)) /\ os \in Seq(Nat)
      BY DEF Paired
    <2>3. QED BY <2>1, <2>2
  <1>3. /\ \A j \in 1..Len(os) : f[j] \in 1..Len(cs) /\ os[j] = cs[f[j]].token /\ cs[f[j]].body = {}
        /\ \A n \in 1..Len(cs) : cs[n].body = {} => \E j \in 1..Len(os) : f[j] = n
    BY <1>1 DEF Finds
  <1>4. ASSUME NEW t \in Marks(os) PROVE t \in Runs(cs)
    <2>1. PICK j \in 1..Len(os) : t = os[j]
      BY <1>2, <1>4 DEF Marks
    <2>2. f[j] \in 1..Len(cs) /\ t = cs[f[j]].token /\ cs[f[j]].body = {}
      BY <1>3, <2>1
    <2>3. QED BY <1>2, <2>2 DEF Runs
  <1>5. ASSUME NEW t \in Runs(cs) PROVE t \in Marks(os)
    <2>1. PICK n \in 1..Len(cs) : cs[n].body = {} /\ t = cs[n].token
      BY <1>2, <1>5 DEF Runs
    <2>2. PICK j \in 1..Len(os) : f[j] = n
      BY <1>3, <2>1
    <2>3. QED BY <1>2, <1>3, <2>1, <2>2 DEF Marks
  <1>6. QED BY <1>4, <1>5

-----------------------------------------------------------------------------
(* The threads.                                                            *)

\* The builders of some set X of annotations have returned.
Nested(X) ==
  /\ program \in Programs /\ tokens \in Nat
  /\ calls \in [Thread -> Seq(Asked(X))] /\ open \in [Thread -> Seq(Nat)]
  /\ \A th \in Thread : Paired(X, calls[th], open[th])
Nesting == \E X : Nested(X)

LEMMA NestedOthers ==
  ASSUME NEW X, NEW Y, X \in SUBSET Y, Nested(X), NEW th \in Thread, NEW cs, NEW os,
         Paired(Y, cs, os), calls' = [calls EXCEPT ![th] = cs], open' = [open EXCEPT ![th] = os],
         tokens' \in Nat, program' = program
  PROVE  Nesting'
  <1>1. \A o \in Thread : Paired(Y, calls[o], open[o])
    BY PairedMore DEF Nested
  <1>2. \A o \in Thread : Paired(Y, calls'[o], open'[o])
    BY <1>1 DEF Nested
  <1>3. cs \in Seq(Asked(Y)) /\ os \in Seq(Nat) /\ \A o \in Thread : calls[o] \in Seq(Asked(Y))
    BY <1>1 DEF Paired
  <1>4. calls' \in [Thread -> Seq(Asked(Y))] /\ open' \in [Thread -> Seq(Nat)]
    BY <1>3 DEF Nested
  <1>5. QED BY <1>2, <1>4 DEF Nested, Nesting

LEMMA NestingInit == Init => Nesting
  <1> SUFFICES ASSUME Init PROVE Nested({})
    BY DEF Nesting
  <1>1. \A th \in Thread : Paired({}, << >>, << >>)
    BY NoneAsked
  <1>2. QED BY <1>1 DEF Init, Nested

LEMMA NestingKept ==
  ASSUME Nesting, [Next]_vars
  PROVE  Nesting'
  <1>1. PICK X : Nested(X)
    BY DEF Nesting
  <1>2. CASE UNCHANGED vars
    BY <1>1, <1>2 DEF Nesting, Nested, vars
  <1>3. ASSUME NEW th \in program.threads,
               \/ \E a \in Annotations : Make(th, a) \/ Return(th, a)
               \/ Call(th) \/ Finish(th) \/ Raise(th)
        PROVE  Nesting'
    <2>1. th \in Thread
      BY <1>1, ProgramsAreOfThreads DEF Nested
    <2>2. /\ Paired(X, calls[th], open[th]) /\ tokens \in Nat
          /\ calls \in [Thread -> Seq(Asked(X))] /\ open \in [Thread -> Seq(Nat)]
      BY <1>1, <2>1 DEF Nested
    <2> DEFINE cs == calls[th]
               os == open[th]
    <2>3. ASSUME NEW a, Make(th, a) PROVE Nesting'
      BY <1>1, <2>3 DEF Make, Nesting, Nested
    <2>4. ASSUME NEW a, Return(th, a) PROVE Nesting'
      <3> DEFINE c  == [token |-> cs[Len(cs)].token, body |-> {a}]
                 Y  == X \cup {a}
                 ds == [cs EXCEPT ![Len(cs)].body = {a}]
      <3>1. cs # << >> /\ cs[Len(cs)].body = {} /\ cs \in Seq(Asked(X))
        BY <2>1, <2>2, <2>4 DEF Return, Innermost
      <3>2. Len(cs) \in Nat \ {0} /\ cs[Len(cs)] \in Asked(X)
        BY <3>1
      <3>3. c \in Asked(Y) /\ c.body # {}
        BY <3>2 DEF Asked
      <3>4. [cs[Len(cs)] EXCEPT !.body = {a}] = c
        <4>1. \A d \in Asked(X) : [d EXCEPT !.body = {a}] = [token |-> d.token, body |-> {a}]
          BY DEF Asked
        <4>2. QED BY <3>2, <4>1
      <3>5. Paired(X, Front(cs), Front(os))
        BY <2>2, <3>1, RaisePaired
      <3>6. Paired(Y, Front(cs), Front(os))
        BY <3>5, PairedMore
      <3>7. Paired(Y, Append(Front(cs), c), Front(os))
        BY <3>3, <3>6, ReturnedPaired
      <3>8. Append(Front(cs), c) = ds
        BY <3>1, <3>2, <3>4 DEF Front
      <3>9. calls' = [calls EXCEPT ![th] = ds] /\ open' = [open EXCEPT ![th] = Front(os)]
        BY <2>1, <2>2, <2>4 DEF Return
      <3>10. tokens' \in Nat /\ program' = program
        BY <2>2, <2>4 DEF Return
      <3> HIDE DEF c, ds, cs, os
      <3>11. QED BY <1>1, <2>1, <3>7, <3>8, <3>9, <3>10, NestedOthers DEF Y
    <2>5. CASE Call(th)
      <3> DEFINE c == [token |-> tokens', body |-> {}]
      <3>1. tokens' \in Nat /\ program' = program
        BY <2>2, <2>5 DEF Call
      <3>2. Paired(X, Append(cs, c), Append(os, tokens'))
        BY <2>2, <3>1, CallPaired
      <3>3. calls' = [calls EXCEPT ![th] = Append(cs, c)] /\ open' = [open EXCEPT ![th] = Append(os, tokens')]
        BY <2>2, <2>5 DEF Call
      <3> HIDE DEF c, cs, os
      <3>4. QED BY <1>1, <2>1, <3>1, <3>2, <3>3, NestedOthers
    <2>6. CASE Finish(th)
      <3>1. cs # << >> /\ cs[Len(cs)].body # {}
        BY <2>6 DEF Finish, Innermost
      <3>2. Paired(X, Front(cs), os)
        BY <2>2, <3>1, ReadPaired
      <3>3. calls' = [calls EXCEPT ![th] = Front(cs)] /\ open' = [open EXCEPT ![th] = os]
        BY <2>2, <2>6 DEF Finish
      <3>4. tokens' \in Nat /\ program' = program
        BY <2>2, <2>6 DEF Finish
      <3> HIDE DEF cs, os
      <3>5. QED BY <1>1, <2>1, <3>2, <3>3, <3>4, NestedOthers
    <2>7. CASE Raise(th)
      <3> DEFINE ps == IF cs[Len(cs)].body = {} THEN Front(os) ELSE os
      <3>1. cs # << >>
        BY <2>7 DEF Raise
      <3>2. Paired(X, Front(cs), ps)
        BY <2>2, <3>1, ReadPaired, RaisePaired
      <3>3. calls' = [calls EXCEPT ![th] = Front(cs)] /\ open' = [open EXCEPT ![th] = ps]
        BY <2>2, <2>7 DEF Raise, Innermost
      <3>4. tokens' \in Nat /\ program' = program
        BY <2>2, <2>7 DEF Raise
      <3> HIDE DEF cs, os, ps
      <3>5. QED BY <1>1, <2>1, <3>2, <3>3, <3>4, NestedOthers
    <2>8. QED BY <1>3, <2>3, <2>4, <2>5, <2>6, <2>7
  <1>4. QED BY <1>2, <1>3 DEF Next

LEMMA OpenIsRunning ==
  ASSUME Nesting, NEW th \in Thread
  PROVE  Opened(th) = Running(th)
  <1>1. PICK X : Paired(X, calls[th], open[th])
    BY DEF Nesting, Nested
  <1>2. Marks(open[th]) = Runs(calls[th])
    BY <1>1, OpenAreRunning
  <1>3. QED BY <1>2 DEF Opened, MarksOf, Running, Marks, Runs

(* After a step too.                                                       *)
LEMMA OpenWillRun ==
  ASSUME Nesting', NEW th \in Thread
  PROVE  Opened(th)' = Running(th)'
  <1>1. PICK X : Paired(X, calls'[th], open'[th])
    BY DEF Nesting, Nested
  <1>2. Marks(open'[th]) = Runs(calls'[th])
    BY <1>1, OpenAreRunning
  <1>3. QED BY <1>2 DEF Opened, MarksOf, Running, Marks, Runs

-----------------------------------------------------------------------------
(* What is made.                                                           *)

LEMMA CausedByMarkers ==
  ASSUME NEW v, NEW opened, Cause(v, opened) = "none"
  PROVE  AllMarkers(v) \subseteq opened
  BY DEF Cause

(* What is checked and kept names only what is open, and is its thread's.  *)
LEMMA CheckedIsOpen ==
  ASSUME NEW th, NEW v, NEW opened, Checked(th, v, opened), NEW w \in made' \ made
  PROVE  AllMarkers(w) \subseteq opened /\ refused'.by = {th}
  <1> DEFINE kept == AsPruned(v, Prune(v.schema, v.defs))
  <1>1. refused' = [by |-> {th}, cause |-> Cause(kept, opened), of |-> v.written]
    BY DEF Checked
  <1>2. made' = IF refused'.cause = "none" THEN made \cup {kept} ELSE made
    BY DEF Checked
  <1> HIDE DEF kept
  <1>3. w = kept /\ Cause(kept, opened) = "none"
    BY <1>1, <1>2
  <1>4. QED BY <1>1, <1>3, CausedByMarkers

LEMMA PlaceholderCarries ==
  ASSUME Nesting, NEW th \in Thread, Call(th), NEW w \in made' \ made
  PROVE  AllMarkers(w) = {tokens'}
  <1>1. w = Validator(<<"self", tokens'>>, << >>, <<"self", tokens'>>)
    BY DEF Call
  <1>2. tokens' \in 1..program.calls /\ program \in Programs
    BY ProgramsAreOfThreads DEF Nesting, Nested, Call
  <1>3. Measure(<<"self", tokens'>>).markers = {tokens'}
    BY <1>2, PlaceholdersAreMarked
  <1>4. Trees(w) = {<<"self", tokens'>>}
    BY <1>1 DEF Trees, Validator
  <1>5. QED BY <1>3, <1>4 DEF AllMarkers

LEMMA MarksKept ==
  ASSUME Nesting, Nesting', [Next]_vars, NEW w \in made' \ made
  PROVE  \E th \in refused'.by : AllMarkers(w) \subseteq Running(th)'
  <1>1. PICK th \in program.threads :
             \/ \E a \in Annotations : Make(th, a) \/ Return(th, a)
             \/ Call(th) \/ Finish(th) \/ Raise(th)
    BY DEF Next, vars
  <1>2. th \in Thread
    BY <1>1, ProgramsAreOfThreads DEF Nesting, Nested
  <1>3. Opened(th) = Running(th)
    BY <1>2, OpenIsRunning
  <1>4. ASSUME NEW a, Make(th, a) PROVE th \in refused'.by /\ AllMarkers(w) \subseteq Running(th)'
    <2>1. Checked(th, Compiles(a.form, a.args), Opened(th)) /\ calls' = calls
      BY <1>4 DEF Make
    <2>2. AllMarkers(w) \subseteq Opened(th) /\ refused'.by = {th}
      BY <2>1, CheckedIsOpen
    <2>3. QED BY <1>3, <2>1, <2>2 DEF Running
  <1>5. CASE Call(th)
    <2>1. AllMarkers(w) = {tokens'}
      BY <1>2, <1>5, PlaceholderCarries
    <2>2. Opened(th)' = Running(th)'
      BY <1>2, OpenWillRun
    <2>3. tokens' \in Opened(th)'
      <3>1. open'[th] = Append(open[th], tokens') /\ open[th] \in Seq(Nat) /\ tokens' \in Nat
        BY <1>2, <1>5 DEF Call, Nesting, Nested
      <3>2. QED BY <3>1 DEF Opened, MarksOf
    <2>4. refused'.by = {th}
      BY <1>5 DEF Call, Nought
    <2>5. QED BY <2>1, <2>2, <2>3, <2>4
  <1>6. CASE Finish(th)
    <2>1. PICK a : CloseCompiled(th, Compiles(a.form, a.args), Innermost(th).token, Opened(th))
      BY <1>6 DEF Finish
    <2>2. AllMarkers(w) \subseteq Opened(th) /\ refused'.by = {th}
      BY <2>1, CheckedIsOpen DEF CloseCompiled, CloseOver
    <2>3. open' = open
      BY <1>6 DEF Finish
    <2>4. Opened(th)' = Running(th)'
      BY <1>2, OpenWillRun
    <2>5. Opened(th)' = Opened(th)
      BY <2>3 DEF Opened, MarksOf
    <2>6. QED BY <2>2, <2>4, <2>5
  <1>7. QED BY <1>1, <1>2, <1>4, <1>5, <1>6 DEF Return, Raise

(* However calls of recursive nest, return and raise, and whichever thread *)
(* a placeholder is given to: the thread that makes a validator is itself  *)
(* building the definition of each marker in it, when it makes it.         *)
THEOREM MarkersHold == Spec => MarkersAreOfRunning
  <1> DEFINE Marked == \A v \in made' \ made : \E th \in refused'.by : AllMarkers(v) \subseteq Running(th)'
  <1>1. Nesting /\ Nesting' /\ [Next]_vars => [Marked]_vars
    BY MarksKept
  <1>2. QED BY <1>1, NestingInit, NestingKept, PTL DEF Spec, MarkersAreOfRunning
=============================================================================
