---------------------------- MODULE BuildProofs ----------------------------
(***************************************************************************)
(* The schema frontend, for any annotations and any bounds.                *)
(*                                                                         *)
(* First, the scopes: whichever way a descent ends, the thread is left as  *)
(* the frames still open would have it.  What a frame keeps that they do   *)
(* not turn on (the nodes held when it began, the schemas of its parts) is *)
(* of some set X, which grows.                                             *)
(*                                                                         *)
(* Then, the causes: a refusal is due where it is made.  What the graph of *)
(* the annotations reaches (Closure); what a schema names, put together,   *)
(* taken apart and tied (Said, Parts, Resolved); when a schema stands for  *)
(* an annotation with aliases open (Fine); what the frames, the table and  *)
(* the answer on its way are between steps (Keeping); then each action.    *)
(***************************************************************************)
EXTENDS Refusals, SumProofs

Pcs     == {"root", "start", "read", "parts", "scoped", "evaluating", "evaluated", "body"}
Opening == [name : STRING, token : Nat, used : BOOLEAN]
Saved(X) == [depth : Nat, descents : X, held : X, aliases : Seq(Opening), classes : Seq(STRING), defs : X]
Frames(X) == [ann : Ann, pc : Pcs, before : X, walks : X, parts : Seq(X), token : Nat, saved : Saved(X)]

\* Code is run where there is some, and an alias is what has a value after it.
Fits(f) == /\ f.pc \in {"scoped", "evaluating", "evaluated"} => Reading[f.ann].runs # NoAnn
           /\ f.pc = "evaluated" => Reading[f.ann].kind = "alias"
Frame(X) == {f \in Frames(X) : Fits(f)}

Lefts == [depth : Nat, aliases : Seq(STRING \X Nat), classes : Seq(STRING)]

\* What is on the thread is what was to be left there.
Found(left, d, al, cs) ==
    /\ d \in Nat /\ al \in Seq(Opening) /\ cs \in Seq(STRING)
    /\ left.depth = d /\ left.aliases = Tags(al) /\ left.classes = cs

\* Nothing is counted outside every descent.
Idles(d, n, h) == d = 0 => h = 0 /\ n = 0

FoundAgain(left, f) ==
    /\ Found(left, f.saved.depth, f.saved.aliases, f.saved.classes)
    /\ Idles(f.saved.depth, f.saved.descents, f.saved.held)

\* L is what each part of the stack s ought to have left, and each build in it
\* was handed that of the part below it.
Stacked(X, s, L) ==
    /\ s \in Seq(Frame(X))
    /\ \A n \in 0 .. Len(s) : L[n] \in Lefts
    /\ L[0] = Nothing
    /\ \A n \in 1 .. Len(s) :
          IF s[n].pc = "root" THEN L[n] = Nothing /\ FoundAgain(L[n - 1], s[n])
          ELSE L[n] = With(L[n - 1], s[n])
    /\ s # <<>> => s[1].pc = "root" /\ s[1].saved.defs = <<>>

Leaving(X, s, left) == \E L : Stacked(X, s, L) /\ L[Len(s)] = left

-----------------------------------------------------------------------------
(* Stacks.                                                                 *)

(* What a stack's frames keep may be of a larger set.                      *)
LEMMA FramesGrow == ASSUME NEW X, NEW Y, X \in SUBSET Y PROVE Frame(X) \in SUBSET Frame(Y)
  <1>1. ASSUME NEW s \in Saved(X) PROVE s \in Saved(Y)
    BY DEF Saved
  <1>2. ASSUME NEW f \in Frames(X) PROVE f \in Frames(Y)
    <2>1. \A T, U : T \in SUBSET U => Seq(T) \in SUBSET Seq(U)
      OBVIOUS
    <2>2. Seq(X) \in SUBSET Seq(Y)
      BY <2>1
    <2>3. QED BY <1>1, <2>2 DEF Frames
  <1>3. QED BY <1>2 DEF Frame

LEMMA LeavingGrows ==
    ASSUME NEW X, NEW Y, X \in SUBSET Y, NEW s, NEW left, Leaving(X, s, left)
    PROVE  Leaving(Y, s, left)
  <1>1. PICK L : Stacked(X, s, L) /\ L[Len(s)] = left
    BY DEF Leaving
  <1>2. \A T, U : T \in SUBSET U => Seq(T) \in SUBSET Seq(U)
    OBVIOUS
  <1>3. s \in Seq(Frame(Y))
    BY <1>1, <1>2, FramesGrow DEF Stacked
  <1>4. Stacked(Y, s, L)
    BY <1>1, <1>3 DEF Stacked
  <1>5. QED BY <1>1, <1>4 DEF Leaving

LEMMA WithIsLeft ==
    ASSUME NEW X, NEW f \in Frame(X), NEW left \in Lefts
    PROVE  With(left, f) \in Lefts
  <1>1. f.ann \in Ann /\ f.token \in Nat
    BY DEF Frame, Frames
  <1>2. Reading[f.ann].name \in STRING
    BY <1>1, AnnsRead
  <1>3. left.depth \in Nat /\ left.aliases \in Seq(STRING \X Nat) /\ left.classes \in Seq(STRING)
    BY DEF Lefts
  <1>4. Append(left.aliases, <<Reading[f.ann].name, f.token>>) \in Seq(STRING \X Nat)
    BY <1>1, <1>2, <1>3
  <1>5. Append(left.classes, Reading[f.ann].name) \in Seq(STRING)
    BY <1>2, <1>3
  <1> DEFINE al == Append(left.aliases, <<Reading[f.ann].name, f.token>>)
             cs == Append(left.classes, Reading[f.ann].name)
             d  == IF f.pc = "start" THEN left.depth ELSE left.depth + 1
             bs == IF f.pc = "body" THEN al ELSE left.aliases
             ds == IF InClass(f) THEN cs ELSE left.classes
  <1>6. With(left, f) = [depth |-> d, aliases |-> bs, classes |-> ds]
    BY DEF With
  <1>7. d \in Nat /\ bs \in Seq(STRING \X Nat) /\ ds \in Seq(STRING)
    <2> HIDE DEF al, cs
    <2>1. al \in Seq(STRING \X Nat) /\ cs \in Seq(STRING)
      BY <1>4, <1>5 DEF al, cs
    <2>2. d \in Nat
      BY <1>3
    <2>3. bs \in Seq(STRING \X Nat)
      BY <1>3, <2>1, Zenon
    <2>4. ds \in Seq(STRING)
      BY <1>3, <2>1, Zenon
    <2>5. QED BY <2>2, <2>3, <2>4
  <1> HIDE DEF d, bs, ds
  <1>8. QED BY <1>6, <1>7 DEF Lefts

(* No stack leaves nothing.                                                *)
LEMMA LeavingNothing == ASSUME NEW X PROVE Leaving(X, <<>>, Nothing)
  <1> DEFINE L == [n \in {0} |-> Nothing]
  <1>1. Nothing \in Lefts
    BY DEF Nothing, Lefts
  <1>2. Stacked(X, <<>>, L) /\ L[Len(<<>>)] = Nothing
    BY <1>1 DEF Stacked
  <1>3. QED BY <1>2 DEF Leaving

(* A frame on top of a stack.                                              *)
LEMMA LeavingPushed ==
    ASSUME NEW X, NEW s, NEW left, Leaving(X, s, left), NEW f \in Frame(X), NEW now,
           IF f.pc = "root" THEN /\ now = Nothing /\ FoundAgain(left, f)
                                 /\ s = <<>> => f.saved.defs = <<>>
           ELSE now = With(left, f) /\ s # <<>>
    PROVE  Leaving(X, Append(s, f), now) /\ Append(s, f) # <<>>
  <1>1. PICK L : Stacked(X, s, L) /\ L[Len(s)] = left
    BY DEF Leaving
  <1> DEFINE t == Append(s, f)
             m == Len(s)
             M == [n \in 0 .. m + 1 |-> IF n = m + 1 THEN now ELSE L[n]]
  <1>2. s \in Seq(Frame(X)) /\ m \in Nat
    BY <1>1 DEF Stacked
  <1>3. /\ t \in Seq(Frame(X)) /\ Len(t) = m + 1 /\ t[m + 1] = f
        /\ \A n \in 1 .. m : t[n] = s[n]
    BY <1>2
  <1>4. M[m + 1] = now /\ \A n \in 0 .. m : M[n] = L[n]
    BY <1>2
  <1>5. now \in Lefts
    <2>1. left \in Lefts /\ Nothing \in Lefts
      BY <1>1, <1>2 DEF Stacked, Nothing, Lefts
    <2>2. QED BY <2>1, WithIsLeft
  <1> HIDE DEF t, M
  <1>6. \A n \in 0 .. m + 1 : M[n] \in Lefts
    BY <1>1, <1>2, <1>4, <1>5 DEF Stacked
  <1>7. M[0] = Nothing
    BY <1>1, <1>2, <1>4 DEF Stacked
  <1>8. ASSUME NEW n \in 1 .. m + 1
        PROVE  IF t[n].pc = "root" THEN M[n] = Nothing /\ FoundAgain(M[n - 1], t[n])
               ELSE M[n] = With(M[n - 1], t[n])
    <2>1. CASE n = m + 1
      <3>1. M[n] = now /\ M[n - 1] = left /\ t[n] = f
        BY <1>1, <1>2, <1>3, <1>4, <2>1
      <3>2. QED BY <3>1
    <2>2. CASE n # m + 1
      <3>1. n \in 1 .. m /\ n - 1 \in 0 .. m /\ n \in 0 .. m
        BY <1>2, <2>2
      <3>2. M[n] = L[n] /\ M[n - 1] = L[n - 1] /\ t[n] = s[n]
        BY <1>3, <1>4, <3>1
      <3>3. QED BY <1>1, <3>1, <3>2 DEF Stacked
    <2>3. QED BY <2>1, <2>2
  <1>9. t[1].pc = "root" /\ t[1].saved.defs = <<>>
    <2>1. CASE s = <<>>
      BY <1>3, <2>1
    <2>2. CASE s # <<>>
      <3>1. 1 \in 1 .. m
        BY <1>2, <2>2
      <3>2. QED BY <1>1, <1>3, <2>2, <3>1 DEF Stacked
    <2>3. QED BY <2>1, <2>2
  <1>10. Stacked(X, t, M)
    BY <1>2, <1>3, <1>6, <1>7, <1>8, <1>9 DEF Stacked
  <1>11. t # <<>>
    BY <1>2, <1>3
  <1>12. QED BY <1>3, <1>4, <1>10, <1>11 DEF Leaving, t

(* The stack below its top frame.                                          *)
LEMMA FrontIs ==
    ASSUME NEW S, NEW s \in Seq(S), s # <<>>
    PROVE  /\ Front(s) \in Seq(S) /\ Len(Front(s)) = Len(s) - 1
           /\ \A n \in 1 .. Len(s) - 1 : Front(s)[n] = s[n]
  <1> DEFINE m == Len(s) - 1
  <1>1. m \in Nat /\ \A n \in 1 .. m : s[n] \in S
    OBVIOUS
  <1>2. Front(s) = [n \in 1 .. m |-> s[n]]
    BY <1>1 DEF Front
  <1> HIDE DEF m
  <1>3. Front(s) \in Seq(S) /\ Len(Front(s)) = m
    BY <1>1, <1>2
  <1>4. QED BY <1>2, <1>3 DEF m

LEMMA LeavingPopped ==
    ASSUME NEW X, NEW s, NEW left, Leaving(X, s, left), s # <<>>
    PROVE  LET f == s[Len(s)]
           IN  /\ f \in Frame(X) /\ Len(s) \in Nat \ {0} /\ s \in Seq(Frame(X))
               /\ \E under \in Lefts :
                    /\ Leaving(X, Front(s), under)
                    /\ IF f.pc = "root" THEN /\ FoundAgain(under, f)
                                             /\ Front(s) = <<>> => f.saved.defs = <<>>
                       ELSE left = With(under, f) /\ Front(s) # <<>>
  <1>1. PICK L : Stacked(X, s, L) /\ L[Len(s)] = left
    BY DEF Leaving
  <1> DEFINE t == Front(s)
             m == Len(s)
  <1>2. s \in Seq(Frame(X)) /\ m \in Nat \ {0}
    BY <1>1 DEF Stacked
  <1>3. /\ t \in Seq(Frame(X)) /\ Len(t) = m - 1
        /\ \A n \in 1 .. m - 1 : t[n] = s[n]
    BY <1>2, FrontIs
  <1>4. s[m] \in Frame(X) /\ m \in 1 .. m /\ m - 1 \in 0 .. m
    BY <1>2
  <1>5. IF s[m].pc = "root" THEN FoundAgain(L[m - 1], s[m]) ELSE L[m] = With(L[m - 1], s[m])
    BY <1>1, <1>4 DEF Stacked
  <1>6. s[1].pc = "root" /\ s[1].saved.defs = <<>>
    BY <1>1 DEF Stacked
  <1> HIDE DEF t
  <1>7. t = <<>> <=> m = 1
    BY <1>2, <1>3
  <1>8. Stacked(X, t, L)
    <2>1. \A n \in 1 .. m - 1 : n \in 1 .. m
      BY <1>2
    <2>2. \A n \in 0 .. m - 1 : n \in 0 .. m
      BY <1>2
    <2>3. t # <<>> => t[1] = s[1]
      BY <1>2, <1>3, <1>7
    <2>4. QED BY <1>1, <1>3, <1>6, <2>1, <2>2, <2>3 DEF Stacked
  <1>9. Leaving(X, t, L[m - 1]) /\ L[m - 1] \in Lefts
    BY <1>1, <1>3, <1>4, <1>8 DEF Leaving, Stacked
  <1>10. QED BY <1>1, <1>2, <1>4, <1>5, <1>6, <1>7, <1>9 DEF t

-----------------------------------------------------------------------------
(* What is on the thread, with each frame that begins or ends.             *)

\* The stack s has left d descents, and these aliases and classes, open.
Has(X, s, d, al, cs) == \E left : Leaving(X, s, left) /\ Found(left, d, al, cs)

LEMMA HasGrows ==
    ASSUME NEW X, NEW Y, X \in SUBSET Y, NEW s, NEW d, NEW al, NEW cs, Has(X, s, d, al, cs)
    PROVE  Has(Y, s, d, al, cs)
  BY LeavingGrows DEF Has

LEMMA TagsOfMore ==
    ASSUME NEW al \in Seq(Opening), NEW o \in Opening
    PROVE  /\ Append(al, o) \in Seq(Opening)
           /\ Tags(Append(al, o)) = Append(Tags(al), <<o.name, o.token>>)
  <1> DEFINE m == Len(al)
             bs == Append(al, o)
  <1>1. /\ m \in Nat /\ bs \in Seq(Opening) /\ Len(bs) = m + 1 /\ bs[m + 1] = o
        /\ \A k \in 1 .. m : bs[k] = al[k]
    OBVIOUS
  <1>2. Tags(al) = [k \in 1 .. m |-> <<al[k].name, al[k].token>>]
    BY DEF Tags
  <1>3. Tags(al) \in Seq(STRING \X Nat) /\ Len(Tags(al)) = m
    <2>1. \A k \in 1 .. m : al[k].name \in STRING /\ al[k].token \in Nat
      <3>1. \A k \in 1 .. m : al[k] \in Opening
        OBVIOUS
      <3>2. \A x \in Opening : x.name \in STRING /\ x.token \in Nat
        BY DEF Opening
      <3>3. QED BY <3>1, <3>2
    <2> HIDE DEF m
    <2>2. QED BY <1>1, <1>2, <2>1
  <1>4. Tags(bs) = [k \in 1 .. m + 1 |-> <<bs[k].name, bs[k].token>>]
    BY <1>1 DEF Tags
  <1> DEFINE us == Append(Tags(al), <<o.name, o.token>>)
  <1>5. /\ us = [k \in 1 .. m + 1 |-> us[k]] /\ us[m + 1] = <<o.name, o.token>>
        /\ \A k \in 1 .. m : us[k] = Tags(al)[k]
    <2>1. <<o.name, o.token>> \in STRING \X Nat
      BY DEF Opening
    <2> HIDE DEF m
    <2>2. QED BY <1>1, <1>3, <2>1
  <1> HIDE DEF us, bs, m
  <1>6. \A k \in 1 .. m + 1 : us[k] = <<bs[k].name, bs[k].token>>
    <2> SUFFICES ASSUME NEW k \in 1 .. m + 1 PROVE us[k] = <<bs[k].name, bs[k].token>>
      OBVIOUS
    <2>1. CASE k = m + 1
      BY <1>1, <1>5, <2>1
    <2>2. CASE k # m + 1
      <3>1. k \in 1 .. m
        BY <1>1, <2>2
      <3>2. QED BY <1>1, <1>2, <1>5, <3>1
    <2>3. QED BY <2>1, <2>2
  <1>7. Tags(bs) = us
    BY <1>4, <1>5, <1>6
  <1>8. QED BY <1>1, <1>7 DEF us, bs

LEMMA TagsOfFewer ==
    ASSUME NEW al \in Seq(Opening), NEW ts \in Seq(STRING \X Nat), NEW t, Tags(al) = Append(ts, t)
    PROVE  Front(al) \in Seq(Opening) /\ Tags(Front(al)) = ts
  <1> DEFINE m == Len(ts)
             bs == Front(al)
  <1>1. DOMAIN Append(ts, t) = 1 .. m + 1 /\ m \in Nat /\ \A k \in 1 .. m : Append(ts, t)[k] = ts[k]
    OBVIOUS
  <1>2. Len(al) = m + 1
    <2>1. DOMAIN Tags(al) = 1 .. Len(al) /\ Len(al) \in Nat
      BY DEF Tags
    <2>2. QED BY <1>1, <2>1
  <1>3. bs = [k \in 1 .. m |-> al[k]]
    BY <1>1, <1>2 DEF Front
  <1>4. bs \in Seq(Opening) /\ Len(bs) = m /\ DOMAIN bs = 1 .. m
    <2>1. \A k \in 1 .. m : al[k] \in Opening
      BY <1>1, <1>2
    <2> HIDE DEF m, bs
    <2>2. QED BY <1>1, <1>3, <2>1
  <1>5. \A k \in 1 .. m : <<bs[k].name, bs[k].token>> = ts[k]
    <2> SUFFICES ASSUME NEW k \in 1 .. m PROVE <<bs[k].name, bs[k].token>> = ts[k]
      OBVIOUS
    <2>1. Tags(al)[k] = <<al[k].name, al[k].token>>
      BY <1>1, <1>2 DEF Tags
    <2>2. QED BY <1>1, <1>3, <2>1
  <1>6. Tags(bs) = [k \in 1 .. m |-> ts[k]]
    BY <1>4, <1>5 DEF Tags
  <1>7. ts = [k \in 1 .. m |-> ts[k]]
    OBVIOUS
  <1>8. QED BY <1>4, <1>6, <1>7

LEMMA FrontOfMore ==
    ASSUME NEW S, NEW s \in Seq(S), NEW x
    PROVE  Front(Append(s, x)) = s
  <1> DEFINE m == Len(s)
             t == Append(s, x)
  <1>1. m \in Nat /\ Len(t) = m + 1 /\ \A n \in 1 .. m : t[n] = s[n]
    OBVIOUS
  <1>2. Front(t) = [n \in 1 .. m |-> t[n]]
    BY <1>1 DEF Front
  <1>3. s = [n \in 1 .. m |-> s[n]]
    OBVIOUS
  <1> HIDE DEF t, m
  <1>4. Front(t) = s
    BY <1>1, <1>2, <1>3
  <1>5. QED BY <1>4 DEF t

\* An alias met again is marked.
Marked(al, i) == [al EXCEPT ![i].used = TRUE]

LEMMA TagsOfMarked ==
    ASSUME NEW al \in Seq(Opening), NEW i
    PROVE  Marked(al, i) \in Seq(Opening) /\ Tags(Marked(al, i)) = Tags(al)
  <1> DEFINE bs == Marked(al, i)
             o  == [al[i] EXCEPT !.used = TRUE]
  <1>1. CASE i \notin DOMAIN al
    <2>1. bs = al
      BY <1>1 DEF Marked
    <2>2. QED BY <2>1
  <1>2. CASE i \in DOMAIN al
    <2>1. bs = [al EXCEPT ![i] = o]
      BY DEF Marked
    <2>2. al[i] \in Opening
      BY <1>2
    <2>3. o \in Opening /\ o.name = al[i].name /\ o.token = al[i].token
      BY <2>2 DEF Opening
    <2> HIDE DEF bs, o
    <2>4. bs \in Seq(Opening) /\ DOMAIN bs = DOMAIN al
      <3>1. al = [k \in 1 .. Len(al) |-> al[k]] /\ Len(al) \in Nat
        OBVIOUS
      <3>2. bs = [k \in 1 .. Len(al) |-> IF k = i THEN o ELSE al[k]]
        BY <2>1, <3>1
      <3>3. \A k \in 1 .. Len(al) : al[k] \in Opening
        OBVIOUS
      <3>4. QED BY <2>3, <3>1, <3>2, <3>3
    <2>5. \A k \in DOMAIN al : bs[k].name = al[k].name /\ bs[k].token = al[k].token
      BY <2>1, <2>3
    <2>6. QED BY <2>4, <2>5 DEF Tags, bs
  <1>3. QED BY <1>1, <1>2

\* What a frame adds to what is open below it, and what its end takes away.
DepthWith(f, d)       == IF f.pc = "start" THEN d ELSE d + 1
AliasesWith(f, al, u) == IF f.pc = "body"
                         THEN Append(al, [name |-> Reading[f.ann].name, token |-> f.token, used |-> u])
                         ELSE al
ClassesWith(f, cs)    == IF InClass(f) THEN Append(cs, Reading[f.ann].name) ELSE cs
DepthLess(f, d)       == IF f.pc = "start" THEN d ELSE d - 1
AliasesLess(f, al)    == IF f.pc = "body" THEN Front(al) ELSE al
ClassesLess(f, cs)    == IF InClass(f) THEN Front(cs) ELSE cs

LEMMA FrameReads ==
    ASSUME NEW X, NEW f \in Frame(X)
    PROVE  /\ f.ann \in Ann /\ f.token \in Nat /\ f.pc \in Pcs /\ Fits(f)
           /\ Reading[f.ann].name \in STRING
  <1>1. f.ann \in Ann /\ f.token \in Nat /\ f.pc \in Pcs /\ Fits(f)
    BY DEF Frame, Frames
  <1>2. QED BY <1>1, AnnsRead

LEMMA FoundWith ==
    ASSUME NEW X, NEW f \in Frame(X), NEW left \in Lefts, NEW d, NEW al, NEW cs, NEW u \in BOOLEAN,
           Found(left, d, al, cs)
    PROVE  Found(With(left, f), DepthWith(f, d), AliasesWith(f, al, u), ClassesWith(f, cs))
  <1> DEFINE o == [name |-> Reading[f.ann].name, token |-> f.token, used |-> u]
  <1>1. f.token \in Nat /\ Reading[f.ann].name \in STRING
    BY FrameReads
  <1>2. o \in Opening /\ o.name = Reading[f.ann].name /\ o.token = f.token
    BY <1>1 DEF Opening
  <1> HIDE DEF o
  <1>3. /\ Append(al, o) \in Seq(Opening)
        /\ Tags(Append(al, o)) = Append(Tags(al), <<Reading[f.ann].name, f.token>>)
    BY <1>2, TagsOfMore DEF Found
  <1>4. Append(cs, Reading[f.ann].name) \in Seq(STRING)
    BY <1>1 DEF Found
  <1>5. DepthWith(f, d) \in Nat /\ With(left, f).depth = DepthWith(f, d)
    BY DEF Found, DepthWith, With
  <1>6. AliasesWith(f, al, u) \in Seq(Opening) /\ With(left, f).aliases = Tags(AliasesWith(f, al, u))
    <2>1. AliasesWith(f, al, u) = IF f.pc = "body" THEN Append(al, o) ELSE al
      BY DEF AliasesWith, o
    <2>2. With(left, f).aliases = IF f.pc = "body"
                                  THEN Append(left.aliases, <<Reading[f.ann].name, f.token>>)
                                  ELSE left.aliases
      BY DEF With
    <2>3. CASE f.pc = "body"
      BY <1>3, <2>1, <2>2, <2>3, Zenon DEF Found
    <2>4. CASE f.pc # "body"
      BY <2>1, <2>2, <2>4, Zenon DEF Found
    <2>5. QED BY <2>3, <2>4
  <1>7. ClassesWith(f, cs) \in Seq(STRING) /\ With(left, f).classes = ClassesWith(f, cs)
    <2>1. CASE InClass(f)
      BY <1>4, <2>1 DEF Found, ClassesWith, With
    <2>2. CASE ~InClass(f)
      BY <2>2 DEF Found, ClassesWith, With
    <2>3. QED BY <2>1, <2>2
  <1>8. QED BY <1>5, <1>6, <1>7, Zenon DEF Found

LEMMA FoundLess ==
    ASSUME NEW X, NEW f \in Frame(X), NEW left \in Lefts, NEW d, NEW al, NEW cs,
           Found(With(left, f), d, al, cs)
    PROVE  /\ Found(left, DepthLess(f, d), AliasesLess(f, al), ClassesLess(f, cs))
           /\ d \in Nat /\ (f.pc # "start" => d > 0)
  <1>1. left.depth \in Nat /\ left.aliases \in Seq(STRING \X Nat) /\ left.classes \in Seq(STRING)
    BY DEF Lefts
  <1>2. d \in Nat /\ al \in Seq(Opening) /\ cs \in Seq(STRING)
    BY DEF Found
  <1>3. /\ With(left, f).depth = d /\ With(left, f).aliases = Tags(al)
        /\ With(left, f).classes = cs
    BY DEF Found
  <1>4. /\ DepthLess(f, d) \in Nat /\ left.depth = DepthLess(f, d)
        /\ f.pc # "start" => d > 0
    BY <1>1, <1>2, <1>3 DEF With, DepthLess
  <1>5. AliasesLess(f, al) \in Seq(Opening) /\ left.aliases = Tags(AliasesLess(f, al))
    <2>1. CASE f.pc = "body"
      <3> DEFINE t == <<Reading[f.ann].name, f.token>>
      <3>1. Tags(al) = Append(left.aliases, t)
        BY <1>3, <2>1 DEF With
      <3> HIDE DEF t
      <3>2. Front(al) \in Seq(Opening) /\ Tags(Front(al)) = left.aliases
        BY <1>1, <1>2, <3>1, TagsOfFewer
      <3>3. QED BY <2>1, <3>2, Zenon DEF AliasesLess
    <2>2. CASE f.pc # "body"
      BY <1>2, <1>3, <2>2 DEF AliasesLess, With
    <2>3. QED BY <2>1, <2>2
  <1>6. ClassesLess(f, cs) \in Seq(STRING) /\ left.classes = ClassesLess(f, cs)
    <2>1. CASE InClass(f)
      <3>1. cs = Append(left.classes, Reading[f.ann].name)
        BY <1>3, <2>1 DEF With
      <3>2. Front(cs) = left.classes
        BY <1>1, <3>1, FrontOfMore
      <3>3. QED BY <1>1, <2>1, <3>2, Zenon DEF ClassesLess
    <2>2. CASE ~InClass(f)
      BY <1>2, <1>3, <2>2 DEF ClassesLess, With
    <2>3. QED BY <2>1, <2>2
  <1>7. QED BY <1>2, <1>4, <1>5, <1>6, Zenon DEF Found

LEMMA LeavingIsLeft ==
    ASSUME NEW X, NEW s, NEW left, Leaving(X, s, left)
    PROVE  left \in Lefts
  <1>1. PICK L : Stacked(X, s, L) /\ L[Len(s)] = left
    BY DEF Leaving
  <1>2. Len(s) \in 0 .. Len(s)
    BY <1>1 DEF Stacked
  <1>3. QED BY <1>1, <1>2 DEF Stacked

(* A descent begins on a stack, or a build does.                           *)
LEMMA HasPushed ==
    ASSUME NEW X, NEW s, NEW d, NEW al, NEW cs, Has(X, s, d, al, cs), s # <<>>,
           NEW f \in Frame(X), f.pc # "root", NEW u \in BOOLEAN
    PROVE  /\ Has(X, Append(s, f), DepthWith(f, d), AliasesWith(f, al, u), ClassesWith(f, cs))
           /\ Append(s, f) # <<>>
  <1>1. PICK left : Leaving(X, s, left) /\ Found(left, d, al, cs)
    BY DEF Has
  <1>2. left \in Lefts
    BY <1>1, LeavingIsLeft
  <1>3. Leaving(X, Append(s, f), With(left, f)) /\ Append(s, f) # <<>>
    BY <1>1, LeavingPushed
  <1>4. Found(With(left, f), DepthWith(f, d), AliasesWith(f, al, u), ClassesWith(f, cs))
    BY <1>1, <1>2, FoundWith
  <1>5. QED BY <1>3, <1>4 DEF Has

LEMMA HasBuild ==
    ASSUME NEW X, NEW s, NEW f \in Frame(X), f.pc = "root",
           Has(X, s, f.saved.depth, f.saved.aliases, f.saved.classes),
           Idles(f.saved.depth, f.saved.descents, f.saved.held),
           s = <<>> => f.saved.defs = <<>>
    PROVE  Has(X, Append(s, f), 0, <<>>, <<>>) /\ Append(s, f) # <<>>
  <1>1. PICK left : /\ Leaving(X, s, left)
                    /\ Found(left, f.saved.depth, f.saved.aliases, f.saved.classes)
    BY DEF Has
  <1>2. FoundAgain(left, f)
    BY <1>1 DEF FoundAgain
  <1>3. Leaving(X, Append(s, f), Nothing) /\ Append(s, f) # <<>>
    BY <1>1, <1>2, LeavingPushed
  <1>4. Found(Nothing, 0, <<>>, <<>>)
    BY DEF Found, Nothing, Tags
  <1>5. QED BY <1>3, <1>4 DEF Has

(* The last descent of a stack ends, or its build does.                    *)
LEMMA HasPopped ==
    ASSUME NEW X, NEW s, NEW d, NEW al, NEW cs, Has(X, s, d, al, cs), s # <<>>,
           NEW f, f = s[Len(s)], f.pc # "root"
    PROVE  /\ Has(X, Front(s), DepthLess(f, d), AliasesLess(f, al), ClassesLess(f, cs))
           /\ Front(s) # <<>>
           /\ f \in Frame(X) /\ d \in Nat /\ (f.pc # "start" => d > 0)
  <1>1. PICK left : Leaving(X, s, left) /\ Found(left, d, al, cs)
    BY DEF Has
  <1>2. f \in Frame(X)
    BY <1>1, LeavingPopped
  <1>3. PICK under \in Lefts : Leaving(X, Front(s), under) /\ left = With(under, f) /\ Front(s) # <<>>
    BY <1>1, LeavingPopped
  <1>4. /\ Found(under, DepthLess(f, d), AliasesLess(f, al), ClassesLess(f, cs))
        /\ d \in Nat /\ (f.pc # "start" => d > 0)
    BY <1>1, <1>2, <1>3, FoundLess
  <1>5. QED BY <1>2, <1>3, <1>4 DEF Has

LEMMA HasBuilt ==
    ASSUME NEW X, NEW s, NEW d, NEW al, NEW cs, Has(X, s, d, al, cs), s # <<>>,
           NEW f, f = s[Len(s)], f.pc = "root"
    PROVE  /\ Has(X, Front(s), f.saved.depth, f.saved.aliases, f.saved.classes)
           /\ Idles(f.saved.depth, f.saved.descents, f.saved.held)
           /\ Front(s) = <<>> => f.saved.defs = <<>>
  <1>1. PICK left : Leaving(X, s, left) /\ Found(left, d, al, cs)
    BY DEF Has
  <1>2. PICK under \in Lefts : /\ Leaving(X, Front(s), under) /\ FoundAgain(under, f)
                               /\ Front(s) = <<>> => f.saved.defs = <<>>
    BY <1>1, LeavingPopped
  <1>3. QED BY <1>2 DEF Has, FoundAgain

(* The top frame goes on.                                                  *)
LEMMA TopReplaced ==
    ASSUME NEW S, NEW s \in Seq(S), s # <<>>, NEW g \in S
    PROVE  [s EXCEPT ![Len(s)] = g] = Append(Front(s), g)
  <1> DEFINE m == Len(s)
             t == Front(s)
             r == Append(t, g)
             q == [s EXCEPT ![m] = g]
  <1>1. t \in Seq(S) /\ Len(t) = m - 1 /\ \A n \in 1 .. m - 1 : t[n] = s[n]
    BY FrontIs
  <1>2. m \in Nat \ {0} /\ DOMAIN s = 1 .. m
    OBVIOUS
  <1>3. q = [n \in 1 .. m |-> IF n = m THEN g ELSE s[n]]
    BY <1>2
  <1> HIDE DEF t, m
  <1>4. Len(t) + 1 = m
    BY <1>1, <1>2
  <1>5. r = [n \in 1 .. m |-> r[n]] /\ r[m] = g /\ \A n \in 1 .. m - 1 : r[n] = t[n]
    <2> DEFINE k == Len(t)
    <2>1. k = m - 1 /\ k + 1 = m /\ k \in Nat
      BY <1>1, <1>2, <1>4
    <2>2. /\ r \in Seq(S) /\ Len(r) = k + 1 /\ r[k + 1] = g
          /\ \A n \in 1 .. k : r[n] = t[n]
      BY <1>1
    <2> HIDE DEF r, k
    <2>3. r \in Seq(S) /\ Len(r) = m /\ r[m] = g /\ \A n \in 1 .. m - 1 : r[n] = t[n]
      BY <2>1, <2>2
    <2>4. QED BY <2>3
  <1> HIDE DEF r, q
  <1>6. \A n \in 1 .. m : r[n] = IF n = m THEN g ELSE s[n]
    <2> SUFFICES ASSUME NEW n \in 1 .. m PROVE r[n] = IF n = m THEN g ELSE s[n]
      OBVIOUS
    <2>1. CASE n = m
      BY <1>5, <2>1
    <2>2. CASE n # m
      <3>1. n \in 1 .. m - 1
        BY <1>2, <2>2
      <3>2. QED BY <1>1, <1>5, <2>2, <3>1
    <2>3. QED BY <2>1, <2>2
  <1>7. q = r
    BY <1>3, <1>5, <1>6
  <1>8. QED BY <1>7 DEF q, r, t, m

LEMMA HasReplaced ==
    ASSUME NEW X, NEW s, NEW d, NEW al, NEW cs, Has(X, s, d, al, cs), s # <<>>,
           NEW f, f = s[Len(s)], f.pc # "root",
           NEW g \in Frame(X), g.pc # "root", NEW u \in BOOLEAN, NEW t, t = [s EXCEPT ![Len(s)] = g]
    PROVE  /\ Has(X, t, DepthWith(g, DepthLess(f, d)), AliasesWith(g, AliasesLess(f, al), u),
                  ClassesWith(g, ClassesLess(f, cs)))
           /\ t # <<>>
  <1>1. s \in Seq(Frame(X))
    BY DEF Has, Leaving, Stacked
  <1>2. t = Append(Front(s), g)
    BY <1>1, TopReplaced
  <1> DEFINE e  == DepthLess(f, d)
             bl == AliasesLess(f, al)
             ds == ClassesLess(f, cs)
             r  == Front(s)
  <1>3. Has(X, r, e, bl, ds) /\ r # <<>>
    BY HasPopped
  <1> HIDE DEF e, bl, ds, r
  <1>4. /\ Has(X, Append(r, g), DepthWith(g, e), AliasesWith(g, bl, u), ClassesWith(g, ds))
        /\ Append(r, g) # <<>>
    BY <1>3, HasPushed
  <1>5. QED BY <1>2, <1>4 DEF e, bl, ds, r

-----------------------------------------------------------------------------
(* The thread: a stack and what is open.                                   *)

Thread(s, d, al, cs) == \E X : Has(X, s, d, al, cs)

Scopes ==
    /\ Thread(stack, depth, aliases, classes)
    /\ Idles(depth, descents, held)
    /\ stack = <<>> => defs = <<>>

ScopesInv == Scopes /\ tokens \in Nat

\* A frame with another's annotation that goes on from it.
Follows(g, f) == \A X : f \in Frame(X) => \E Y : X \in SUBSET Y /\ g \in Frame(Y)

LEMMA Fields ==
    ASSUME NEW f, NEW g, NEW p \in Pcs, NEW b, NEW w, NEW Z, NEW q \in Seq(Z), NEW t \in Nat, Fits(g),
           g = [ann |-> f.ann, pc |-> p, before |-> b, walks |-> w, parts |-> q, token |-> t,
                saved |-> f.saved]
    PROVE  Follows(g, f)
  <1> SUFFICES ASSUME NEW X, f \in Frame(X)
               PROVE  \E Y : X \in SUBSET Y /\ g \in Frame(Y)
    BY DEF Follows
  <1> DEFINE Y == X \cup {b, w} \cup Z
  <1>1. f \in Frame(Y) /\ X \in SUBSET Y
    BY FramesGrow
  <1>2. b \in Y /\ w \in Y /\ q \in Seq(Y)
    <2>1. \A T, U : T \in SUBSET U => Seq(T) \in SUBSET Seq(U)
      OBVIOUS
    <2>2. Z \in SUBSET Y
      OBVIOUS
    <2> HIDE DEF Y
    <2>3. q \in Seq(Y)
      BY <2>1, <2>2
    <2>4. QED BY <2>3 DEF Y
  <1> HIDE DEF Y
  <1>3. f.ann \in Ann /\ f.saved \in Saved(Y)
    BY <1>1 DEF Frame, Frames
  <1>4. g \in Frames(Y)
    BY <1>2, <1>3 DEF Frames
  <1>5. QED BY <1>1, <1>4 DEF Frame

LEMMA ThreadReads ==
    ASSUME NEW s, NEW d, NEW al, NEW cs, Thread(s, d, al, cs), s # <<>>, NEW f, f = s[Len(s)]
    PROVE  /\ \E X : f \in Frame(X)
           /\ f.ann \in Ann /\ f.token \in Nat /\ f.pc \in Pcs /\ Fits(f)
           /\ Reading[f.ann].name \in STRING
           /\ f = [ann |-> f.ann, pc |-> f.pc, before |-> f.before, walks |-> f.walks,
                   parts |-> f.parts, token |-> f.token, saved |-> f.saved]
           /\ \E Z : f.parts \in Seq(Z)
           /\ d \in Nat /\ al \in Seq(Opening) /\ cs \in Seq(STRING)
  <1>1. PICK X, left : Leaving(X, s, left) /\ Found(left, d, al, cs)
    BY DEF Thread, Has
  <1>2. f \in Frame(X)
    BY <1>1, LeavingPopped
  <1>3. f = [ann |-> f.ann, pc |-> f.pc, before |-> f.before, walks |-> f.walks,
             parts |-> f.parts, token |-> f.token, saved |-> f.saved]
    BY <1>2 DEF Frame, Frames
  <1>4. d \in Nat /\ al \in Seq(Opening) /\ cs \in Seq(STRING)
    BY <1>1 DEF Found
  <1>5. f.parts \in Seq(X)
    BY <1>2 DEF Frame, Frames
  <1>6. QED BY <1>2, <1>3, <1>4, <1>5, FrameReads

LEMMA ThreadPopped ==
    ASSUME NEW s, NEW d, NEW al, NEW cs, Thread(s, d, al, cs), s # <<>>,
           NEW f, f = s[Len(s)], f.pc # "root"
    PROVE  /\ Thread(Front(s), DepthLess(f, d), AliasesLess(f, al), ClassesLess(f, cs))
           /\ Front(s) # <<>> /\ (f.pc # "start" => d > 0)
  <1>1. PICK X : Has(X, s, d, al, cs)
    BY DEF Thread
  <1>2. QED BY <1>1, HasPopped DEF Thread

LEMMA ThreadBuilt ==
    ASSUME NEW s, NEW d, NEW al, NEW cs, Thread(s, d, al, cs), s # <<>>,
           NEW f, f = s[Len(s)], f.pc = "root"
    PROVE  /\ Thread(Front(s), f.saved.depth, f.saved.aliases, f.saved.classes)
           /\ Idles(f.saved.depth, f.saved.descents, f.saved.held)
           /\ Front(s) = <<>> => f.saved.defs = <<>>
  <1>1. PICK X : Has(X, s, d, al, cs)
    BY DEF Thread
  <1>2. QED BY <1>1, HasBuilt DEF Thread

LEMMA ThreadMarked ==
    ASSUME NEW s, NEW d, NEW al, NEW cs, Thread(s, d, al, cs), NEW i
    PROVE  Thread(s, d, Marked(al, i), cs)
  <1>1. PICK X, left : Leaving(X, s, left) /\ Found(left, d, al, cs)
    BY DEF Thread, Has
  <1>2. Found(left, d, Marked(al, i), cs)
    BY <1>1, TagsOfMarked DEF Found
  <1>3. QED BY <1>1, <1>2 DEF Thread, Has

LEMMA ThreadReplaced ==
    ASSUME NEW s, NEW d, NEW al, NEW cs, Thread(s, d, al, cs), s # <<>>,
           NEW f, f = s[Len(s)], f.pc # "root",
           NEW g, Follows(g, f), g.pc # "root", NEW u \in BOOLEAN,
           NEW t, t = [s EXCEPT ![Len(s)] = g]
    PROVE  /\ Thread(t, DepthWith(g, DepthLess(f, d)), AliasesWith(g, AliasesLess(f, al), u),
                     ClassesWith(g, ClassesLess(f, cs)))
           /\ t # <<>>
  <1>1. PICK X : Has(X, s, d, al, cs)
    BY DEF Thread
  <1>2. f \in Frame(X)
    BY <1>1, HasPopped
  <1>3. PICK Y : X \in SUBSET Y /\ g \in Frame(Y)
    BY <1>2 DEF Follows
  <1>4. Has(Y, s, d, al, cs)
    BY <1>1, <1>3, HasGrows
  <1>5. QED BY <1>3, <1>4, HasReplaced DEF Thread

LEMMA StartIsFrame ==
    ASSUME NEW X, NEW a \in Ann
    PROVE  \E Y : X \in SUBSET Y /\ Start(a) \in Frame(Y)
  <1> DEFINE w == FALSE
             Y == X \cup {0, w, <<>>}
  <1>1. 0 \in Y /\ w \in Y /\ <<>> \in Y /\ X \in SUBSET Y
    OBVIOUS
  <1>2. Start(a) = [ann |-> a, pc |-> "start", before |-> 0, walks |-> w, parts |-> <<>>,
                    token |-> 0, saved |-> Empty]
    BY DEF Start
  <1> HIDE DEF Y, w
  <1>3. Empty \in Saved(Y)
    BY <1>1 DEF Empty, Saved
  <1>4. Start(a) \in Frames(Y)
    BY <1>1, <1>2, <1>3 DEF Frames, Pcs
  <1>5. Fits(Start(a))
    BY <1>2 DEF Fits
  <1>6. QED BY <1>1, <1>4, <1>5 DEF Frame

(* A descent begins: nothing is open for it yet.                           *)
LEMMA ThreadStarts ==
    ASSUME NEW s, NEW d, NEW al, NEW cs, Thread(s, d, al, cs), s # <<>>, NEW a \in Ann
    PROVE  Thread(Append(s, Start(a)), d, al, cs) /\ Append(s, Start(a)) # <<>>
  <1>1. PICK X : Has(X, s, d, al, cs)
    BY DEF Thread
  <1>2. PICK Y : X \in SUBSET Y /\ Start(a) \in Frame(Y)
    BY StartIsFrame
  <1>3. Has(Y, s, d, al, cs)
    BY <1>1, <1>2, HasGrows
  <1>4. Start(a).pc = "start"
    BY DEF Start
  <1>5. /\ DepthWith(Start(a), d) = d /\ AliasesWith(Start(a), al, TRUE) = al
        /\ ClassesWith(Start(a), cs) = cs
    BY <1>4 DEF DepthWith, AliasesWith, ClassesWith, InClass
  <1>6. QED BY <1>2, <1>3, <1>4, <1>5, HasPushed DEF Thread

\* The frame of a build of a, begun where this is on the thread.
RootOf(a, d, n, h, al, cs, ds) ==
    [Start(a) EXCEPT !.pc = "root", !.saved =
        [depth |-> d, descents |-> n, held |-> h, aliases |-> al, classes |-> cs, defs |-> ds]]

(* A build begins: it finds nothing open.                                  *)
LEMMA ThreadBuilds ==
    ASSUME NEW s, NEW d, NEW n, NEW h, NEW al, NEW cs, NEW ds,
           Thread(s, d, al, cs), Idles(d, n, h), s = <<>> => ds = <<>>,
           NEW a \in Ann, NEW f,
           f = RootOf(a, d, n, h, al, cs, ds)
    PROVE  Thread(Append(s, f), 0, <<>>, <<>>) /\ Append(s, f) # <<>>
  <1>1. PICK X, left : Leaving(X, s, left) /\ Found(left, d, al, cs)
    BY DEF Thread, Has
  <1> DEFINE Z == X \cup {n, h, ds}
  <1>2. PICK Y : Z \in SUBSET Y /\ Start(a) \in Frame(Y)
    BY StartIsFrame
  <1>3. Has(Y, s, d, al, cs)
    BY <1>1, <1>2, HasGrows DEF Has
  <1> DEFINE v == [depth |-> d, descents |-> n, held |-> h, aliases |-> al, classes |-> cs, defs |-> ds]
             b == Start(a)
  <1>4. v \in Saved(Y)
    BY <1>1, <1>2 DEF Saved, Found
  <1>5. /\ v.depth = d /\ v.descents = n /\ v.held = h
        /\ v.aliases = al /\ v.classes = cs /\ v.defs = ds
    OBVIOUS
  <1> HIDE DEF v, b
  <1>6. f = [b EXCEPT !.pc = "root", !.saved = v]
    BY DEF v, b, RootOf
  <1>7. b \in Frames(Y)
    BY <1>2 DEF Frame, b
  <1>8. f \in Frames(Y) /\ f.pc = "root" /\ f.saved = v
    BY <1>4, <1>6, <1>7 DEF Frames, Pcs
  <1>9. f \in Frame(Y)
    BY <1>8 DEF Frame, Fits
  <1>10. /\ f.saved.depth = d /\ f.saved.descents = n /\ f.saved.held = h
         /\ f.saved.aliases = al /\ f.saved.classes = cs /\ (s = <<>> => f.saved.defs = <<>>)
    BY <1>5, <1>8, Zenon
  <1>11. /\ Has(Y, s, f.saved.depth, f.saved.aliases, f.saved.classes)
         /\ Idles(f.saved.depth, f.saved.descents, f.saved.held)
    BY <1>3, <1>10
  <1> HIDE DEF Z
  <1>12. Has(Y, Append(s, f), 0, <<>>, <<>>) /\ Append(s, f) # <<>>
    BY <1>8, <1>9, <1>10, <1>11, HasBuild
  <1>13. QED BY <1>12 DEF Thread

(* A frame goes on with nothing opened and nothing closed.                 *)
LEMMA ThreadKept ==
    ASSUME NEW s, NEW d, NEW al, NEW cs, Thread(s, d, al, cs), s # <<>>,
           NEW f, f = s[Len(s)], f.pc \notin {"root", "start", "body"},
           NEW g, Follows(g, f), g.pc \notin {"root", "start", "body"},
           g.ann = f.ann, InClass(g) <=> InClass(f),
           NEW t, t = [s EXCEPT ![Len(s)] = g]
    PROVE  Thread(t, d, al, cs) /\ t # <<>>
  <1>1. PICK X, left : Leaving(X, s, left) /\ Found(left, d, al, cs)
    BY DEF Thread, Has
  <1>2. f \in Frame(X)
    BY <1>1, LeavingPopped
  <1>3. PICK Y : X \in SUBSET Y /\ g \in Frame(Y)
    BY <1>2 DEF Follows
  <1>4. Leaving(Y, s, left)
    BY <1>1, <1>3, LeavingGrows
  <1>5. PICK under \in Lefts : Leaving(Y, Front(s), under) /\ left = With(under, f) /\ Front(s) # <<>>
    BY <1>4, LeavingPopped
  <1>6. With(under, g) = left
    BY <1>5 DEF With
  <1>7. t = Append(Front(s), g)
    <2>1. s \in Seq(Frame(Y))
      BY <1>4 DEF Leaving, Stacked
    <2>2. QED BY <1>3, <2>1, TopReplaced
  <1>8. Leaving(Y, t, left) /\ t # <<>>
    <2> DEFINE r == Front(s)
    <2>1. /\ Leaving(Y, r, under) /\ r # <<>> /\ left = With(under, g) /\ t = Append(r, g)
          /\ g.pc # "root" /\ g \in Frame(Y)
      BY <1>3, <1>5, <1>6, <1>7
    <2> HIDE DEF r
    <2>2. Leaving(Y, Append(r, g), left) /\ Append(r, g) # <<>>
      BY <2>1, LeavingPushed
    <2>3. QED BY <2>1, <2>2
  <1>9. QED BY <1>1, <1>8 DEF Thread, Has

LEMMA Called ==
    ASSUME NEW s, NEW d, NEW al, NEW cs, Thread(s, d, al, cs), NEW a, NEW b
    PROVE  s \o <<a>> = Append(s, a) /\ s \o <<a, b>> = Append(Append(s, a), b)
  <1>1. PICK X : s \in Seq(Frame(X))
    BY DEF Thread, Has, Leaving, Stacked
  <1> DEFINE S == Frame(X) \cup {a, b}
  <1>2. s \in Seq(S) /\ a \in S /\ b \in S
    <2>1. \A T, U : T \in SUBSET U => Seq(T) \in SUBSET Seq(U)
      OBVIOUS
    <2>2. QED BY <1>1, <2>1
  <1> HIDE DEF S
  <1>3. s \o <<a>> = Append(s, a)
    BY <1>2
  <1>4. s \o <<a, b>> = Append(Append(s, a), b)
    BY <1>2
  <1>5. QED BY <1>3, <1>4

\* What a frame may become next, and goes on from.
CanGoOn(f) ==
    /\ Follows(f, f)
    /\ \A p \in Pcs : LET g == [f EXCEPT !.pc = p]
                      IN  g.pc = p /\ g.ann = f.ann /\ (Fits(g) => Follows(g, f))
    /\ \A x : LET g == [f EXCEPT !.parts = Append(@, x)]
              IN  g.pc = f.pc /\ g.ann = f.ann /\ Follows(g, f)
    /\ \A p \in Pcs, t \in Nat : LET g == [f EXCEPT !.pc = p, !.token = t]
              IN  g.pc = p /\ g.ann = f.ann /\ g.token = t /\ (Fits(g) => Follows(g, f))
    /\ \A p \in Pcs : \A b, w : LET g == [f EXCEPT !.pc = p, !.before = b, !.walks = w]
              IN  g.pc = p /\ g.ann = f.ann /\ (Fits(g) => Follows(g, f))

LEMMA Followed ==
    ASSUME NEW s, NEW d, NEW al, NEW cs, Thread(s, d, al, cs), s # <<>>, NEW f, f = s[Len(s)]
    PROVE  CanGoOn(f)
  <1>1. /\ f.ann \in Ann /\ f.token \in Nat /\ f.pc \in Pcs /\ Fits(f)
        /\ f = [ann |-> f.ann, pc |-> f.pc, before |-> f.before, walks |-> f.walks,
                parts |-> f.parts, token |-> f.token, saved |-> f.saved]
    BY ThreadReads
  <1>0. PICK Z : f.parts \in Seq(Z)
    BY ThreadReads
  <1>2. Follows(f, f)
    BY <1>0, <1>1, Fields
  <1>3. ASSUME NEW p \in Pcs
        PROVE  LET g == [f EXCEPT !.pc = p] IN g.pc = p /\ g.ann = f.ann /\ (Fits(g) => Follows(g, f))
    <2> DEFINE g == [f EXCEPT !.pc = p]
    <2>1. /\ g = [ann |-> f.ann, pc |-> p, before |-> f.before, walks |-> f.walks, parts |-> f.parts,
                  token |-> f.token, saved |-> f.saved]
          /\ g.pc = p /\ g.ann = f.ann
      BY <1>1
    <2> HIDE DEF g
    <2>2. Fits(g) => Follows(g, f)
      BY <1>0, <1>1, <2>1, Fields
    <2>3. QED BY <2>1, <2>2 DEF g
  <1>4. ASSUME NEW x
        PROVE  LET g == [f EXCEPT !.parts = Append(@, x)]
               IN  g.pc = f.pc /\ g.ann = f.ann /\ Follows(g, f)
    <2> DEFINE q == Append(f.parts, x)
               Y == Z \cup {x}
               g == [f EXCEPT !.parts = Append(@, x)]
    <2>0. q \in Seq(Y)
      <3>1. \A T, U : T \in SUBSET U => Seq(T) \in SUBSET Seq(U)
        OBVIOUS
      <3>2. Z \in SUBSET Y /\ x \in Y
        OBVIOUS
      <3> HIDE DEF Y
      <3>3. f.parts \in Seq(Y)
        BY <1>0, <3>1, <3>2
      <3>4. QED BY <3>2, <3>3
    <2> HIDE DEF q, Y
    <2>1. /\ g = [ann |-> f.ann, pc |-> f.pc, before |-> f.before, walks |-> f.walks, parts |-> q,
                  token |-> f.token, saved |-> f.saved]
          /\ g.pc = f.pc /\ g.ann = f.ann
      <3>1. g = [f EXCEPT !.parts = q]
        BY DEF q
      <3> HIDE DEF g
      <3>2. QED BY <1>1, <3>1
    <2> HIDE DEF g
    <2>2. Fits(g)
      BY <1>1, <2>1 DEF Fits
    <2>3. Follows(g, f)
      BY <1>1, <2>0, <2>1, <2>2, Fields
    <2>4. QED BY <2>1, <2>3 DEF g
  <1>5. ASSUME NEW p \in Pcs, NEW t \in Nat
        PROVE  LET g == [f EXCEPT !.pc = p, !.token = t]
               IN  g.pc = p /\ g.ann = f.ann /\ g.token = t /\ (Fits(g) => Follows(g, f))
    <2> DEFINE g == [f EXCEPT !.pc = p, !.token = t]
    <2>1. ASSUME NEW X, f \in Frame(X)
          PROVE  \E Y : X \in SUBSET Y /\ g \in Frames(Y) /\ g.pc = p /\ g.ann = f.ann /\ g.token = t
      <3> DEFINE Y == X \cup {}
      <3>1. f \in Frame(Y) /\ X \in SUBSET Y
        BY <2>1, FramesGrow
      <3>2. f \in Frames(Y)
        BY <3>1 DEF Frame
      <3>3. g \in Frames(Y) /\ g.pc = p /\ g.ann = f.ann /\ g.token = t
        BY <3>2 DEF Frames
      <3>4. QED BY <3>1, <3>3
    <2> HIDE DEF g
    <2>2. PICK X : f \in Frame(X)
      BY ThreadReads
    <2>3. g.pc = p /\ g.ann = f.ann /\ g.token = t
      BY <2>1, <2>2
    <2>4. Fits(g) => Follows(g, f)
      BY <2>1 DEF Follows, Frame
    <2>5. QED BY <2>3, <2>4 DEF g
  <1>6. ASSUME NEW p \in Pcs, NEW b, NEW w
        PROVE  LET g == [f EXCEPT !.pc = p, !.before = b, !.walks = w]
               IN  g.pc = p /\ g.ann = f.ann /\ (Fits(g) => Follows(g, f))
    <2> DEFINE g == [f EXCEPT !.pc = p, !.before = b, !.walks = w]
    <2>1. ASSUME NEW X, f \in Frame(X)
          PROVE  \E Y : X \in SUBSET Y /\ g \in Frames(Y) /\ g.pc = p /\ g.ann = f.ann
      <3> DEFINE Y == X \cup {b, w}
      <3>1. f \in Frame(Y) /\ X \in SUBSET Y
        BY <2>1, FramesGrow
      <3>2. f \in Frames(Y)
        BY <3>1 DEF Frame
      <3>3. g \in Frames(Y) /\ g.pc = p /\ g.ann = f.ann
        BY <3>2 DEF Frames
      <3>4. QED BY <3>1, <3>3
    <2> HIDE DEF g
    <2>2. PICK X : f \in Frame(X)
      BY ThreadReads
    <2>3. g.pc = p /\ g.ann = f.ann
      BY <2>1, <2>2
    <2>4. Fits(g) => Follows(g, f)
      BY <2>1 DEF Follows, Frame
    <2>5. QED BY <2>3, <2>4 DEF g
  <1>7. QED BY <1>2, <1>3, <1>4, <1>5, <1>6, Zenon DEF CanGoOn

-----------------------------------------------------------------------------
(* Each step.                                                              *)

(* A descent ends, whatever it came to, and closes what it opened.         *)
LEMMA Returns ==
    ASSUME Scopes, stack # <<>>, Top.pc \notin {"root", "start"},
           stack' = Pop, depth' = depth - 1, depth = 1 => descents' = 0 /\ held' = 0,
           aliases' = AliasesLess(Top, aliases), classes' = ClassesLess(Top, classes)
    PROVE  Scopes'
  <1> DEFINE f == Top
  <1>1. Thread(stack, depth, aliases, classes) /\ f = stack[Len(stack)]
    BY DEF Scopes, Top
  <1> HIDE DEF f
  <1>2. /\ Thread(Front(stack), DepthLess(f, depth), AliasesLess(f, aliases), ClassesLess(f, classes))
        /\ Front(stack) # <<>> /\ depth > 0
    BY <1>1, ThreadPopped DEF f
  <1>3. DepthLess(f, depth) = depth - 1 /\ depth \in Nat
    BY <1>1, ThreadReads DEF DepthLess, f
  <1>4. stack' = Front(stack)
    BY DEF Front, Pop
  <1>5. Thread(stack', depth', aliases', classes') /\ stack' # <<>>
    BY <1>2, <1>3, <1>4 DEF f
  <1>6. Idles(depth', descents', held')
    BY <1>2, <1>3 DEF Idles
  <1>7. QED BY <1>5, <1>6 DEF Scopes

LEMMA ReadScalarKeeps == ASSUME Scopes, ReadScalar PROVE Scopes'
  <1>1. stack # <<>> /\ Top.pc = "read" /\ ~InClass(Top)
    BY DEF ReadScalar, At, Calling, InClass
  <1>2. AliasesLess(Top, aliases) = aliases /\ ClassesLess(Top, classes) = classes
    BY <1>1 DEF AliasesLess, ClassesLess
  <1>3. /\ stack' = Pop /\ depth' = depth - 1 /\ (depth = 1 => descents' = 0 /\ held' = 0)
        /\ aliases' = aliases /\ classes' = classes
    BY DEF ReadScalar, Leave, open
  <1>4. QED BY <1>1, <1>2, <1>3, Returns

LEMMA ReadValidatorKeeps == ASSUME Scopes, ReadValidator PROVE Scopes'
  <1>1. stack # <<>> /\ Top.pc = "read" /\ ~InClass(Top)
    BY DEF ReadValidator, At, Calling, InClass
  <1>2. AliasesLess(Top, aliases) = aliases /\ ClassesLess(Top, classes) = classes
    BY <1>1 DEF AliasesLess, ClassesLess
  <1>3. /\ stack' = Pop /\ depth' = depth - 1 /\ (depth = 1 => descents' = 0 /\ held' = 0)
        /\ aliases' = aliases /\ classes' = classes
    BY DEF ReadValidator, Leave, open
  <1>4. QED BY <1>1, <1>2, <1>3, Returns

LEMMA ReadRefusedKeeps == ASSUME Scopes, ReadRefused PROVE Scopes'
  <1>1. stack # <<>> /\ Top.pc = "read" /\ ~InClass(Top)
    BY DEF ReadRefused, At, Calling, InClass
  <1>2. AliasesLess(Top, aliases) = aliases /\ ClassesLess(Top, classes) = classes
    BY <1>1 DEF AliasesLess, ClassesLess
  <1>3. /\ stack' = Pop /\ depth' = depth - 1 /\ (depth = 1 => descents' = 0 /\ held' = 0)
        /\ aliases' = aliases /\ classes' = classes
    BY DEF ReadRefused, Leave, open
  <1>4. QED BY <1>1, <1>2, <1>3, Returns

(* A descent goes on, and nothing is opened or closed.                     *)
LEMMA GoesOnPlain ==
    ASSUME Scopes, stack # <<>>, Top.pc \notin {"root", "start", "body"},
           NEW g, Follows(g, Top), g.pc \notin {"root", "start", "body"},
           g.ann = Top.ann, InClass(g) <=> InClass(Top)
    PROVE  /\ Thread([stack EXCEPT ![Len(stack)] = g], depth, aliases, classes)
           /\ [stack EXCEPT ![Len(stack)] = g] # <<>>
  <1>1. Thread(stack, depth, aliases, classes) /\ Top = stack[Len(stack)]
    BY DEF Scopes, Top
  <1>2. QED BY <1>1, ThreadKept

LEMMA Goes ==
    ASSUME Scopes, stack # <<>>
    PROVE  /\ CanGoOn(Top)
           /\ Top.ann \in Ann /\ Top.token \in Nat /\ Top.pc \in Pcs /\ Fits(Top)
           /\ TopReads.name \in STRING /\ TopReads.kind \in Kinds /\ TopReads.parts \in Seq(Ann)
           /\ TopReads.runs \in Ann \cup {NoAnn} /\ TopReads = Reading[Top.ann]
           /\ Len(Top.parts) \in Nat
           /\ depth \in Nat /\ aliases \in Seq(Opening) /\ classes \in Seq(STRING)
  <1> DEFINE f == Top
  <1>1. Thread(stack, depth, aliases, classes) /\ f = stack[Len(stack)]
    BY DEF Scopes, Top
  <1>2. TopReads = Reading[f.ann]
    BY DEF TopReads
  <1> HIDE DEF f
  <1>3. /\ f.ann \in Ann /\ f.token \in Nat /\ f.pc \in Pcs /\ Fits(f)
        /\ depth \in Nat /\ aliases \in Seq(Opening) /\ classes \in Seq(STRING)
        /\ \E Z : f.parts \in Seq(Z)
    BY <1>1, ThreadReads
  <1>6. Len(f.parts) \in Nat
    BY <1>3
  <1>4. /\ Reading[f.ann].name \in STRING /\ Reading[f.ann].kind \in Kinds
        /\ Reading[f.ann].parts \in Seq(Ann) /\ Reading[f.ann].runs \in Ann \cup {NoAnn}
    BY <1>3, AnnsRead
  <1>5. CanGoOn(f)
    BY <1>1, Followed
  <1>7. QED BY <1>2, <1>3, <1>4, <1>5, <1>6, Zenon DEF f

(* The top frame becomes g, or goes on as g and calls for annotation a.    *)
LEMMA BecomesPlain ==
    ASSUME Scopes, stack # <<>>, Top.pc \notin {"root", "start", "body"},
           NEW g, Follows(g, Top), g.pc \notin {"root", "start", "body"},
           g.ann = Top.ann, InClass(g) <=> InClass(Top),
           Become(g), UNCHANGED counts, UNCHANGED open
    PROVE  Scopes'
  <1>1. /\ Thread([stack EXCEPT ![Len(stack)] = g], depth, aliases, classes)
        /\ [stack EXCEPT ![Len(stack)] = g] # <<>>
    BY GoesOnPlain
  <1>2. /\ stack' = [stack EXCEPT ![Len(stack)] = g] /\ depth' = depth /\ descents' = descents
        /\ held' = held /\ aliases' = aliases /\ classes' = classes
    BY DEF Become, counts, open
  <1>3. Thread(stack', depth', aliases', classes') /\ stack' # <<>>
    BY <1>1, <1>2, Zenon
  <1>4. Idles(depth', descents', held')
    BY <1>2 DEF Scopes
  <1>5. QED BY <1>3, <1>4 DEF Scopes

LEMMA ReadPartsKeeps == ASSUME Scopes, ReadParts PROVE Scopes'
  <1> DEFINE g == [Top EXCEPT !.pc = "parts"]
  <1>1. stack # <<>> /\ Top.pc = "read" /\ TopReads.kind # "class" /\ ~InClass(Top)
    BY DEF ReadParts, At, Calling, InClass
  <1>2. g.pc = "parts" /\ g.ann = Top.ann /\ (Fits(g) => Follows(g, Top)) /\ TopReads = Reading[Top.ann]
    BY <1>1, Goes DEF CanGoOn, Pcs
  <1>3. Become(g) /\ UNCHANGED counts /\ UNCHANGED open
    BY DEF ReadParts
  <1> HIDE DEF g
  <1>4. Fits(g) /\ ~InClass(g)
    BY <1>1, <1>2 DEF Fits, InClass
  <1>5. QED BY <1>1, <1>2, <1>3, <1>4, BecomesPlain

LEMMA CallsPlain ==
    ASSUME NEW s, NEW d, NEW al, NEW cs, Thread(s, d, al, cs), s # <<>>, NEW a \in Ann
    PROVE  Thread(s \o <<Start(a)>>, d, al, cs) /\ s \o <<Start(a)>> # <<>>
  <1> DEFINE b == Start(a)
  <1>1. Thread(Append(s, b), d, al, cs) /\ Append(s, b) # <<>>
    BY ThreadStarts
  <1> HIDE DEF b
  <1>2. s \o <<b>> = Append(s, b)
    BY Called
  <1>3. QED BY <1>1, <1>2 DEF b

LEMMA BuildPartKeeps == ASSUME Scopes, BuildPart PROVE Scopes'
  <1> DEFINE t == [stack EXCEPT ![Len(stack)] = Top]
             a == TopReads.parts[Len(Top.parts) + 1]
  <1>1. /\ stack # <<>> /\ Top.pc = "parts"
        /\ stack' = t \o <<Start(a)>> /\ depth' = depth /\ descents' = descents /\ held' = held
        /\ aliases' = aliases /\ classes' = classes
    BY DEF BuildPart, At, Calling, Call, counts, open
  <1>2. CanGoOn(Top)
    BY <1>1, Goes
  <1>3. Follows(Top, Top)
    BY <1>2 DEF CanGoOn
  <1>4. Thread(t, depth, aliases, classes) /\ t # <<>>
    BY <1>1, <1>3, GoesOnPlain
  <1>5. a \in Ann
    <2>1. Len(Top.parts) \in Nat /\ TopReads.parts \in Seq(Ann)
      BY <1>1, Goes
    <2>2. Len(Top.parts) < Len(TopReads.parts)
      BY DEF BuildPart
    <2>3. QED BY <2>1, <2>2
  <1> HIDE DEF t, a
  <1>6. Thread(stack', depth', aliases', classes') /\ stack' # <<>>
    BY <1>1, <1>4, <1>5, CallsPlain
  <1>7. Idles(depth', descents', held')
    BY <1>1 DEF Scopes
  <1>8. QED BY <1>6, <1>7 DEF Scopes

LEMMA PartReturnKeeps == ASSUME Scopes, PartReturn PROVE Scopes'
  <1> DEFINE g == [Top EXCEPT !.parts = Append(@, ret.term)]
  <1>1. stack # <<>> /\ Top.pc = "parts" /\ aliases' = aliases
    BY DEF PartReturn, Back
  <1>2. TopReads = Reading[Top.ann]
    BY <1>1, Goes
  <1>3. CASE ret.tag = "ok" /\ Become(g) /\ UNCHANGED counts /\ UNCHANGED classes
    <2>1. CanGoOn(Top)
      BY <1>1, Goes
    <2>2. g.pc = Top.pc /\ g.ann = Top.ann /\ Follows(g, Top)
      BY <2>1 DEF CanGoOn
    <2> HIDE DEF g
    <2>3. InClass(g) <=> InClass(Top)
      BY <2>2 DEF InClass
    <2>4. UNCHANGED open
      BY <1>1, <1>3 DEF open
    <2>5. g.pc \notin {"root", "start", "body"}
      BY <1>1, <2>2
    <2>6. QED BY <1>1, <1>3, <2>2, <2>3, <2>4, <2>5, BecomesPlain
  <1>4. CASE classes' = ClassesLeft /\ Leave(ret, held)
    <2>1. AliasesLess(Top, aliases) = aliases /\ ClassesLess(Top, classes) = ClassesLeft
      BY <1>1, <1>2 DEF AliasesLess, ClassesLess, ClassesLeft, InClass
    <2>2. /\ stack' = Pop /\ depth' = depth - 1 /\ (depth = 1 => descents' = 0 /\ held' = 0)
      BY <1>4 DEF Leave
    <2>3. QED BY <1>1, <1>4, <2>1, <2>2, Returns
  <1>5. QED BY <1>3, <1>4 DEF PartReturn

LEMMA PartsBuiltKeeps == ASSUME Scopes, PartsBuilt PROVE Scopes'
  <1>1. stack # <<>> /\ Top.pc = "parts" /\ aliases' = aliases /\ classes' = ClassesLeft
    BY DEF PartsBuilt, At, Calling
  <1>2. TopReads = Reading[Top.ann]
    BY <1>1, Goes
  <1>3. AliasesLess(Top, aliases) = aliases /\ ClassesLess(Top, classes) = ClassesLeft
    BY <1>1, <1>2 DEF AliasesLess, ClassesLess, ClassesLeft, InClass
  <1>4. /\ stack' = Pop /\ depth' = depth - 1 /\ (depth = 1 => descents' = 0 /\ held' = 0)
    BY DEF PartsBuilt, Leave
  <1>5. QED BY <1>1, <1>3, <1>4, Returns

LEMMA EnterKeeps == ASSUME Scopes, Enter PROVE Scopes'
  <1> DEFINE g == [Top EXCEPT !.pc = "read", !.before = held, !.walks = Walks]
             t == [stack EXCEPT ![Len(stack)] = g]
  <1>1. /\ stack # <<>> /\ Top.pc = "start" /\ held' = held /\ aliases' = aliases /\ classes' = classes
    BY DEF Enter, At, Calling, open
  <1>2. Thread(stack, depth, aliases, classes) /\ Top = stack[Len(stack)] /\ Idles(depth, descents, held)
    BY DEF Scopes, Top
  <1>3. CanGoOn(Top) /\ depth \in Nat
    BY <1>1, Goes
  <1>4. MaxSchemaNodes \in Nat /\ MaxBuildDepth \in Nat /\ MaxBuildDepth > 0
    BY BuildBounds DEF MaxBuildDepth
  <1>5. CASE stack' = Pop /\ depth' = depth /\ depth > 0
    <2>1. /\ Thread(Front(stack), DepthLess(Top, depth), AliasesLess(Top, aliases),
                    ClassesLess(Top, classes))
          /\ Front(stack) # <<>>
      BY <1>1, <1>2, ThreadPopped
    <2>2. /\ DepthLess(Top, depth) = depth /\ AliasesLess(Top, aliases) = aliases
          /\ ClassesLess(Top, classes) = classes
      BY <1>1 DEF DepthLess, AliasesLess, ClassesLess, InClass
    <2>3. stack' = Front(stack)
      BY <1>5 DEF Front, Pop
    <2>4. Thread(stack', depth', aliases', classes') /\ stack' # <<>>
      BY <1>1, <1>5, <2>1, <2>2, <2>3
    <2>5. Idles(depth', descents', held')
      BY <1>3, <1>5 DEF Idles
    <2>6. QED BY <2>4, <2>5 DEF Scopes
  <1>6. CASE depth' = depth + 1 /\ stack' = t
    <2>1. g.pc = "read" /\ g.ann = Top.ann /\ (Fits(g) => Follows(g, Top))
      BY <1>3 DEF CanGoOn, Pcs
    <2> HIDE DEF g
    <2>2. Follows(g, Top) /\ g.pc # "root"
      BY <2>1 DEF Fits
    <2>3. /\ Thread(t, DepthWith(g, DepthLess(Top, depth)),
                    AliasesWith(g, AliasesLess(Top, aliases), TRUE),
                    ClassesWith(g, ClassesLess(Top, classes)))
          /\ t # <<>>
      BY <1>1, <1>2, <2>2, ThreadReplaced
    <2>4. /\ DepthWith(g, DepthLess(Top, depth)) = depth + 1
          /\ AliasesWith(g, AliasesLess(Top, aliases), TRUE) = aliases
          /\ ClassesWith(g, ClassesLess(Top, classes)) = classes
      BY <1>1, <2>1 DEF DepthLess, AliasesLess, ClassesLess, DepthWith, AliasesWith, ClassesWith, InClass
    <2>5. Thread(stack', depth', aliases', classes') /\ stack' # <<>>
      BY <1>1, <1>6, <2>3, <2>4
    <2>6. Idles(depth', descents', held')
      BY <1>3, <1>6 DEF Idles
    <2>7. QED BY <2>5, <2>6 DEF Scopes
  <1>7. \/ depth >= MaxBuildDepth /\ stack' = Pop /\ depth' = depth
        \/ held > MaxSchemaNodes /\ stack' = Pop /\ depth' = depth
        \/ depth' = depth + 1 /\ stack' = t
    BY DEF Enter, Become
  <1>8. depth >= MaxBuildDepth => depth > 0
    BY <1>3, <1>4
  <1>9. held > MaxSchemaNodes => depth > 0
    BY <1>2, <1>3, <1>4 DEF Idles
  <1>10. QED BY <1>5, <1>6, <1>7, <1>8, <1>9

LEMMA EnterClassKeeps == ASSUME Scopes, EnterClass PROVE Scopes'
  <1> DEFINE g == [Top EXCEPT !.pc = IF TopReads.runs = NoAnn THEN "parts" ELSE "scoped"]
             t == [stack EXCEPT ![Len(stack)] = g]
  <1>1. /\ stack # <<>> /\ Top.pc = "read" /\ TopReads.kind = "class" /\ aliases' = aliases
    BY DEF EnterClass, At, Calling
  <1>2. Thread(stack, depth, aliases, classes) /\ Top = stack[Len(stack)] /\ Idles(depth, descents, held)
    BY DEF Scopes, Top
  <1>3. CanGoOn(Top) /\ depth \in Nat /\ TopReads = Reading[Top.ann]
    BY <1>1, Goes
  <1>4. CASE Leave(Err("class"), held) /\ UNCHANGED classes
    <2>1. AliasesLess(Top, aliases) = aliases /\ ClassesLess(Top, classes) = classes
      BY <1>1 DEF AliasesLess, ClassesLess, InClass
    <2>2. /\ stack' = Pop /\ depth' = depth - 1 /\ (depth = 1 => descents' = 0 /\ held' = 0)
          /\ classes' = classes
      BY <1>4 DEF Leave
    <2>3. QED BY <1>1, <2>1, <2>2, Returns
  <1>5. CASE classes' = Append(classes, TopReads.name) /\ Become(g) /\ UNCHANGED counts
    <2> DEFINE p == IF TopReads.runs = NoAnn THEN "parts" ELSE "scoped"
    <2>1. g = [Top EXCEPT !.pc = p] /\ p \in Pcs /\ p \in {"parts", "scoped"}
          /\ (p = "scoped" => TopReads.runs # NoAnn)
      BY DEF Pcs
    <2> HIDE DEF g, p
    <2>2. g.pc = p /\ g.ann = Top.ann /\ (Fits(g) => Follows(g, Top))
      BY <1>3, <2>1 DEF CanGoOn
    <2>3. Follows(g, Top) /\ g.pc # "root"
      BY <1>3, <2>1, <2>2 DEF Fits
    <2>4. /\ Thread(t, DepthWith(g, DepthLess(Top, depth)),
                    AliasesWith(g, AliasesLess(Top, aliases), TRUE),
                    ClassesWith(g, ClassesLess(Top, classes)))
          /\ t # <<>>
      BY <1>1, <1>2, <2>3, ThreadReplaced
    <2>5. InClass(g) /\ ~InClass(Top)
      BY <1>1, <1>3, <2>1, <2>2 DEF InClass
    <2>6. /\ DepthWith(g, DepthLess(Top, depth)) = depth
          /\ AliasesWith(g, AliasesLess(Top, aliases), TRUE) = aliases
          /\ ClassesWith(g, ClassesLess(Top, classes)) = Append(classes, TopReads.name)
      BY <1>1, <1>3, <2>1, <2>2, <2>5
      DEF DepthLess, AliasesLess, ClassesLess, DepthWith, AliasesWith, ClassesWith
    <2>7. stack' = t /\ depth' = depth /\ descents' = descents /\ held' = held
      BY <1>5 DEF Become, counts
    <2>8. Thread(stack', depth', aliases', classes') /\ stack' # <<>>
      BY <1>1, <1>5, <2>4, <2>6, <2>7
    <2>9. Idles(depth', descents', held')
      BY <1>2, <2>7
    <2>10. QED BY <2>8, <2>9 DEF Scopes
  <1>6. QED BY <1>4, <1>5 DEF EnterClass

(* An alias's value is met again, or is begun.                             *)
LEMMA AliasReads ==
    ASSUME Scopes, AliasRead
    PROVE  /\ stack # <<>> /\ Top.pc \in {"read", "evaluated"} /\ TopReads.kind = "alias"
           /\ TopReads = Reading[Top.ann] /\ TopReads.parts[1] \in Ann /\ ~InClass(Top)
  <1>1. stack # <<>> /\ Top.pc \in {"read", "evaluated"} /\ (Top.pc = "read" => TopReads.kind = "alias")
    BY DEF AliasRead, At, Calling
  <1>2. TopReads = Reading[Top.ann] /\ Top.ann \in Ann /\ Fits(Top) /\ TopReads.parts \in Seq(Ann)
    BY <1>1, Goes
  <1>3. TopReads.kind = "alias"
    BY <1>1, <1>2 DEF Fits
  <1>4. Len(TopReads.parts) = 1
    BY <1>2, <1>3, PassesOn
  <1>5. TopReads.parts[1] \in Ann
    BY <1>2, <1>4
  <1>6. ~InClass(Top)
    BY <1>2, <1>3 DEF InClass
  <1>7. QED BY <1>1, <1>2, <1>3, <1>5, <1>6

LEMMA AliasAgainKeeps == ASSUME Scopes, AliasAgain PROVE Scopes'
  <1> DEFINE i == CHOOSE j \in OpenAt(TopReads.name) : \A k \in OpenAt(TopReads.name) : j <= k
  <1>1. /\ AliasRead /\ classes' = classes /\ aliases' = [aliases EXCEPT ![i].used = TRUE]
        /\ stack' = Pop /\ depth' = depth - 1 /\ (depth = 1 => descents' = 0 /\ held' = 0)
    BY DEF AliasAgain, Leave
  <1> HIDE DEF i
  <1>2. stack # <<>> /\ Top.pc \in {"read", "evaluated"} /\ ~InClass(Top)
    BY <1>1, AliasReads
  <1>3. aliases' = Marked(aliases, i)
    BY <1>1 DEF Marked
  <1>4. Thread(stack, depth, aliases', classes) /\ Top = stack[Len(stack)]
    BY <1>3, ThreadMarked DEF Scopes, Top
  <1> DEFINE al == Marked(aliases, i)
  <1>5. Thread(stack, depth, al, classes)
    BY <1>3, <1>4
  <1>6. /\ Thread(Front(stack), DepthLess(Top, depth), AliasesLess(Top, al), ClassesLess(Top, classes))
        /\ Front(stack) # <<>> /\ depth > 0
    BY <1>2, <1>4, <1>5, ThreadPopped
  <1>7. depth \in Nat
    BY <1>2, Goes
  <1>8. /\ DepthLess(Top, depth) = depth - 1 /\ AliasesLess(Top, al) = al
        /\ ClassesLess(Top, classes) = classes
    BY <1>2 DEF DepthLess, AliasesLess, ClassesLess
  <1>9. stack' = Front(stack)
    BY <1>1 DEF Front, Pop
  <1>10. Thread(stack', depth', aliases', classes') /\ stack' # <<>>
    BY <1>1, <1>3, <1>6, <1>8, <1>9
  <1>11. Idles(depth', descents', held')
    BY <1>1, <1>6, <1>7 DEF Idles
  <1>12. QED BY <1>10, <1>11 DEF Scopes

LEMMA OpenTheAliasKeeps == ASSUME Scopes, tokens \in Nat, OpenTheAlias PROVE Scopes'
  <1> DEFINE k == tokens + 1
             g == [Top EXCEPT !.pc = "body", !.token = k]
             t == [stack EXCEPT ![Len(stack)] = g]
             a == TopReads.parts[1]
             o == [name |-> TopReads.name, token |-> k, used |-> FALSE]
  <1>1. /\ AliasRead /\ classes' = classes /\ aliases' = Append(aliases, o)
        /\ stack' = t \o <<Start(a)>> /\ depth' = depth /\ descents' = descents /\ held' = held
    BY DEF OpenTheAlias, Call, counts
  <1>2. /\ stack # <<>> /\ Top.pc \in {"read", "evaluated"} /\ TopReads.kind = "alias"
        /\ ~InClass(Top) /\ a \in Ann /\ TopReads = Reading[Top.ann]
    BY <1>1, AliasReads
  <1>3. Thread(stack, depth, aliases, classes) /\ Top = stack[Len(stack)] /\ Idles(depth, descents, held)
    BY DEF Scopes, Top
  <1>4. CanGoOn(Top) /\ depth \in Nat
    BY <1>2, Goes
  <1>5. k \in Nat
    OBVIOUS
  <1> HIDE DEF k, a
  <1>6. /\ g.pc = "body" /\ g.ann = Top.ann /\ g.token = k
        /\ (Fits(g) => Follows(g, Top))
    BY <1>4, <1>5 DEF CanGoOn, Pcs
  <1> HIDE DEF g
  <1>7. Follows(g, Top) /\ g.pc # "root" /\ ~InClass(g)
    BY <1>6 DEF Fits, InClass
  <1>8. /\ Thread(t, DepthWith(g, DepthLess(Top, depth)),
                  AliasesWith(g, AliasesLess(Top, aliases), FALSE),
                  ClassesWith(g, ClassesLess(Top, classes)))
        /\ t # <<>>
    BY <1>2, <1>3, <1>7, ThreadReplaced
  <1>9. AliasesWith(g, AliasesLess(Top, aliases), FALSE) = Append(aliases, o)
    <2>1. AliasesLess(Top, aliases) = aliases
      BY <1>2 DEF AliasesLess
    <2>2. [name |-> Reading[g.ann].name, token |-> g.token, used |-> FALSE] = o
      BY <1>2, <1>6
    <2> HIDE DEF o
    <2>3. QED BY <1>6, <2>1, <2>2 DEF AliasesWith
  <1>10. /\ DepthWith(g, DepthLess(Top, depth)) = depth
         /\ ClassesWith(g, ClassesLess(Top, classes)) = classes
    BY <1>2, <1>4, <1>6, <1>7 DEF DepthLess, ClassesLess, DepthWith, ClassesWith
  <1> HIDE DEF t, o
  <1>11. Thread(t, depth, Append(aliases, o), classes) /\ t # <<>>
    BY <1>8, <1>9, <1>10
  <1>12. Thread(stack', depth', aliases', classes') /\ stack' # <<>>
    BY <1>1, <1>2, <1>11, CallsPlain
  <1>13. Idles(depth', descents', held')
    BY <1>1, <1>3
  <1>14. QED BY <1>12, <1>13 DEF Scopes

LEMMA BodyReturnKeeps == ASSUME Scopes, BodyReturn PROVE Scopes'
  <1>1. /\ stack # <<>> /\ Top.pc = "body" /\ aliases' = Front(aliases) /\ classes' = classes
        /\ stack' = Pop /\ depth' = depth - 1 /\ (depth = 1 => descents' = 0 /\ held' = 0)
    BY DEF BodyReturn, Back, AliasesLeft, Leave
  <1>2. AliasesLess(Top, aliases) = Front(aliases) /\ ClassesLess(Top, classes) = classes
    BY <1>1 DEF AliasesLess, ClassesLess, InClass
  <1>3. QED BY <1>1, <1>2, Returns

LEMMA EvaluatedKeeps == ASSUME Scopes, Evaluated PROVE Scopes'
  <1> DEFINE p == IF TopReads.kind = "class" THEN "parts" ELSE "evaluated"
             g == [Top EXCEPT !.pc = p]
  <1>1. stack # <<>> /\ Top.pc = "evaluating" /\ aliases' = aliases
    BY DEF Evaluated, Back
  <1>2. /\ TopReads = Reading[Top.ann] /\ CanGoOn(Top) /\ Fits(Top) /\ Top.ann \in Ann
    BY <1>1, Goes
  <1>3. TopReads.runs # NoAnn /\ TopReads.kind \in {"alias", "class"}
    BY <1>1, <1>2, PassesOn DEF Fits
  <1>4. CASE Become(g) /\ UNCHANGED counts /\ UNCHANGED classes
    <2>1. p \in Pcs /\ (TopReads.kind = "class" => p = "parts") /\ (TopReads.kind = "alias" => p = "evaluated")
      BY <1>3 DEF Pcs
    <2> HIDE DEF p
    <2>2. g.pc = p /\ g.ann = Top.ann /\ (Fits(g) => Follows(g, Top))
      BY <1>2, <2>1 DEF CanGoOn
    <2> HIDE DEF g
    <2>3. Follows(g, Top)
      BY <1>2, <1>3, <2>1, <2>2 DEF Fits
    <2>4. InClass(g) <=> InClass(Top)
      BY <1>1, <1>2, <1>3, <2>1, <2>2 DEF InClass
    <2>5. g.pc \notin {"root", "start", "body"}
      BY <1>3, <2>1, <2>2
    <2>6. UNCHANGED open
      BY <1>1, <1>4 DEF open
    <2>7. QED BY <1>1, <1>4, <2>2, <2>3, <2>4, <2>5, <2>6, BecomesPlain
  <1>5. CASE classes' = ClassesLeft /\ Leave(Err("refused"), held)
    <2>1. AliasesLess(Top, aliases) = aliases /\ ClassesLess(Top, classes) = ClassesLeft
      BY <1>1, <1>2 DEF AliasesLess, ClassesLess, ClassesLeft, InClass
    <2>2. /\ stack' = Pop /\ depth' = depth - 1 /\ (depth = 1 => descents' = 0 /\ held' = 0)
      BY <1>5 DEF Leave
    <2>3. QED BY <1>1, <1>5, <2>1, <2>2, Returns
  <1>6. QED BY <1>4, <1>5 DEF Evaluated

(* A build begins on a stack, and its first descent.                       *)
LEMMA ThreadCallsBuild ==
    ASSUME NEW s, NEW d, NEW n, NEW h, NEW al, NEW cs, NEW ds,
           Thread(s, d, al, cs), Idles(d, n, h), s = <<>> => ds = <<>>, NEW a \in Ann, NEW f,
           f = RootOf(a, d, n, h, al, cs, ds)
    PROVE  Thread(s \o <<f, Start(a)>>, 0, <<>>, <<>>) /\ s \o <<f, Start(a)>> # <<>>
  <1>1. Thread(Append(s, f), 0, <<>>, <<>>) /\ Append(s, f) # <<>>
    BY ThreadBuilds
  <1>2. Thread(Append(Append(s, f), Start(a)), 0, <<>>, <<>>) /\ Append(Append(s, f), Start(a)) # <<>>
    BY <1>1, ThreadStarts
  <1> DEFINE b == Start(a)
  <1>3. s \o <<f, b>> = Append(Append(s, f), b)
    <2> HIDE DEF b
    <2>1. QED BY Called
  <1>4. QED BY <1>2, <1>3

LEMMA EvaluateKeeps == ASSUME Scopes, Evaluate PROVE Scopes'
  <1>1. /\ stack # <<>> /\ Top.pc \in {"read", "scoped"}
        /\ Top.pc = "read" => TopReads.kind = "alias" /\ TopReads.runs # NoAnn
    BY DEF Evaluate, Evaluates, At, Calling
  <1>2. /\ TopReads = Reading[Top.ann] /\ CanGoOn(Top) /\ Fits(Top) /\ Top.ann \in Ann
        /\ TopReads.runs \in Ann \cup {NoAnn}
    BY <1>1, Goes
  <1>3. TopReads.runs # NoAnn /\ TopReads.kind \in {"alias", "class"}
    BY <1>1, <1>2, PassesOn DEF Fits
  <1>4. ASSUME NEW p, p \in Pcs, p \notin {"root", "start", "body"},
               p \in {"parts", "evaluating"} <=> (TopReads.kind = "class" \/ p = "evaluating"),
               p = "evaluated" => TopReads.kind = "alias"
        PROVE  LET g == [Top EXCEPT !.pc = p]
               IN  /\ Follows(g, Top) /\ g.pc \notin {"root", "start", "body"} /\ g.ann = Top.ann
                   /\ (p # "scoped" => (InClass(g) <=> InClass(Top)))
    <2> DEFINE g == [Top EXCEPT !.pc = p]
    <2>1. g.pc = p /\ g.ann = Top.ann /\ (Fits(g) => Follows(g, Top))
      BY <1>2, <1>4 DEF CanGoOn
    <2> HIDE DEF g
    <2>2. Follows(g, Top)
      BY <1>2, <1>3, <1>4, <2>1 DEF Fits
    <2>3. p # "scoped" => (InClass(g) <=> InClass(Top))
      BY <1>1, <1>2, <1>3, <1>4, <2>1 DEF InClass
    <2>4. QED BY <1>4, <2>1, <2>2, <2>3 DEF g
  <1>5. CASE /\ Call([Top EXCEPT !.pc = "evaluating"], <<Root(TopReads.runs), Start(TopReads.runs)>>)
             /\ ScopeTaken
    <2> DEFINE g == [Top EXCEPT !.pc = "evaluating"]
               t == [stack EXCEPT ![Len(stack)] = g]
               a == TopReads.runs
               f == Root(a)
    <2>1. /\ stack' = t \o <<f, Start(a)>> /\ depth' = 0 /\ descents' = 0 /\ held' = 0
          /\ aliases' = <<>> /\ classes' = <<>>
      BY <1>5 DEF Call, ScopeTaken
    <2>2. f = RootOf(a, depth, descents, held, aliases, classes, defs)
      BY DEF Root, RootOf
    <2>3. a \in Ann
      BY <1>2, <1>3
    <2>4. Follows(g, Top) /\ g.pc \notin {"root", "start", "body"} /\ g.ann = Top.ann
          /\ (InClass(g) <=> InClass(Top))
      BY <1>4 DEF Pcs
    <2> HIDE DEF g, f, a
    <2>5. Thread(t, depth, aliases, classes) /\ t # <<>>
      BY <1>1, <2>4, GoesOnPlain
    <2> HIDE DEF t
    <2>6. Idles(depth, descents, held)
      BY DEF Scopes
    <2>7. Thread(t \o <<f, Start(a)>>, 0, <<>>, <<>>) /\ t \o <<f, Start(a)>> # <<>>
      BY <2>2, <2>3, <2>5, <2>6, ThreadCallsBuild
    <2>8. Thread(stack', depth', aliases', classes') /\ stack' # <<>>
      BY <2>1, <2>7
    <2>9. Idles(depth', descents', held')
      BY <2>1 DEF Idles
    <2>10. QED BY <2>8, <2>9 DEF Scopes
  <1>6. CASE /\ Become([Top EXCEPT !.pc = IF TopReads.kind = "class" THEN "parts" ELSE "evaluated"])
             /\ UNCHANGED counts /\ UNCHANGED open
    <2> DEFINE p == IF TopReads.kind = "class" THEN "parts" ELSE "evaluated"
               g == [Top EXCEPT !.pc = p]
    <2>1. Become(g) /\ UNCHANGED counts /\ UNCHANGED open
      BY <1>6
    <2>2. p \in Pcs /\ p \in {"parts", "evaluated"} /\ (p = "parts" <=> TopReads.kind = "class")
      BY DEF Pcs
    <2> HIDE DEF p
    <2>3. Follows(g, Top) /\ g.pc \notin {"root", "start", "body"} /\ g.ann = Top.ann
          /\ (InClass(g) <=> InClass(Top))
      BY <1>3, <1>4, <2>2
    <2> HIDE DEF g
    <2>4. QED BY <1>1, <2>1, <2>3, BecomesPlain
  <1>7. QED BY <1>5, <1>6 DEF Evaluate

LEMMA RootReturnKeeps == ASSUME Scopes, RootReturn PROVE Scopes'
  <1> DEFINE f == Top
  <1>1. stack # <<>> /\ f.pc = "root"
    BY DEF RootReturn, Back
  <1>2. /\ stack' = Front(stack)
        /\ depth' = f.saved.depth /\ descents' = f.saved.descents /\ held' = f.saved.held
        /\ aliases' = f.saved.aliases /\ classes' = f.saved.classes /\ defs' = f.saved.defs
    BY DEF RootReturn, Pop, Front
  <1>3. Thread(stack, depth, aliases, classes) /\ f = stack[Len(stack)]
    BY DEF Scopes, Top
  <1> HIDE DEF f
  <1>4. /\ Thread(Front(stack), f.saved.depth, f.saved.aliases, f.saved.classes)
        /\ Idles(f.saved.depth, f.saved.descents, f.saved.held)
        /\ Front(stack) = <<>> => f.saved.defs = <<>>
    BY <1>1, <1>3, ThreadBuilt
  <1>5. QED BY <1>2, <1>4 DEF Scopes

LEMMA BeginKeeps == ASSUME Scopes, Begin PROVE Scopes'
  <1>1. PICK a \in RootAnns : stack' = <<Root(a), Start(a)>>
    BY DEF Begin
  <1> DEFINE f == Root(a)
  <1>2. a \in Ann
    BY AnnsRead
  <1>3. /\ stack = <<>> /\ depth' = 0 /\ descents' = 0 /\ held' = 0
        /\ aliases' = <<>> /\ classes' = <<>>
    BY DEF Begin, ScopeTaken
  <1>4. f = RootOf(a, depth, descents, held, aliases, classes, defs)
    BY DEF Root, RootOf
  <1>5. Thread(stack, depth, aliases, classes) /\ Idles(depth, descents, held) /\ defs = <<>>
    BY <1>3 DEF Scopes
  <1> HIDE DEF f
  <1>6. Thread(stack \o <<f, Start(a)>>, 0, <<>>, <<>>) /\ stack \o <<f, Start(a)>> # <<>>
    BY <1>2, <1>4, <1>5, ThreadCallsBuild
  <1>7. stack \o <<f, Start(a)>> = <<f, Start(a)>>
    BY <1>3
  <1>8. Thread(stack', depth', aliases', classes') /\ stack' # <<>>
    BY <1>1, <1>3, <1>6, <1>7 DEF f
  <1>9. Idles(depth', descents', held')
    BY <1>3 DEF Idles
  <1>10. QED BY <1>8, <1>9 DEF Scopes

LEMMA ScopesUnchanged == ASSUME Scopes, UNCHANGED vars PROVE Scopes'
  BY DEF Scopes, vars

LEMMA TokensCounted == ASSUME tokens \in Nat, [Next]_vars PROVE tokens' \in Nat
  <1>1. tokens' = tokens \/ tokens' = tokens + 1
    BY DEF Next, Step, Begin, Enter, ReadScalar, ReadValidator, ReadRefused, ReadParts, BuildPart,
           PartReturn, PartsBuilt, EnterClass, Evaluate, Evaluated, AliasAgain, OpenTheAlias,
           BodyReturn, RootReturn, vars
  <1>2. QED BY <1>1

(* What each part of the stack ought to have left is what `Left` reads.    *)
LEMMA LeftIsStacked ==
    ASSUME NEW X, NEW L, Stacked(X, stack, L)
    PROVE  \A n \in 0 .. Len(stack) : Left[n] = L[n]
  <1> DEFINE m == Len(stack)
             F(g) == [n \in 0 .. m |-> IF n = 0 \/ stack[n].pc = "root" THEN Nothing
                                       ELSE With(g[n - 1], stack[n])]
             G == [n \in 0 .. m |-> L[n]]
  <1>1. m \in Nat
    BY DEF Stacked
  <1>2. G = F(G)
    <2> SUFFICES ASSUME NEW n \in 0 .. m PROVE G[n] = F(G)[n]
      OBVIOUS
    <2>1. CASE n = 0
      BY <1>1, <2>1 DEF Stacked
    <2>2. CASE n # 0
      <3>1. n \in 1 .. m /\ n - 1 \in 0 .. m
        BY <1>1, <2>2
      <3>2. G[n] = L[n] /\ G[n - 1] = L[n - 1]
        BY <3>1
      <3>3. F(G)[n] = IF stack[n].pc = "root" THEN Nothing ELSE With(G[n - 1], stack[n])
        BY <2>2
      <3> HIDE DEF G, F
      <3>4. QED BY <3>1, <3>2, <3>3 DEF Stacked
    <2>3. QED BY <2>1, <2>2
  <1>3. Left = CHOOSE g : g = F(g)
    BY DEF Left
  <1> HIDE DEF F
  <1>4. Left = F(Left)
    BY <1>2, <1>3
  <1> DEFINE T == {n \in Nat : n <= m => Left[n] = L[n]}
  <1>5. 0 \in T
    <2>1. Left[0] = Nothing
      BY <1>1, <1>4 DEF F
    <2>2. QED BY <2>1 DEF Stacked
  <1>6. ASSUME NEW n \in T PROVE n + 1 \in T
    <2> SUFFICES ASSUME n + 1 <= m PROVE Left[n + 1] = L[n + 1]
      OBVIOUS
    <2> DEFINE k == n + 1
    <2>1. k \in 1 .. m /\ k \in 0 .. m /\ k # 0 /\ k - 1 = n /\ Left[n] = L[n]
      BY <1>1
    <2> HIDE DEF k, T
    <2>2. Left[k] = IF k = 0 \/ stack[k].pc = "root" THEN Nothing ELSE With(Left[k - 1], stack[k])
      BY <1>4, <2>1 DEF F
    <2>3. Left[k] = L[k]
      BY <2>1, <2>2 DEF Stacked
    <2>4. QED BY <2>3 DEF k
  <1>7. T = Nat
    <2>1. T \in SUBSET Nat
      OBVIOUS
    <2> HIDE DEF T
    <2>2. QED BY <1>5, <1>6, <2>1, EveryNumber
  <1>8. QED BY <1>1, <1>7

LEMMA ScopesAreLeft == ASSUME Scopes PROVE ScopesMatch
  <1>1. PICK X, left : Leaving(X, stack, left) /\ Found(left, depth, aliases, classes)
    BY DEF Scopes, Thread, Has
  <1>2. PICK L : Stacked(X, stack, L) /\ L[Len(stack)] = left
    BY <1>1 DEF Leaving
  <1>3. Len(stack) \in Nat /\ DOMAIN stack = 1 .. Len(stack)
    BY <1>2 DEF Stacked
  <1>4. \A n \in 0 .. Len(stack) : L[n] \in Lefts /\ Left[n] = L[n]
    BY <1>2, LeftIsStacked DEF Stacked
  <1>5. ASSUME NEW n \in 0 .. Len(stack), NEW d, NEW al, NEW cs, Found(L[n], d, al, cs)
        PROVE  LeftBy(n, d, al, cs)
    <2>1. L[n].depth = d /\ L[n].aliases = Tags(al) /\ L[n].classes = cs
      BY <1>5 DEF Found
    <2>2. L[n] = [depth |-> L[n].depth, aliases |-> L[n].aliases, classes |-> L[n].classes]
      BY <1>4 DEF Lefts
    <2>3. QED BY <1>4, <2>1, <2>2 DEF LeftBy
  <1>6. LeftBy(Len(stack), depth, aliases, classes)
    BY <1>1, <1>2, <1>3, <1>5
  <1>7. ASSUME NEW i \in DOMAIN stack, stack[i].pc = "root"
        PROVE  LeftBy(i - 1, stack[i].saved.depth, stack[i].saved.aliases, stack[i].saved.classes)
    <2>1. i \in 1 .. Len(stack) /\ i - 1 \in 0 .. Len(stack)
      BY <1>3
    <2>2. FoundAgain(L[i - 1], stack[i])
      BY <1>2, <1>7, <2>1 DEF Stacked
    <2>3. QED BY <1>5, <2>1, <2>2 DEF FoundAgain
  <1>8. (depth = 0 => held = 0 /\ descents = 0) /\ (stack = <<>> => defs = <<>>)
    BY DEF Scopes, Idles
  <1>9. QED BY <1>6, <1>7, <1>8 DEF ScopesMatch

LEMMA ScopesInInit == Init => ScopesInv
  <1> SUFFICES ASSUME Init PROVE ScopesInv
    OBVIOUS
  <1>1. /\ stack = <<>> /\ depth = 0 /\ aliases = <<>> /\ classes = <<>> /\ defs = <<>>
        /\ descents = 0 /\ held = 0 /\ tokens = 0
    BY DEF Init
  <1>2. Leaving({}, <<>>, Nothing) /\ Found(Nothing, 0, <<>>, <<>>)
    BY LeavingNothing DEF Found, Nothing, Tags
  <1>3. Thread(<<>>, 0, <<>>, <<>>)
    BY <1>2 DEF Thread, Has
  <1>4. QED BY <1>1, <1>3 DEF ScopesInv, Scopes, Idles

LEMMA ScopesInductive == ScopesInv /\ [Next]_vars => ScopesInv'
  <1> SUFFICES ASSUME Scopes, tokens \in Nat, [Next]_vars PROVE Scopes'
    BY TokensCounted DEF ScopesInv
  <1>1. CASE Begin
    BY <1>1, BeginKeeps
  <1>2. CASE Enter
    BY <1>2, EnterKeeps
  <1>3. CASE ReadScalar
    BY <1>3, ReadScalarKeeps
  <1>4. CASE ReadValidator
    BY <1>4, ReadValidatorKeeps
  <1>5. CASE ReadRefused
    BY <1>5, ReadRefusedKeeps
  <1>6. CASE ReadParts
    BY <1>6, ReadPartsKeeps
  <1>7. CASE BuildPart
    BY <1>7, BuildPartKeeps
  <1>8. CASE PartReturn
    BY <1>8, PartReturnKeeps
  <1>9. CASE PartsBuilt
    BY <1>9, PartsBuiltKeeps
  <1>10. CASE EnterClass
    BY <1>10, EnterClassKeeps
  <1>11. CASE Evaluate
    BY <1>11, EvaluateKeeps
  <1>12. CASE Evaluated
    BY <1>12, EvaluatedKeeps
  <1>13. CASE AliasAgain
    BY <1>13, AliasAgainKeeps
  <1>14. CASE OpenTheAlias
    BY <1>14, OpenTheAliasKeeps
  <1>15. CASE BodyReturn
    BY <1>15, BodyReturnKeeps
  <1>16. CASE RootReturn
    BY <1>16, RootReturnKeeps
  <1>17. CASE UNCHANGED vars
    BY <1>17, ScopesUnchanged
  <1>18. QED BY <1>1, <1>2, <1>3, <1>4, <1>5, <1>6, <1>7, <1>8, <1>9, <1>10, <1>11, <1>12, <1>13,
               <1>14, <1>15, <1>16, <1>17 DEF Next, Step

(* Whatever returns early, and whatever builds are begun inside a build:   *)
(* the depth is the descents open, the aliases and the classes open are    *)
(* those being built, and each build hands back to the thread what it      *)
(* found there.                                                            *)
THEOREM ScopesLeftAsFound == Spec => []ScopesMatch
  <1>1. ScopesInv => ScopesMatch
    BY ScopesAreLeft DEF ScopesInv
  <1>2. QED BY <1>1, ScopesInInit, ScopesInductive, PTL DEF Spec

-----------------------------------------------------------------------------
(* A function of numbers defined by its value before.                      *)

\* f is a at lo, and what g makes of the value before it at each number of D past lo.
Stepped(f, D, lo, a, g) == f = [n \in D |-> IF n = lo THEN a ELSE g[<<n, f[n - 1]>>]]
\* D is the numbers from lo on, up to some number or without end.
From(D, lo) == D \in SUBSET Nat /\ lo \in D /\ \A n \in D : n # lo => n - 1 \in D /\ lo <= n - 1
SteppedTo(f, D, lo, a, g, m) == \A n \in D : n <= m => f[n] = IF n = lo THEN a ELSE g[<<n, f[n - 1]>>]

LEMMA SteppedAgree ==
    ASSUME NEW D, NEW lo, From(D, lo), NEW a, NEW g, NEW m \in Nat, NEW k \in Nat, NEW f, NEW h,
           SteppedTo(f, D, lo, a, g, m), SteppedTo(h, D, lo, a, g, k)
    PROVE  \A n \in D : n <= m /\ n <= k => f[n] = h[n]
  <1> DEFINE T == {n \in Nat : \A j \in D : j <= n /\ j <= m /\ j <= k => f[j] = h[j]}
  <1>1. 0 \in T
    <2> SUFFICES ASSUME NEW j \in D, j <= 0, j <= m, j <= k PROVE f[j] = h[j]
      OBVIOUS
    <2>1. j = lo
      BY DEF From
    <2>2. QED BY <2>1 DEF SteppedTo
  <1>2. ASSUME NEW n \in T PROVE n + 1 \in T
    <2> SUFFICES ASSUME NEW j \in D, j <= n + 1, j <= m, j <= k PROVE f[j] = h[j]
      OBVIOUS
    <2>1. CASE j = lo
      BY <2>1 DEF SteppedTo
    <2>2. CASE j # lo
      <3>1. j - 1 \in D /\ j - 1 <= n /\ j - 1 <= m /\ j - 1 <= k
        BY <2>2 DEF From
      <3>2. f[j - 1] = h[j - 1]
        BY <3>1
      <3>3. QED BY <2>2, <3>2 DEF SteppedTo
    <2>3. QED BY <2>1, <2>2
  <1> HIDE DEF T
  <1>3. T = Nat
    <2>1. T \in SUBSET Nat
      BY DEF T
    <2>2. QED BY <1>1, <1>2, <2>1, EveryNumber
  <1>4. QED
    <2> SUFFICES ASSUME NEW n \in D, n <= m, n <= k PROVE f[n] = h[n]
      OBVIOUS
    <2>1. n \in T /\ n <= n
      BY <1>3 DEF From
    <2>2. QED BY <2>1 DEF T

LEMMA SteppedExists ==
    ASSUME NEW D, NEW lo, From(D, lo), NEW V, NEW a \in V, NEW g,
           \A n \in D : n # lo => \A v \in V : g[<<n, v>>] \in V
    PROVE  \E f : Stepped(f, D, lo, a, g) /\ \A n \in D : f[n] \in V
  <1> DEFINE Upto(m) == {n \in D : n <= m}
             Some(h, m) == h \in [Upto(m) -> V]
                           /\ \A n \in Upto(m) : h[n] = IF n = lo THEN a ELSE g[<<n, h[n - 1]>>]
             T == {m \in Nat : \E h : Some(h, m)}
  <1>1. 0 \in T
    <2> DEFINE h == [n \in Upto(0) |-> a]
    <2>1. \A n \in Upto(0) : n = lo
      <3> SUFFICES ASSUME NEW n \in D, n <= 0, n # lo PROVE FALSE
        OBVIOUS
      <3>1. n \in Nat /\ lo \in Nat /\ lo <= n - 1
        BY DEF From
      <3>2. QED BY <3>1
    <2>2. Some(h, 0)
      BY <2>1
    <2>3. QED BY <2>2
  <1>2. ASSUME NEW m \in T PROVE m + 1 \in T
    <2>1. PICK h : Some(h, m)
      OBVIOUS
    <2> DEFINE k == [n \in Upto(m + 1) |-> IF n <= m THEN h[n] ELSE IF n = lo THEN a ELSE g[<<n, h[n - 1]>>]]
    <2>2. ASSUME NEW n \in Upto(m + 1)
          PROVE  k[n] \in V /\ k[n] = IF n = lo THEN a ELSE g[<<n, k[n - 1]>>]
      <3>1. CASE n = lo
        BY <2>1, <3>1
      <3>2. CASE n # lo
        <4>0. n \in D /\ n - 1 \in D /\ n \in Nat /\ n <= m + 1 /\ m \in Nat
          BY <3>2 DEF From
        <4>1. n - 1 \in Upto(m) /\ n - 1 \in Upto(m + 1) /\ n - 1 <= m /\ n \in D
          BY <4>0
        <4>2. k[n - 1] = h[n - 1] /\ h[n - 1] \in V
          BY <2>1, <4>1
        <4>3. k[n] = g[<<n, h[n - 1]>>]
          <5>1. CASE n <= m
            BY <2>1, <3>2, <5>1
          <5>2. CASE ~(n <= m)
            BY <3>2, <5>2
          <5>3. QED BY <5>1, <5>2
        <4>4. QED BY <3>2, <4>1, <4>2, <4>3
      <3>3. QED BY <3>1, <3>2
    <2>3. Some(k, m + 1)
      <3> HIDE DEF k
      <3>1. k = [n \in Upto(m + 1) |-> k[n]]
        BY DEF k
      <3>2. QED BY <2>2, <3>1
    <2> HIDE DEF k, Some
    <2>4. QED BY <2>3
  <1>3. T = Nat
    <2> HIDE DEF Some
    <2>1. T \in SUBSET Nat
      OBVIOUS
    <2> HIDE DEF T
    <2>2. QED BY <1>1, <1>2, <2>1, EveryNumber
  <1> DEFINE at == [m \in Nat |-> CHOOSE h : Some(h, m)]
             f  == [n \in D |-> at[n][n]]
  <1>4. \A m \in Nat : Some(at[m], m)
    <2> HIDE DEF Some
    <2>1. \A m \in Nat : \E h : Some(h, m)
      BY <1>3
    <2>2. QED BY <2>1
  <1>5. ASSUME NEW n \in D PROVE f[n] \in V /\ f[n] = IF n = lo THEN a ELSE g[<<n, f[n - 1]>>]
    <2>0. n \in Nat
      BY DEF From
    <2>1. n \in Nat /\ n \in Upto(n) /\ f[n] = at[n][n] /\ Some(at[n], n)
      <3> HIDE DEF at, Some
      <3>1. QED BY <1>4, <2>0
    <2>2. f[n] \in V /\ f[n] = IF n = lo THEN a ELSE g[<<n, at[n][n - 1]>>]
      BY <2>1
    <2>3. CASE n # lo
      <3>1. n - 1 \in Nat /\ n - 1 \in D /\ n - 1 <= n - 1 /\ n - 1 <= n
        BY <2>1, <2>3 DEF From
      <3>2. Some(at[n - 1], n - 1) /\ f[n - 1] = at[n - 1][n - 1]
        BY <1>4, <3>1
      <3>3. /\ \A j \in D : j <= n => at[n][j] = IF j = lo THEN a ELSE g[<<j, at[n][j - 1]>>]
            /\ \A j \in D : j <= n - 1 => at[n - 1][j] = IF j = lo THEN a ELSE g[<<j, at[n - 1][j - 1]>>]
        <4> HIDE DEF at, f
        <4>1. QED BY <2>1, <3>2
      <3>4. at[n][n - 1] = at[n - 1][n - 1]
        <4> HIDE DEF at, f, Some, Upto
        <4> DEFINE u == at[n]
                   v == at[n - 1]
                   k == n - 1
        <4>0. /\ k \in Nat
              /\ SteppedTo(u, D, lo, a, g, n)
              /\ SteppedTo(v, D, lo, a, g, k)
          BY <3>1, <3>3 DEF SteppedTo
        <4> HIDE DEF u, v, k
        <4>2. \A j \in D : j <= n /\ j <= k => u[j] = v[j]
          BY <2>0, <4>0, SteppedAgree
        <4> USE DEF u, v, k
        <4>3. \A j \in D : j <= n /\ j <= n - 1 => at[n][j] = at[n - 1][j]
          BY <4>2
        <4>4. QED BY <3>1, <4>3
      <3>5. f[n - 1] = at[n][n - 1]
        <4> HIDE DEF at, f, Some
        <4>1. QED BY <3>2, <3>4
      <3> HIDE DEF at, f, Some
      <3>6. QED BY <2>2, <3>5
    <2>4. QED BY <2>2, <2>3
  <1>6. Stepped(f, D, lo, a, g)
    <2> HIDE DEF at
    <2>1. f = [n \in D |-> f[n]]
      OBVIOUS
    <2> HIDE DEF f
    <2>2. QED BY <1>5, <2>1 DEF Stepped
  <1>7. QED BY <1>5, <1>6

-----------------------------------------------------------------------------
(* What names reach.                                                       *)

\* C holds what each of its members names.
Shut(C, names) == \A d \in C : d \in DOMAIN names => names[d] \in SUBSET C
\* The sets a Closure is read by: what was met, and what that names.
NamedBy(met, names) == UNION {names[d] : d \in met \cap DOMAIN names}

ReachedBy(r, from, names) ==
    /\ Closure(from, names) = r[Cardinality(DOMAIN names)]
    /\ r[0] = from
    /\ \A n \in Nat : r[n + 1] = r[n] \cup NamedBy(r[n], names)

LEMMA ClosureSteps ==
    ASSUME NEW from, NEW names
    PROVE  \E r : ReachedBy(r, from, names)
  <1> DEFINE V == SUBSET (from \cup UNION {names[d] : d \in DOMAIN names})
             g == [p \in Nat \X V |-> p[2] \cup NamedBy(p[2], names)]
             reach == CHOOSE r : r = [n \in Nat |-> IF n = 0 THEN from
                                                    ELSE LET met == r[n - 1] IN met \cup UNION {names[d] : d \in met \cap DOMAIN names}]
  <1>1. \A n \in Nat : \A v \in V : g[<<n, v>>] = v \cup NamedBy(v, names) /\ g[<<n, v>>] \in V
    BY DEF NamedBy
  <1>2. PICK f : Stepped(f, Nat, 0, from, g) /\ \A n \in Nat : f[n] \in V
    <2>1. From(Nat, 0)
      BY DEF From
    <2>2. from \in V
      OBVIOUS
    <2>3. \A n \in Nat : n # 0 => \A v \in V : g[<<n, v>>] \in V
      BY <1>1
    <2> HIDE DEF V, g
    <2>4. QED BY <2>1, <2>2, <2>3, SteppedExists
  <1> HIDE DEF V, g
  <1>3. f = [n \in Nat |-> IF n = 0 THEN from ELSE LET met == f[n - 1] IN met \cup UNION {names[d] : d \in met \cap DOMAIN names}]
    <2>1. f = [n \in Nat |-> IF n = 0 THEN from ELSE g[<<n, f[n - 1]>>]]
      BY <1>2 DEF Stepped
    <2>2. \A n \in Nat : n # 0 => g[<<n, f[n - 1]>>] = f[n - 1] \cup UNION {names[d] : d \in f[n - 1] \cap DOMAIN names}
      <3> SUFFICES ASSUME NEW n \in Nat, n # 0
                   PROVE  g[<<n, f[n - 1]>>] = f[n - 1] \cup UNION {names[d] : d \in f[n - 1] \cap DOMAIN names}
        OBVIOUS
      <3>1. n - 1 \in Nat
        OBVIOUS
      <3>2. f[n - 1] \in V
        BY <1>2, <3>1
      <3>3. QED BY <1>1, <3>2 DEF NamedBy
    <2>3. QED BY <2>1, <2>2
  <1>4. reach = [n \in Nat |-> IF n = 0 THEN from ELSE LET met == reach[n - 1] IN met \cup UNION {names[d] : d \in met \cap DOMAIN names}]
    BY <1>3
  <1>5. Closure(from, names) = reach[Cardinality(DOMAIN names)]
    BY DEF Closure
  <1> HIDE DEF reach
  <1>6. reach[0] = from
    BY <1>4
  <1>7. ASSUME NEW n \in Nat PROVE reach[n + 1] = reach[n] \cup NamedBy(reach[n], names)
    <2>1. n + 1 \in Nat /\ n + 1 # 0 /\ (n + 1) - 1 = n
      OBVIOUS
    <2>2. reach[n + 1] = reach[(n + 1) - 1] \cup UNION {names[d] : d \in reach[(n + 1) - 1] \cap DOMAIN names}
      BY <1>4, <2>1
    <2>3. QED BY <2>1, <2>2 DEF NamedBy
  <1>8. ReachedBy(reach, from, names)
    BY <1>5, <1>6, <1>7 DEF ReachedBy
  <1>9. QED BY <1>8

(* A closure holds what it is from and what its members name, and is the least such set. *)
LEMMA ClosureIs ==
    ASSUME NEW from, NEW names, IsFiniteSet(DOMAIN names)
    PROVE  /\ from \in SUBSET Closure(from, names)
           /\ Shut(Closure(from, names), names)
           /\ \A C : from \in SUBSET C /\ Shut(C, names) => Closure(from, names) \in SUBSET C
  <1>0. PICK r : ReachedBy(r, from, names)
    BY ClosureSteps
  <1>1. /\ Closure(from, names) = r[Cardinality(DOMAIN names)]
        /\ r[0] = from
        /\ \A n \in Nat : r[n + 1] = r[n] \cup NamedBy(r[n], names)
    BY <1>0 DEF ReachedBy
  <1> DEFINE X    == DOMAIN names
             K    == Cardinality(X)
             W(n) == r[n] \cap X
  <1>2. K \in Nat /\ \A S \in SUBSET X : IsFiniteSet(S) /\ Cardinality(S) \in Nat /\ Cardinality(S) <= K
    BY FS_CardinalityType, FS_Subset
  <1>3. ASSUME NEW n \in Nat, Shut(r[n], names) PROVE r[n + 1] = r[n]
    <2>1. r[n + 1] = r[n] \cup NamedBy(r[n], names)
      BY <1>1
    <2>2. NamedBy(r[n], names) \in SUBSET r[n]
      BY <1>3 DEF Shut, NamedBy
    <2>3. QED BY <2>1, <2>2
  <1>4. \A S \in SUBSET X : \A R \in SUBSET S : R # S => Cardinality(R) < Cardinality(S)
    <2> SUFFICES ASSUME NEW S \in SUBSET X, NEW R \in SUBSET S, R # S PROVE Cardinality(R) < Cardinality(S)
      OBVIOUS
    <2>1. IsFiniteSet(S) /\ Cardinality(S) \in Nat /\ Cardinality(R) \in Nat
      BY <1>2
    <2>2. QED BY <2>1, FS_Subset
  <1> DEFINE T == {n \in Nat : Shut(r[n], names) \/ Cardinality(W(n)) >= n + 1}
  <1>5. 0 \in T
    <2>1. CASE W(0) = {}
      BY <2>1 DEF Shut
    <2>2. CASE W(0) # {}
      <3>1. Cardinality(W(0)) # 0
        BY <1>2, <2>2, FS_EmptySet
      <3>2. Cardinality(W(0)) \in Nat
        BY <1>2
      <3>3. QED BY <3>1, <3>2
    <2>3. QED BY <2>1, <2>2
  <1>6. ASSUME NEW n \in T PROVE n + 1 \in T
    <2>0. n \in Nat /\ n + 1 \in Nat
      OBVIOUS
    <2>1. CASE Shut(r[n], names)
      BY <1>3, <2>0, <2>1
    <2>2. CASE ~Shut(r[n], names) /\ W(n + 1) = W(n)
      <3>1. r[n + 1] = r[n] \cup NamedBy(r[n], names)
        BY <1>1, <2>0
      <3>2. Shut(r[n + 1], names)
        BY <2>2, <3>1 DEF Shut, NamedBy
      <3>3. QED BY <2>0, <3>2
    <2>3. CASE ~Shut(r[n], names) /\ W(n + 1) # W(n)
      <3>1. W(n) \in SUBSET W(n + 1)
        BY <1>1, <2>0
      <3>2. Cardinality(W(n)) < Cardinality(W(n + 1)) /\ Cardinality(W(n + 1)) \in Nat /\ Cardinality(W(n)) \in Nat
        BY <1>2, <1>4, <2>3, <3>1
      <3>3. Cardinality(W(n)) >= n + 1
        BY <2>3
      <3>4. QED BY <2>0, <3>2, <3>3
    <2>4. QED BY <2>1, <2>2, <2>3
  <1> HIDE DEF T
  <1>7. T = Nat
    <2>1. T \in SUBSET Nat
      BY DEF T
    <2>2. QED BY <1>5, <1>6, <2>1, EveryNumber
  <1>8. Shut(r[K], names)
    <2>1. K \in T /\ Cardinality(W(K)) <= K /\ Cardinality(W(K)) \in Nat
      BY <1>2, <1>7
    <2>2. Shut(r[K], names) \/ Cardinality(W(K)) >= K + 1
      BY <2>1 DEF T
    <2>3. QED BY <1>2, <2>1, <2>2
  <1> DEFINE U == {n \in Nat : from \in SUBSET r[n]}
  <1>9. U = Nat
    <2>1. 0 \in U /\ \A n \in U : n + 1 \in U
      BY <1>1
    <2>2. U \in SUBSET Nat
      OBVIOUS
    <2> HIDE DEF U
    <2>3. QED BY <2>1, <2>2, EveryNumber
  <1>10. ASSUME NEW C, from \in SUBSET C, Shut(C, names) PROVE r[K] \in SUBSET C
    <2> DEFINE V == {n \in Nat : r[n] \in SUBSET C}
    <2>1. 0 \in V
      BY <1>1, <1>10
    <2>2. ASSUME NEW n \in V PROVE n + 1 \in V
      <3>1. r[n + 1] = r[n] \cup NamedBy(r[n], names)
        BY <1>1
      <3>2. NamedBy(r[n], names) \in SUBSET C
        BY <1>10 DEF NamedBy, Shut
      <3>3. QED BY <3>1, <3>2
    <2>3. V \in SUBSET Nat
      OBVIOUS
    <2> HIDE DEF V
    <2>4. V = Nat
      BY <2>1, <2>2, <2>3, EveryNumber
    <2>5. QED BY <1>2, <2>4 DEF V
  <1>11. from \in SUBSET r[K]
    BY <1>2, <1>9
  <1>12. QED BY <1>1, <1>8, <1>10, <1>11

LEMMA ClosureMore ==
    ASSUME NEW from, NEW names, IsFiniteSet(DOMAIN names), NEW begin, NEW more, IsFiniteSet(DOMAIN more),
           from \in SUBSET begin, DOMAIN names \in SUBSET DOMAIN more,
           \A d \in DOMAIN names : names[d] \in SUBSET more[d]
    PROVE  Closure(from, names) \in SUBSET Closure(begin, more)
  <1> DEFINE C == Closure(begin, more)
  <1>1. begin \in SUBSET C /\ Shut(C, more)
    BY ClosureIs
  <1> HIDE DEF C
  <1>2. from \in SUBSET C /\ Shut(C, names)
    BY <1>1 DEF Shut
  <1>3. Closure(from, names) \in SUBSET C
    BY <1>2, ClosureIs
  <1>4. QED BY <1>3 DEF C

(* What is reached is reached from one of those it is reached from.        *)
LEMMA ClosureOfOne ==
    ASSUME NEW from, NEW names, IsFiniteSet(DOMAIN names), NEW x \in Closure(from, names)
    PROVE  \E s \in from : x \in Closure({s}, names)
  <1> DEFINE C == UNION {Closure({s}, names) : s \in from}
  <1>1. \A s : {s} \in SUBSET Closure({s}, names) /\ Shut(Closure({s}, names), names)
    BY ClosureIs
  <1>2. from \in SUBSET C
    BY <1>1
  <1>3. Shut(C, names)
    <2> SUFFICES ASSUME NEW d \in C, d \in DOMAIN names PROVE names[d] \in SUBSET C
      BY DEF Shut
    <2>1. PICK s \in from : d \in Closure({s}, names)
      OBVIOUS
    <2>2. names[d] \in SUBSET Closure({s}, names)
      BY <1>1, <2>1 DEF Shut
    <2>3. QED BY <2>1, <2>2
  <1> HIDE DEF C
  <1>4. Closure(from, names) \in SUBSET C
    BY <1>2, <1>3, ClosureIs
  <1>5. QED BY <1>4 DEF C

LEMMA ClosureWithin ==
    ASSUME NEW from, NEW names, IsFiniteSet(DOMAIN names), NEW S \in SUBSET Closure(from, names)
    PROVE  Closure(S, names) \in SUBSET Closure(from, names)
  <1>1. Shut(Closure(from, names), names)
    BY ClosureIs
  <1>2. QED BY <1>1, ClosureIs

LEMMA ClosureOfNone ==
    ASSUME NEW names, IsFiniteSet(DOMAIN names)
    PROVE  Closure({}, names) = {}
  <1>1. Shut({}, names)
    BY DEF Shut
  <1>2. Closure({}, names) \in SUBSET {}
    BY <1>1, ClosureIs
  <1>3. QED BY <1>2

LEMMA ClosureFromOne ==
    ASSUME NEW b, NEW names, IsFiniteSet(DOMAIN names)
    PROVE  Closure({b}, names) = {b} \cup (IF b \in DOMAIN names THEN Closure(names[b], names) ELSE {})
  <1> DEFINE C == Closure({b}, names)
             N == Closure(names[b], names)
  <1>1. b \in C /\ Shut(C, names)
    BY ClosureIs
  <1>2. names[b] \in SUBSET N /\ Shut(N, names)
    BY ClosureIs
  <1>3. ASSUME b \notin DOMAIN names PROVE C \in SUBSET {b}
    <2>1. Shut({b}, names)
      BY <1>3 DEF Shut
    <2>2. QED BY <2>1, ClosureIs
  <1>4. ASSUME b \in DOMAIN names PROVE C \in SUBSET ({b} \cup N) /\ N \in SUBSET C
    <2>1. Shut({b} \cup N, names)
      <3> HIDE DEF N
      <3>1. QED BY <1>2 DEF Shut
    <2>2. C \in SUBSET ({b} \cup N)
      BY <2>1, ClosureIs
    <2>3. names[b] \in SUBSET C
      BY <1>1, <1>4 DEF Shut
    <2>4. QED BY <2>2, <2>3, ClosureWithin
  <1> HIDE DEF C, N
  <1>5. C = {b} \cup (IF b \in DOMAIN names THEN N ELSE {})
    BY <1>1, <1>3, <1>4
  <1>6. QED BY <1>5 DEF C, N

(* What is reached is told by what those reached name.                     *)
LEMMA ClosureAlike ==
    ASSUME NEW from, NEW names, IsFiniteSet(DOMAIN names), NEW more, IsFiniteSet(DOMAIN more),
           \A d \in Closure(from, names) : /\ d \in DOMAIN names <=> d \in DOMAIN more
                                           /\ d \in DOMAIN names => more[d] = names[d]
    PROVE  Closure(from, more) = Closure(from, names)
  <1> DEFINE C == Closure(from, names)
             M == Closure(from, more)
  <1>1. /\ from \in SUBSET C /\ Shut(C, names)
        /\ from \in SUBSET M /\ Shut(M, more)
    BY ClosureIs
  <1>2. \A d \in C : /\ d \in DOMAIN names <=> d \in DOMAIN more
                     /\ d \in DOMAIN names => more[d] = names[d]
    OBVIOUS
  <1>3. M \in SUBSET C
    <2> HIDE DEF C
    <2>1. Shut(C, more)
      BY <1>1, <1>2 DEF Shut
    <2>2. QED BY <1>1, <2>1, ClosureIs
  <1>4. C \in SUBSET M
    <2> DEFINE D == C \cap M
    <2>1. from \in SUBSET D
      BY <1>1
    <2>2. Shut(D, names)
      <3> HIDE DEF C, M
      <3>1. QED BY <1>1, <1>2 DEF Shut
    <2> HIDE DEF D
    <2>3. Closure(from, names) \in SUBSET D
      BY <2>1, <2>2, ClosureIs
    <2>4. QED BY <2>3 DEF D
  <1>5. QED BY <1>3, <1>4

\* more has what names has, and what p names.
OneMore(names, p, more) ==
    /\ DOMAIN more = DOMAIN names \cup {p} /\ p \notin DOMAIN names
    /\ \A d \in DOMAIN names : more[d] = names[d]

LEMMA ClosureNotThrough ==
    ASSUME NEW from, NEW names, IsFiniteSet(DOMAIN names), NEW p, NEW more, OneMore(names, p, more),
           p \notin Closure(from, names)
    PROVE  Closure(from, more) = Closure(from, names)
  <1>1. IsFiniteSet(DOMAIN more)
    BY FS_AddElement DEF OneMore
  <1>2. \A d \in Closure(from, names) : /\ d \in DOMAIN names <=> d \in DOMAIN more
                                        /\ d \in DOMAIN names => more[d] = names[d]
    BY DEF OneMore
  <1>3. QED BY <1>1, <1>2, ClosureAlike

LEMMA ClosureThrough ==
    ASSUME NEW from, NEW names, IsFiniteSet(DOMAIN names), NEW p, NEW more, OneMore(names, p, more)
    PROVE  Closure(from, more) \in SUBSET (Closure(from, names) \cup Closure(more[p], names))
  <1> DEFINE C == Closure(from, names)
             N == Closure(more[p], names)
  <1>1. /\ from \in SUBSET C /\ Shut(C, names)
        /\ more[p] \in SUBSET N /\ Shut(N, names)
    BY ClosureIs
  <1>2. IsFiniteSet(DOMAIN more)
    BY FS_AddElement DEF OneMore
  <1> HIDE DEF C, N
  <1>3. from \in SUBSET (C \cup N)
    BY <1>1
  <1>4. Shut(C \cup N, more)
    <2> SUFFICES ASSUME NEW d \in C \cup N, d \in DOMAIN more PROVE more[d] \in SUBSET (C \cup N)
      BY DEF Shut
    <2>1. CASE d = p
      BY <1>1, <2>1
    <2>2. CASE d # p
      <3>1. d \in DOMAIN names /\ more[d] = names[d]
        BY <2>2 DEF OneMore
      <3>2. QED BY <1>1, <3>1 DEF Shut
    <2>3. QED BY <2>1, <2>2
  <1>5. Closure(from, more) \in SUBSET (C \cup N)
    BY <1>2, <1>3, <1>4, ClosureIs
  <1>6. QED BY <1>5 DEF C, N

\* What each annotation names, those of A not read any further.
BareBut(A)  == [c \in Ann \ A |-> BareOf[c]]
PartsBut(A) == [c \in Ann \ A |-> PartsOf[c]]
BareReach(b, A) == Closure({b}, BareBut(A))
Reach(b, A)     == Closure({b}, PartsBut(A))

IsAlias(a) == Reading[a].kind = "alias"

\* Nothing b reaches, the aliases of A left open, is without end or not contractive.
Tame(b, A) == \A c \in Reach(b, A) :
    /\ c \notin WritesIn[c]
    /\ IsAlias(c) /\ c \notin A => c \notin Closure(BareOf[c], BareBut(A))

Opens(A) == A \in SUBSET Ann /\ \A p \in A : IsAlias(p)

LEMMA PartsAre ==
    ASSUME NEW a \in Ann
    PROVE  /\ PartsOf[a] \in SUBSET Ann
           /\ BareOf[a] = IF Reading[a].kind \in {"alias", "newtype", "join"} THEN PartsOf[a] ELSE {}
           /\ WrittenOut[a] = IF IsAlias(a) THEN {} ELSE PartsOf[a]
           /\ Reading[a].kind \in Kinds /\ Reading[a].parts \in Seq(Ann)
           /\ PartsOf[a] = {Reading[a].parts[k] : k \in 1 .. Len(Reading[a].parts)}
           /\ Reading[a].name \in STRING /\ Reading[a].runs \in Ann \cup {NoAnn} /\ Reading[a].whole \in Nat
  <1>1. /\ Reading[a].kind \in Kinds /\ Reading[a].parts \in Seq(Ann)
        /\ Reading[a].name \in STRING /\ Reading[a].runs \in Ann \cup {NoAnn} /\ Reading[a].whole \in Nat
    BY AnnsRead
  <1>2. PartsOf[a] = {Reading[a].parts[k] : k \in 1 .. Len(Reading[a].parts)}
    BY <1>1 DEF PartsOf, ToSet
  <1>3. PartsOf[a] \in SUBSET Ann
    BY <1>1, <1>2
  <1>4. BareOf[a] = IF Reading[a].kind \in {"alias", "newtype", "join"} THEN PartsOf[a] ELSE {}
    BY Zenon DEF BareOf
  <1>5. WrittenOut[a] = IF IsAlias(a) THEN {} ELSE PartsOf[a]
    BY Zenon DEF WrittenOut, IsAlias
  <1>6. QED BY <1>1, <1>2, <1>3, <1>4, <1>5

LEMMA GraphsAre ==
    /\ DOMAIN PartsOf = Ann /\ DOMAIN BareOf = Ann /\ DOMAIN WrittenOut = Ann
    /\ \A A : /\ DOMAIN BareBut(A) = Ann \ A /\ DOMAIN PartsBut(A) = Ann \ A
              /\ IsFiniteSet(Ann \ A)
              /\ \A c \in Ann \ A : BareBut(A)[c] = BareOf[c] /\ PartsBut(A)[c] = PartsOf[c]
    /\ \A a \in Ann : /\ Names[a] = Closure(PartsOf[a], PartsOf)
                      /\ BareName[a] = Closure(BareOf[a], BareOf)
                      /\ WritesIn[a] = Closure(WrittenOut[a], WrittenOut)
  <1>1. DOMAIN PartsOf = Ann /\ DOMAIN BareOf = Ann /\ DOMAIN WrittenOut = Ann
    BY DEF PartsOf, BareOf, WrittenOut
  <1>2. ASSUME NEW A
        PROVE  /\ DOMAIN BareBut(A) = Ann \ A /\ DOMAIN PartsBut(A) = Ann \ A
               /\ IsFiniteSet(Ann \ A)
               /\ \A c \in Ann \ A : BareBut(A)[c] = BareOf[c] /\ PartsBut(A)[c] = PartsOf[c]
    <2>1. IsFiniteSet(Ann \ A)
      <3>1. Ann \ A \in SUBSET Ann
        OBVIOUS
      <3>2. QED BY <3>1, AnnsAreCounted, FS_Subset
    <2>2. QED BY <2>1 DEF BareBut, PartsBut
  <1>3. ASSUME NEW a \in Ann
        PROVE  /\ Names[a] = Closure(PartsOf[a], PartsOf)
               /\ BareName[a] = Closure(BareOf[a], BareOf)
               /\ WritesIn[a] = Closure(WrittenOut[a], WrittenOut)
    BY Zenon DEF Names, BareName, WritesIn, Reached
  <1>4. QED BY <1>1, <1>2, <1>3

(* An open alias met again is read no further.                             *)
LEMMA TameAgain ==
    ASSUME NEW a \in Ann, IsAlias(a), NEW A, a \in A
    PROVE  Tame(a, A) /\ BareReach(a, A) = {a}
  <1>1. BareReach(a, A) = {a} /\ Reach(a, A) = {a}
    <2>1. a \notin DOMAIN BareBut(A) /\ a \notin DOMAIN PartsBut(A)
      BY GraphsAre
    <2>2. IsFiniteSet(DOMAIN BareBut(A)) /\ IsFiniteSet(DOMAIN PartsBut(A))
      BY GraphsAre
    <2>3. QED BY <2>1, <2>2, ClosureFromOne DEF BareReach, Reach
  <1>2. WritesIn[a] = {}
    <2>1. WritesIn[a] = Closure({}, WrittenOut)
      BY GraphsAre, PartsAre
    <2>2. QED BY <2>1, GraphsAre, AnnsAreCounted, ClosureOfNone
  <1>3. QED BY <1>1, <1>2 DEF Tame

LEMMA TameForm ==
    ASSUME NEW b \in Ann, ~IsAlias(b), NEW A, Opens(A), \A k \in PartsOf[b] : Tame(k, A)
    PROVE  /\ Tame(b, A)
           /\ \A p \in A : p \in BareReach(b, A) <=> \E k \in BareOf[b] : p \in BareReach(k, A)
  <1>1. b \notin A /\ b \in Ann \ A
    BY DEF Opens
  <1>2. /\ IsFiniteSet(DOMAIN BareBut(A)) /\ IsFiniteSet(DOMAIN PartsBut(A)) /\ IsFiniteSet(DOMAIN WrittenOut)
        /\ BareBut(A)[b] = BareOf[b] /\ PartsBut(A)[b] = PartsOf[b]
        /\ b \in DOMAIN BareBut(A) /\ b \in DOMAIN PartsBut(A)
    BY <1>1, GraphsAre, AnnsAreCounted
  <1>3. Reach(b, A) = {b} \cup Closure(PartsOf[b], PartsBut(A))
    BY <1>2, ClosureFromOne DEF Reach
  <1>4. BareReach(b, A) = {b} \cup Closure(BareOf[b], BareBut(A))
    BY <1>2, ClosureFromOne DEF BareReach
  <1>5. \A c \in Closure(PartsOf[b], PartsBut(A)) : \E k \in PartsOf[b] : c \in Reach(k, A)
    BY <1>2, ClosureOfOne DEF Reach
  <1>6. b \notin WritesIn[b]
    <2> SUFFICES ASSUME b \in WritesIn[b] PROVE FALSE
      OBVIOUS
    <2>1. b \in Closure(PartsOf[b], WrittenOut)
      BY GraphsAre, PartsAre
    <2>2. PICK k \in PartsOf[b] : b \in Closure({k}, WrittenOut)
      BY <1>2, <2>1, ClosureOfOne
    <2> DEFINE C == Reach(k, A)
    <2>3. k \in C /\ Shut(C, PartsBut(A))
      BY <1>2, ClosureIs DEF Reach
    <2>4. Shut(C, WrittenOut)
      <3> HIDE DEF C
      <3> SUFFICES ASSUME NEW d \in C, d \in DOMAIN WrittenOut PROVE WrittenOut[d] \in SUBSET C
        BY DEF Shut
      <3>1. d \in Ann
        BY GraphsAre
      <3>2. CASE IsAlias(d)
        BY <3>1, <3>2, PartsAre
      <3>3. CASE ~IsAlias(d)
        <4>1. d \in Ann \ A
          BY <3>1, <3>3 DEF Opens
        <4>2. PartsOf[d] \in SUBSET C
          BY <2>3, <4>1, GraphsAre DEF Shut
        <4>3. QED BY <3>1, <3>3, <4>2, PartsAre
      <3>4. QED BY <3>2, <3>3
    <2>5. b \in C
      <3> HIDE DEF C
      <3>1. Closure({k}, WrittenOut) \in SUBSET C
        BY <1>2, <2>3, <2>4, ClosureIs
      <3>2. QED BY <2>2, <3>1
    <2>6. QED BY <2>5 DEF Tame
  <1>7. Tame(b, A)
    <2> SUFFICES ASSUME NEW c \in Reach(b, A)
                 PROVE  /\ c \notin WritesIn[c]
                        /\ IsAlias(c) /\ c \notin A => c \notin Closure(BareOf[c], BareBut(A))
      BY DEF Tame
    <2>1. CASE c = b
      BY <1>6, <2>1
    <2>2. CASE c # b
      <3>1. PICK k \in PartsOf[b] : c \in Reach(k, A)
        BY <1>3, <1>5, <2>2
      <3>2. QED BY <3>1 DEF Tame
    <2>3. QED BY <2>1, <2>2
  <1>8. ASSUME NEW p \in A PROVE p \in BareReach(b, A) <=> \E k \in BareOf[b] : p \in BareReach(k, A)
    <2>1. p \in BareReach(b, A) <=> p \in Closure(BareOf[b], BareBut(A))
      BY <1>1, <1>4
    <2>2. p \in Closure(BareOf[b], BareBut(A)) => \E k \in BareOf[b] : p \in BareReach(k, A)
      BY <1>2, ClosureOfOne DEF BareReach
    <2>3. ASSUME NEW k \in BareOf[b], p \in BareReach(k, A) PROVE p \in Closure(BareOf[b], BareBut(A))
      <3>1. {k} \in SUBSET Closure(BareOf[b], BareBut(A))
        BY <1>2, ClosureIs
      <3>2. BareReach(k, A) \in SUBSET Closure(BareOf[b], BareBut(A))
        BY <1>2, <3>1, ClosureWithin DEF BareReach
      <3>3. QED BY <2>3, <3>2
    <2>4. QED BY <2>1, <2>2, <2>3
  <1>9. QED BY <1>7, <1>8

(* An alias that closes, its body not naming it outside any constructor.   *)
LEMMA TameClosed ==
    ASSUME NEW p \in Ann, IsAlias(p), NEW body, PartsOf[p] = {body}, NEW A, p \notin A,
           Tame(body, A \cup {p}), p \notin BareReach(body, A \cup {p})
    PROVE  Tame(p, A) /\ BareReach(p, A) = {p} \cup BareReach(body, A \cup {p})
  <1> DEFINE B     == A \cup {p}
             names == BareBut(B)
             more  == BareBut(A)
             parts == PartsBut(B)
             wider == PartsBut(A)
  <1>1. /\ IsFiniteSet(DOMAIN names) /\ IsFiniteSet(DOMAIN more)
        /\ IsFiniteSet(DOMAIN parts) /\ IsFiniteSet(DOMAIN wider)
    BY GraphsAre
  <1>2. BareOf[p] = {body} /\ WrittenOut[p] = {} /\ more[p] = {body} /\ wider[p] = {body}
    BY GraphsAre, PartsAre DEF IsAlias
  <1>3. OneMore(names, p, more) /\ OneMore(parts, p, wider)
    <2>1. Ann \ A = (Ann \ B) \cup {p} /\ p \notin Ann \ B
      OBVIOUS
    <2>2. \A d \in Ann \ B : d \in Ann \ A
      OBVIOUS
    <2>3. /\ DOMAIN names = Ann \ B /\ DOMAIN parts = Ann \ B /\ DOMAIN more = Ann \ A /\ DOMAIN wider = Ann \ A
          /\ \A d \in Ann \ B : names[d] = BareOf[d] /\ parts[d] = PartsOf[d]
          /\ \A d \in Ann \ A : more[d] = BareOf[d] /\ wider[d] = PartsOf[d]
      BY GraphsAre
    <2> HIDE DEF names, more, parts, wider
    <2>4. QED BY <2>1, <2>2, <2>3 DEF OneMore
  <1>4. p \in DOMAIN more /\ p \in DOMAIN wider
    BY GraphsAre
  <1> HIDE DEF names, more, parts, wider
  <1>5. Closure({body}, more) = Closure({body}, names)
    <2>1. p \notin Closure({body}, names)
      BY DEF BareReach, names
    <2>2. QED BY <1>1, <1>3, <2>1, ClosureNotThrough
  <1>6. BareReach(p, A) = {p} \cup BareReach(body, B)
    <2>1. Closure({p}, more) = {p} \cup Closure({body}, more)
      BY <1>1, <1>2, <1>4, ClosureFromOne
    <2>2. QED BY <1>5, <2>1 DEF BareReach, names, more
  <1>7. Reach(p, A) \in SUBSET ({p} \cup Reach(body, B))
    <2>1. Closure({p}, wider) = {p} \cup Closure({body}, wider)
      BY <1>1, <1>2, <1>4, ClosureFromOne
    <2>2. Closure({body}, wider) \in SUBSET (Closure({body}, parts) \cup Closure({body}, parts))
      BY <1>1, <1>2, <1>3, ClosureThrough
    <2>3. QED BY <2>1, <2>2 DEF Reach, parts, wider
  <1>8. Tame(p, A)
    <2> SUFFICES ASSUME NEW c \in Reach(p, A)
                 PROVE  /\ c \notin WritesIn[c]
                        /\ IsAlias(c) /\ c \notin A => c \notin Closure(BareOf[c], more)
      BY DEF Tame, more
    <2>1. CASE c = p
      <3>1. WritesIn[p] = {}
        BY <1>2, GraphsAre, AnnsAreCounted, ClosureOfNone
      <3>2. p \notin Closure(BareOf[p], more)
        BY <1>2, <1>5 DEF BareReach, names
      <3>3. QED BY <2>1, <3>1, <3>2
    <2>2. CASE c # p
      <3>1. c \in Reach(body, B)
        BY <1>7, <2>2
      <3>2. c \notin WritesIn[c]
        BY <3>1 DEF Tame
      <3>3. ASSUME IsAlias(c), c \notin A, c \in Closure(BareOf[c], more) PROVE FALSE
        <4>1. c \notin Closure(BareOf[c], names)
          BY <2>2, <3>1, <3>3 DEF Tame, names
        <4>2. p \in Closure(BareOf[c], names)
          BY <1>1, <1>3, <3>3, <4>1, ClosureNotThrough
        <4>3. c \in Closure({body}, names)
          <5>1. Closure(BareOf[c], more) \in SUBSET (Closure(BareOf[c], names) \cup Closure(more[p], names))
            BY <1>1, <1>3, ClosureThrough
          <5>2. QED BY <1>2, <3>3, <4>1, <5>1
        <4>4. c \in Ann
          <5>1. Shut(Ann, parts)
            <6>1. \A d \in Ann \ B : parts[d] = PartsOf[d] /\ PartsOf[d] \in SUBSET Ann
              BY PartsAre, GraphsAre DEF parts
            <6>2. DOMAIN parts = Ann \ B
              BY GraphsAre DEF parts
            <6>3. QED BY <6>1, <6>2 DEF Shut
          <5>2. {body} \in SUBSET Ann
            BY PartsAre
          <5>3. Closure({body}, parts) \in SUBSET Ann
            BY <1>1, <5>1, <5>2, ClosureIs
          <5>4. QED BY <3>1, <5>3 DEF Reach, parts
        <4>5. c \in DOMAIN names /\ names[c] = BareOf[c]
          BY <2>2, <3>3, <4>4, GraphsAre DEF names
        <4>6. BareOf[c] \in SUBSET Closure({body}, names)
          <5>1. Shut(Closure({body}, names), names)
            BY <1>1, ClosureIs
          <5>2. QED BY <4>3, <4>5, <5>1 DEF Shut
        <4>7. Closure(BareOf[c], names) \in SUBSET Closure({body}, names)
          BY <1>1, <4>6, ClosureWithin
        <4>8. QED BY <4>2, <4>7 DEF BareReach, names
      <3>4. QED BY <3>2, <3>3
    <2>3. QED BY <2>1, <2>2
  <1>9. QED BY <1>6, <1>8

LEMMA NoneLeftOut == PartsBut({}) = PartsOf /\ BareBut({}) = BareOf
  <1>1. \A f, g : DOMAIN f = DOMAIN g /\ f = [c \in DOMAIN f |-> f[c]] /\ g = [c \in DOMAIN g |-> g[c]]
                  /\ (\A c \in DOMAIN f : f[c] = g[c]) => f = g
    OBVIOUS
  <1>2. PartsBut({}) = [c \in DOMAIN PartsBut({}) |-> PartsBut({})[c]] /\ PartsOf = [c \in DOMAIN PartsOf |-> PartsOf[c]]
    BY DEF PartsBut, PartsOf
  <1>3. BareBut({}) = [c \in DOMAIN BareBut({}) |-> BareBut({})[c]] /\ BareOf = [c \in DOMAIN BareOf |-> BareOf[c]]
    BY DEF BareBut, BareOf
  <1>4. Ann \ {} = Ann
    OBVIOUS
  <1>5. /\ DOMAIN PartsBut({}) = DOMAIN PartsOf /\ DOMAIN BareBut({}) = DOMAIN BareOf
        /\ \A c \in DOMAIN PartsBut({}) : PartsBut({})[c] = PartsOf[c]
        /\ \A c \in DOMAIN BareBut({}) : BareBut({})[c] = BareOf[c]
    <2>1. /\ DOMAIN BareBut({}) = Ann /\ DOMAIN PartsBut({}) = Ann
          /\ \A c \in Ann : BareBut({})[c] = BareOf[c] /\ PartsBut({})[c] = PartsOf[c]
      BY <1>4 DEF BareBut, PartsBut
    <2>2. QED BY <2>1, GraphsAre
  <1>6. PartsBut({}) = PartsOf
    BY <1>1, <1>2, <1>5
  <1>7. BareBut({}) = BareOf
    BY <1>1, <1>3, <1>5
  <1>8. QED BY <1>6, <1>7

(* What is written has none of the causes a schema is refused for.         *)
LEMMA TameIsSound ==
    ASSUME NEW a \in Ann, Tame(a, {})
    PROVE  ~NotContractive(a) /\ ~NeverEnds(a)
  <1>1. Within(a) \in SUBSET Reach(a, {}) /\ Within(a) \in SUBSET Ann
    <2>1. Closure({a}, PartsOf) = {a} \cup Closure(PartsOf[a], PartsOf)
      BY GraphsAre, AnnsAreCounted, ClosureFromOne
    <2>2. Closure({a}, PartsOf) \in SUBSET Ann
      <3>1. Shut(Ann, PartsOf)
        BY PartsAre, GraphsAre DEF Shut
      <3>2. QED BY <3>1, GraphsAre, AnnsAreCounted, ClosureIs
    <2>3. QED BY <2>1, <2>2, GraphsAre, NoneLeftOut DEF Within, Reach
  <1>2. ASSUME NEW b \in Within(a) PROVE b \notin WritesIn[b] /\ (IsAlias(b) => b \notin BareName[b])
    <2>1. b \in Reach(a, {}) /\ b \in Ann
      BY <1>1
    <2>2. b \notin WritesIn[b] /\ (IsAlias(b) => b \notin Closure(BareOf[b], BareBut({})))
      BY <2>1 DEF Tame
    <2>3. QED BY <2>1, <2>2, NoneLeftOut, GraphsAre
  <1>3. QED BY <1>2 DEF NotContractive, NeverEnds, Ofkind, IsAlias

(* An alias that its body names outside any constructor is not contractive. *)
LEMMA NotTame ==
    ASSUME NEW p \in Ann, IsAlias(p), NEW body, PartsOf[p] = {body}, NEW A, p \in BareReach(body, A)
    PROVE  NotContractive(p)
  <1>1. BareOf[p] = {body}
    BY PartsAre DEF IsAlias
  <1>2. Closure({body}, BareBut(A)) \in SUBSET Closure({body}, BareOf)
    <2>1. /\ IsFiniteSet(DOMAIN BareBut(A)) /\ IsFiniteSet(DOMAIN BareOf)
          /\ DOMAIN BareBut(A) \in SUBSET DOMAIN BareOf
          /\ \A d \in DOMAIN BareBut(A) : BareBut(A)[d] \in SUBSET BareOf[d]
      <3>1. /\ DOMAIN BareBut(A) = Ann \ A /\ IsFiniteSet(Ann \ A)
            /\ \A c \in Ann \ A : BareBut(A)[c] = BareOf[c]
        BY GraphsAre
      <3>2. QED BY <3>1, GraphsAre, AnnsAreCounted
    <2>2. QED BY <2>1, ClosureMore
  <1>3. p \in BareName[p]
    BY <1>1, <1>2, GraphsAre DEF BareReach
  <1>4. QED BY <1>3 DEF NotContractive, Ofkind, Within, IsAlias

\* What an annotation is refused for.
Cause(w, a) ==
    /\ w = "bare" => NotContractive(a)
    /\ w = "class" => ClassNamesItself(a)
    /\ w = "refused" => Refuses(a)
    /\ w # "unresolved"

(* What is named by a part is named.                                       *)
LEMMA NamesGoOn ==
    ASSUME NEW a \in Ann
    PROVE  /\ PartsOf[a] \in SUBSET Names[a] /\ Names[a] \in SUBSET Ann
           /\ \A b \in Names[a] : PartsOf[b] \in SUBSET Names[a]
           /\ \A b \in PartsOf[a] : Within(b) \in SUBSET Within(a)
  <1>1. IsFiniteSet(DOMAIN PartsOf) /\ DOMAIN PartsOf = Ann /\ Names[a] = Closure(PartsOf[a], PartsOf)
    BY GraphsAre, AnnsAreCounted
  <1>2. PartsOf[a] \in SUBSET Names[a] /\ Shut(Names[a], PartsOf)
    BY <1>1, ClosureIs
  <1>3. Names[a] \in SUBSET Ann
    <2>1. Shut(Ann, PartsOf) /\ PartsOf[a] \in SUBSET Ann
      BY <1>1, PartsAre DEF Shut
    <2>2. QED BY <1>1, <2>1, ClosureIs
  <1>4. \A b \in Names[a] : PartsOf[b] \in SUBSET Names[a]
    BY <1>1, <1>2, <1>3 DEF Shut
  <1>5. ASSUME NEW b \in PartsOf[a] PROVE Within(b) \in SUBSET Within(a)
    <2>1. b \in Ann /\ b \in Names[a] /\ PartsOf[b] \in SUBSET Names[a]
      BY <1>2, <1>3, <1>4
    <2>2. Names[b] \in SUBSET Names[a]
      <3>1. Names[b] = Closure(PartsOf[b], PartsOf)
        BY <2>1, GraphsAre
      <3>2. QED BY <1>1, <2>1, <3>1, ClosureWithin
    <2>3. QED BY <2>1, <2>2 DEF Within
  <1>6. QED BY <1>2, <1>3, <1>4, <1>5

LEMMA CauseOfPart ==
    ASSUME NEW a \in Ann, NEW b \in PartsOf[a], NEW w, Cause(w, b)
    PROVE  Cause(w, a)
  <1>1. Within(b) \in SUBSET Within(a)
    BY NamesGoOn
  <1>2. \A kind : Ofkind(b, kind) \in SUBSET Ofkind(a, kind)
    BY <1>1 DEF Ofkind
  <1>3. NotContractive(b) => NotContractive(a)
    BY <1>2 DEF NotContractive
  <1>4. ClassNamesItself(b) => ClassNamesItself(a)
    BY <1>2 DEF ClassNamesItself
  <1>5. Refuses(b) => Refuses(a)
    <2>1. Ofkind(b, "refused") # {} => Ofkind(a, "refused") # {}
      BY <1>2
    <2>2. QED BY <1>1, <2>1 DEF Refuses
  <1>6. QED BY <1>3, <1>4, <1>5 DEF Cause

-----------------------------------------------------------------------------
(* Sequences put together.                                                 *)

LEMMA UptoIs == ASSUME NEW lo \in Nat, NEW N \in Nat, lo <= N PROVE From(lo .. N, lo)
  BY DEF From

FlatBy(f, s) == /\ f[1] = s[1]
                /\ \A n \in 1 .. Len(s) : n # 1 => f[n] = f[n - 1] \o s[n]
                /\ FlattenSeq(s) = f[Len(s)]

LEMMA FlattenSteps ==
    ASSUME NEW S, NEW s \in Seq(Seq(S)), s # <<>>
    PROVE  \E f : FlatBy(f, s) /\ \A n \in 1 .. Len(s) : f[n] \in Seq(S)
  <1> DEFINE N == Len(s)
             D == 1 .. N
             V == Seq(S)
             g == [p \in D \X V |-> p[2] \o s[p[1]]]
             flat == CHOOSE f : f = [n \in 1 .. Len(s) |-> IF n = 1 THEN s[n] ELSE f[n - 1] \o s[n]]
  <1>1. N \in Nat /\ 1 <= N /\ \A n \in D : s[n] \in V
    OBVIOUS
  <1>2. \A n \in D : \A v \in V : g[<<n, v>>] = v \o s[n] /\ g[<<n, v>>] \in V
    <2> SUFFICES ASSUME NEW n \in D, NEW v \in V PROVE g[<<n, v>>] = v \o s[n] /\ g[<<n, v>>] \in V
      OBVIOUS
    <2>1. g[<<n, v>>] = v \o s[n]
      OBVIOUS
    <2>2. s[n] \in Seq(S)
      BY <1>1
    <2>3. v \o s[n] \in Seq(S)
      BY <2>2
    <2>4. QED BY <2>1, <2>3
  <1>3. From(D, 1)
    BY <1>1, UptoIs
  <1>4. PICK f : Stepped(f, D, 1, s[1], g) /\ \A n \in D : f[n] \in V
    <2>0. 1 \in D
      BY <1>1
    <2> HIDE DEF V, g
    <2>1. s[1] \in V /\ \A n \in D : n # 1 => \A v \in V : g[<<n, v>>] \in V
      BY <1>1, <1>2, <2>0
    <2> HIDE DEF D
    <2>2. QED BY <1>3, <2>1, SteppedExists
  <1>5. f = [n \in 1 .. Len(s) |-> IF n = 1 THEN s[n] ELSE f[n - 1] \o s[n]]
    <2>1. f = [n \in D |-> IF n = 1 THEN s[1] ELSE g[<<n, f[n - 1]>>]]
      BY <1>4 DEF Stepped
    <2>2. \A n \in D : n # 1 => g[<<n, f[n - 1]>>] = f[n - 1] \o s[n]
      <3> SUFFICES ASSUME NEW n \in D, n # 1 PROVE g[<<n, f[n - 1]>>] = f[n - 1] \o s[n]
        OBVIOUS
      <3>1. n - 1 \in D
        BY <1>1
      <3>2. f[n - 1] \in V
        BY <1>4, <3>1
      <3>3. QED BY <1>2, <3>2
    <2> HIDE DEF g
    <2>3. QED BY <2>1, <2>2
  <1>6. flat = [n \in 1 .. Len(s) |-> IF n = 1 THEN s[n] ELSE flat[n - 1] \o s[n]]
    <2> HIDE DEF D, V, g
    <2>1. QED BY <1>5
  <1>7. FlattenSeq(s) = flat[Len(s)]
    BY <1>1 DEF FlattenSeq
  <1> HIDE DEF flat, g
  <1>8. FlatBy(flat, s)
    <2>1. flat[1] = s[1]
      BY <1>1, <1>6
    <2>2. \A n \in 1 .. Len(s) : n # 1 => flat[n] = flat[n - 1] \o s[n]
      BY <1>6, Zenon
    <2>3. QED BY <1>7, <2>1, <2>2 DEF FlatBy
  <1>9. \A n \in 1 .. Len(s) : flat[n] \in Seq(S)
    <2> DEFINE T == {n \in Nat : n \in D => flat[n] \in V}
    <2>1. 0 \in T
      BY <1>1
    <2>2. ASSUME NEW n \in T PROVE n + 1 \in T
      <3> SUFFICES ASSUME n + 1 \in D PROVE flat[n + 1] \in V
        OBVIOUS
      <3>1. CASE n = 0
        BY <1>1, <1>6, <3>1
      <3>2. CASE n # 0
        <4>1. n \in D /\ n + 1 # 1 /\ (n + 1) - 1 = n
          BY <1>1, <3>2
        <4>2. flat[n + 1] = flat[n] \o s[n + 1] /\ flat[n] \in V /\ s[n + 1] \in V
          BY <1>1, <1>6, <4>1
        <4>3. QED BY <4>2
      <3>3. QED BY <3>1, <3>2
    <2>3. T \in SUBSET Nat
      OBVIOUS
    <2> HIDE DEF T
    <2>4. T = Nat
      BY <2>1, <2>2, <2>3, EveryNumber
    <2>5. QED BY <1>1, <2>4 DEF T
  <1>10. QED BY <1>8, <1>9

LEMMA ToSetOfTwo ==
    ASSUME NEW S, NEW s \in Seq(S), NEW t \in Seq(S)
    PROVE  ToSet(s \o t) = ToSet(s) \cup ToSet(t) /\ s \o t \in Seq(S)
  <1>1. /\ s \o t \in Seq(S) /\ Len(s \o t) = Len(s) + Len(t) /\ Len(s) \in Nat /\ Len(t) \in Nat
        /\ \A i \in 1 .. Len(s) : (s \o t)[i] = s[i]
        /\ \A i \in 1 .. Len(t) : (s \o t)[Len(s) + i] = t[i]
    OBVIOUS
  <1>2. /\ DOMAIN s = 1 .. Len(s) /\ DOMAIN t = 1 .. Len(t) /\ DOMAIN (s \o t) = 1 .. Len(s) + Len(t)
    BY <1>1
  <1>3. ASSUME NEW i \in 1 .. Len(s) + Len(t) PROVE (s \o t)[i] \in ToSet(s) \cup ToSet(t)
    <2>1. CASE i \in 1 .. Len(s)
      BY <1>1, <1>2, <2>1 DEF ToSet
    <2>2. CASE i \notin 1 .. Len(s)
      <3>1. i - Len(s) \in 1 .. Len(t) /\ Len(s) + (i - Len(s)) = i
        BY <1>1, <2>2
      <3>2. (s \o t)[i] = t[i - Len(s)]
        BY <1>1, <3>1
      <3>3. QED BY <1>2, <3>1, <3>2 DEF ToSet
    <2>3. QED BY <2>1, <2>2
  <1>4. ASSUME NEW i \in 1 .. Len(s) PROVE s[i] \in ToSet(s \o t)
    <2>1. i \in 1 .. Len(s) + Len(t)
      BY <1>1
    <2>2. QED BY <1>1, <1>2, <2>1 DEF ToSet
  <1>5. ASSUME NEW i \in 1 .. Len(t) PROVE t[i] \in ToSet(s \o t)
    <2>1. Len(s) + i \in 1 .. Len(s) + Len(t)
      BY <1>1
    <2>2. QED BY <1>1, <1>2, <2>1 DEF ToSet
  <1>6. ToSet(s \o t) \in SUBSET (ToSet(s) \cup ToSet(t))
    BY <1>2, <1>3 DEF ToSet
  <1>7. ToSet(s) \in SUBSET ToSet(s \o t) /\ ToSet(t) \in SUBSET ToSet(s \o t)
    BY <1>2, <1>4, <1>5 DEF ToSet
  <1>8. QED BY <1>1, <1>6, <1>7

LEMMA ToSetOfMore ==
    ASSUME NEW S, NEW s \in Seq(S), NEW x \in S
    PROVE  ToSet(Append(s, x)) = ToSet(s) \cup {x} /\ Append(s, x) \in Seq(S)
  <1>1. <<x>> \in Seq(S) /\ Append(s, x) = s \o <<x>> /\ ToSet(<<x>>) = {x}
    <2>1. <<x>> \in Seq(S) /\ Append(s, x) = s \o <<x>>
      OBVIOUS
    <2>2. DOMAIN <<x>> = {1} /\ <<x>>[1] = x
      OBVIOUS
    <2>3. QED BY <2>1, <2>2 DEF ToSet
  <1> DEFINE u == <<x>>
  <1>2. u \in Seq(S) /\ Append(s, x) = s \o u /\ ToSet(u) = {x}
    BY <1>1
  <1> HIDE DEF u
  <1>3. QED BY <1>2, ToSetOfTwo

(* The members of a flattened sequence are those of its sequences.         *)
LEMMA FlattenRange ==
    ASSUME NEW S, NEW s \in Seq(Seq(S))
    PROVE  FlattenSeq(s) \in Seq(S) /\ ToSet(FlattenSeq(s)) = UNION {ToSet(s[k]) : k \in 1 .. Len(s)}
  <1>1. CASE s = <<>>
    <2>1. FlattenSeq(s) = s /\ Len(s) = 0 /\ DOMAIN s = {}
      BY <1>1 DEF FlattenSeq
    <2>2. s \in Seq(S)
      BY <1>1
    <2>3. QED BY <2>1, <2>2 DEF ToSet
  <1>2. CASE s # <<>>
    <2>1. PICK f : FlatBy(f, s) /\ \A n \in 1 .. Len(s) : f[n] \in Seq(S)
      BY <1>2, FlattenSteps
    <2>2. Len(s) \in Nat /\ 1 <= Len(s) /\ \A n \in 1 .. Len(s) : s[n] \in Seq(S)
      BY <1>2
    <2> DEFINE T == {n \in Nat : n \in 1 .. Len(s) => ToSet(f[n]) = UNION {ToSet(s[k]) : k \in 1 .. n}}
    <2>3. 0 \in T
      OBVIOUS
    <2>4. ASSUME NEW n \in T PROVE n + 1 \in T
      <3> SUFFICES ASSUME n + 1 \in 1 .. Len(s)
                   PROVE  ToSet(f[n + 1]) = UNION {ToSet(s[k]) : k \in 1 .. n + 1}
        OBVIOUS
      <3>1. CASE n = 0
        <4>1. 1 .. n + 1 = {1}
          BY <3>1
        <4>2. f[n + 1] = s[1]
          BY <2>1, <3>1 DEF FlatBy
        <4>3. QED BY <4>1, <4>2
      <3>2. CASE n # 0
        <4>1. n \in 1 .. Len(s) /\ n + 1 # 1 /\ (n + 1) - 1 = n
          BY <2>2, <3>2
        <4>2. f[n + 1] = f[n] \o s[n + 1]
          BY <2>1, <4>1 DEF FlatBy
        <4>3. ToSet(f[n + 1]) = ToSet(f[n]) \cup ToSet(s[n + 1])
          BY <2>1, <2>2, <4>1, <4>2, ToSetOfTwo
        <4>4. 1 .. n + 1 = (1 .. n) \cup {n + 1}
          BY <4>1
        <4>5. ToSet(f[n]) = UNION {ToSet(s[k]) : k \in 1 .. n}
          BY <4>1
        <4>6. QED BY <4>3, <4>4, <4>5
      <3>3. QED BY <3>1, <3>2
    <2>5. T \in SUBSET Nat
      OBVIOUS
    <2> HIDE DEF T
    <2>6. T = Nat
      BY <2>3, <2>4, <2>5, EveryNumber
    <2>7. Len(s) \in T /\ Len(s) \in 1 .. Len(s)
      BY <2>2, <2>6
    <2>8. QED BY <2>1, <2>7 DEF T, FlatBy
  <1>3. QED BY <1>1, <1>2

(* Dropping what was met drops no member.                                  *)
LEMMA DistinctRange ==
    ASSUME NEW S, NEW s \in Seq(S)
    PROVE  Distinct(s) \in Seq(S) /\ ToSet(Distinct(s)) = ToSet(s)
  <1> DEFINE N == Len(s)
             D == 0 .. N
             V == Seq(S)
             g == [p \in D \X V |-> IF Contains(p[2], s[p[1]]) THEN p[2] ELSE Append(p[2], s[p[1]])]
             kept == CHOOSE f : f = [n \in 0 .. Len(s) |-> IF n = 0 THEN <<>>
                                       ELSE IF Contains(f[n - 1], s[n]) THEN f[n - 1] ELSE Append(f[n - 1], s[n])]
  <1>1. N \in Nat /\ 0 <= N /\ \A n \in 1 .. N : s[n] \in S
    OBVIOUS
  <1>2. \A n \in D : \A v \in V : g[<<n, v>>] = IF Contains(v, s[n]) THEN v ELSE Append(v, s[n])
    <2> HIDE DEF V, D
    <2>1. QED OBVIOUS
  <1>3. \A n \in D : n # 0 => \A v \in V : g[<<n, v>>] \in V
    <2> SUFFICES ASSUME NEW n \in D, n # 0, NEW v \in V PROVE g[<<n, v>>] \in V
      OBVIOUS
    <2>1. s[n] \in S
      BY <1>1
    <2>2. Append(v, s[n]) \in V /\ v \in V
      BY <2>1
    <2> HIDE DEF V, g, D
    <2>3. QED BY <1>2, <2>2
  <1>4. From(D, 0)
    BY <1>1, UptoIs
  <1>5. PICK f : Stepped(f, D, 0, <<>>, g) /\ \A n \in D : f[n] \in V
    <2>1. <<>> \in V
      OBVIOUS
    <2> HIDE DEF D, V, g
    <2>2. QED BY <1>3, <1>4, <2>1, SteppedExists
  <1> HIDE DEF g, V
  <1>6. f = [n \in 0 .. Len(s) |-> IF n = 0 THEN <<>>
                                   ELSE IF Contains(f[n - 1], s[n]) THEN f[n - 1] ELSE Append(f[n - 1], s[n])]
    <2>1. f = [n \in D |-> IF n = 0 THEN <<>> ELSE g[<<n, f[n - 1]>>]]
      BY <1>5 DEF Stepped
    <2>2. \A n \in D : n # 0 => g[<<n, f[n - 1]>>] = IF Contains(f[n - 1], s[n]) THEN f[n - 1] ELSE Append(f[n - 1], s[n])
      <3> SUFFICES ASSUME NEW n \in D, n # 0
                   PROVE  g[<<n, f[n - 1]>>] = IF Contains(f[n - 1], s[n]) THEN f[n - 1] ELSE Append(f[n - 1], s[n])
        OBVIOUS
      <3>1. n - 1 \in D
        BY <1>1
      <3>2. f[n - 1] \in V
        BY <1>5, <3>1
      <3>3. QED BY <1>2, <3>2
    <2>3. QED BY <2>1, <2>2
  <1>7. kept = [n \in 0 .. Len(s) |-> IF n = 0 THEN <<>>
                                   ELSE IF Contains(kept[n - 1], s[n]) THEN kept[n - 1] ELSE Append(kept[n - 1], s[n])]
    BY <1>6
  <1>8. Distinct(s) = kept[Len(s)]
    BY DEF Distinct
  <1> HIDE DEF kept
  <1> DEFINE T == {n \in Nat : n \in D => kept[n] \in V /\ ToSet(kept[n]) = {s[k] : k \in 1 .. n}}
  <1>9. 0 \in T
    <2>1. kept[0] = <<>>
      BY <1>1, <1>7
    <2>2. <<>> \in V /\ ToSet(<<>>) = {} /\ 1 .. 0 = {}
      BY DEF ToSet, V
    <2>3. QED BY <2>1, <2>2
  <1>10. ASSUME NEW n \in T PROVE n + 1 \in T
    <2> SUFFICES ASSUME n + 1 \in D
                 PROVE  kept[n + 1] \in V /\ ToSet(kept[n + 1]) = {s[k] : k \in 1 .. n + 1}
      OBVIOUS
    <2>1. n \in D /\ n \in Nat /\ n + 1 # 0 /\ (n + 1) - 1 = n
      BY <1>1
    <2>2. kept[n + 1] = IF Contains(kept[n], s[n + 1]) THEN kept[n] ELSE Append(kept[n], s[n + 1])
      BY <1>7, <2>1
    <2>3. kept[n] \in V /\ ToSet(kept[n]) = {s[k] : k \in 1 .. n}
      BY <2>1
    <2>4. {s[k] : k \in 1 .. n + 1} = {s[k] : k \in 1 .. n} \cup {s[n + 1]}
      <3>1. 1 .. n + 1 = (1 .. n) \cup {n + 1}
        BY <2>1
      <3>2. QED BY <3>1
    <2>5. s[n + 1] \in S
      BY <1>1, <2>1
    <2>6. CASE Contains(kept[n], s[n + 1])
      <3>1. s[n + 1] \in ToSet(kept[n])
        BY <2>3, <2>6 DEF Contains, ToSet, V
      <3>2. QED BY <2>2, <2>3, <2>4, <2>6, <3>1
    <2>7. CASE ~Contains(kept[n], s[n + 1])
      <3>1. kept[n + 1] = Append(kept[n], s[n + 1])
        BY <2>2, <2>7
      <3>2. ToSet(kept[n + 1]) = ToSet(kept[n]) \cup {s[n + 1]} /\ kept[n + 1] \in V
        BY <2>3, <2>5, <3>1, ToSetOfMore DEF V
      <3>3. QED BY <2>3, <2>4, <3>2
    <2>8. QED BY <2>6, <2>7
  <1>11. T \in SUBSET Nat
    OBVIOUS
  <1> HIDE DEF T
  <1>12. T = Nat
    BY <1>9, <1>10, <1>11, EveryNumber
  <1>13. kept[N] \in V /\ ToSet(kept[N]) = {s[k] : k \in 1 .. N}
    <2>1. N \in T /\ N \in D
      BY <1>1, <1>12
    <2>2. QED BY <2>1 DEF T
  <1>14. ToSet(s) = {s[k] : k \in 1 .. N}
    <2>1. DOMAIN s = 1 .. N
      OBVIOUS
    <2>2. QED BY <2>1 DEF ToSet
  <1>15. QED BY <1>8, <1>13, <1>14 DEF V

-----------------------------------------------------------------------------
(* What a schema names, however it is put together.                        *)

\* The placeholders in t, and those no constructor stands above.
Selfs(t)     == {t[i].self : i \in DOMAIN t} \ {0}
BareSelfs(t) == {t[i].self : i \in {j \in DOMAIN t : ~t[j].guarded}} \ {0}

\* A node that names something, and how.
Says(n) == <<n.self, n.ref, n.guarded>>
Said(t) == {Says(n) : n \in {m \in ToSet(t) : m.self # 0 \/ m.ref # 0}}

\* A node of a kind of its own names nothing.
Blank == ""
Bar   == "|"
\* The provers do not know of a literal that it is a string.
Words == STRING \cup {Blank, Bar}
Noded == [name : Words, self : Nat, ref : Nat, level : Nat, guarded : BOOLEAN]
Plain == {n \in Noded : (n.self = 0 \/ n.ref = 0) /\ (n.name # Blank => n.self = 0 /\ n.ref = 0)}

\* Levels of a preorder: of one schema, and of several one level down.
Nests(t) == \A i \in 2 .. Len(t) : 1 <= t[i].level /\ t[i].level <= t[i - 1].level + 1
Orderly(t) == t \in Seq(Plain) /\ t # <<>> /\ t[1].level = 0 /\ Nests(t)
Forest(t)  == t \in Seq(Plain) /\ (t # <<>> => t[1].level = 1) /\ Nests(t)

LEMMA SaidTells ==
    ASSUME NEW t \in Seq(Plain)
    PROVE  /\ Refs(t) = {m[2] : m \in Said(t)} \ {0}
           /\ Selfs(t) = {m[1] : m \in Said(t)} \ {0}
           /\ Bare(t) = {m[2] : m \in {n \in Said(t) : ~n[3]}} \ {0}
           /\ BareSelfs(t) = {m[1] : m \in {n \in Said(t) : ~n[3]}} \ {0}
  <1> DEFINE some == {m \in ToSet(t) : m.self # 0 \/ m.ref # 0}
  <1>1. \A n : Says(n)[1] = n.self /\ Says(n)[2] = n.ref /\ Says(n)[3] = n.guarded
    BY DEF Says
  <1>2. ToSet(t) = {t[i] : i \in DOMAIN t}
    BY DEF ToSet
  <1>3. Refs(t) = {n.ref : n \in ToSet(t)} \ {0} /\ Selfs(t) = {n.self : n \in ToSet(t)} \ {0}
    BY <1>2 DEF Refs, Selfs
  <1>4. /\ Bare(t) = {n.ref : n \in {m \in ToSet(t) : ~m.guarded}} \ {0}
        /\ BareSelfs(t) = {n.self : n \in {m \in ToSet(t) : ~m.guarded}} \ {0}
    BY <1>2 DEF Bare, BareSelfs
  <1>5. Said(t) = {Says(n) : n \in some}
    BY DEF Said
  <1>6. Refs(t) = {m[2] : m \in Said(t)} \ {0}
    BY <1>1, <1>3, <1>5
  <1>7. Selfs(t) = {m[1] : m \in Said(t)} \ {0}
    BY <1>1, <1>3, <1>5
  <1>8. Bare(t) = {m[2] : m \in {n \in Said(t) : ~n[3]}} \ {0}
    BY <1>1, <1>4, <1>5
  <1>9. BareSelfs(t) = {m[1] : m \in {n \in Said(t) : ~n[3]}} \ {0}
    BY <1>1, <1>4, <1>5
  <1>10. QED BY <1>6, <1>7, <1>8, <1>9

LEMMA LeafIs ==
    ASSUME NEW name \in Words
    PROVE  Orderly(Leaf(name)) /\ Said(Leaf(name)) = {} /\ Len(Leaf(name)) = 1
  <1> DEFINE n == [name |-> name, self |-> 0, ref |-> 0, level |-> 0, guarded |-> FALSE]
  <1>1. n \in Plain /\ n.level = 0 /\ n.self = 0 /\ n.ref = 0
    BY DEF Plain, Noded
  <1>2. Leaf(name) = <<n>>
    BY DEF Leaf
  <1> HIDE DEF n
  <1>3. <<n>> \in Seq(Plain) /\ <<n>> # <<>> /\ Len(<<n>>) = 1 /\ <<n>>[1] = n /\ DOMAIN <<n>> = {1}
    BY <1>1
  <1>4. Nests(<<n>>)
    BY <1>3 DEF Nests
  <1>5. ToSet(<<n>>) = {n}
    BY <1>3 DEF ToSet
  <1>6. QED BY <1>1, <1>2, <1>3, <1>4, <1>5 DEF Orderly, Said

(* A schema as the part of a constructor.                                  *)
LEMMA UnderIs ==
    ASSUME NEW t, Orderly(t), NEW g \in BOOLEAN
    PROVE  /\ Forest(Under(t, g))
           /\ Said(Under(t, g)) = {<<m[1], m[2], m[3] \/ g>> : m \in Said(t)}
  <1> DEFINE u      == Under(t, g)
             Put(n) == [n EXCEPT !.level = @ + 1, !.guarded = @ \/ g]
  <1>1. t \in Seq(Plain) /\ Len(t) \in Nat /\ DOMAIN t = 1 .. Len(t) /\ 1 <= Len(t)
    BY DEF Orderly
  <1>2. \A i \in 1 .. Len(t) : t[i] \in Plain
    BY <1>1
  <1>3. ASSUME NEW n \in Plain
        PROVE  /\ Put(n) \in Plain /\ Put(n).level = n.level + 1
               /\ Put(n).self = n.self /\ Put(n).ref = n.ref /\ (Put(n).guarded <=> n.guarded \/ g)
               /\ n.level \in Nat /\ n.guarded \in BOOLEAN
    <2>1. n \in Noded /\ (n.self = 0 \/ n.ref = 0) /\ (n.name # Blank => n.self = 0 /\ n.ref = 0)
      BY DEF Plain
    <2>a. n.level \in Nat /\ n.name \in Words /\ n.self \in Nat /\ n.ref \in Nat
      BY <2>1 DEF Noded
    <2>b. n.guarded \in BOOLEAN
      BY <2>1, Zenon DEF Noded
    <2>c. n = [name |-> n.name, self |-> n.self, ref |-> n.ref, level |-> n.level, guarded |-> n.guarded]
      BY <2>1 DEF Noded
    <2> DEFINE l == n.level + 1
               b == n.guarded \/ g
               r == [name |-> n.name, self |-> n.self, ref |-> n.ref, level |-> l, guarded |-> b]
    <2>2. l \in Nat /\ b \in BOOLEAN
      <3>1. l \in Nat
        BY <2>a
      <3>2. b \in BOOLEAN
        BY Zenon
      <3>3. QED BY <3>1, <3>2
    <2>3. Put(n) = [[n EXCEPT !.level = l] EXCEPT !.guarded = b]
      <3>1. n.level \in Nat /\ "level" \in DOMAIN n /\ "guarded" \in DOMAIN n
        BY <2>a, <2>1 DEF Noded
      <3>2. QED BY <3>1
    <2>4. b <=> n.guarded \/ g
      OBVIOUS
    <2>5. l = n.level + 1
      OBVIOUS
    <2> HIDE DEF l, b
    <2>6. Put(n) = r
      <3> DEFINE m == [name |-> n.name, self |-> n.self, ref |-> n.ref, level |-> l, guarded |-> n.guarded]
      <3>1. ASSUME NEW nm, NEW se, NEW re, NEW le, NEW gu, NEW k,
                   k = [name |-> nm, self |-> se, ref |-> re, level |-> le, guarded |-> gu]
            PROVE  [k EXCEPT !.level = l] = [name |-> nm, self |-> se, ref |-> re, level |-> l, guarded |-> gu]
        BY <3>1
      <3>2. [n EXCEPT !.level = l] = m
        <4> DEFINE nm == n.name se == n.self re == n.ref le == n.level gu == n.guarded
        <4>1. n = [name |-> nm, self |-> se, ref |-> re, level |-> le, guarded |-> gu]
          BY <2>c
        <4>2. m = [name |-> nm, self |-> se, ref |-> re, level |-> l, guarded |-> gu]
          OBVIOUS
        <4> HIDE DEF nm, se, re, le, gu, m
        <4>3. QED BY <3>1, <4>1, <4>2
      <3>3. [m EXCEPT !.guarded = b] = r
        OBVIOUS
      <3> HIDE DEF m, r, Put
      <3>4. QED BY <2>3, <3>2, <3>3
    <2>7. r \in Noded /\ r.name = n.name /\ r.self = n.self /\ r.ref = n.ref /\ r.level = l /\ r.guarded = b
      BY <2>a, <2>2 DEF Noded
    <2> HIDE DEF r
    <2>8. r \in Plain
      BY <2>1, <2>7 DEF Plain
    <2> HIDE DEF Put
    <2>9. QED BY <2>a, <2>b, <2>4, <2>5, <2>6, <2>7, <2>8
  <1>4. u = [i \in 1 .. Len(t) |-> Put(t[i])]
    BY <1>1 DEF Under
  <1> HIDE DEF Put, u
  <1>5. u \in Seq(Plain) /\ Len(u) = Len(t) /\ DOMAIN u = 1 .. Len(t) /\ \A i \in 1 .. Len(t) : u[i] = Put(t[i])
    BY <1>1, <1>2, <1>3, <1>4
  <1>6. Forest(u)
    <2>1. u[1].level = 1
      BY <1>1, <1>2, <1>3, <1>5 DEF Orderly
    <2>2. Nests(u)
      <3> SUFFICES ASSUME NEW i \in 2 .. Len(t) PROVE 1 <= u[i].level /\ u[i].level <= u[i - 1].level + 1
        BY <1>5 DEF Nests
      <3>1. i \in 1 .. Len(t) /\ i - 1 \in 1 .. Len(t)
        BY <1>1
      <3>2. 1 <= t[i].level /\ t[i].level <= t[i - 1].level + 1
        BY DEF Orderly, Nests
      <3>3. u[i].level = t[i].level + 1 /\ u[i - 1].level = t[i - 1].level + 1
            /\ t[i].level \in Nat /\ t[i - 1].level \in Nat
        BY <1>2, <1>3, <1>5, <3>1
      <3>4. QED BY <3>2, <3>3
    <2>3. QED BY <1>5, <2>1, <2>2 DEF Forest
  <1>7. Said(u) = {<<m[1], m[2], m[3] \/ g>> : m \in Said(t)}
    <2>1. ToSet(u) = {Put(n) : n \in ToSet(t)}
      BY <1>1, <1>5 DEF ToSet
    <2>2. ToSet(t) \in SUBSET Plain
      BY <1>1, <1>2 DEF ToSet
    <2>3. \A n \in Plain : Says(Put(n)) = <<Says(n)[1], Says(n)[2], Says(n)[3] \/ g>>
      BY <1>3 DEF Says
    <2>4. \A n \in Plain : Put(n).self # 0 \/ Put(n).ref # 0 <=> n.self # 0 \/ n.ref # 0
      BY <1>3
    <2>5. QED BY <2>1, <2>2, <2>3, <2>4 DEF Said
  <1>8. QED BY <1>6, <1>7 DEF u

LEMMA TwoAre ==
    ASSUME NEW S, NEW u \in Seq(S), NEW v \in Seq(S)
    PROVE  /\ u \o v \in Seq(S) /\ Len(u \o v) = Len(u) + Len(v) /\ Len(u) \in Nat /\ Len(v) \in Nat
           /\ \A i \in 1 .. Len(u) : (u \o v)[i] = u[i]
           /\ \A i \in 1 .. Len(v) : (u \o v)[Len(u) + i] = v[i]
  OBVIOUS

LEMMA ForestsJoin ==
    ASSUME NEW u, NEW v, Forest(u), Forest(v)
    PROVE  Forest(u \o v)
  <1>1. u \in Seq(Plain) /\ v \in Seq(Plain)
    BY DEF Forest
  <1>2. /\ u \o v \in Seq(Plain) /\ Len(u \o v) = Len(u) + Len(v) /\ Len(u) \in Nat /\ Len(v) \in Nat
        /\ \A i \in 1 .. Len(u) : (u \o v)[i] = u[i]
        /\ \A i \in 1 .. Len(v) : (u \o v)[Len(u) + i] = v[i]
    BY <1>1
  <1>3. ASSUME NEW w, Forest(w), NEW i \in 1 .. Len(w) PROVE w[i].level \in Nat /\ 1 <= w[i].level
    <2>1. w \in Seq(Plain) /\ w[i] \in Plain /\ Len(w) \in Nat
      BY <1>3 DEF Forest
    <2>2. w[i].level \in Nat
      BY <2>1 DEF Plain, Noded
    <2>3. CASE i = 1
      BY <1>3, <2>1, <2>3 DEF Forest
    <2>4. CASE i # 1
      <3>1. i \in 2 .. Len(w)
        BY <2>1, <2>4
      <3>2. QED BY <1>3, <2>2, <3>1 DEF Forest, Nests
    <2>5. QED BY <2>2, <2>3, <2>4
  <1> DEFINE w == u \o v
  <1>4. Nests(w)
    <2> SUFFICES ASSUME NEW i \in 2 .. Len(u) + Len(v) PROVE 1 <= w[i].level /\ w[i].level <= w[i - 1].level + 1
      BY <1>2 DEF Nests
    <2>1. CASE i <= Len(u)
      <3>1. i \in 2 .. Len(u) /\ i \in 1 .. Len(u) /\ i - 1 \in 1 .. Len(u)
        BY <1>2, <2>1
      <3>2. w[i] = u[i] /\ w[i - 1] = u[i - 1]
        BY <1>2, <3>1
      <3>3. QED BY <3>1, <3>2 DEF Forest, Nests
    <2>2. CASE i = Len(u) + 1
      <3>1. 1 \in 1 .. Len(v) /\ i - 1 \in 1 .. Len(u) /\ i - 1 = Len(u)
        BY <1>2, <2>2
      <3>2. w[i] = v[1] /\ w[i - 1] = u[i - 1]
        BY <1>2, <2>2, <3>1
      <3>3. v[1].level = 1 /\ 1 <= u[i - 1].level /\ u[i - 1].level \in Nat
        BY <1>1, <1>3, <3>1 DEF Forest
      <3>4. QED BY <3>2, <3>3
    <2>3. CASE i > Len(u) + 1
      <3> DEFINE j == i - Len(u)
      <3>1. /\ j \in 2 .. Len(v) /\ j \in 1 .. Len(v) /\ j - 1 \in 1 .. Len(v)
            /\ Len(u) + j = i /\ Len(u) + (j - 1) = i - 1
        BY <1>2, <2>3
      <3>2. w[i] = v[j] /\ w[i - 1] = v[j - 1]
        <4> HIDE DEF j
        <4>1. (u \o v)[Len(u) + j] = v[j] /\ (u \o v)[Len(u) + (j - 1)] = v[j - 1]
          BY <1>2, <3>1
        <4>2. QED BY <3>1, <4>1
      <3>3. 1 <= v[j].level /\ v[j].level <= v[j - 1].level + 1
        <4> HIDE DEF j
        <4>1. QED BY <3>1 DEF Forest, Nests
      <3>4. QED BY <3>2, <3>3
    <2>4. QED BY <1>2, <2>1, <2>2, <2>3
  <1>5. w # <<>> => w[1].level = 1
    <2> SUFFICES ASSUME w # <<>> PROVE w[1].level = 1
      OBVIOUS
    <2>1. CASE Len(u) = 0
      <3>1. 1 \in 1 .. Len(v) /\ Len(u) + 1 = 1
        BY <1>1, <1>2, <2>1
      <3>2. w[1] = v[1]
        BY <1>2, <3>1
      <3>3. QED BY <1>1, <3>1, <3>2 DEF Forest
    <2>2. CASE Len(u) # 0
      <3>1. 1 \in 1 .. Len(u)
        BY <1>2, <2>2
      <3>2. QED BY <1>1, <1>2, <3>1 DEF Forest
    <2>3. QED BY <2>1, <2>2
  <1>6. QED BY <1>2, <1>4, <1>5 DEF Forest

LEMMA FlattenForest ==
    ASSUME NEW s \in Seq(Seq(Plain)), \A k \in 1 .. Len(s) : Forest(s[k])
    PROVE  /\ Forest(FlattenSeq(s))
           /\ Said(FlattenSeq(s)) = UNION {Said(s[k]) : k \in 1 .. Len(s)}
  <1>1. FlattenSeq(s) \in Seq(Plain) /\ ToSet(FlattenSeq(s)) = UNION {ToSet(s[k]) : k \in 1 .. Len(s)}
    BY FlattenRange
  <1>2. Said(FlattenSeq(s)) = UNION {Said(s[k]) : k \in 1 .. Len(s)}
    BY <1>1 DEF Said
  <1>3. Forest(FlattenSeq(s))
    <2>1. CASE s = <<>>
      <3>1. FlattenSeq(s) = <<>>
        BY <2>1 DEF FlattenSeq
      <3>2. <<>> \in Seq(Plain) /\ Len(<<>>) = 0
        OBVIOUS
      <3>3. QED BY <3>1, <3>2 DEF Forest, Nests
    <2>2. CASE s # <<>>
      <3>1. PICK f : FlatBy(f, s) /\ \A n \in 1 .. Len(s) : f[n] \in Seq(Plain)
        BY <2>2, FlattenSteps
      <3>2. Len(s) \in Nat /\ 1 <= Len(s)
        BY <2>2
      <3> DEFINE T == {n \in Nat : n \in 1 .. Len(s) => Forest(f[n])}
      <3>3. 0 \in T
        OBVIOUS
      <3>4. ASSUME NEW n \in T PROVE n + 1 \in T
        <4> SUFFICES ASSUME n + 1 \in 1 .. Len(s) PROVE Forest(f[n + 1])
          OBVIOUS
        <4>1. CASE n = 0
          BY <3>1, <4>1 DEF FlatBy
        <4>2. CASE n # 0
          <5>1. n \in 1 .. Len(s) /\ n + 1 # 1 /\ (n + 1) - 1 = n
            BY <3>2, <4>2
          <5>2. f[n + 1] = f[n] \o s[n + 1] /\ Forest(f[n])
            BY <3>1, <5>1 DEF FlatBy
          <5>3. QED BY <5>2, ForestsJoin
        <4>3. QED BY <4>1, <4>2
      <3>5. T \in SUBSET Nat
        OBVIOUS
      <3> HIDE DEF T
      <3>6. T = Nat
        BY <3>3, <3>4, <3>5, EveryNumber
      <3>7. Len(s) \in T /\ Len(s) \in 1 .. Len(s)
        BY <3>2, <3>6
      <3>8. QED BY <3>1, <3>7 DEF T, FlatBy
    <2>3. QED BY <2>1, <2>2
  <1>4. QED BY <1>2, <1>3

(* A node of its own kind over the parts of a schema.                      *)
LEMMA LeafOver ==
    ASSUME NEW name \in Words, NEW u, Forest(u)
    PROVE  Orderly(Leaf(name) \o u) /\ Said(Leaf(name) \o u) = Said(u)
  <1> DEFINE l == Leaf(name)
             t == l \o u
  <1>1. l \in Seq(Plain) /\ Len(l) = 1 /\ l[1].level = 0 /\ Said(l) = {} /\ u \in Seq(Plain)
    BY LeafIs DEF Orderly, Forest
  <1> HIDE DEF l
  <1>2. /\ t \in Seq(Plain) /\ Len(t) = 1 + Len(u) /\ Len(u) \in Nat /\ t[1] = l[1]
        /\ \A i \in 1 .. Len(u) : t[1 + i] = u[i]
    <2>1. /\ l \o u \in Seq(Plain) /\ Len(l \o u) = Len(l) + Len(u) /\ Len(l) \in Nat /\ Len(u) \in Nat
          /\ \A i \in 1 .. Len(l) : (l \o u)[i] = l[i]
          /\ \A i \in 1 .. Len(u) : (l \o u)[Len(l) + i] = u[i]
      <3>1. l \in Seq(Plain) /\ u \in Seq(Plain)
        BY <1>1
      <3>2. QED BY <3>1, TwoAre
    <2>a. t = l \o u
      OBVIOUS
    <2> HIDE DEF t
    <2>2. QED BY <1>1, <2>1, <2>a
  <1>3. Nests(t)
    <2> SUFFICES ASSUME NEW i \in 2 .. 1 + Len(u) PROVE 1 <= t[i].level /\ t[i].level <= t[i - 1].level + 1
      BY <1>2 DEF Nests
    <2> DEFINE j == i - 1
    <2>1. j \in 1 .. Len(u) /\ 1 + j = i
      BY <1>2
    <2> HIDE DEF j
    <2>2. t[i] = u[j]
      BY <1>2, <2>1
    <2>3. CASE j = 1
      <3>1. u[1].level = 1
        BY <1>2, <2>1, <2>3 DEF Forest
      <3>2. t[i - 1] = t[1]
        BY <2>1, <2>3
      <3>3. QED BY <1>1, <1>2, <2>2, <2>3, <3>1, <3>2
    <2>4. CASE j # 1
      <3>1. j \in 2 .. Len(u) /\ j - 1 \in 1 .. Len(u) /\ 1 + (j - 1) = i - 1
        BY <1>2, <2>1, <2>4
      <3>2. t[i - 1] = u[j - 1]
        BY <1>2, <3>1
      <3>3. QED BY <2>2, <3>1, <3>2 DEF Forest, Nests
    <2>5. QED BY <2>3, <2>4
  <1>4. ToSet(t) = ToSet(l) \cup ToSet(u)
    BY <1>1, ToSetOfTwo
  <1>5. Said(t) = Said(u)
    BY <1>1, <1>4 DEF Said
  <1> HIDE DEF t
  <1>6. t # <<>>
    BY <1>2
  <1>7. Orderly(t)
    BY <1>1, <1>2, <1>3, <1>6 DEF Orderly
  <1>8. QED BY <1>5, <1>7 DEF t, l

-----------------------------------------------------------------------------
(* The parts of a schema, node by node.                                    *)

Ordered(v) == v \in Seq(Seq(Plain)) /\ \A k \in 1 .. Len(v) : Orderly(v[k])
AllOf(v)   == UNION {ToSet(v[k]) : k \in 1 .. Len(v)}
LastOf(v)  == v[Len(v)][Len(v[Len(v)])]

Grown(v, x) == IF x.level = 0 THEN Append(v, <<x>>) ELSE [v EXCEPT ![Len(v)] = Append(@, x)]

LEMMA OneNodeIs ==
    ASSUME NEW x \in Plain, x.level = 0
    PROVE  Orderly(<<x>>) /\ ToSet(<<x>>) = {x} /\ Len(<<x>>) = 1 /\ <<x>>[1] = x
  <1>1. <<x>> \in Seq(Plain) /\ <<x>> # <<>> /\ Len(<<x>>) = 1 /\ <<x>>[1] = x /\ DOMAIN <<x>> = {1}
    OBVIOUS
  <1>2. Nests(<<x>>)
    BY <1>1 DEF Nests
  <1>3. ToSet(<<x>>) = {x}
    BY <1>1 DEF ToSet
  <1>4. QED BY <1>1, <1>2, <1>3 DEF Orderly

LEMMA OneMoreNode ==
    ASSUME NEW t, Orderly(t), NEW x \in Plain, 1 <= x.level, x.level <= t[Len(t)].level + 1
    PROVE  /\ Orderly(Append(t, x)) /\ Len(Append(t, x)) = Len(t) + 1
           /\ Append(t, x)[Len(t) + 1] = x /\ ToSet(Append(t, x)) = ToSet(t) \cup {x}
  <1> DEFINE u == Append(t, x)
  <1>1. t \in Seq(Plain) /\ Len(t) \in Nat /\ 1 <= Len(t)
    BY DEF Orderly
  <1>2. u \in Seq(Plain) /\ Len(u) = Len(t) + 1 /\ u[Len(t) + 1] = x /\ \A i \in 1 .. Len(t) : u[i] = t[i]
    BY <1>1
  <1>3. ToSet(u) = ToSet(t) \cup {x}
    BY <1>1, ToSetOfMore
  <1> HIDE DEF u
  <1>4. Nests(u)
    <2> SUFFICES ASSUME NEW i \in 2 .. Len(t) + 1 PROVE 1 <= u[i].level /\ u[i].level <= u[i - 1].level + 1
      BY <1>2 DEF Nests
    <2>1. i - 1 \in 1 .. Len(t) /\ u[i - 1] = t[i - 1]
      BY <1>1, <1>2
    <2>2. CASE i = Len(t) + 1
      <3>1. i - 1 = Len(t) /\ u[i] = x
        BY <1>1, <1>2, <2>2
      <3>2. QED BY <2>1, <3>1
    <2>3. CASE i # Len(t) + 1
      <3>1. i \in 2 .. Len(t) /\ i \in 1 .. Len(t)
        BY <1>1, <2>3
      <3>2. u[i] = t[i]
        BY <1>2, <3>1
      <3>3. QED BY <2>1, <3>1, <3>2 DEF Orderly, Nests
    <2>4. QED BY <2>2, <2>3
  <1>5. u[1].level = 0 /\ u # <<>>
    <2>1. 1 \in 1 .. Len(t) /\ Len(u) # 0
      BY <1>1, <1>2
    <2>2. u[1] = t[1] /\ u # <<>>
      BY <1>2, <2>1
    <2>3. QED BY <2>2 DEF Orderly
  <1>6. Orderly(u)
    BY <1>2, <1>4, <1>5 DEF Orderly
  <1>7. QED BY <1>2, <1>3, <1>6 DEF u

LEMMA GrownIs ==
    ASSUME NEW v, Ordered(v), NEW x \in Plain,
           x.level # 0 => v # <<>> /\ 1 <= x.level /\ x.level <= LastOf(v).level + 1
    PROVE  /\ Ordered(Grown(v, x)) /\ Grown(v, x) # <<>> /\ LastOf(Grown(v, x)) = x
           /\ AllOf(Grown(v, x)) = AllOf(v) \cup {x}
  <1>1. v \in Seq(Seq(Plain)) /\ Len(v) \in Nat
    BY DEF Ordered
  <1>2. CASE x.level = 0
    <2> DEFINE w == Append(v, <<x>>)
    <2>1. Orderly(<<x>>) /\ ToSet(<<x>>) = {x} /\ Len(<<x>>) = 1 /\ <<x>>[1] = x /\ <<x>> \in Seq(Plain)
      BY <1>2, OneNodeIs
    <2>2. w \in Seq(Seq(Plain)) /\ Len(w) = Len(v) + 1 /\ w[Len(v) + 1] = <<x>> /\ \A k \in 1 .. Len(v) : w[k] = v[k]
      BY <1>1, <2>1
    <2>3. Grown(v, x) = w
      BY <1>2 DEF Grown
    <2> HIDE DEF w
    <2>4. Ordered(w)
      <3> SUFFICES ASSUME NEW k \in 1 .. Len(w) PROVE Orderly(w[k])
        BY <2>2 DEF Ordered
      <3>1. k = Len(v) + 1 \/ k \in 1 .. Len(v)
        BY <1>1, <2>2
      <3>2. QED BY <2>1, <2>2, <3>1 DEF Ordered
    <2>5. LastOf(w) = x
      BY <2>1, <2>2 DEF LastOf
    <2>6. AllOf(w) = AllOf(v) \cup {x}
      <3>1. 1 .. Len(w) = (1 .. Len(v)) \cup {Len(v) + 1}
        BY <1>1, <2>2
      <3>2. QED BY <2>1, <2>2, <3>1 DEF AllOf
    <2>7. w # <<>>
      <3>1. Len(w) # 0
        BY <1>1, <2>2
      <3>2. QED BY <3>1
    <2>8. QED BY <2>3, <2>4, <2>5, <2>6, <2>7
  <1>3. CASE x.level # 0
    <2> DEFINE l == Len(v)
               u == Append(v[l], x)
               w == [v EXCEPT ![l] = u]
    <2>1. l \in 1 .. Len(v)
      BY <1>1, <1>3
    <2>2. Orderly(v[l])
      BY <2>1 DEF Ordered
    <2>3. Orderly(u) /\ Len(u) = Len(v[l]) + 1 /\ u[Len(v[l]) + 1] = x /\ ToSet(u) = ToSet(v[l]) \cup {x}
      BY <1>3, <2>2, OneMoreNode DEF LastOf
    <2>4. u \in Seq(Plain)
      BY <2>3 DEF Orderly
    <2>5. Grown(v, x) = w
      BY <1>3 DEF Grown
    <2> HIDE DEF u
    <2>6. w \in Seq(Seq(Plain)) /\ Len(w) = Len(v) /\ w[l] = u /\ \A k \in 1 .. Len(v) : k # l => w[k] = v[k]
      BY <1>1, <2>1, <2>4
    <2> HIDE DEF w
    <2>7. Ordered(w)
      <3> SUFFICES ASSUME NEW k \in 1 .. Len(w) PROVE Orderly(w[k])
        BY <2>6 DEF Ordered
      <3>1. CASE k = l
        BY <2>3, <2>6, <3>1
      <3>2. CASE k # l
        BY <2>6, <3>2 DEF Ordered
      <3>3. QED BY <3>1, <3>2
    <2>8. LastOf(w) = x
      BY <2>3, <2>6 DEF LastOf
    <2>9. AllOf(w) = AllOf(v) \cup {x}
      <3> DEFINE others == (1 .. Len(v)) \ {l}
      <3>1. 1 .. Len(w) = others \cup {l} /\ 1 .. Len(v) = others \cup {l}
        BY <2>1, <2>6
      <3>2. \A k \in others : w[k] = v[k]
        BY <2>6
      <3> HIDE DEF others, l
      <3>3. AllOf(w) = (UNION {ToSet(w[k]) : k \in others}) \cup ToSet(u)
        BY <3>1, <2>6 DEF AllOf
      <3>4. AllOf(v) = (UNION {ToSet(v[k]) : k \in others}) \cup ToSet(v[l])
        BY <3>1 DEF AllOf
      <3>5. UNION {ToSet(w[k]) : k \in others} = UNION {ToSet(v[k]) : k \in others}
        BY <3>2
      <3>6. QED BY <2>3, <3>3, <3>4, <3>5
    <2>10. w # <<>>
      <3>1. Len(w) # 0
        BY <2>1, <2>6
      <3>2. QED BY <3>1
    <2>11. QED BY <2>5, <2>7, <2>8, <2>9, <2>10
  <1>4. QED BY <1>2, <1>3

(* A node one level up.                                                    *)
LEMMA RaisedIs ==
    ASSUME NEW n \in Plain, 1 <= n.level
    PROVE  /\ Raised(n) \in Plain /\ Raised(n).level = n.level - 1 /\ n.level \in Nat
           /\ Raised(n).self = n.self /\ Raised(n).ref = n.ref /\ Says(Raised(n)) = Says(n)
  <1>1. n \in Noded /\ (n.self = 0 \/ n.ref = 0) /\ (n.name # Blank => n.self = 0 /\ n.ref = 0)
    BY DEF Plain
  <1>2. n.level \in Nat /\ n.name \in Words /\ n.self \in Nat /\ n.ref \in Nat
    BY <1>1 DEF Noded
  <1>3. n.guarded \in BOOLEAN
    BY <1>1, Zenon DEF Noded
  <1>4. n = [name |-> n.name, self |-> n.self, ref |-> n.ref, level |-> n.level, guarded |-> n.guarded]
    BY <1>1 DEF Noded
  <1> DEFINE l == n.level - 1
             r == [name |-> n.name, self |-> n.self, ref |-> n.ref, level |-> l, guarded |-> n.guarded]
  <1>5. l \in Nat /\ l = n.level - 1
    BY <1>2
  <1>6. Raised(n) = [n EXCEPT !.level = l]
    <2>1. n.level \in Nat /\ "level" \in DOMAIN n
      BY <1>1 DEF Noded
    <2>2. QED BY <2>1 DEF Raised
  <1> HIDE DEF l
  <1>7. Raised(n) = r
    <2>1. ASSUME NEW nm, NEW se, NEW re, NEW le, NEW gu, NEW k,
                 k = [name |-> nm, self |-> se, ref |-> re, level |-> le, guarded |-> gu]
          PROVE  [k EXCEPT !.level = l] = [name |-> nm, self |-> se, ref |-> re, level |-> l, guarded |-> gu]
      BY <2>1
    <2> DEFINE nm == n.name se == n.self re == n.ref le == n.level gu == n.guarded
    <2>2. n = [name |-> nm, self |-> se, ref |-> re, level |-> le, guarded |-> gu]
      BY <1>4
    <2>3. r = [name |-> nm, self |-> se, ref |-> re, level |-> l, guarded |-> gu]
      OBVIOUS
    <2> HIDE DEF nm, se, re, le, gu, r
    <2>4. QED BY <1>6, <2>1, <2>2, <2>3
  <1>8. r \in Noded /\ r.name = n.name /\ r.self = n.self /\ r.ref = n.ref /\ r.level = l /\ r.guarded = n.guarded
    BY <1>2, <1>3, <1>5 DEF Noded
  <1> HIDE DEF r
  <1>9. r \in Plain /\ Says(r) = Says(n)
    BY <1>1, <1>8 DEF Plain, Says
  <1>10. QED BY <1>2, <1>5, <1>7, <1>8, <1>9

GrowsBy(f, t) == /\ f[1] = <<>>
                 /\ \A n \in 2 .. Len(t) : f[n] = Grown(f[n - 1], Raised(t[n]))
                 /\ Parts(t) = f[Len(t)]

LEMMA PartsStep ==
    ASSUME NEW t, Orderly(t)
    PROVE  \E f : GrowsBy(f, t)
  <1> DEFINE N == Len(t)
             D == 1 .. N
             V == Seq(Seq(Plain))
             g == [p \in D \X V |-> Grown(p[2], Raised(t[p[1]]))]
             flat == CHOOSE upto : upto = [n \in 1 .. Len(t) |->
                        IF n = 1 THEN <<>>
                        ELSE LET parts == upto[n - 1]
                             IN  IF t[n].level = 1 THEN Append(parts, <<Raised(t[n])>>)
                                 ELSE [parts EXCEPT ![Len(parts)] = Append(@, Raised(t[n]))]]
  <1>1. N \in Nat /\ 1 <= N /\ t \in Seq(Plain)
    BY DEF Orderly
  <1>2. ASSUME NEW n \in D, n # 1
        PROVE  Raised(t[n]) \in Plain /\ (Raised(t[n]).level = 0 <=> t[n].level = 1)
    <2>1. n \in 2 .. Len(t) /\ t[n] \in Plain
      BY <1>1, <1>2
    <2>2. 1 <= t[n].level
      BY <2>1 DEF Orderly, Nests
    <2>3. Raised(t[n]) \in Plain /\ Raised(t[n]).level = t[n].level - 1 /\ t[n].level \in Nat
      BY <2>1, <2>2, RaisedIs
    <2>4. QED BY <2>2, <2>3
  <1>3. ASSUME NEW n \in D, n # 1, NEW v \in V
        PROVE  g[<<n, v>>] = Grown(v, Raised(t[n])) /\ g[<<n, v>>] \in V
    <2> DEFINE x == Raised(t[n])
    <2>1. g[<<n, v>>] = Grown(v, x)
      OBVIOUS
    <2>2. x \in Plain
      BY <1>2, <1>3
    <2> HIDE DEF g, x
    <2>3. <<x>> \in Seq(Plain) /\ Append(v, <<x>>) \in V
      BY <2>2
    <2>4. [v EXCEPT ![Len(v)] = Append(@, x)] \in V
      <3>1. CASE v = <<>>
        <4>1. [v EXCEPT ![Len(v)] = Append(@, x)] = v
          BY <3>1
        <4>2. QED BY <4>1
      <3>2. CASE v # <<>>
        <4>1. Len(v) \in 1 .. Len(v)
          BY <3>2
        <4>2. v[Len(v)] \in Seq(Plain)
          BY <4>1
        <4> DEFINE u == Append(v[Len(v)], x)
        <4>3. u \in Seq(Plain)
          BY <2>2, <4>2
        <4>4. [v EXCEPT ![Len(v)] = Append(@, x)] = [v EXCEPT ![Len(v)] = u]
          OBVIOUS
        <4> HIDE DEF u
        <4>5. QED BY <4>1, <4>3, <4>4
      <3>3. QED BY <3>1, <3>2
    <2>5. Grown(v, x) \in V
      <3>1. Grown(v, x) = Append(v, <<x>>) \/ Grown(v, x) = [v EXCEPT ![Len(v)] = Append(@, x)]
        BY Zenon DEF Grown
      <3> HIDE DEF V
      <3>2. QED BY <2>3, <2>4, <3>1
    <2>6. QED BY <2>1, <2>5 DEF x
  <1>4. From(D, 1)
    BY <1>1, UptoIs
  <1>5. PICK f : Stepped(f, D, 1, <<>>, g) /\ \A n \in D : f[n] \in V
    <2>1. <<>> \in V
      OBVIOUS
    <2> HIDE DEF V, g, D
    <2>2. \A n \in D : n # 1 => \A v \in V : g[<<n, v>>] \in V
      BY <1>3
    <2>3. QED BY <1>4, <2>1, <2>2, SteppedExists
  <1>6. \A n \in D : n # 1 => n - 1 \in D
    BY <1>1
  <1>7. f = [n \in D |-> IF n = 1 THEN <<>> ELSE g[<<n, f[n - 1]>>]]
    BY <1>5 DEF Stepped
  <1>8. \A n \in D : n # 1 => g[<<n, f[n - 1]>>] = Grown(f[n - 1], Raised(t[n]))
    <2> HIDE DEF g, V, D
    <2>1. QED BY <1>3, <1>5, <1>6
  <1>9. \A n \in D : n # 1 =>
           LET parts == f[n - 1]
           IN  Grown(f[n - 1], Raised(t[n]))
               = IF t[n].level = 1 THEN Append(parts, <<Raised(t[n])>>)
                 ELSE [parts EXCEPT ![Len(parts)] = Append(@, Raised(t[n]))]
    <2> HIDE DEF D
    <2>1. QED BY <1>2 DEF Grown
  <1>10. f = [n \in D |->
                        IF n = 1 THEN <<>>
                        ELSE LET parts == f[n - 1]
                             IN  IF t[n].level = 1 THEN Append(parts, <<Raised(t[n])>>)
                                 ELSE [parts EXCEPT ![Len(parts)] = Append(@, Raised(t[n]))]]
    <2> DEFINE h(n) == IF n = 1 THEN <<>>
                        ELSE LET parts == f[n - 1]
                             IN  IF t[n].level = 1 THEN Append(parts, <<Raised(t[n])>>)
                                 ELSE [parts EXCEPT ![Len(parts)] = Append(@, Raised(t[n]))]
               k(n) == IF n = 1 THEN <<>> ELSE g[<<n, f[n - 1]>>]
    <2> HIDE DEF g, D
    <2>1. ASSUME NEW n \in D PROVE k(n) = h(n)
      <3>1. CASE n = 1
        BY <3>1
      <3>2. CASE n # 1
        <4>1. k(n) = Grown(f[n - 1], Raised(t[n]))
          BY <1>8, <3>2
        <4>2. h(n) = Grown(f[n - 1], Raised(t[n]))
          BY <1>9, <3>2, Zenon
        <4>3. QED BY <4>1, <4>2
      <3>3. QED BY <3>1, <3>2
    <2>2. f = [n \in D |-> k(n)]
      BY <1>7
    <2>3. f = [n \in D |-> h(n)]
      <3> HIDE DEF h, k
      <3>1. QED BY <2>1, <2>2
    <2>4. QED BY <2>3
  <1>11. flat = [n \in 1 .. Len(t) |->
                        IF n = 1 THEN <<>>
                        ELSE LET parts == flat[n - 1]
                             IN  IF t[n].level = 1 THEN Append(parts, <<Raised(t[n])>>)
                                 ELSE [parts EXCEPT ![Len(parts)] = Append(@, Raised(t[n]))]]
    BY <1>10
  <1>12. Parts(t) = flat[Len(t)]
    BY DEF Parts
  <1> HIDE DEF flat
  <1>13. flat[1] = <<>> /\ \A n \in D : n # 1 =>
           LET parts == flat[n - 1]
           IN  flat[n]
               = IF t[n].level = 1 THEN Append(parts, <<Raised(t[n])>>)
                 ELSE [parts EXCEPT ![Len(parts)] = Append(@, Raised(t[n]))]
    <2>1. 1 \in D /\ D = 1 .. Len(t)
      BY <1>1
    <2> HIDE DEF D
    <2>2. QED BY <1>11, <2>1
  <1>14. \A n \in 2 .. Len(t) : flat[n] = Grown(flat[n - 1], Raised(t[n]))
    <2> SUFFICES ASSUME NEW n \in 2 .. Len(t) PROVE flat[n] = Grown(flat[n - 1], Raised(t[n]))
      OBVIOUS
    <2>1. n \in D /\ n # 1
      BY <1>1
    <2> HIDE DEF D
    <2>2. Raised(t[n]).level = 0 <=> t[n].level = 1
      BY <1>2, <2>1
    <2>3. QED BY <1>13, <2>1, <2>2 DEF Grown
  <1>15. GrowsBy(flat, t)
    BY <1>12, <1>13, <1>14 DEF GrowsBy
  <1>16. QED BY <1>15

(* The parts of a schema are schemas, and together say what it says.       *)
LEMMA PartsHold ==
    ASSUME NEW t, Orderly(t), t[1].self = 0, t[1].ref = 0
    PROVE  Ordered(Parts(t)) /\ UNION {Said(Parts(t)[k]) : k \in 1 .. Len(Parts(t))} = Said(t)
  <1>1. t \in Seq(Plain) /\ Len(t) \in Nat /\ 1 <= Len(t)
    BY DEF Orderly
  <1>2. PICK f : GrowsBy(f, t)
    BY PartsStep
  <1> DEFINE Right(n) == /\ Ordered(f[n]) /\ AllOf(f[n]) = {Raised(t[j]) : j \in 2 .. n}
                         /\ n # 1 => f[n] # <<>> /\ LastOf(f[n]) = Raised(t[n])
             T == {n \in Nat : n \in 1 .. Len(t) => Right(n)}
  <1>3. 0 \in T
    OBVIOUS
  <1>4. ASSUME NEW n \in T PROVE n + 1 \in T
    <2> SUFFICES ASSUME n + 1 \in 1 .. Len(t) PROVE Right(n + 1)
      OBVIOUS
    <2>1. CASE n = 0
      <3>1. f[1] = <<>>
        BY <1>2 DEF GrowsBy
      <3>2. Ordered(<<>>) /\ AllOf(<<>>) = {}
        BY DEF Ordered, AllOf
      <3>3. 2 .. 1 = {}
        OBVIOUS
      <3>4. {Raised(t[j]) : j \in {}} = {}
        OBVIOUS
      <3>5. QED BY <2>1, <3>1, <3>2, <3>3, <3>4
    <2>2. CASE n # 0
      <3> DEFINE x == Raised(t[n + 1])
      <3>1. n \in 1 .. Len(t) /\ n + 1 \in 2 .. Len(t) /\ (n + 1) - 1 = n /\ n + 1 # 1
        BY <1>1, <2>2
      <3>2. Right(n)
        BY <3>1
      <3>3. f[n + 1] = Grown(f[n], x)
        BY <1>2, <3>1 DEF GrowsBy
      <3>4. 1 <= t[n + 1].level /\ t[n + 1].level <= t[n].level + 1
        BY <3>1 DEF Orderly, Nests
      <3>5. t[n + 1] \in Plain /\ t[n] \in Plain
        BY <1>1, <3>1
      <3>6. x \in Plain /\ x.level = t[n + 1].level - 1 /\ t[n + 1].level \in Nat
        BY <3>4, <3>5, RaisedIs
      <3>7. x.level # 0 => f[n] # <<>> /\ 1 <= x.level /\ x.level <= LastOf(f[n]).level + 1
        <4> SUFFICES ASSUME x.level # 0 PROVE f[n] # <<>> /\ 1 <= x.level /\ x.level <= LastOf(f[n]).level + 1
          OBVIOUS
        <4> HIDE DEF x
        <4>1. 1 <= x.level
          BY <3>4, <3>6
        <4>2. n # 1
          <5> SUFFICES ASSUME n = 1 PROVE FALSE
            OBVIOUS
          <5>1. t[n].level = 0
            BY DEF Orderly
          <5>2. QED BY <3>4, <3>6, <4>1, <5>1
        <4>3. f[n] # <<>> /\ LastOf(f[n]) = Raised(t[n])
          BY <3>2, <4>2
        <4>4. n \in 2 .. Len(t)
          BY <3>1, <4>2
        <4>5. 1 <= t[n].level
          BY <4>4 DEF Orderly, Nests
        <4>6. Raised(t[n]).level = t[n].level - 1 /\ t[n].level \in Nat
          BY <3>5, <4>5, RaisedIs
        <4>7. x.level <= LastOf(f[n]).level + 1
          BY <3>4, <3>6, <4>3, <4>6
        <4>8. QED BY <4>1, <4>3, <4>7
      <3>8. /\ Ordered(Grown(f[n], x)) /\ Grown(f[n], x) # <<>> /\ LastOf(Grown(f[n], x)) = x
            /\ AllOf(Grown(f[n], x)) = AllOf(f[n]) \cup {x}
        <4> HIDE DEF x
        <4>1. Ordered(f[n])
          BY <3>2
        <4>2. QED BY <3>6, <3>7, <4>1, GrownIs
      <3>9. {Raised(t[j]) : j \in 2 .. n + 1} = {Raised(t[j]) : j \in 2 .. n} \cup {x}
        <4>0. n \in Nat /\ 1 <= n
          BY <1>1, <3>1
        <4>1. 2 .. n + 1 = (2 .. n) \cup {n + 1}
          BY <4>0
        <4>2. QED BY <4>1
      <3>10. AllOf(f[n]) = {Raised(t[j]) : j \in 2 .. n}
        BY <3>2
      <3> HIDE DEF x
      <3>11. Ordered(f[n + 1]) /\ f[n + 1] # <<>> /\ LastOf(f[n + 1]) = x
             /\ AllOf(f[n + 1]) = {Raised(t[j]) : j \in 2 .. n + 1}
        BY <3>3, <3>8, <3>9, <3>10
      <3>12. QED BY <3>11 DEF x
    <2>3. QED BY <2>1, <2>2
  <1>5. T \in SUBSET Nat
    OBVIOUS
  <1>6. Right(Len(t))
    <2> HIDE DEF Right
    <2>1. T = Nat
      <3> HIDE DEF T
      <3>1. QED BY <1>3, <1>4, <1>5, EveryNumber
    <2>2. Len(t) \in T /\ Len(t) \in 1 .. Len(t)
      BY <1>1, <2>1
    <2>3. QED BY <2>2
  <1> DEFINE ps == Parts(t)
  <1>7. Ordered(ps) /\ AllOf(ps) = {Raised(t[j]) : j \in 2 .. Len(t)}
    BY <1>2, <1>6 DEF GrowsBy
  <1>8. \A j \in 2 .. Len(t) : /\ Raised(t[j]).self = t[j].self /\ Raised(t[j]).ref = t[j].ref
                                /\ Says(Raised(t[j])) = Says(t[j])
    <2> SUFFICES ASSUME NEW j \in 2 .. Len(t)
                 PROVE  /\ Raised(t[j]).self = t[j].self /\ Raised(t[j]).ref = t[j].ref
                        /\ Says(Raised(t[j])) = Says(t[j])
      OBVIOUS
    <2>1. t[j] \in Plain
      BY <1>1
    <2>2. 1 <= t[j].level
      BY DEF Orderly, Nests
    <2>3. QED BY <2>1, <2>2, RaisedIs
  <1>9. t[1].self = 0 /\ t[1].ref = 0
    OBVIOUS
  <1>10. ToSet(t) = {t[1]} \cup {t[j] : j \in 2 .. Len(t)}
    <2>1. 1 .. Len(t) = {1} \cup (2 .. Len(t))
      BY <1>1
    <2>2. ToSet(t) = {t[j] : j \in 1 .. Len(t)}
      BY <1>1 DEF ToSet
    <2>3. QED BY <2>1, <2>2
  <1> HIDE DEF ps
  <1>11. UNION {Said(ps[k]) : k \in 1 .. Len(ps)} = {Says(n) : n \in {m \in AllOf(ps) : m.self # 0 \/ m.ref # 0}}
    BY DEF Said, AllOf
  <1>12. Said(t) = {Says(n) : n \in {m \in {t[j] : j \in 2 .. Len(t)} : m.self # 0 \/ m.ref # 0}}
    BY <1>9, <1>10 DEF Said
  <1>13. {Says(n) : n \in {m \in {Raised(t[j]) : j \in 2 .. Len(t)} : m.self # 0 \/ m.ref # 0}}
         = {Says(n) : n \in {m \in {t[j] : j \in 2 .. Len(t)} : m.self # 0 \/ m.ref # 0}}
    BY <1>8
  <1>14. QED BY <1>7, <1>11, <1>12, <1>13 DEF ps

-----------------------------------------------------------------------------
(* What a union and a form say.                                            *)

SaidBy(v) == UNION {Said(v[k]) : k \in 1 .. Len(v)}

LEMMA NodeIs ==
    ASSUME NEW name \in Words, NEW self \in Nat, NEW ref \in Nat, NEW level \in Nat, NEW g \in BOOLEAN, NEW x,
           x = [name |-> name, self |-> self, ref |-> ref, level |-> level, guarded |-> g]
    PROVE  /\ x \in Noded /\ x.name = name /\ x.self = self /\ x.ref = ref /\ x.level = level /\ x.guarded = g
           /\ Says(x) = <<self, ref, g>>
  BY DEF Noded, Says

LEMMA FunIsSeq ==
    ASSUME NEW S, NEW N \in Nat, NEW u \in [1 .. N -> S]
    PROVE  u \in Seq(S) /\ Len(u) = N
  OBVIOUS

LEMMA SaidBooleans ==
    ASSUME NEW t \in Seq(Plain), NEW m \in Said(t)
    PROVE  m = <<m[1], m[2], m[3]>> /\ m[1] \in Nat /\ m[2] \in Nat /\ m[3] \in BOOLEAN
  <1>1. ToSet(t) \in SUBSET Plain
    BY DEF ToSet
  <1>2. PICK n \in Plain : m = Says(n)
    BY <1>1 DEF Said
  <1>3. n \in Noded
    BY DEF Plain
  <1>4. n.self \in Nat /\ n.ref \in Nat
    BY <1>3 DEF Noded
  <1>5. n.guarded \in BOOLEAN
    BY <1>3, Zenon DEF Noded
  <1>6. QED BY <1>2, <1>4, <1>5 DEF Says

LEMMA MembersHold ==
    ASSUME NEW t, Orderly(t)
    PROVE  Ordered(Members(t)) /\ SaidBy(Members(t)) = Said(t)
  <1>1. t \in Seq(Plain) /\ Len(t) \in Nat /\ 1 <= Len(t)
    BY DEF Orderly
  <1>2. CASE t[1].name = Bar
    <2>1. t[1] \in Plain
      BY <1>1
    <2>2. t[1].self = 0 /\ t[1].ref = 0
      <3>1. t[1].name # Blank
        BY <1>2 DEF Blank, Bar
      <3>2. QED BY <2>1, <3>1 DEF Plain
    <2>3. Members(t) = Parts(t)
      BY <1>2 DEF Members, Bar
    <2>4. QED BY <2>2, <2>3, PartsHold DEF SaidBy
  <1>3. CASE t[1].name # Bar
    <2>1. Members(t) = <<t>>
      BY <1>3 DEF Members, Bar
    <2>2. <<t>> \in Seq(Seq(Plain)) /\ Len(<<t>>) = 1 /\ <<t>>[1] = t
      BY <1>1
    <2>3. 1 .. 1 = {1}
      OBVIOUS
    <2>4. Ordered(<<t>>)
      BY <2>2, <2>3 DEF Ordered
    <2>5. SaidBy(<<t>>) = Said(t)
      BY <2>2, <2>3 DEF SaidBy
    <2>6. QED BY <2>1, <2>4, <2>5
  <1>4. QED BY <1>2, <1>3

LEMMA OrderedRange ==
    ASSUME NEW v \in Seq(Seq(Plain))
    PROVE  /\ Ordered(v) <=> \A t \in ToSet(v) : Orderly(t)
           /\ SaidBy(v) = UNION {Said(t) : t \in ToSet(v)}
  <1>1. ToSet(v) = {v[k] : k \in 1 .. Len(v)}
    <2>1. DOMAIN v = 1 .. Len(v)
      OBVIOUS
    <2>2. QED BY <2>1 DEF ToSet
  <1>2. QED BY <1>1 DEF Ordered, SaidBy

LEMMA UnionHolds ==
    ASSUME NEW parts, Ordered(parts)
    PROVE  Orderly(Union(parts)) /\ Said(Union(parts)) = SaidBy(parts)
  <1> DEFINE each    == [i \in DOMAIN parts |-> Members(parts[i])]
             all     == FlattenSeq(each)
             members == Distinct(all)
  <1>1. parts \in Seq(Seq(Plain)) /\ DOMAIN parts = 1 .. Len(parts) /\ Len(parts) \in Nat
    BY DEF Ordered
  <1>2. \A i \in 1 .. Len(parts) : /\ Ordered(Members(parts[i])) /\ SaidBy(Members(parts[i])) = Said(parts[i])
                                   /\ Members(parts[i]) \in Seq(Seq(Plain))
    <2> SUFFICES ASSUME NEW i \in 1 .. Len(parts)
                 PROVE  /\ Ordered(Members(parts[i])) /\ SaidBy(Members(parts[i])) = Said(parts[i])
                        /\ Members(parts[i]) \in Seq(Seq(Plain))
      OBVIOUS
    <2>1. Orderly(parts[i])
      BY DEF Ordered
    <2>2. Ordered(Members(parts[i])) /\ SaidBy(Members(parts[i])) = Said(parts[i])
      BY <2>1, MembersHold
    <2>3. QED BY <2>2 DEF Ordered
  <1>3. each \in Seq(Seq(Seq(Plain))) /\ Len(each) = Len(parts) /\ \A i \in 1 .. Len(parts) : each[i] = Members(parts[i])
    <2> DEFINE V == Seq(Seq(Plain))
    <2>1. each \in [1 .. Len(parts) -> V]
      BY <1>1, <1>2
    <2> HIDE DEF V
    <2>2. each \in Seq(V)
      <3> HIDE DEF each
      <3>1. QED BY <1>1, <2>1, FunIsSeq
    <2>3. DOMAIN each = 1 .. Len(parts)
      BY <1>1
    <2>4. Len(each) = Len(parts)
      <3> HIDE DEF each
      <3>1. QED BY <1>1, <2>2, <2>3
    <2>5. QED BY <1>1, <2>2, <2>4 DEF V
  <1> HIDE DEF each
  <1>4. all \in Seq(Seq(Plain)) /\ ToSet(all) = UNION {ToSet(each[k]) : k \in 1 .. Len(each)}
    <2> DEFINE S == Seq(Plain)
    <2>1. each \in Seq(Seq(S))
      BY <1>3
    <2> HIDE DEF S
    <2>2. FlattenSeq(each) \in Seq(S) /\ ToSet(FlattenSeq(each)) = UNION {ToSet(each[k]) : k \in 1 .. Len(each)}
      BY <2>1, FlattenRange
    <2>3. QED BY <2>2 DEF S
  <1> HIDE DEF all
  <1>5. members \in Seq(Seq(Plain)) /\ ToSet(members) = ToSet(all)
    <2> DEFINE S == Seq(Plain)
    <2>1. all \in Seq(S)
      BY <1>4
    <2> HIDE DEF S
    <2>2. Distinct(all) \in Seq(S) /\ ToSet(Distinct(all)) = ToSet(all)
      BY <2>1, DistinctRange
    <2>3. QED BY <2>2 DEF S
  <1> HIDE DEF members
  <1>6. /\ \A i \in 1 .. Len(parts) : \A t \in ToSet(each[i]) : Orderly(t)
        /\ \A i \in 1 .. Len(parts) : Said(parts[i]) = UNION {Said(t) : t \in ToSet(each[i])}
    <2> SUFFICES ASSUME NEW i \in 1 .. Len(parts)
                 PROVE  /\ \A t \in ToSet(each[i]) : Orderly(t)
                        /\ Said(parts[i]) = UNION {Said(t) : t \in ToSet(each[i])}
      OBVIOUS
    <2>1. each[i] = Members(parts[i]) /\ each[i] \in Seq(Seq(Plain)) /\ Ordered(each[i]) /\ SaidBy(each[i]) = Said(parts[i])
      BY <1>2, <1>3
    <2>2. QED BY <2>1, OrderedRange
  <1>7. \A t \in ToSet(members) : Orderly(t)
    BY <1>3, <1>4, <1>5, <1>6
  <1>8. UNION {Said(t) : t \in ToSet(members)} = SaidBy(parts)
    <2>1. UNION {Said(t) : t \in ToSet(members)} = UNION {UNION {Said(t) : t \in ToSet(each[i])} : i \in 1 .. Len(parts)}
      BY <1>3, <1>4, <1>5
    <2>2. SaidBy(parts) = UNION {Said(parts[i]) : i \in 1 .. Len(parts)}
      BY DEF SaidBy
    <2>3. QED BY <1>6, <2>1, <2>2
  <1>9. Ordered(members) /\ SaidBy(members) = SaidBy(parts)
    BY <1>5, <1>7, <1>8, OrderedRange
  <1>10. Union(parts) = IF Len(members) = 1 THEN members[1]
                        ELSE Leaf("|") \o FlattenSeq([i \in DOMAIN members |-> Under(members[i], FALSE)])
    BY DEF Union, members, all, each
  <1>11. CASE Len(members) = 1
    <2>1. Union(parts) = members[1] /\ 1 \in 1 .. Len(members) /\ 1 .. Len(members) = {1}
      BY <1>10, <1>11
    <2>2. QED BY <1>9, <2>1 DEF Ordered, SaidBy
  <1>12. CASE Len(members) # 1
    <2> DEFINE us == [i \in DOMAIN members |-> Under(members[i], FALSE)]
    <2>1. DOMAIN members = 1 .. Len(members) /\ Len(members) \in Nat
      BY <1>5
    <2>2. \A i \in 1 .. Len(members) : Forest(Under(members[i], FALSE)) /\ Said(Under(members[i], FALSE)) = Said(members[i])
      <3> SUFFICES ASSUME NEW i \in 1 .. Len(members)
                   PROVE  Forest(Under(members[i], FALSE)) /\ Said(Under(members[i], FALSE)) = Said(members[i])
        OBVIOUS
      <3>1. Orderly(members[i]) /\ members[i] \in Seq(Plain)
        BY <1>9 DEF Ordered, Orderly
      <3>2. /\ Forest(Under(members[i], FALSE))
            /\ Said(Under(members[i], FALSE)) = {<<m[1], m[2], m[3] \/ FALSE>> : m \in Said(members[i])}
        BY <3>1, UnderIs
      <3>3. \A m \in Said(members[i]) : <<m[1], m[2], m[3] \/ FALSE>> = m
        <4> SUFFICES ASSUME NEW m \in Said(members[i]) PROVE <<m[1], m[2], m[3] \/ FALSE>> = m
          OBVIOUS
        <4>1. m = <<m[1], m[2], m[3]>> /\ m[3] \in BOOLEAN
          BY <3>1, SaidBooleans
        <4>2. (m[3] \/ FALSE) = m[3]
          BY <4>1, Zenon
        <4>3. QED BY <4>1, <4>2
      <3>4. {<<m[1], m[2], m[3] \/ FALSE>> : m \in Said(members[i])} = Said(members[i])
        <4> DEFINE h(m) == <<m[1], m[2], m[3] \/ FALSE>>
                   Ms == Said(members[i])
        <4>1. \A m \in Ms : h(m) = m
          BY <3>3
        <4> HIDE DEF h, Ms
        <4>2. {h(m) : m \in Ms} = Ms
          BY <4>1
        <4>3. QED BY <4>2 DEF h, Ms
      <3>5. QED BY <3>2, <3>4
    <2>3. /\ us \in Seq(Seq(Plain)) /\ Len(us) = Len(members)
          /\ \A i \in 1 .. Len(members) : us[i] = Under(members[i], FALSE)
      <3>1. \A i \in 1 .. Len(members) : Under(members[i], FALSE) \in Seq(Plain)
        BY <2>2 DEF Forest
      <3>2. us \in [1 .. Len(members) -> Seq(Plain)] /\ DOMAIN us = 1 .. Len(members)
        BY <2>1, <3>1
      <3>3. us \in Seq(Seq(Plain)) /\ Len(us) = Len(members)
        <4> HIDE DEF us
        <4>1. QED BY <2>1, <3>2, FunIsSeq
      <3>4. QED BY <2>1, <3>3
    <2>4. Union(parts) = Leaf("|") \o FlattenSeq(us)
      BY <1>10, <1>12
    <2> HIDE DEF us
    <2>5. Forest(FlattenSeq(us)) /\ Said(FlattenSeq(us)) = SaidBy(us)
      <3>1. \A k \in 1 .. Len(us) : Forest(us[k])
        BY <2>2, <2>3
      <3>2. QED BY <2>3, <3>1, FlattenForest DEF SaidBy
    <2>6. SaidBy(us) = SaidBy(members)
      BY <2>2, <2>3 DEF SaidBy
    <2> DEFINE bar == Bar
    <2>7. bar \in Words /\ Union(parts) = Leaf(bar) \o FlattenSeq(us)
      BY <2>4 DEF Words, Bar
    <2> HIDE DEF bar
    <2>8. Orderly(Leaf(bar) \o FlattenSeq(us)) /\ Said(Leaf(bar) \o FlattenSeq(us)) = Said(FlattenSeq(us))
      BY <2>5, <2>7, LeafOver
    <2>9. QED BY <1>9, <2>5, <2>6, <2>7, <2>8
  <1>13. QED BY <1>11, <1>12

LEMMA FormHolds ==
    ASSUME NEW name \in Words, NEW parts, Ordered(parts),
           NEW t, t = Leaf(name) \o FlattenSeq([i \in DOMAIN parts |-> Under(parts[i], TRUE)])
    PROVE  Orderly(t) /\ Said(t) = {<<m[1], m[2], TRUE>> : m \in SaidBy(parts)}
  <1> DEFINE us == [i \in DOMAIN parts |-> Under(parts[i], TRUE)]
  <1>1. parts \in Seq(Seq(Plain)) /\ DOMAIN parts = 1 .. Len(parts) /\ Len(parts) \in Nat
    BY DEF Ordered
  <1>2. \A i \in 1 .. Len(parts) : /\ Forest(Under(parts[i], TRUE))
                                   /\ Said(Under(parts[i], TRUE)) = {<<m[1], m[2], TRUE>> : m \in Said(parts[i])}
    <2> SUFFICES ASSUME NEW i \in 1 .. Len(parts)
                 PROVE  /\ Forest(Under(parts[i], TRUE))
                        /\ Said(Under(parts[i], TRUE)) = {<<m[1], m[2], TRUE>> : m \in Said(parts[i])}
      OBVIOUS
    <2>1. Orderly(parts[i])
      BY DEF Ordered
    <2>2. /\ Forest(Under(parts[i], TRUE))
          /\ Said(Under(parts[i], TRUE)) = {<<m[1], m[2], m[3] \/ TRUE>> : m \in Said(parts[i])}
      BY <2>1, UnderIs
    <2>3. \A m : (m[3] \/ TRUE) = TRUE
      BY Zenon
    <2>4. QED BY <2>2, <2>3
  <1>3. /\ us \in Seq(Seq(Plain)) /\ Len(us) = Len(parts)
        /\ \A i \in 1 .. Len(parts) : us[i] = Under(parts[i], TRUE)
    <2>1. \A i \in 1 .. Len(parts) : Under(parts[i], TRUE) \in Seq(Plain)
      BY <1>2 DEF Forest
    <2>2. us \in [1 .. Len(parts) -> Seq(Plain)] /\ DOMAIN us = 1 .. Len(parts)
      BY <1>1, <2>1
    <2>3. us \in Seq(Seq(Plain)) /\ Len(us) = Len(parts)
      <3> HIDE DEF us
      <3>1. QED BY <1>1, <2>2, FunIsSeq
    <2>4. QED BY <1>1, <2>3
  <1>4. t = Leaf(name) \o FlattenSeq(us)
    OBVIOUS
  <1> HIDE DEF us
  <1>5. Forest(FlattenSeq(us)) /\ Said(FlattenSeq(us)) = SaidBy(us)
    <2>1. \A k \in 1 .. Len(us) : Forest(us[k])
      BY <1>2, <1>3
    <2>2. QED BY <1>3, <2>1, FlattenForest DEF SaidBy
  <1>6. SaidBy(us) = {<<m[1], m[2], TRUE>> : m \in SaidBy(parts)}
    <2>1. SaidBy(us) = UNION {{<<m[1], m[2], TRUE>> : m \in Said(parts[i])} : i \in 1 .. Len(parts)}
      BY <1>2, <1>3 DEF SaidBy
    <2> DEFINE h(m) == <<m[1], m[2], TRUE>>
               each(i) == Said(parts[i])
               Is == 1 .. Len(parts)
    <2>2. SaidBy(us) = UNION {{h(m) : m \in each(i)} : i \in Is} /\ SaidBy(parts) = UNION {each(i) : i \in Is}
      BY <2>1 DEF SaidBy
    <2> HIDE DEF h, each, Is
    <2>3. SaidBy(us) = {h(m) : m \in SaidBy(parts)}
      BY <2>2
    <2>4. QED BY <2>3 DEF h
  <1>7. QED BY <1>4, <1>5, <1>6, LeafOver

(* A compiled schema, an open alias named again, a definition named.       *)
LEMMA WholeIs ==
    ASSUME NEW name \in Words, NEW n \in Nat \ {0}
    PROVE  Orderly(Whole(name, n)) /\ Said(Whole(name, n)) = {}
  <1> DEFINE t == Whole(name, n)
             node(i) == [name |-> name, self |-> 0, ref |-> 0, level |-> i - 1, guarded |-> i > 1]
  <1>1. t = [i \in 1 .. n |-> node(i)]
    BY DEF Whole
  <1>2. \A i \in 1 .. n : node(i) \in Plain /\ node(i).level = i - 1 /\ node(i).self = 0 /\ node(i).ref = 0
    <2> SUFFICES ASSUME NEW i \in 1 .. n
                 PROVE  node(i) \in Plain /\ node(i).level = i - 1 /\ node(i).self = 0 /\ node(i).ref = 0
      OBVIOUS
    <2> DEFINE l == i - 1
               g == i > 1
    <2>1. l \in Nat /\ l = i - 1
      OBVIOUS
    <2>2. g \in BOOLEAN
      OBVIOUS
    <2>3. node(i) = [name |-> name, self |-> 0, ref |-> 0, level |-> l, guarded |-> g]
      OBVIOUS
    <2> HIDE DEF l, g, node
    <2>4. 0 \in Nat
      OBVIOUS
    <2>5. node(i) \in Noded /\ node(i).level = l /\ node(i).self = 0 /\ node(i).ref = 0
      BY <2>1, <2>2, <2>3, <2>4, NodeIs
    <2>6. QED BY <2>1, <2>5 DEF Plain
  <1> HIDE DEF node
  <1>3. t \in Seq(Plain) /\ Len(t) = n /\ \A i \in 1 .. n : t[i] = node(i)
    BY <1>1, <1>2
  <1> HIDE DEF t
  <1>4. Nests(t)
    <2> SUFFICES ASSUME NEW i \in 2 .. n PROVE 1 <= t[i].level /\ t[i].level <= t[i - 1].level + 1
      BY <1>3 DEF Nests
    <2>1. i \in 1 .. n /\ i - 1 \in 1 .. n
      OBVIOUS
    <2>2. t[i].level = i - 1 /\ t[i - 1].level = (i - 1) - 1
      BY <1>2, <1>3, <2>1
    <2>3. QED BY <2>2
  <1>5. t[1].level = 0 /\ t # <<>>
    BY <1>2, <1>3
  <1>6. Said(t) = {}
    <2>1. ToSet(t) = {t[i] : i \in 1 .. n}
      BY <1>3 DEF ToSet
    <2>2. QED BY <1>2, <1>3, <2>1 DEF Said
  <1>7. QED BY <1>3, <1>4, <1>5, <1>6 DEF Orderly, t

LEMMA SelfIs ==
    ASSUME NEW token \in Nat \ {0}
    PROVE  Orderly(Self(token)) /\ Said(Self(token)) = {<<token, 0, FALSE>>}
  <1> DEFINE b == Blank
             x == [name |-> b, self |-> token, ref |-> 0, level |-> 0, guarded |-> FALSE]
  <1>1. x \in Plain /\ x.level = 0 /\ Says(x) = <<token, 0, FALSE>> /\ x.self # 0
    <2>1. b \in Words /\ b = Blank
      BY DEF Words
    <2>2. 0 \in Nat /\ FALSE \in BOOLEAN
      OBVIOUS
    <2>a. x = [name |-> b, self |-> token, ref |-> 0, level |-> 0, guarded |-> FALSE] /\ token \in Nat
      OBVIOUS
    <2> HIDE DEF b, x
    <2>b. x.name = b /\ x.level = 0 /\ x.self = token /\ x.ref = 0 /\ x.guarded = FALSE
      BY <2>a
    <2>c. x \in Noded
      BY <2>1, <2>2, <2>a DEF Noded
    <2>3. x \in Noded /\ x.name = b /\ x.level = 0 /\ x.self = token /\ x.ref = 0 /\ Says(x) = <<token, 0, FALSE>>
      BY <2>b, <2>c DEF Says
    <2> HIDE DEF x
    <2>4. QED BY <2>1, <2>3 DEF Plain
  <1>2. Self(token) = <<x>>
    BY DEF Self, Blank
  <1> HIDE DEF x
  <1>3. Orderly(<<x>>) /\ ToSet(<<x>>) = {x}
    BY <1>1, OneNodeIs
  <1>4. Said(<<x>>) = {Says(x)}
    BY <1>1, <1>3 DEF Said
  <1>5. QED BY <1>1, <1>2, <1>3, <1>4

LEMMA RefIs ==
    ASSUME NEW ix \in Nat \ {0}
    PROVE  Orderly(Ref(ix)) /\ Said(Ref(ix)) = {<<0, ix, FALSE>>}
  <1> DEFINE b == Blank
             x == [name |-> b, self |-> 0, ref |-> ix, level |-> 0, guarded |-> FALSE]
  <1>1. x \in Plain /\ x.level = 0 /\ Says(x) = <<0, ix, FALSE>> /\ x.ref # 0
    <2>1. b \in Words /\ b = Blank
      BY DEF Words
    <2>2. 0 \in Nat /\ FALSE \in BOOLEAN
      OBVIOUS
    <2>a. x = [name |-> b, self |-> 0, ref |-> ix, level |-> 0, guarded |-> FALSE] /\ ix \in Nat
      OBVIOUS
    <2> HIDE DEF b, x
    <2>b. x.name = b /\ x.level = 0 /\ x.self = 0 /\ x.ref = ix /\ x.guarded = FALSE
      BY <2>a
    <2>c. x \in Noded
      BY <2>1, <2>2, <2>a DEF Noded
    <2>3. x \in Noded /\ x.name = b /\ x.level = 0 /\ x.ref = ix /\ x.self = 0 /\ Says(x) = <<0, ix, FALSE>>
      BY <2>b, <2>c DEF Says
    <2> HIDE DEF x
    <2>4. QED BY <2>1, <2>3 DEF Plain
  <1>2. Ref(ix) = <<x>>
    BY DEF Ref, Blank
  <1> HIDE DEF x
  <1>3. Orderly(<<x>>) /\ ToSet(<<x>>) = {x}
    BY <1>1, OneNodeIs
  <1>4. Said(<<x>>) = {Says(x)}
    BY <1>1, <1>3 DEF Said
  <1>5. QED BY <1>1, <1>2, <1>3, <1>4

-----------------------------------------------------------------------------
(* A schema that stands for an annotation, aliases open.                   *)

Anns(Q) == {q[1] : q \in Q}
Toks(Q) == {q[2] : q \in Q}

BareIn(ds) == [d \in DOMAIN ds |-> Bare(ds[d])]
\* The placeholders met in t outside any constructor, through the definitions it names.
Gathered(C, ds) == UNION {BareSelfs(ds[d]) : d \in C \cap DOMAIN ds}
BareToks(t, ds) == BareSelfs(t) \cup Gathered(Closure(Bare(t), BareIn(ds)), ds)

\* The definitions of K name only those of K, and no placeholder out of T.
ShutIn(K, T, ds) == \A d \in K : Refs(ds[d]) \in SUBSET K /\ Selfs(ds[d]) \in SUBSET T
Good(T, ds)      == UNION {K \in SUBSET (DOMAIN ds) : ShutIn(K, T, ds)}
Sealed(t, T, ds) == Selfs(t) \in SUBSET T /\ Refs(t) \in SUBSET Good(T, ds)

\* With the aliases of Q open, each <<alias, token>>, t stands for b: it meets a token
\* outside any constructor exactly where b names that alias so.
Meets(t, b, Q, ds) == \A q \in Q : q[2] \in BareToks(t, ds) <=> q[1] \in BareReach(b, Anns(Q))
Fine(t, b, Q, T, ds) ==
    Orderly(t) /\ Sealed(t, T, ds) /\ Meets(t, b, Q, ds) /\ Tame(b, Anns(Q))

Tabled(ds) == ds \in Seq(Seq(Plain))

LEMMA TabledIs ==
    ASSUME NEW ds, Tabled(ds)
    PROVE  /\ DOMAIN ds = 1 .. Len(ds) /\ Len(ds) \in Nat /\ IsFiniteSet(DOMAIN ds)
           /\ \A d \in DOMAIN ds : ds[d] \in Seq(Plain)
           /\ DOMAIN BareIn(ds) = DOMAIN ds /\ IsFiniteSet(DOMAIN BareIn(ds))
           /\ \A d \in DOMAIN ds : BareIn(ds)[d] = Bare(ds[d])
  <1>1. ds \in Seq(Seq(Plain))
    BY DEF Tabled
  <1>2. DOMAIN ds = 1 .. Len(ds) /\ Len(ds) \in Nat
    BY <1>1
  <1>3. IsFiniteSet(1 .. Len(ds))
    BY <1>2, FS_Interval
  <1>4. \A d \in DOMAIN ds : ds[d] \in Seq(Plain)
    BY <1>1
  <1>5. DOMAIN BareIn(ds) = DOMAIN ds /\ \A d \in DOMAIN ds : BareIn(ds)[d] = Bare(ds[d])
    BY DEF BareIn
  <1>6. QED BY <1>2, <1>3, <1>4, <1>5

LEMMA BareIsRef == \A t : Bare(t) \in SUBSET Refs(t) /\ BareSelfs(t) \in SUBSET Selfs(t)
  BY DEF Bare, Refs, BareSelfs, Selfs

LEMMA GoodIs ==
    ASSUME NEW T, NEW ds
    PROVE  Good(T, ds) \in SUBSET (DOMAIN ds) /\ ShutIn(Good(T, ds), T, ds)
  BY DEF Good, ShutIn

(* What a sealed schema meets is of the sealed definitions.                *)
LEMMA GoodReaches ==
    ASSUME NEW T, NEW ds, Tabled(ds), NEW t, Sealed(t, T, ds)
    PROVE  /\ Closure(Bare(t), BareIn(ds)) \in SUBSET Good(T, ds)
           /\ BareToks(t, ds) \in SUBSET T
  <1> DEFINE K == Good(T, ds)
             C == Closure(Bare(t), BareIn(ds))
  <1>1. K \in SUBSET (DOMAIN ds) /\ ShutIn(K, T, ds)
    BY GoodIs
  <1>2. Bare(t) \in SUBSET K
    BY BareIsRef DEF Sealed
  <1>3. Shut(K, BareIn(ds))
    <2>1. \A d \in K : BareIn(ds)[d] = Bare(ds[d]) /\ Bare(ds[d]) \in SUBSET K
      BY <1>1, TabledIs, BareIsRef DEF ShutIn
    <2> HIDE DEF K
    <2>2. QED BY <2>1 DEF Shut
  <1> HIDE DEF K
  <1>4. C \in SUBSET K
    BY <1>2, <1>3, TabledIs, ClosureIs
  <1> HIDE DEF C
  <1>5. Gathered(C, ds) \in SUBSET T
    <2>1. \A d \in C \cap DOMAIN ds : BareSelfs(ds[d]) \in SUBSET T
      BY <1>1, <1>4, BareIsRef DEF ShutIn
    <2>2. QED BY <2>1 DEF Gathered
  <1>6. BareSelfs(t) \in SUBSET T
    BY BareIsRef DEF Sealed
  <1>7. QED BY <1>4, <1>5, <1>6 DEF BareToks, C, K

\* ds has become more: what named nothing out of T is as it was.
Grew(T, ds, more) ==
    /\ DOMAIN ds \in SUBSET DOMAIN more
    /\ \A d \in DOMAIN ds : Selfs(ds[d]) \in SUBSET T => more[d] = ds[d]

LEMMA FineStays ==
    ASSUME NEW T, NEW ds, Tabled(ds), NEW more, Tabled(more), Grew(T, ds, more),
           NEW U, T \in SUBSET U, NEW t, NEW b, NEW Q, Fine(t, b, Q, T, ds)
    PROVE  Fine(t, b, Q, U, more)
  <1> DEFINE K == Good(T, ds)
             C == Closure(Bare(t), BareIn(ds))
  <1>1. K \in SUBSET (DOMAIN ds) /\ ShutIn(K, T, ds)
    BY GoodIs
  <1>2. \A d \in K : more[d] = ds[d] /\ d \in DOMAIN more
    BY <1>1 DEF ShutIn, Grew
  <1>3. K \in SUBSET Good(U, more)
    <2> HIDE DEF K
    <2>1. K \in SUBSET (DOMAIN more) /\ ShutIn(K, U, more)
      BY <1>1, <1>2 DEF ShutIn
    <2>2. QED BY <2>1 DEF Good
  <1>4. Orderly(t) /\ Sealed(t, T, ds) /\ Meets(t, b, Q, ds) /\ Tame(b, Anns(Q))
    BY DEF Fine
  <1>5. Sealed(t, U, more)
    BY <1>3, <1>4 DEF Sealed
  <1>6. C \in SUBSET K
    BY <1>4, GoodReaches
  <1> HIDE DEF K
  <1>7. Closure(Bare(t), BareIn(more)) = C
    <2>1. \A d \in C : /\ d \in DOMAIN BareIn(ds) <=> d \in DOMAIN BareIn(more)
                       /\ d \in DOMAIN BareIn(ds) => BareIn(more)[d] = BareIn(ds)[d]
      <3> HIDE DEF C
      <3>1. QED BY <1>1, <1>2, <1>6, TabledIs
    <2>2. QED BY <2>1, TabledIs, ClosureAlike
  <1> HIDE DEF C
  <1>8. Gathered(C, more) = Gathered(C, ds)
    BY <1>1, <1>2, <1>6 DEF Gathered
  <1>9. BareToks(t, more) = BareToks(t, ds)
    BY <1>7, <1>8 DEF BareToks, C
  <1>10. QED BY <1>4, <1>5, <1>9 DEF Fine, Meets

(* What names nothing outside a constructor stands for a form.             *)
LEMMA FineForm ==
    ASSUME NEW t, Orderly(t), NEW T, NEW ds, Tabled(ds), Sealed(t, T, ds), Bare(t) = {}, BareSelfs(t) = {},
           NEW Q, Opens(Anns(Q)), NEW a \in Ann, ~IsAlias(a), BareOf[a] = {},
           \A k \in PartsOf[a] : Tame(k, Anns(Q))
    PROVE  Fine(t, a, Q, T, ds)
  <1>1. BareToks(t, ds) = {}
    <2>1. Closure(Bare(t), BareIn(ds)) = {}
      BY TabledIs, ClosureOfNone
    <2>2. QED BY <2>1 DEF BareToks, Gathered
  <1>2. Tame(a, Anns(Q)) /\ \A p \in Anns(Q) : ~(p \in BareReach(a, Anns(Q)))
    BY TameForm
  <1>3. Meets(t, a, Q, ds)
    BY <1>1, <1>2 DEF Meets, Anns
  <1>4. QED BY <1>2, <1>3 DEF Fine

\* The parts of a, each fine.
FineParts(ps, a, Q, T, ds) ==
    \A k \in 1 .. Len(ps) : Fine(ps[k], Reading[a].parts[k], Q, T, ds)

LEMMA PartsTogether ==
    ASSUME NEW a \in Ann, NEW ps \in Seq(Seq(Plain)), NEW Q, NEW T, NEW ds,
           FineParts(ps, a, Q, T, ds), Len(ps) = Len(Reading[a].parts)
    PROVE  /\ Ordered(ps)
           /\ \A k \in 1 .. Len(ps) : Sealed(ps[k], T, ds) /\ ps[k] \in Seq(Plain)
           /\ PartsOf[a] = {Reading[a].parts[k] : k \in 1 .. Len(ps)}
           /\ \A k \in PartsOf[a] : Tame(k, Anns(Q))
           /\ \A k \in 1 .. Len(ps) : Meets(ps[k], Reading[a].parts[k], Q, ds)
  <1>1. PartsOf[a] = {Reading[a].parts[k] : k \in 1 .. Len(ps)}
    BY PartsAre
  <1>2. \A k \in 1 .. Len(ps) : ps[k] \in Seq(Plain)
    OBVIOUS
  <1>3. QED BY <1>1, <1>2 DEF FineParts, Fine, Ordered

LEMMA SaidByTells ==
    ASSUME NEW ps, Ordered(ps), NEW t \in Seq(Plain)
    PROVE  /\ Said(t) = {<<m[1], m[2], TRUE>> : m \in SaidBy(ps)} =>
                 /\ Refs(t) = UNION {Refs(ps[k]) : k \in 1 .. Len(ps)}
                 /\ Selfs(t) = UNION {Selfs(ps[k]) : k \in 1 .. Len(ps)}
                 /\ Bare(t) = {} /\ BareSelfs(t) = {}
           /\ Said(t) = SaidBy(ps) =>
                 /\ Refs(t) = UNION {Refs(ps[k]) : k \in 1 .. Len(ps)}
                 /\ Selfs(t) = UNION {Selfs(ps[k]) : k \in 1 .. Len(ps)}
                 /\ Bare(t) = UNION {Bare(ps[k]) : k \in 1 .. Len(ps)}
                 /\ BareSelfs(t) = UNION {BareSelfs(ps[k]) : k \in 1 .. Len(ps)}
  <1> DEFINE D == 1 .. Len(ps)
             S(k) == Said(ps[k])
  <1>1. ASSUME NEW k \in D
        PROVE  /\ Refs(ps[k]) = {m[2] : m \in S(k)} \ {0} /\ Selfs(ps[k]) = {m[1] : m \in S(k)} \ {0}
               /\ Bare(ps[k]) = {m[2] : m \in {n \in S(k) : ~n[3]}} \ {0}
               /\ BareSelfs(ps[k]) = {m[1] : m \in {n \in S(k) : ~n[3]}} \ {0}
    <2>1. ps[k] \in Seq(Plain)
      BY DEF Ordered
    <2>2. QED BY <2>1, SaidTells
  <1>2. /\ Refs(t) = {m[2] : m \in Said(t)} \ {0}
        /\ Selfs(t) = {m[1] : m \in Said(t)} \ {0}
        /\ Bare(t) = {m[2] : m \in {n \in Said(t) : ~n[3]}} \ {0}
        /\ BareSelfs(t) = {m[1] : m \in {n \in Said(t) : ~n[3]}} \ {0}
    BY SaidTells
  <1>3. SaidBy(ps) = UNION {S(k) : k \in D}
    BY DEF SaidBy
  <1> HIDE DEF D, S
  <1>4. UNION {Refs(ps[k]) : k \in D} = {m[2] : m \in SaidBy(ps)} \ {0}
    <2>1. \A x : (\E k \in D : x \in Refs(ps[k])) <=> \E k \in D : \E m \in S(k) : x = m[2] /\ x # 0
      <3>1. ASSUME NEW k \in D, NEW x PROVE x \in Refs(ps[k]) <=> \E m \in S(k) : x = m[2] /\ x # 0
        <4>1. Refs(ps[k]) = {m[2] : m \in S(k)} \ {0}
          BY <1>1
        <4>2. QED BY <4>1
      <3>2. QED BY <3>1
    <2>2. \A x : x \in {m[2] : m \in SaidBy(ps)} \ {0} <=> \E m \in SaidBy(ps) : x = m[2] /\ x # 0
      OBVIOUS
    <2>3. \A m : m \in SaidBy(ps) <=> \E k \in D : m \in S(k)
      BY <1>3
    <2>4. \A x : x \in UNION {Refs(ps[k]) : k \in D} <=> \E k \in D : x \in Refs(ps[k])
      OBVIOUS
    <2>5. \A x : x \in UNION {Refs(ps[k]) : k \in D} <=> x \in {m[2] : m \in SaidBy(ps)} \ {0}
      BY <2>1, <2>2, <2>3, <2>4
    <2>6. QED BY <2>5
  <1>5. UNION {Selfs(ps[k]) : k \in D} = {m[1] : m \in SaidBy(ps)} \ {0}
    <2>1. \A x : (\E k \in D : x \in Selfs(ps[k])) <=> \E k \in D : \E m \in S(k) : x = m[1] /\ x # 0
      <3>1. ASSUME NEW k \in D, NEW x PROVE x \in Selfs(ps[k]) <=> \E m \in S(k) : x = m[1] /\ x # 0
        <4>1. Selfs(ps[k]) = {m[1] : m \in S(k)} \ {0}
          BY <1>1
        <4>2. QED BY <4>1
      <3>2. QED BY <3>1
    <2>2. \A x : x \in {m[1] : m \in SaidBy(ps)} \ {0} <=> \E m \in SaidBy(ps) : x = m[1] /\ x # 0
      OBVIOUS
    <2>3. \A m : m \in SaidBy(ps) <=> \E k \in D : m \in S(k)
      BY <1>3
    <2>4. \A x : x \in UNION {Selfs(ps[k]) : k \in D} <=> \E k \in D : x \in Selfs(ps[k])
      OBVIOUS
    <2>5. \A x : x \in UNION {Selfs(ps[k]) : k \in D} <=> x \in {m[1] : m \in SaidBy(ps)} \ {0}
      BY <2>1, <2>2, <2>3, <2>4
    <2>6. QED BY <2>5
  <1>6. UNION {Bare(ps[k]) : k \in D} = {m[2] : m \in {n \in SaidBy(ps) : ~n[3]}} \ {0}
    <2>1. \A x : (\E k \in D : x \in Bare(ps[k])) <=> \E k \in D : \E m \in S(k) : x = m[2] /\ x # 0 /\ ~m[3]
      <3>1. ASSUME NEW k \in D, NEW x PROVE x \in Bare(ps[k]) <=> \E m \in S(k) : x = m[2] /\ x # 0 /\ ~m[3]
        <4>1. Bare(ps[k]) = {m[2] : m \in {n \in S(k) : ~n[3]}} \ {0}
          BY <1>1
        <4>2. QED BY <4>1
      <3>2. QED BY <3>1
    <2>2. \A x : x \in {m[2] : m \in {n \in SaidBy(ps) : ~n[3]}} \ {0} <=> \E m \in SaidBy(ps) : x = m[2] /\ x # 0 /\ ~m[3]
      OBVIOUS
    <2>3. \A m : m \in SaidBy(ps) <=> \E k \in D : m \in S(k)
      BY <1>3
    <2>4. \A x : x \in UNION {Bare(ps[k]) : k \in D} <=> \E k \in D : x \in Bare(ps[k])
      OBVIOUS
    <2>5. \A x : x \in UNION {Bare(ps[k]) : k \in D} <=> x \in {m[2] : m \in {n \in SaidBy(ps) : ~n[3]}} \ {0}
      BY <2>1, <2>2, <2>3, <2>4
    <2>6. QED BY <2>5
  <1>7. UNION {BareSelfs(ps[k]) : k \in D} = {m[1] : m \in {n \in SaidBy(ps) : ~n[3]}} \ {0}
    <2>1. \A x : (\E k \in D : x \in BareSelfs(ps[k])) <=> \E k \in D : \E m \in S(k) : x = m[1] /\ x # 0 /\ ~m[3]
      <3>1. ASSUME NEW k \in D, NEW x PROVE x \in BareSelfs(ps[k]) <=> \E m \in S(k) : x = m[1] /\ x # 0 /\ ~m[3]
        <4>1. BareSelfs(ps[k]) = {m[1] : m \in {n \in S(k) : ~n[3]}} \ {0}
          BY <1>1
        <4>2. QED BY <4>1
      <3>2. QED BY <3>1
    <2>2. \A x : x \in {m[1] : m \in {n \in SaidBy(ps) : ~n[3]}} \ {0} <=> \E m \in SaidBy(ps) : x = m[1] /\ x # 0 /\ ~m[3]
      OBVIOUS
    <2>3. \A m : m \in SaidBy(ps) <=> \E k \in D : m \in S(k)
      BY <1>3
    <2>4. \A x : x \in UNION {BareSelfs(ps[k]) : k \in D} <=> \E k \in D : x \in BareSelfs(ps[k])
      OBVIOUS
    <2>5. \A x : x \in UNION {BareSelfs(ps[k]) : k \in D} <=> x \in {m[1] : m \in {n \in SaidBy(ps) : ~n[3]}} \ {0}
      BY <2>1, <2>2, <2>3, <2>4
    <2>6. QED BY <2>5
  <1> DEFINE all == SaidBy(ps)
  <1>8. ASSUME Said(t) = {<<m[1], m[2], TRUE>> : m \in all}
        PROVE  /\ {m[2] : m \in Said(t)} = {m[2] : m \in all}
               /\ {m[1] : m \in Said(t)} = {m[1] : m \in all}
               /\ {n \in Said(t) : ~n[3]} = {}
    <2> HIDE DEF all
    <2> DEFINE h(m) == <<m[1], m[2], TRUE>>
    <2>1. \A m : h(m)[1] = m[1] /\ h(m)[2] = m[2] /\ h(m)[3] = TRUE
      OBVIOUS
    <2>2. Said(t) = {h(m) : m \in all}
      BY <1>8
    <2> HIDE DEF h
    <2>3. QED BY <2>1, <2>2
  <1>9. Said(t) = {<<m[1], m[2], TRUE>> : m \in SaidBy(ps)} =>
                 /\ Refs(t) = UNION {Refs(ps[k]) : k \in D}
                 /\ Selfs(t) = UNION {Selfs(ps[k]) : k \in D}
                 /\ Bare(t) = {} /\ BareSelfs(t) = {}
    <2> SUFFICES ASSUME Said(t) = {<<m[1], m[2], TRUE>> : m \in all}
                 PROVE  /\ Refs(t) = UNION {Refs(ps[k]) : k \in D}
                        /\ Selfs(t) = UNION {Selfs(ps[k]) : k \in D}
                        /\ Bare(t) = {} /\ BareSelfs(t) = {}
      OBVIOUS
    <2>1. /\ {m[2] : m \in Said(t)} = {m[2] : m \in all}
          /\ {m[1] : m \in Said(t)} = {m[1] : m \in all}
          /\ {n \in Said(t) : ~n[3]} = {}
      BY <1>8
    <2>2. Refs(t) = UNION {Refs(ps[k]) : k \in D}
      BY <1>2, <1>4, <2>1
    <2>3. Selfs(t) = UNION {Selfs(ps[k]) : k \in D}
      BY <1>2, <1>5, <2>1
    <2>4. Bare(t) = {} /\ BareSelfs(t) = {}
      BY <1>2, <2>1
    <2>5. QED BY <2>2, <2>3, <2>4
  <1>10. Said(t) = SaidBy(ps) =>
                 /\ Refs(t) = UNION {Refs(ps[k]) : k \in D}
                 /\ Selfs(t) = UNION {Selfs(ps[k]) : k \in D}
                 /\ Bare(t) = UNION {Bare(ps[k]) : k \in D}
                 /\ BareSelfs(t) = UNION {BareSelfs(ps[k]) : k \in D}
    BY <1>2, <1>4, <1>5, <1>6, <1>7
  <1>11. QED BY <1>9, <1>10 DEF D

LEMMA BuiltForm ==
    ASSUME NEW a \in Ann, Reading[a].kind \in {"form", "class"}, NEW ps, ps \in Seq(Seq(Plain)), NEW Q, Opens(Anns(Q)),
           NEW T, NEW ds, Tabled(ds), FineParts(ps, a, Q, T, ds), Len(ps) = Len(Reading[a].parts)
    PROVE  Fine(Built(a, ps), a, Q, T, ds)
  <1> DEFINE t == Built(a, ps)
  <1>1. Reading[a].name \in Words /\ ~IsAlias(a) /\ BareOf[a] = {}
    <2>1. Reading[a].name \in STRING
      BY PartsAre
    <2>2. QED BY <2>1, PartsAre DEF Words, IsAlias
  <1>2. /\ Ordered(ps) /\ \A k \in PartsOf[a] : Tame(k, Anns(Q))
        /\ \A k \in 1 .. Len(ps) : Sealed(ps[k], T, ds)
    BY PartsTogether
  <1>3. t = Leaf(Reading[a].name) \o FlattenSeq([i \in DOMAIN ps |-> Under(ps[i], TRUE)])
    BY DEF Built
  <1> HIDE DEF t
  <1>4. Orderly(t) /\ Said(t) = {<<m[1], m[2], TRUE>> : m \in SaidBy(ps)}
    BY <1>1, <1>2, <1>3, FormHolds
  <1>5. t \in Seq(Plain)
    BY <1>4 DEF Orderly
  <1>6. /\ Refs(t) = UNION {Refs(ps[k]) : k \in 1 .. Len(ps)}
        /\ Selfs(t) = UNION {Selfs(ps[k]) : k \in 1 .. Len(ps)}
        /\ Bare(t) = {} /\ BareSelfs(t) = {}
    BY <1>2, <1>4, <1>5, SaidByTells
  <1>7. Sealed(t, T, ds)
    BY <1>2, <1>6 DEF Sealed
  <1>8. QED BY <1>1, <1>2, <1>4, <1>6, <1>7, FineForm DEF t

LEMMA BareToksTogether ==
    ASSUME NEW ps, NEW ds, Tabled(ds), NEW t,
           Bare(t) = UNION {Bare(ps[k]) : k \in 1 .. Len(ps)},
           BareSelfs(t) = UNION {BareSelfs(ps[k]) : k \in 1 .. Len(ps)}
    PROVE  \A x : x \in BareToks(t, ds) <=> \E k \in 1 .. Len(ps) : x \in BareToks(ps[k], ds)
  <1> DEFINE names == BareIn(ds)
             D     == 1 .. Len(ps)
             C     == Closure(Bare(t), names)
             Cs(k) == Closure(Bare(ps[k]), names)
  <1>1. IsFiniteSet(DOMAIN names)
    BY TabledIs
  <1> HIDE DEF names, D
  <1>2. \A k \in D : Cs(k) \in SUBSET C
    <2> SUFFICES ASSUME NEW k \in D PROVE Cs(k) \in SUBSET C
      OBVIOUS
    <2>1. Bare(ps[k]) \in SUBSET Bare(t)
      BY DEF D
    <2>2. \A d \in DOMAIN names : names[d] \in SUBSET names[d]
      OBVIOUS
    <2>3. QED BY <1>1, <2>1, <2>2, ClosureMore
  <1>3. \A d \in C : \E k \in D : d \in Cs(k)
    <2> SUFFICES ASSUME NEW d \in C PROVE \E k \in D : d \in Cs(k)
      OBVIOUS
    <2>1. PICK s \in Bare(t) : d \in Closure({s}, names)
      BY <1>1, ClosureOfOne
    <2>2. PICK k \in D : s \in Bare(ps[k])
      BY DEF D
    <2>3. {s} \in SUBSET Bare(ps[k]) /\ \A e \in DOMAIN names : names[e] \in SUBSET names[e]
      BY <2>2
    <2>4. Closure({s}, names) \in SUBSET Cs(k)
      BY <1>1, <2>3, ClosureMore
    <2>5. QED BY <2>1, <2>4
  <1> HIDE DEF C, Cs
  <1>4. \A x : x \in Gathered(C, ds) <=> \E k \in D : x \in Gathered(Cs(k), ds)
    BY <1>2, <1>3 DEF Gathered
  <1>5. \A x : x \in BareSelfs(t) <=> \E k \in D : x \in BareSelfs(ps[k])
    BY DEF D
  <1>6. BareToks(t, ds) = BareSelfs(t) \cup Gathered(C, ds)
    BY DEF BareToks, C, names
  <1>7. \A k : BareToks(ps[k], ds) = BareSelfs(ps[k]) \cup Gathered(Cs(k), ds)
    BY DEF BareToks, Cs, names
  <1>8. \A x : x \in BareToks(t, ds) <=> \E k \in D : x \in BareToks(ps[k], ds)
    BY <1>4, <1>5, <1>6, <1>7
  <1>9. QED BY <1>8 DEF D

LEMMA BuiltJoin ==
    ASSUME NEW a \in Ann, Reading[a].kind = "join", NEW ps, ps \in Seq(Seq(Plain)), NEW Q, Opens(Anns(Q)),
           NEW T, NEW ds, Tabled(ds), FineParts(ps, a, Q, T, ds), Len(ps) = Len(Reading[a].parts)
    PROVE  Fine(Built(a, ps), a, Q, T, ds)
  <1> DEFINE t == Built(a, ps)
             A == Anns(Q)
  <1>1. ~IsAlias(a) /\ BareOf[a] = PartsOf[a]
    BY PartsAre DEF IsAlias
  <1>2. /\ Ordered(ps) /\ \A k \in PartsOf[a] : Tame(k, Anns(Q))
        /\ \A k \in 1 .. Len(ps) : Sealed(ps[k], T, ds)
        /\ PartsOf[a] = {Reading[a].parts[k] : k \in 1 .. Len(ps)}
        /\ \A k \in 1 .. Len(ps) : Meets(ps[k], Reading[a].parts[k], Q, ds)
    BY PartsTogether
  <1>3. t = Union(ps)
    BY DEF Built
  <1> HIDE DEF t
  <1>4. Orderly(t) /\ Said(t) = SaidBy(ps)
    BY <1>2, <1>3, UnionHolds
  <1>5. t \in Seq(Plain)
    BY <1>4 DEF Orderly
  <1>6. /\ Refs(t) = UNION {Refs(ps[k]) : k \in 1 .. Len(ps)}
        /\ Selfs(t) = UNION {Selfs(ps[k]) : k \in 1 .. Len(ps)}
        /\ Bare(t) = UNION {Bare(ps[k]) : k \in 1 .. Len(ps)}
        /\ BareSelfs(t) = UNION {BareSelfs(ps[k]) : k \in 1 .. Len(ps)}
    BY <1>2, <1>4, <1>5, SaidByTells
  <1>7. Sealed(t, T, ds)
    BY <1>2, <1>6 DEF Sealed
  <1>8. \A x : x \in BareToks(t, ds) <=> \E k \in 1 .. Len(ps) : x \in BareToks(ps[k], ds)
    BY <1>6, BareToksTogether
  <1>9. Tame(a, A) /\ \A p \in A : p \in BareReach(a, A) <=> \E k \in BareOf[a] : p \in BareReach(k, A)
    BY <1>1, <1>2, TameForm
  <1>10. Meets(t, a, Q, ds)
    <2> SUFFICES ASSUME NEW q \in Q PROVE q[2] \in BareToks(t, ds) <=> q[1] \in BareReach(a, A)
      BY DEF Meets
    <2>1. \A k \in 1 .. Len(ps) : q[2] \in BareToks(ps[k], ds) <=> q[1] \in BareReach(Reading[a].parts[k], A)
      BY <1>2 DEF Meets
    <2>2. q[1] \in A
      BY DEF Anns
    <2> HIDE DEF A
    <2>3. q[1] \in BareReach(a, A) <=> \E k \in 1 .. Len(ps) : q[1] \in BareReach(Reading[a].parts[k], A)
      BY <1>1, <1>2, <1>9, <2>2
    <2>4. QED BY <1>8, <2>1, <2>3
  <1>11. QED BY <1>4, <1>7, <1>9, <1>10 DEF Fine, t

LEMMA BuiltNewtype ==
    ASSUME NEW a \in Ann, Reading[a].kind = "newtype", NEW ps, ps \in Seq(Seq(Plain)), NEW Q, Opens(Anns(Q)),
           NEW T, NEW ds, Tabled(ds), FineParts(ps, a, Q, T, ds), Len(ps) = Len(Reading[a].parts)
    PROVE  Fine(ps[1], a, Q, T, ds)
  <1> DEFINE A == Anns(Q)
             b == Reading[a].parts[1]
  <1>1. ~IsAlias(a) /\ BareOf[a] = PartsOf[a] /\ Len(Reading[a].parts) = 1
    BY PartsAre, PassesOn DEF IsAlias
  <1>2. PartsOf[a] = {b}
    BY <1>1, PartsAre
  <1>3. Fine(ps[1], b, Q, T, ds)
    BY <1>1 DEF FineParts
  <1> HIDE DEF b
  <1>4. Orderly(ps[1]) /\ Sealed(ps[1], T, ds) /\ Meets(ps[1], b, Q, ds) /\ Tame(b, A)
    BY <1>3 DEF Fine
  <1>5. Tame(a, A) /\ \A p \in A : p \in BareReach(a, A) <=> p \in BareReach(b, A)
    <2>1. \A k \in PartsOf[a] : Tame(k, A)
      BY <1>2, <1>4
    <2>2. Tame(a, A) /\ \A p \in A : p \in BareReach(a, A) <=> \E k \in BareOf[a] : p \in BareReach(k, A)
      BY <1>1, <2>1, TameForm
    <2> HIDE DEF A
    <2>3. QED BY <1>1, <1>2, <2>2
  <1>6. Meets(ps[1], a, Q, ds)
    <2>1. \A q \in Q : q[1] \in A
      BY DEF Anns
    <2> HIDE DEF A
    <2>2. \A q \in Q : q[2] \in BareToks(ps[1], ds) <=> q[1] \in BareReach(a, A)
      BY <1>4, <1>5, <2>1 DEF Meets, A
    <2>3. QED BY <2>2 DEF Meets, A
  <1>7. QED BY <1>4, <1>5, <1>6 DEF Fine

LEMMA ReadFine ==
    ASSUME NEW a \in Ann, ~IsAlias(a), BareOf[a] = {}, PartsOf[a] = {}, NEW t, Orderly(t), Said(t) = {},
           NEW Q, Opens(Anns(Q)), NEW T, NEW ds, Tabled(ds)
    PROVE  Fine(t, a, Q, T, ds)
  <1>1. t \in Seq(Plain)
    BY DEF Orderly
  <1>2. Refs(t) = {} /\ Selfs(t) = {} /\ Bare(t) = {} /\ BareSelfs(t) = {}
    BY <1>1, SaidTells
  <1>3. Sealed(t, T, ds)
    BY <1>2 DEF Sealed
  <1>4. QED BY <1>2, <1>3, FineForm

LEMMA ScalarFine ==
    ASSUME NEW a \in Ann, NEW Q, Opens(Anns(Q)), NEW T, NEW ds, Tabled(ds)
    PROVE  /\ Reading[a].kind = "scalar" => Fine(Leaf(Reading[a].name), a, Q, T, ds)
           /\ Reading[a].kind = "validator" => Fine(Whole(Reading[a].name, Reading[a].whole), a, Q, T, ds)
  <1>1. Reading[a].name \in Words
    <2>1. Reading[a].name \in STRING
      BY PartsAre
    <2>2. QED BY <2>1 DEF Words
  <1>2. Reading[a].kind \in {"scalar", "validator"} => ~IsAlias(a) /\ BareOf[a] = {} /\ PartsOf[a] = {}
    <2> SUFFICES ASSUME Reading[a].kind \in {"scalar", "validator"} PROVE ~IsAlias(a) /\ BareOf[a] = {} /\ PartsOf[a] = {}
      OBVIOUS
    <2>1. Reading[a].parts = <<>>
      BY PassesOn
    <2>2. PartsOf[a] = {}
      <3>1. Len(<<>>) = 0 /\ 1 .. 0 = {}
        OBVIOUS
      <3>2. QED BY <2>1, <3>1, PartsAre
    <2>3. QED BY <2>2, PartsAre DEF IsAlias
  <1>3. ASSUME Reading[a].kind = "scalar" PROVE Fine(Leaf(Reading[a].name), a, Q, T, ds)
    <2>1. Orderly(Leaf(Reading[a].name)) /\ Said(Leaf(Reading[a].name)) = {}
      BY <1>1, LeafIs
    <2>2. QED BY <1>2, <1>3, <2>1, ReadFine
  <1>4. ASSUME Reading[a].kind = "validator" PROVE Fine(Whole(Reading[a].name, Reading[a].whole), a, Q, T, ds)
    <2>1. Reading[a].whole \in Nat \ {0}
      BY <1>4, PartsAre, PassesOn
    <2>2. Orderly(Whole(Reading[a].name, Reading[a].whole)) /\ Said(Whole(Reading[a].name, Reading[a].whole)) = {}
      BY <1>1, <2>1, WholeIs
    <2>3. QED BY <1>2, <1>4, <2>2, ReadFine
  <1>5. QED BY <1>3, <1>4

\* Each alias of Q has a token of its own.
Paired(Q) == /\ \A q \in Q : q = <<q[1], q[2]>> /\ q[2] \in Nat \ {0} /\ q[1] \in Ann /\ IsAlias(q[1])
             /\ \A q, r \in Q : q[1] = r[1] <=> q[2] = r[2]

LEMMA AgainFine ==
    ASSUME NEW Q, Paired(Q), NEW a, NEW token, <<a, token>> \in Q, NEW T, token \in T, NEW ds, Tabled(ds)
    PROVE  Fine(Self(token), a, Q, T, ds)
  <1> DEFINE t == Self(token)
             A == Anns(Q)
  <1>1. token \in Nat \ {0} /\ a \in Ann /\ IsAlias(a) /\ a \in A
    <2>1. <<a, token>>[1] = a /\ <<a, token>>[2] = token
      OBVIOUS
    <2>2. QED BY <2>1 DEF Paired, Anns
  <1>2. Orderly(t) /\ Said(t) = {<<token, 0, FALSE>>} /\ t \in Seq(Plain)
    BY <1>1, SelfIs DEF Orderly
  <1>3. Refs(t) = {} /\ Selfs(t) = {token} /\ Bare(t) = {} /\ BareSelfs(t) = {token}
    <2> DEFINE m == <<token, 0, FALSE>>
    <2>1. m[1] = token /\ m[2] = 0 /\ m[3] = FALSE
      OBVIOUS
    <2> HIDE DEF m, t
    <2>2. Said(t) = {m}
      BY <1>2 DEF m
    <2>3. QED BY <1>1, <1>2, <2>1, <2>2, SaidTells
  <1> HIDE DEF t
  <1>4. BareToks(t, ds) = {token}
    <2>1. Closure(Bare(t), BareIn(ds)) = {}
      BY <1>3, TabledIs, ClosureOfNone
    <2>2. QED BY <1>3, <2>1 DEF BareToks, Gathered
  <1>5. Tame(a, A) /\ BareReach(a, A) = {a}
    BY <1>1, TameAgain
  <1>6. Meets(t, a, Q, ds)
    <2> SUFFICES ASSUME NEW q \in Q PROVE q[2] = token <=> q[1] = a
      BY <1>4, <1>5 DEF Meets
    <2>1. <<a, token>>[1] = a /\ <<a, token>>[2] = token
      OBVIOUS
    <2>2. QED BY <2>1 DEF Paired
  <1>7. Sealed(t, T, ds)
    BY <1>3 DEF Sealed
  <1>8. QED BY <1>2, <1>5, <1>6, <1>7 DEF Fine, t

(* Of the definitions of a whole table, each is sealed.                    *)
LEMMA WholeIsGood ==
    ASSUME NEW ds, NEW T, \A d \in DOMAIN ds : Refs(ds[d]) \in SUBSET DOMAIN ds /\ Selfs(ds[d]) \in SUBSET T
    PROVE  Good(T, ds) = DOMAIN ds
  <1>1. ShutIn(DOMAIN ds, T, ds)
    BY DEF ShutIn
  <1>2. QED BY <1>1 DEF Good

-----------------------------------------------------------------------------
(* A placeholder resolved, a definition renumbered.                        *)

LEMMA NodeSet ==
    ASSUME NEW n \in Noded, NEW x
    PROVE  /\ LET m == [n EXCEPT !.self = 0, !.ref = x]
              IN  /\ m = [name |-> n.name, self |-> 0, ref |-> x, level |-> n.level, guarded |-> n.guarded]
                  /\ m.name = n.name /\ m.self = 0 /\ m.ref = x /\ m.level = n.level /\ m.guarded = n.guarded
           /\ LET m == [n EXCEPT !.ref = x]
              IN  m.name = n.name /\ m.self = n.self /\ m.ref = x /\ m.level = n.level /\ m.guarded = n.guarded
  <1>1. n = [name |-> n.name, self |-> n.self, ref |-> n.ref, level |-> n.level, guarded |-> n.guarded]
    BY DEF Noded
  <1>2. ASSUME NEW nm, NEW se, NEW re, NEW le, NEW gu, NEW k, NEW y,
               k = [name |-> nm, self |-> se, ref |-> re, level |-> le, guarded |-> gu]
        PROVE  [k EXCEPT !.ref = y] = [name |-> nm, self |-> se, ref |-> y, level |-> le, guarded |-> gu]
    BY <1>2
  <1>a. ASSUME NEW nm, NEW se, NEW re, NEW le, NEW gu, NEW k, NEW y,
               k = [name |-> nm, self |-> se, ref |-> re, level |-> le, guarded |-> gu]
        PROVE  [k EXCEPT !.self = y] = [name |-> nm, self |-> y, ref |-> re, level |-> le, guarded |-> gu]
    BY <1>a
  <1> DEFINE nm == n.name se == n.self re == n.ref le == n.level gu == n.guarded
             m  == [name |-> nm, self |-> 0, ref |-> re, level |-> le, guarded |-> gu]
  <1>3. n = [name |-> nm, self |-> se, ref |-> re, level |-> le, guarded |-> gu]
    BY <1>1
  <1> HIDE DEF nm, se, re, le, gu
  <1>b. [n EXCEPT !.self = 0] = m
    BY <1>a, <1>3
  <1>c. [m EXCEPT !.ref = x] = [name |-> nm, self |-> 0, ref |-> x, level |-> le, guarded |-> gu]
    BY <1>2
  <1>d. [n EXCEPT !.self = 0, !.ref = x] = [[n EXCEPT !.self = 0] EXCEPT !.ref = x]
    OBVIOUS
  <1> HIDE DEF m
  <1>e. [n EXCEPT !.ref = x] = [name |-> nm, self |-> se, ref |-> x, level |-> le, guarded |-> gu]
    BY <1>2, <1>3
  <1>4. /\ [n EXCEPT !.self = 0, !.ref = x] = [name |-> nm, self |-> 0, ref |-> x, level |-> le, guarded |-> gu]
        /\ [n EXCEPT !.ref = x] = [name |-> nm, self |-> se, ref |-> x, level |-> le, guarded |-> gu]
    BY <1>b, <1>c, <1>d, <1>e
  <1>5. QED BY <1>4 DEF nm, se, re, le, gu

\* What resolving the placeholder `token` of t as a reference to ix changes.
Resolves(u, t, token, ix) ==
    /\ u \in Seq(Plain)
    /\ Selfs(u) = Selfs(t) \ {token} /\ BareSelfs(u) = BareSelfs(t) \ {token}
    /\ Refs(u) \in SUBSET (Refs(t) \cup {ix})
    /\ \A x : x \in Bare(u) <=> x \in Bare(t) \/ (x = ix /\ token \in BareSelfs(t))
    /\ token \notin Selfs(t) => u = t

LEMMA ResolvedIs ==
    ASSUME NEW t \in Seq(Plain), NEW token \in Nat \ {0}, NEW ix \in Nat \ {0}, NEW u, u = Resolved(t, token, ix)
    PROVE  Resolves(u, t, token, ix)
  <1> DEFINE Set(n) == [n EXCEPT !.self = 0, !.ref = ix]
             Res(n) == IF n.self = token THEN Set(n) ELSE n
  <1>1. \A n \in Plain : /\ n \in Noded /\ (n.self = 0 \/ n.ref = 0) /\ n.name \in Words /\ n.level \in Nat
                         /\ n.self \in Nat /\ n.ref \in Nat /\ (n.name # Blank => n.self = 0 /\ n.ref = 0)
    BY DEF Plain, Noded
  <1>2. \A n \in Plain : n.guarded \in BOOLEAN
    BY Zenon DEF Plain, Noded
  <1>3. ASSUME NEW n \in Plain
        PROVE  Set(n).self = 0 /\ Set(n).ref = ix /\ Set(n).guarded = n.guarded /\ (n.self = token => Set(n) \in Plain)
    <2>1. /\ Set(n) = [name |-> n.name, self |-> 0, ref |-> ix, level |-> n.level, guarded |-> n.guarded]
          /\ Set(n).name = n.name /\ Set(n).self = 0 /\ Set(n).ref = ix /\ Set(n).level = n.level
          /\ Set(n).guarded = n.guarded
      <3>1. n \in Noded
        BY <1>1
      <3>2. QED BY <3>1, NodeSet
    <2> HIDE DEF Set
    <2>2. Set(n) \in Noded
      <3> DEFINE nm == n.name le == n.level gu == n.guarded
      <3>1. nm \in Words /\ le \in Nat
        BY <1>1
      <3>2. gu \in BOOLEAN
        BY <1>2
      <3>3. Set(n) = [name |-> nm, self |-> 0, ref |-> ix, level |-> le, guarded |-> gu]
        BY <2>1
      <3> HIDE DEF nm, le, gu
      <3>4. QED BY <3>1, <3>2, <3>3 DEF Noded
    <2>3. n.self = token => n.name = Blank
      BY <1>1
    <2>4. QED BY <2>1, <2>2, <2>3 DEF Plain
  <1> HIDE DEF Set
  <1>4. ASSUME NEW n \in Plain
        PROVE  /\ Res(n) \in Plain /\ Res(n).guarded = n.guarded
               /\ Res(n).self = IF n.self = token THEN 0 ELSE n.self
               /\ Res(n).ref = IF n.self = token THEN ix ELSE n.ref
               /\ n.self = token => n.ref = 0
               /\ n.self # token => Res(n) = n
    BY <1>1, <1>3
  <1>5. DOMAIN t = 1 .. Len(t) /\ Len(t) \in Nat /\ \A i \in 1 .. Len(t) : t[i] \in Plain
    OBVIOUS
  <1>6. u = [i \in 1 .. Len(t) |-> Res(t[i])]
    BY <1>5 DEF Resolved, Set
  <1> HIDE DEF Res
  <1>7. u \in Seq(Plain) /\ DOMAIN u = 1 .. Len(t) /\ \A i \in 1 .. Len(t) : u[i] = Res(t[i])
    BY <1>4, <1>5, <1>6
  <1>8. \A i \in 1 .. Len(t) : /\ u[i].guarded = t[i].guarded
                               /\ u[i].self = IF t[i].self = token THEN 0 ELSE t[i].self
                               /\ u[i].ref = IF t[i].self = token THEN ix ELSE t[i].ref
                               /\ t[i].self = token => t[i].ref = 0
                               /\ t[i].self # token => u[i] = t[i]
    BY <1>4, <1>5, <1>7
  <1>9. Selfs(u) = Selfs(t) \ {token}
    BY <1>5, <1>7, <1>8 DEF Selfs
  <1>10. BareSelfs(u) = BareSelfs(t) \ {token}
    <2>1. {j \in DOMAIN u : ~u[j].guarded} = {j \in DOMAIN t : ~t[j].guarded}
      BY <1>5, <1>7, <1>8
    <2>2. QED BY <2>1, <1>5, <1>7, <1>8 DEF BareSelfs
  <1>11. Refs(u) \in SUBSET (Refs(t) \cup {ix})
    BY <1>5, <1>7, <1>8 DEF Refs
  <1>12. \A x : x \in Bare(u) <=> x \in Bare(t) \/ (x = ix /\ token \in BareSelfs(t))
    <2> DEFINE B == {j \in DOMAIN t : ~t[j].guarded}
    <2>1. {j \in DOMAIN u : ~u[j].guarded} = B
      BY <1>5, <1>7, <1>8
    <2>2. \A j \in B : j \in 1 .. Len(t)
      BY <1>5
    <2> HIDE DEF B
    <2>3. /\ \A x : x \in Bare(u) <=> x # 0 /\ \E j \in B : x = u[j].ref
          /\ \A x : x \in Bare(t) <=> x # 0 /\ \E j \in B : x = t[j].ref
          /\ token \in BareSelfs(t) <=> \E j \in B : token = t[j].self
      BY <2>1 DEF Bare, BareSelfs, B
    <2> SUFFICES ASSUME NEW x PROVE x \in Bare(u) <=> x \in Bare(t) \/ (x = ix /\ token \in BareSelfs(t))
      OBVIOUS
    <2>4. x \in Bare(u) => x \in Bare(t) \/ (x = ix /\ token \in BareSelfs(t))
      BY <1>8, <2>2, <2>3
    <2>5. x \in Bare(t) => x \in Bare(u)
      BY <1>8, <2>2, <2>3
    <2>6. x = ix /\ token \in BareSelfs(t) => x \in Bare(u)
      BY <1>8, <2>2, <2>3
    <2>7. QED BY <2>4, <2>5, <2>6
  <1>13. token \notin Selfs(t) => u = t
    <2> SUFFICES ASSUME token \notin Selfs(t) PROVE u = t
      OBVIOUS
    <2>1. \A i \in 1 .. Len(t) : t[i].self # token
      BY <1>5 DEF Selfs
    <2>2. \A i \in 1 .. Len(t) : u[i] = t[i]
      BY <1>8, <2>1
    <2>3. Len(u) = Len(t)
      BY <1>5, <1>7
    <2>4. QED BY <1>7, <2>2, <2>3
  <1>14. QED BY <1>7, <1>9, <1>10, <1>11, <1>12, <1>13 DEF Resolves

LEMMA RenumberedIs ==
    ASSUME NEW t \in Seq(Plain), NEW from, NEW to, NEW u, u = Renumbered(t, from, to)
    PROVE  BareSelfs(u) = BareSelfs(t) /\ (from \notin Bare(t) => from = 0 \/ Bare(u) = Bare(t))
  <1> DEFINE Set(n) == [n EXCEPT !.ref = to]
             Num(n) == IF n.ref = from THEN Set(n) ELSE n
  <1>1. \A n \in Plain : n \in Noded
    BY DEF Plain
  <1>2. ASSUME NEW n \in Plain PROVE Set(n).self = n.self /\ Set(n).ref = to /\ Set(n).guarded = n.guarded
    BY <1>1, NodeSet
  <1> HIDE DEF Set
  <1>3. ASSUME NEW n \in Plain
        PROVE  /\ Num(n).guarded = n.guarded /\ Num(n).self = n.self
               /\ Num(n).ref = IF n.ref = from THEN to ELSE n.ref
    BY <1>2
  <1>4. DOMAIN t = 1 .. Len(t) /\ Len(t) \in Nat /\ \A i \in 1 .. Len(t) : t[i] \in Plain
    OBVIOUS
  <1>5. u = [i \in 1 .. Len(t) |-> Num(t[i])]
    BY <1>4 DEF Renumbered, Set
  <1> HIDE DEF Num
  <1>6. DOMAIN u = DOMAIN t /\ \A i \in 1 .. Len(t) : u[i] = Num(t[i])
    BY <1>4, <1>5
  <1>7. \A i \in DOMAIN t : /\ u[i].guarded = t[i].guarded /\ u[i].self = t[i].self
                            /\ u[i].ref = IF t[i].ref = from THEN to ELSE t[i].ref
    BY <1>3, <1>4, <1>6
  <1> DEFINE B == {j \in DOMAIN t : ~t[j].guarded}
  <1>8. {j \in DOMAIN u : ~u[j].guarded} = B
    BY <1>6, <1>7
  <1>9. BareSelfs(u) = BareSelfs(t)
    BY <1>7, <1>8 DEF BareSelfs
  <1>10. ASSUME from \notin Bare(t), from # 0 PROVE Bare(u) = Bare(t)
    <2>1. \A j \in B : t[j].ref # from
      BY <1>10 DEF Bare
    <2>2. \A j \in B : u[j].ref = t[j].ref
      BY <1>7, <2>1
    <2>3. Bare(u) = {u[j].ref : j \in B} \ {0} /\ Bare(t) = {t[j].ref : j \in B} \ {0}
      BY <1>8 DEF Bare
    <2> HIDE DEF B
    <2>4. QED BY <2>2, <2>3
  <1>11. QED BY <1>9, <1>10

LEMMA ResolvedAllIs ==
    ASSUME NEW ds, Tabled(ds), NEW token \in Nat \ {0}, NEW ix \in Nat \ {0}, NEW more, more = ResolvedAll(ds, token, ix)
    PROVE  /\ Tabled(more) /\ DOMAIN more = DOMAIN ds /\ Len(more) = Len(ds)
           /\ \A d \in DOMAIN ds : more[d] = Resolved(ds[d], token, ix)
           /\ \A T : token \notin T => Grew(T, ds, more)
           /\ (\A d \in DOMAIN ds : token \notin Selfs(ds[d])) => more = ds
  <1>1. DOMAIN ds = 1 .. Len(ds) /\ Len(ds) \in Nat /\ \A d \in DOMAIN ds : ds[d] \in Seq(Plain)
    BY TabledIs
  <1>2. DOMAIN more = DOMAIN ds /\ \A d \in DOMAIN ds : more[d] = Resolved(ds[d], token, ix)
    BY DEF ResolvedAll
  <1>3. \A d \in DOMAIN ds : more[d] \in Seq(Plain) /\ (token \notin Selfs(ds[d]) => more[d] = ds[d])
    BY <1>1, <1>2, ResolvedIs DEF Resolves
  <1>4. more = [d \in 1 .. Len(ds) |-> more[d]]
    BY <1>1 DEF ResolvedAll
  <1>5. more \in [1 .. Len(ds) -> Seq(Plain)]
    BY <1>1, <1>3, <1>4
  <1>6. more \in Seq(Seq(Plain)) /\ Len(more) = Len(ds)
    BY <1>1, <1>5, FunIsSeq
  <1>7. \A T : token \notin T => Grew(T, ds, more)
    BY <1>2, <1>3 DEF Grew
  <1>8. ASSUME \A d \in DOMAIN ds : token \notin Selfs(ds[d]) PROVE more = ds
    <2>1. \A d \in 1 .. Len(ds) : more[d] = ds[d]
      BY <1>1, <1>3, <1>8
    <2>2. ds \in Seq(Seq(Plain))
      BY DEF Tabled
    <2>3. QED BY <1>1, <1>6, <2>1, <2>2
  <1>9. QED BY <1>2, <1>6, <1>7, <1>8 DEF Tabled

LEMMA RefMeets ==
    ASSUME NEW ds, Tabled(ds), NEW k \in DOMAIN ds
    PROVE  /\ BareToks(Ref(k), ds) = BareToks(ds[k], ds)
           /\ Orderly(Ref(k)) /\ Selfs(Ref(k)) = {} /\ Refs(Ref(k)) = {k}
  <1> DEFINE t == Ref(k)
             C == Closure(Bare(ds[k]), BareIn(ds))
  <1>1. k \in Nat \ {0}
    BY TabledIs
  <1>2. Orderly(t) /\ Said(t) = {<<0, k, FALSE>>} /\ t \in Seq(Plain)
    BY <1>1, RefIs DEF Orderly
  <1>3. Refs(t) = {k} /\ Selfs(t) = {} /\ Bare(t) = {k} /\ BareSelfs(t) = {}
    <2> DEFINE m == <<0, k, FALSE>>
    <2>1. m[1] = 0 /\ m[2] = k /\ m[3] = FALSE
      OBVIOUS
    <2> HIDE DEF m, t
    <2>2. Said(t) = {m}
      BY <1>2 DEF m
    <2>3. QED BY <1>1, <1>2, <2>1, <2>2, SaidTells
  <1>4. Closure({k}, BareIn(ds)) = {k} \cup C
    <2>1. k \in DOMAIN BareIn(ds) /\ BareIn(ds)[k] = Bare(ds[k]) /\ IsFiniteSet(DOMAIN BareIn(ds))
      BY TabledIs
    <2>2. QED BY <2>1, ClosureFromOne
  <1> HIDE DEF t, C
  <1>5. Gathered({k} \cup C, ds) = BareSelfs(ds[k]) \cup Gathered(C, ds)
    BY DEF Gathered
  <1>6. BareToks(t, ds) = Gathered({k} \cup C, ds)
    BY <1>3, <1>4 DEF BareToks
  <1>7. QED BY <1>2, <1>3, <1>5, <1>6 DEF BareToks, C, t

(* A definition that an alias became stands for it.                        *)
LEMMA RefFine ==
    ASSUME NEW ds, Tabled(ds), NEW k \in DOMAIN ds, NEW T,
           \A d \in DOMAIN ds : Refs(ds[d]) \in SUBSET DOMAIN ds /\ Selfs(ds[d]) \in SUBSET T,
           NEW p, NEW Q, Tame(p, Anns(Q)), Meets(ds[k], p, Q, ds)
    PROVE  Fine(Ref(k), p, Q, T, ds)
  <1>1. /\ BareToks(Ref(k), ds) = BareToks(ds[k], ds)
        /\ Orderly(Ref(k)) /\ Selfs(Ref(k)) = {} /\ Refs(Ref(k)) = {k}
    BY RefMeets
  <1>2. Good(T, ds) = DOMAIN ds
    BY WholeIsGood
  <1>3. Sealed(Ref(k), T, ds)
    BY <1>1, <1>2 DEF Sealed
  <1>4. Meets(Ref(k), p, Q, ds)
    BY <1>1 DEF Meets
  <1>5. QED BY <1>1, <1>3, <1>4 DEF Fine

(* An alias closes that its body names under constructors alone.           *)
LEMMA ClosesTame ==
    ASSUME NEW Q, NEW p \in Ann, IsAlias(p), p \notin Anns(Q), NEW token, NEW b, PartsOf[p] = {b},
           NEW r, NEW ds, Meets(r, b, Q \cup {<<p, token>>}, ds), Tame(b, Anns(Q \cup {<<p, token>>})),
           token \notin BareToks(r, ds)
    PROVE  Tame(p, Anns(Q)) /\ \A q \in Q : q[2] \in BareToks(r, ds) <=> q[1] \in BareReach(p, Anns(Q))
  <1> DEFINE A == Anns(Q)
             R == Q \cup {<<p, token>>}
  <1>1. <<p, token>>[1] = p /\ <<p, token>>[2] = token
    OBVIOUS
  <1>2. Anns(R) = A \cup {p}
    BY <1>1 DEF Anns
  <1>3. \A q \in R : q[2] \in BareToks(r, ds) <=> q[1] \in BareReach(b, A \cup {p})
    BY <1>2 DEF Meets
  <1>4. p \notin BareReach(b, A \cup {p})
    BY <1>1, <1>3
  <1>5. Tame(b, A \cup {p})
    BY <1>2
  <1>6. \A q \in Q : q[1] \in A
    BY DEF Anns
  <1> HIDE DEF A
  <1>7. p \notin A
    BY DEF A
  <1>8. Tame(p, A) /\ BareReach(p, A) = {p} \cup BareReach(b, A \cup {p})
    BY <1>4, <1>5, <1>7, TameClosed
  <1>9. \A q \in Q : q[2] \in BareToks(r, ds) <=> q[1] \in BareReach(p, A)
    BY <1>3, <1>6, <1>7, <1>8
  <1>10. QED BY <1>8, <1>9 DEF A

LEMMA ClosesUnused ==
    ASSUME NEW Q, NEW p \in Ann, IsAlias(p), p \notin Anns(Q), NEW token, NEW b, PartsOf[p] = {b},
           NEW r, NEW ds, Tabled(ds), NEW T, token \notin T, Fine(r, b, Q \cup {<<p, token>>}, T, ds)
    PROVE  Fine(r, p, Q, T, ds)
  <1>1. /\ Orderly(r) /\ Sealed(r, T, ds) /\ Meets(r, b, Q \cup {<<p, token>>}, ds)
        /\ Tame(b, Anns(Q \cup {<<p, token>>}))
    BY DEF Fine
  <1>2. token \notin BareToks(r, ds)
    BY <1>1, GoodReaches
  <1>3. Tame(p, Anns(Q)) /\ \A q \in Q : q[2] \in BareToks(r, ds) <=> q[1] \in BareReach(p, Anns(Q))
    BY <1>1, <1>2, ClosesTame
  <1>4. QED BY <1>1, <1>3 DEF Fine, Meets

(* Whether the definition an alias would become names itself outside any   *)
(* constructor, read from its body before its placeholder is resolved.     *)
LEMMA UnguardedTells ==
    ASSUME NEW defs1, Tabled(defs1), NEW token \in Nat \ {0}, NEW r, NEW T, Sealed(r, T, defs1), r \in Seq(Plain),
           NEW at, at = Len(defs1) + 1, NEW body, body = Resolved(r, token, at),
           NEW ds, ds = ResolvedAll(defs1, token, at)
    PROVE  /\ Unguarded(at, body, ds) <=> token \in BareToks(r, defs1)
           /\ ~Unguarded(at, body, ds) =>
                 /\ Bare(body) = Bare(r) /\ BareSelfs(body) = BareSelfs(r)
                 /\ \A d \in Closure(Bare(r), BareIn(defs1)) :
                       Bare(ds[d]) = Bare(defs1[d]) /\ BareSelfs(ds[d]) = BareSelfs(defs1[d])
                 /\ at \notin Bare(body)
  <1> DEFINE was   == BareIn(defs1)
             now   == BareIn(ds)
             C     == Closure(Bare(r), was)
             Since == Closure(Bare(body), now)
  <1>1. at \in Nat \ {0} /\ at \notin DOMAIN defs1
    BY TabledIs
  <1>2. /\ Tabled(ds) /\ DOMAIN ds = DOMAIN defs1
        /\ \A d \in DOMAIN defs1 : ds[d] = Resolved(defs1[d], token, at)
    BY <1>1, ResolvedAllIs
  <1>3. /\ IsFiniteSet(DOMAIN was) /\ IsFiniteSet(DOMAIN now) /\ DOMAIN was = DOMAIN defs1 /\ DOMAIN now = DOMAIN defs1
        /\ \A d \in DOMAIN defs1 : was[d] = Bare(defs1[d]) /\ now[d] = Bare(ds[d]) /\ defs1[d] \in Seq(Plain)
    BY <1>2, TabledIs
  <1>4. /\ \A x : x \in Bare(body) <=> x \in Bare(r) \/ (x = at /\ token \in BareSelfs(r))
        /\ BareSelfs(body) = BareSelfs(r) \ {token}
    <2>1. Resolves(body, r, token, at)
      BY <1>1, ResolvedIs
    <2>2. QED BY <2>1 DEF Resolves
  <1>5. \A d \in DOMAIN defs1 :
           /\ \A x : x \in Bare(ds[d]) <=> x \in Bare(defs1[d]) \/ (x = at /\ token \in BareSelfs(defs1[d]))
           /\ BareSelfs(ds[d]) = BareSelfs(defs1[d]) \ {token}
    <2> SUFFICES ASSUME NEW d \in DOMAIN defs1
                 PROVE  /\ \A x : x \in Bare(ds[d]) <=> x \in Bare(defs1[d]) \/ (x = at /\ token \in BareSelfs(defs1[d]))
                        /\ BareSelfs(ds[d]) = BareSelfs(defs1[d]) \ {token}
      OBVIOUS
    <2>1. defs1[d] \in Seq(Plain) /\ ds[d] = Resolved(defs1[d], token, at)
      BY <1>2, <1>3
    <2> DEFINE e == defs1[d]
               u == ds[d]
    <2>2. e \in Seq(Plain) /\ u = Resolved(e, token, at)
      BY <2>1
    <2> HIDE DEF e, u
    <2>3. Resolves(u, e, token, at)
      BY <1>1, <2>2, ResolvedIs
    <2>4. QED BY <2>3 DEF e, u, Resolves
  <1>6. C \in SUBSET DOMAIN defs1
    BY GoodReaches, GoodIs
  <1>7. Unguarded(at, body, ds) <=> at \in Since
    BY DEF Unguarded, BareIn
  <1>8. Bare(r) \in SUBSET C /\ Shut(C, was)
    BY <1>3, ClosureIs
  <1>9. Bare(body) \in SUBSET Since /\ Shut(Since, now)
    BY <1>3, ClosureIs
  <1>10. BareToks(r, defs1) = BareSelfs(r) \cup Gathered(C, defs1)
    BY DEF BareToks
  <1>11. C \in SUBSET Since
    <2>1. Bare(r) \in SUBSET Bare(body)
      BY <1>4
    <2>2. \A d \in DOMAIN was : was[d] \in SUBSET now[d]
      BY <1>3, <1>5
    <2> HIDE DEF was, now
    <2>3. QED BY <1>3, <2>1, <2>2, ClosureMore
  <1>12. ASSUME token \in BareToks(r, defs1) PROVE at \in Since
    <2> HIDE DEF C, Since, was, now
    <2>1. CASE token \in BareSelfs(r)
      BY <1>4, <1>9, <2>1
    <2>2. CASE token \in Gathered(C, defs1)
      <3>1. PICK d \in C \cap DOMAIN defs1 : token \in BareSelfs(defs1[d])
        BY <2>2 DEF Gathered
      <3>2. d \in DOMAIN defs1 /\ d \in C
        BY <3>1
      <3>a. at \in Bare(ds[d])
        BY <1>5, <3>1, <3>2
      <3>b. at \in now[d] /\ d \in DOMAIN now /\ d \in Since
        BY <1>3, <1>11, <3>2, <3>a
      <3>3. QED BY <1>9, <3>b DEF Shut
    <2>3. QED BY <1>10, <1>12, <2>1, <2>2
  <1>13. ASSUME token \notin BareToks(r, defs1)
         PROVE  /\ at \notin Since
                /\ Bare(body) = Bare(r) /\ BareSelfs(body) = BareSelfs(r)
                /\ \A d \in C : Bare(ds[d]) = Bare(defs1[d]) /\ BareSelfs(ds[d]) = BareSelfs(defs1[d])
    <2>1. token \notin BareSelfs(r) /\ \A d \in C : token \notin BareSelfs(defs1[d])
      BY <1>6, <1>10, <1>13 DEF Gathered
    <2>2. Bare(body) = Bare(r) /\ BareSelfs(body) = BareSelfs(r)
      BY <1>4, <2>1
    <2>3. \A d \in C : Bare(ds[d]) = Bare(defs1[d]) /\ BareSelfs(ds[d]) = BareSelfs(defs1[d])
      <3> HIDE DEF C
      <3> SUFFICES ASSUME NEW d \in C PROVE Bare(ds[d]) = Bare(defs1[d]) /\ BareSelfs(ds[d]) = BareSelfs(defs1[d])
        OBVIOUS
      <3>1. d \in DOMAIN defs1
        BY <1>6
      <3>2. QED BY <1>5, <2>1, <3>1
    <2>4. Shut(C, now)
      <3> HIDE DEF C, was, now
      <3>1. \A d \in C : now[d] = was[d] /\ d \in DOMAIN was
        BY <1>3, <1>6, <2>3
      <3>2. QED BY <1>8, <3>1 DEF Shut
    <2>5. Since \in SUBSET C
      <3> HIDE DEF C, now
      <3>1. QED BY <1>3, <1>8, <2>2, <2>4, ClosureIs DEF C
    <2>6. QED BY <1>1, <1>6, <2>2, <2>3, <2>5
  <1> HIDE DEF C, Since, was, now
  <1>14. at \notin Since => at \notin Bare(body)
    BY <1>9
  <1>15. QED BY <1>7, <1>12, <1>13, <1>14 DEF C, was

\* The table names only itself, and no placeholder out of T.
WholeTable(ds, T) == \A d \in DOMAIN ds : Refs(ds[d]) \in SUBSET DOMAIN ds /\ Selfs(ds[d]) \in SUBSET T

\* An alias p, token `token`, closes over r: its body read as b.
Closing(Q, p, token, b, r, ds, T) ==
    /\ p \in Ann /\ IsAlias(p) /\ p \notin Anns(Q) /\ PartsOf[p] = {b} /\ token \in Nat \ {0}
    /\ Tabled(ds) /\ WholeTable(ds, T) /\ Fine(r, b, Q \cup {<<p, token>>}, T, ds)

LEMMA ClosesBare ==
    ASSUME NEW Q, NEW p, NEW token, NEW b, NEW r, NEW ds, NEW T, Closing(Q, p, token, b, r, ds, T),
           token \in BareToks(r, ds)
    PROVE  NotContractive(p)
  <1> DEFINE R == Q \cup {<<p, token>>}
  <1>1. <<p, token>>[1] = p /\ <<p, token>>[2] = token /\ <<p, token>> \in R
    OBVIOUS
  <1>2. Meets(r, b, R, ds)
    BY DEF Closing, Fine
  <1> HIDE DEF R
  <1>3. p \in BareReach(b, Anns(R))
    BY <1>1, <1>2 DEF Meets
  <1>4. QED BY <1>3, NotTame DEF Closing

LEMMA ClosesNew ==
    ASSUME NEW Q, NEW p, NEW token, NEW b, NEW r, NEW was, NEW T, Closing(Q, p, token, b, r, was, T),
           NEW at, at = Len(was) + 1, NEW body, body = Resolved(r, token, at),
           NEW ds, ds = ResolvedAll(was, token, at), ~Unguarded(at, body, ds), NEW more, more = Append(ds, body)
    PROVE  /\ Tabled(more) /\ WholeTable(more, T \ {token})
           /\ Fine(Ref(at), p, Q, T \ {token}, more)
  <1> DEFINE U == T \ {token}
             C == Closure(Bare(r), BareIn(was))
  <1>1. /\ p \in Ann /\ IsAlias(p) /\ p \notin Anns(Q) /\ PartsOf[p] = {b} /\ token \in Nat \ {0}
        /\ Tabled(was) /\ WholeTable(was, T)
        /\ Orderly(r) /\ Sealed(r, T, was) /\ Meets(r, b, Q \cup {<<p, token>>}, was)
        /\ Tame(b, Anns(Q \cup {<<p, token>>}))
    BY DEF Closing, Fine
  <1>2. r \in Seq(Plain)
    BY <1>1 DEF Orderly
  <1>3. /\ token \notin BareToks(r, was) /\ at \notin Bare(body)
        /\ Bare(body) = Bare(r) /\ BareSelfs(body) = BareSelfs(r)
        /\ \A d \in C : Bare(ds[d]) = Bare(was[d]) /\ BareSelfs(ds[d]) = BareSelfs(was[d])
    BY <1>1, <1>2, UnguardedTells
  <1>4. at \in Nat \ {0} /\ at = Len(was) + 1 /\ Len(was) \in Nat /\ DOMAIN was = 1 .. Len(was)
    BY <1>1, TabledIs
  <1>5. Resolves(body, r, token, at)
    BY <1>1, <1>2, <1>4, ResolvedIs
  <1>6. /\ Tabled(ds) /\ DOMAIN ds = DOMAIN was /\ Len(ds) = Len(was)
        /\ \A d \in DOMAIN was : ds[d] = Resolved(was[d], token, at)
    BY <1>1, <1>4, ResolvedAllIs
  <1>7. \A d \in DOMAIN was : Resolves(ds[d], was[d], token, at)
    <2> SUFFICES ASSUME NEW d \in DOMAIN was PROVE Resolves(ds[d], was[d], token, at)
      OBVIOUS
    <2>1. was[d] \in Seq(Plain) /\ ds[d] = Resolved(was[d], token, at)
      BY <1>1, <1>6, TabledIs
    <2>2. QED BY <1>1, <1>4, <2>1, ResolvedIs
  <1>8. /\ Tabled(more) /\ DOMAIN more = DOMAIN was \cup {at} /\ more[at] = body
        /\ \A d \in DOMAIN was : more[d] = ds[d]
    <2>1. body \in Seq(Plain) /\ ds \in Seq(Seq(Plain))
      BY <1>5, <1>6 DEF Resolves, Tabled
    <2>2. more \in Seq(Seq(Plain)) /\ Len(more) = Len(was) + 1 /\ more[Len(was) + 1] = body
          /\ \A d \in 1 .. Len(was) : more[d] = ds[d]
      BY <1>6, <2>1
    <2>3. DOMAIN more = 1 .. Len(was) + 1
      BY <2>2
    <2>4. 1 .. Len(was) + 1 = (1 .. Len(was)) \cup {Len(was) + 1}
      BY <1>4
    <2>5. QED BY <1>4, <2>2, <2>3, <2>4 DEF Tabled
  <1>9. Selfs(r) \in SUBSET T /\ Refs(r) \in SUBSET DOMAIN was
    <2>1. Refs(r) \in SUBSET Good(T, was) /\ Good(T, was) \in SUBSET DOMAIN was
      BY <1>1, GoodIs DEF Sealed
    <2>2. QED BY <1>1, <2>1 DEF Sealed
  <1>10. WholeTable(more, U)
    <2> SUFFICES ASSUME NEW d \in DOMAIN more PROVE Refs(more[d]) \in SUBSET DOMAIN more /\ Selfs(more[d]) \in SUBSET U
      BY DEF WholeTable
    <2>1. CASE d = at
      <3>1. Selfs(body) = Selfs(r) \ {token} /\ Refs(body) \in SUBSET (Refs(r) \cup {at})
        BY <1>5 DEF Resolves
      <3>2. QED BY <1>8, <1>9, <2>1, <3>1
    <2>2. CASE d # at
      <3>1. d \in DOMAIN was /\ more[d] = ds[d]
        BY <1>8, <2>2
      <3>2. Selfs(ds[d]) = Selfs(was[d]) \ {token} /\ Refs(ds[d]) \in SUBSET (Refs(was[d]) \cup {at})
        BY <1>7, <3>1 DEF Resolves
      <3>3. Refs(was[d]) \in SUBSET DOMAIN was /\ Selfs(was[d]) \in SUBSET T
        BY <1>1, <3>1 DEF WholeTable
      <3>4. QED BY <1>8, <3>1, <3>2, <3>3
    <2>3. QED BY <2>1, <2>2
  <1>11. C \in SUBSET DOMAIN was
    <2>1. C \in SUBSET Good(T, was) /\ Good(T, was) \in SUBSET DOMAIN was
      BY <1>1, GoodReaches, GoodIs
    <2>2. QED BY <2>1
  <1>12. Closure(Bare(body), BareIn(more)) = C
    <2>1. IsFiniteSet(DOMAIN BareIn(was)) /\ IsFiniteSet(DOMAIN BareIn(more))
      BY <1>1, <1>8, TabledIs
    <2>2. \A d \in C : /\ d \in DOMAIN BareIn(was) <=> d \in DOMAIN BareIn(more)
                       /\ d \in DOMAIN BareIn(was) => BareIn(more)[d] = BareIn(was)[d]
      <3> SUFFICES ASSUME NEW d \in C
                   PROVE /\ d \in DOMAIN BareIn(was) <=> d \in DOMAIN BareIn(more)
                         /\ d \in DOMAIN BareIn(was) => BareIn(more)[d] = BareIn(was)[d]
        OBVIOUS
      <3>1. d \in DOMAIN was /\ d \in DOMAIN more /\ more[d] = ds[d]
        BY <1>8, <1>11
      <3>2. Bare(more[d]) = Bare(was[d])
        BY <1>3, <3>1
      <3>3. DOMAIN BareIn(was) = DOMAIN was /\ BareIn(was)[d] = Bare(was[d])
        BY <1>1, <3>1, TabledIs
      <3>4. DOMAIN BareIn(more) = DOMAIN more /\ BareIn(more)[d] = Bare(more[d])
        BY <1>8, <3>1, TabledIs
      <3>5. QED BY <3>1, <3>2, <3>3, <3>4
    <2>3. Closure(Bare(r), BareIn(more)) = C
      BY <2>1, <2>2, ClosureAlike
    <2>4. QED BY <1>3, <2>3
  <1> HIDE DEF C
  <1>13. BareToks(body, more) = BareToks(r, was)
    <2>1. Gathered(C, more) = Gathered(C, was)
      <3>1. \A d \in C : d \in DOMAIN more /\ d \in DOMAIN was /\ BareSelfs(more[d]) = BareSelfs(was[d])
        BY <1>3, <1>8, <1>11
      <3>2. QED BY <3>1 DEF Gathered
    <2>2. BareToks(r, was) = BareSelfs(r) \cup Gathered(C, was)
      BY DEF BareToks, C
    <2>3. BareToks(body, more) = BareSelfs(body) \cup Gathered(C, more)
      BY <1>12 DEF BareToks
    <2>4. QED BY <1>3, <2>1, <2>2, <2>3
  <1>14. Tame(p, Anns(Q)) /\ \A q \in Q : q[2] \in BareToks(r, was) <=> q[1] \in BareReach(p, Anns(Q))
    BY <1>1, <1>3, ClosesTame
  <1>15. Meets(more[at], p, Q, more)
    BY <1>8, <1>13, <1>14 DEF Meets
  <1>16. Fine(Ref(at), p, Q, U, more)
    <2>1. at \in DOMAIN more
      BY <1>8
    <2>2. \A d \in DOMAIN more : Refs(more[d]) \in SUBSET DOMAIN more /\ Selfs(more[d]) \in SUBSET U
      BY <1>10 DEF WholeTable
    <2> HIDE DEF U
    <2>3. QED BY <1>8, <1>14, <1>15, <2>1, <2>2, RefFine
  <1>17. QED BY <1>8, <1>10, <1>16

\* What closing on a definition held already comes to, and when it is done.
NamedByNone(token, ds) == \A d \in DOMAIN ds : token \notin Selfs(ds[d])
TyingHeld(at, body, ds, r, token, was) ==
    /\ at = Len(was) + 1 /\ body = Resolved(r, token, at) /\ ds = ResolvedAll(was, token, at)
    /\ ~Unguarded(at, body, ds) /\ NamedByNone(token, was)
EndsHeld(Q, p, token, T, k, ds, was) ==
    ds = was /\ WholeTable(ds, T \ {token}) /\ Fine(Ref(k), p, Q, T \ {token}, ds)

LEMMA ClosesHeld ==
    ASSUME NEW Q, NEW p, NEW token, NEW b, NEW r, NEW was, NEW T, Closing(Q, p, token, b, r, was, T),
           NEW at, NEW body, NEW ds, TyingHeld(at, body, ds, r, token, was), NEW k \in HeldAlready(body, at, ds)
    PROVE  EndsHeld(Q, p, token, T, k, ds, was)
  <1> DEFINE U == T \ {token}
             C == Closure(Bare(r), BareIn(was))
  <1>0. /\ at = Len(was) + 1 /\ body = Resolved(r, token, at) /\ ds = ResolvedAll(was, token, at)
        /\ ~Unguarded(at, body, ds) /\ NamedByNone(token, was)
    BY DEF TyingHeld
  <1>1. /\ p \in Ann /\ IsAlias(p) /\ p \notin Anns(Q) /\ PartsOf[p] = {b} /\ token \in Nat \ {0}
        /\ Tabled(was) /\ WholeTable(was, T)
        /\ Orderly(r) /\ Sealed(r, T, was) /\ Meets(r, b, Q \cup {<<p, token>>}, was)
        /\ Tame(b, Anns(Q \cup {<<p, token>>}))
    BY DEF Closing, Fine
  <1>2. r \in Seq(Plain)
    BY <1>1 DEF Orderly
  <1>3. /\ token \notin BareToks(r, was) /\ at \notin Bare(body)
        /\ Bare(body) = Bare(r) /\ BareSelfs(body) = BareSelfs(r)
    BY <1>0, <1>1, <1>2, UnguardedTells
  <1>4. at \in Nat \ {0} /\ at \notin DOMAIN was
    BY <1>0, <1>1, TabledIs
  <1>5. body \in Seq(Plain)
    BY <1>0, <1>1, <1>2, <1>4, ResolvedIs DEF Resolves
  <1>6. /\ DOMAIN ds = DOMAIN was /\ \A d \in DOMAIN was : ds[d] = Resolved(was[d], token, at)
        /\ (\A d \in DOMAIN was : token \notin Selfs(was[d])) => ds = was
    <2>1. Tabled(was) /\ token \in Nat \ {0} /\ at \in Nat \ {0} /\ ds = ResolvedAll(was, token, at)
      BY <1>0, <1>1, <1>4
    <2>2. /\ Tabled(ds) /\ DOMAIN ds = DOMAIN was /\ Len(ds) = Len(was)
          /\ \A d \in DOMAIN was : ds[d] = Resolved(was[d], token, at)
          /\ \A X : token \notin X => Grew(X, was, ds)
          /\ (\A d \in DOMAIN was : token \notin Selfs(was[d])) => ds = was
      BY ONLY <2>1, ResolvedAllIs
    <2>3. QED BY <2>2
  <1>7. \A d \in DOMAIN was : token \notin Selfs(was[d])
    BY <1>0 DEF NamedByNone
  <1>8. ds = was
    BY <1>6, <1>7
  <1>9. WholeTable(ds, U)
    <2>1. \A d \in DOMAIN was : Selfs(was[d]) \in SUBSET U /\ Refs(was[d]) \in SUBSET DOMAIN was
      BY <1>1, <1>7 DEF WholeTable
    <2>2. QED BY <1>8, <2>1 DEF WholeTable
  <1>10. k \in DOMAIN ds /\ ds[k] = Renumbered(body, at, k)
    BY DEF HeldAlready
  <1>11. Bare(ds[k]) = Bare(r) /\ BareSelfs(ds[k]) = BareSelfs(r)
    <2>1. BareSelfs(ds[k]) = BareSelfs(body) /\ (at \notin Bare(body) => at = 0 \/ Bare(ds[k]) = Bare(body))
      BY <1>5, <1>10, RenumberedIs
    <2>2. QED BY <1>3, <1>4, <2>1
  <1>12. BareToks(ds[k], ds) = BareToks(r, was)
    BY <1>8, <1>11 DEF BareToks
  <1>13. Tame(p, Anns(Q)) /\ \A q \in Q : q[2] \in BareToks(r, was) <=> q[1] \in BareReach(p, Anns(Q))
    BY <1>1, <1>3, ClosesTame
  <1>14. Meets(ds[k], p, Q, ds)
    BY <1>12, <1>13 DEF Meets
  <1>15. Fine(Ref(k), p, Q, U, ds)
    <2>1. \A d \in DOMAIN ds : Refs(ds[d]) \in SUBSET DOMAIN ds /\ Selfs(ds[d]) \in SUBSET U
      BY <1>9 DEF WholeTable
    <2> HIDE DEF U
    <2>2. Tabled(ds)
      BY <1>1, <1>8
    <2>3. QED BY <1>10, <1>13, <1>14, <2>1, <2>2, RefFine
  <1>16. QED BY <1>8, <1>9, <1>15 DEF EndsHeld

-----------------------------------------------------------------------------
(* The frames of the build under way, and the aliases they have open.      *)

Upto(s, n)  == SubSeq(s, 1, n)
Upper(s)    == s[Len(s)]
InBuild(s)  == {i \in 1 .. Len(s) : \A k \in i .. Len(s) : s[k].pc # "root"}
Tied(f)     == <<f.ann, f.token>>
OpenIn(s)   == {Tied(s[i]) : i \in {j \in InBuild(s) : s[j].pc = "body"}}
\* The placeholders given out, and those of the aliases s has open.
HandedOut(al) == {al[k].token : k \in {j \in DOMAIN al : al[j].used}}
Given(s, H)   == Toks(OpenIn(s)) \cap H

Pushed(t, s, f) ==
    /\ Len(s) \in Nat /\ Len(t) = Len(s) + 1 /\ Upper(t) = f /\ t[Len(s) + 1] = f /\ t # <<>>
    /\ Upto(t, Len(s) + 1) = t
    /\ \A n \in 1 .. Len(s) : t[n] = s[n]
    /\ \A n \in 0 .. Len(s) : Upto(t, n) = Upto(s, n)
    /\ Upto(t, Len(s)) = s

LEMMA PushIs ==
    ASSUME NEW S, NEW s \in Seq(S), NEW f, NEW t, t = Append(s, f)
    PROVE  Pushed(t, s, f)
  <1>1. /\ Len(s) \in Nat /\ Len(t) = Len(s) + 1 /\ t[Len(s) + 1] = f
        /\ \A n \in 1 .. Len(s) : t[n] = s[n]
    OBVIOUS
  <1>2. Upper(t) = f /\ t # <<>>
    BY <1>1 DEF Upper
  <1>3. ASSUME NEW n \in 0 .. Len(s) PROVE Upto(t, n) = Upto(s, n)
    <2>1. Upto(t, n) = [i \in 1 .. n |-> t[i]] /\ Upto(s, n) = [i \in 1 .. n |-> s[i]]
      BY <1>1 DEF Upto
    <2>2. \A i \in 1 .. n : t[i] = s[i]
      BY <1>1
    <2>3. QED BY <2>1, <2>2
  <1>4. Upto(s, Len(s)) = s
    <2>1. Upto(s, Len(s)) = [i \in 1 .. Len(s) |-> s[i]]
      BY <1>1 DEF Upto
    <2>2. s = [i \in 1 .. Len(s) |-> s[i]]
      OBVIOUS
    <2>3. QED BY <2>1, <2>2
  <1>5. Upto(t, Len(s)) = s
    BY <1>1, <1>3, <1>4
  <1>6. Upto(t, Len(s) + 1) = t
    <2>1. Upto(t, Len(s) + 1) = [i \in 1 .. Len(s) + 1 |-> t[i]]
      BY <1>1 DEF Upto
    <2>2. t = [i \in 1 .. Len(s) + 1 |-> t[i]]
      <3> DEFINE U == S \cup {f}
      <3>1. \A T, V : T \in SUBSET V => Seq(T) \in SUBSET Seq(V)
        OBVIOUS
      <3>2. S \in SUBSET U /\ f \in U
        OBVIOUS
      <3> HIDE DEF U
      <3>3. t \in Seq(U)
        BY <3>1, <3>2
      <3>4. \A q \in Seq(U) : q = [i \in 1 .. Len(q) |-> q[i]]
        OBVIOUS
      <3>5. t = [i \in 1 .. Len(t) |-> t[i]]
        BY ONLY <3>3, <3>4
      <3>6. QED BY ONLY <1>1, <3>5
    <2>3. QED BY <2>1, <2>2
  <1>7. QED BY <1>1, <1>2, <1>3, <1>5, <1>6 DEF Pushed

LEMMA InBuildPushed ==
    ASSUME NEW s, NEW f, NEW t, Pushed(t, s, f)
    PROVE  /\ f.pc = "root" => InBuild(t) = {} /\ OpenIn(t) = {}
           /\ f.pc # "root" =>
                /\ InBuild(t) = InBuild(s) \cup {Len(s) + 1}
                /\ f.pc = "body" => OpenIn(t) = OpenIn(s) \cup {Tied(f)}
                /\ f.pc # "body" => OpenIn(t) = OpenIn(s)
  <1> DEFINE m == Len(s)
  <1>1. m \in Nat /\ Len(t) = m + 1 /\ t[m + 1] = f /\ \A n \in 1 .. m : t[n] = s[n]
    BY DEF Pushed
  <1>2. InBuild(s) = {i \in 1 .. m : \A k \in i .. m : s[k].pc # "root"}
    BY DEF InBuild
  <1>3. InBuild(t) = {i \in 1 .. m + 1 : \A k \in i .. m + 1 : t[k].pc # "root"}
    BY <1>1 DEF InBuild
  <1> HIDE DEF m
  <1>4. ASSUME f.pc = "root" PROVE InBuild(t) = {}
    <2>1. \A i \in 1 .. m + 1 : m + 1 \in i .. m + 1
      BY <1>1
    <2>2. QED BY <1>1, <1>3, <1>4, <2>1
  <1>5. ASSUME f.pc # "root" PROVE InBuild(t) = InBuild(s) \cup {m + 1}
    <2>1. ASSUME NEW i \in 1 .. m PROVE i \in InBuild(t) <=> i \in InBuild(s)
      <3>1. i .. m + 1 = (i .. m) \cup {m + 1} /\ i \in 1 .. m + 1
        BY <1>1
      <3>2. \A k \in i .. m : t[k] = s[k]
        BY <1>1
      <3>3. QED BY <1>1, <1>2, <1>3, <1>5, <3>1, <3>2
    <2>2. m + 1 \in InBuild(t)
      <3>1. m + 1 .. m + 1 = {m + 1} /\ m + 1 \in 1 .. m + 1
        BY <1>1
      <3>2. QED BY <1>1, <1>3, <1>5, <3>1
    <2>3. InBuild(s) \in SUBSET (1 .. m) /\ InBuild(t) \in SUBSET (1 .. m + 1) /\ 1 .. m + 1 = (1 .. m) \cup {m + 1}
      BY <1>1, <1>2, <1>3
    <2>4. QED BY <2>1, <2>2, <2>3
  <1>6. f.pc = "root" => OpenIn(t) = {}
    BY <1>4 DEF OpenIn
  <1>7. ASSUME f.pc # "root"
        PROVE  /\ f.pc = "body" => OpenIn(t) = OpenIn(s) \cup {Tied(f)}
               /\ f.pc # "body" => OpenIn(t) = OpenIn(s)
    <2>1. InBuild(t) = InBuild(s) \cup {m + 1} /\ \A i \in InBuild(s) : t[i] = s[i]
      BY <1>1, <1>2, <1>5, <1>7
    <2>2. {j \in InBuild(t) : t[j].pc = "body"} = {j \in InBuild(s) : s[j].pc = "body"} \cup {j \in {m + 1} : f.pc = "body"}
      BY <1>1, <2>1
    <2>3. OpenIn(s) = {Tied(s[i]) : i \in {j \in InBuild(s) : s[j].pc = "body"}}
      BY DEF OpenIn
    <2>4. OpenIn(t) = {Tied(t[i]) : i \in {j \in InBuild(s) : s[j].pc = "body"} \cup {j \in {m + 1} : f.pc = "body"}}
      BY <2>2 DEF OpenIn
    <2>5. QED BY <1>1, <2>1, <2>3, <2>4
  <1>8. QED BY <1>4, <1>5, <1>6, <1>7 DEF m

(* A stack is what it was with its top frame on it.                        *)
LEMMA PopIs ==
    ASSUME NEW S, NEW s \in Seq(S), s # <<>>
    PROVE  /\ Front(s) \in Seq(S) /\ Upper(s) \in S /\ s = Append(Front(s), Upper(s))
           /\ Pushed(s, Front(s), Upper(s)) /\ Len(s) = Len(Front(s)) + 1 /\ Len(Front(s)) \in Nat
  <1>1. /\ Front(s) \in Seq(S) /\ Len(Front(s)) = Len(s) - 1
        /\ \A n \in 1 .. Len(s) - 1 : Front(s)[n] = s[n]
    BY FrontIs
  <1>2. Len(s) \in Nat \ {0} /\ Upper(s) \in S /\ Upper(s) = s[Len(s)]
    BY DEF Upper
  <1> DEFINE r == Front(s)
             f == Upper(s)
             t == Append(r, f)
  <1>3. s = Append(r, f)
    <2> HIDE DEF r, f
    <2>1. Len(t) = Len(s) /\ t[Len(s)] = f /\ \A n \in 1 .. Len(s) - 1 : t[n] = s[n]
      BY <1>1, <1>2 DEF r, f
    <2>2. t = [n \in 1 .. Len(s) |-> t[n]] /\ s = [n \in 1 .. Len(s) |-> s[n]]
      <3>1. t \in Seq(S)
        BY <1>1, <1>2 DEF r, f
      <3>2. \A q \in Seq(S) : q = [n \in 1 .. Len(q) |-> q[n]]
        OBVIOUS
      <3> HIDE DEF t
      <3>3. t = [n \in 1 .. Len(s) |-> t[n]]
        BY <2>1, <3>1, <3>2
      <3>4. QED BY <3>2, <3>3
    <2>3. \A n \in 1 .. Len(s) : t[n] = s[n]
      BY <1>2, <2>1 DEF f
    <2>4. QED BY <2>2, <2>3
  <1>4. Pushed(s, r, f)
    <2> HIDE DEF r, f
    <2>1. r \in Seq(S)
      BY <1>1 DEF r
    <2>2. QED BY <1>3, <2>1, PushIs
  <1>5. QED BY <1>1, <1>2, <1>3, <1>4

\* With H given out, the parts a frame holds stand for what it reads them from.
FrameFine(f, Q, H, ds) == FineParts(f.parts, f.ann, Q, Toks(Q) \cap H, ds)
SegFine(s, H, ds)      == \A n \in InBuild(s) : FrameFine(s[n], OpenIn(Upto(s, n)), H, ds)

LEMMA SegPushed ==
    ASSUME NEW s, NEW f, NEW t, Pushed(t, s, f), NEW H, NEW ds
    PROVE  SegFine(t, H, ds) <=> f.pc = "root" \/ (SegFine(s, H, ds) /\ FrameFine(f, OpenIn(t), H, ds))
  <1> DEFINE m == Len(s)
  <1>1. /\ m \in Nat /\ Len(t) = m + 1 /\ t[m + 1] = f /\ \A n \in 1 .. m : t[n] = s[n] /\ Upto(t, n) = Upto(s, n)
        /\ InBuild(s) \in SUBSET (1 .. m)
    BY DEF Pushed, InBuild
  <1>2. Upto(t, m + 1) = t
    BY DEF Pushed
  <1>3. CASE f.pc = "root"
    BY <1>3, InBuildPushed DEF SegFine
  <1>4. CASE f.pc # "root"
    <2>1. InBuild(t) = InBuild(s) \cup {m + 1}
      BY <1>4, InBuildPushed
    <2> HIDE DEF m
    <2>2. \A n \in InBuild(s) : t[n] = s[n] /\ Upto(t, n) = Upto(s, n)
      BY <1>1
    <2>3. (\A n \in InBuild(t) : FrameFine(t[n], OpenIn(Upto(t, n)), H, ds))
          <=> /\ \A n \in InBuild(s) : FrameFine(t[n], OpenIn(Upto(t, n)), H, ds)
              /\ FrameFine(t[m + 1], OpenIn(Upto(t, m + 1)), H, ds)
      BY <2>1
    <2>4. (\A n \in InBuild(s) : FrameFine(t[n], OpenIn(Upto(t, n)), H, ds))
          <=> \A n \in InBuild(s) : FrameFine(s[n], OpenIn(Upto(s, n)), H, ds)
      BY <2>2
    <2>5. QED BY <1>1, <1>2, <1>4, <2>3, <2>4 DEF SegFine
  <1>5. QED BY <1>3, <1>4

LEMMA OpenUpto ==
    ASSUME NEW S, NEW s \in Seq(S), NEW n \in InBuild(s)
    PROVE  OpenIn(Upto(s, n)) \in SUBSET OpenIn(s)
  <1> DEFINE t == Upto(s, n)
             m == Len(s)
  <1>1. m \in Nat /\ n \in 1 .. m /\ \A k \in n .. m : s[k].pc # "root"
    BY DEF InBuild
  <1>2. Len(t) = n /\ \A i \in 1 .. n : t[i] = s[i]
    <2>1. t = [i \in 1 .. n |-> s[i]]
      BY <1>1 DEF Upto
    <2>2. QED BY <1>1 DEF Upto
  <1> HIDE DEF t, m
  <1>3. \A i \in InBuild(t) : i \in InBuild(s) /\ t[i] = s[i]
    <2> SUFFICES ASSUME NEW i \in InBuild(t) PROVE i \in InBuild(s) /\ t[i] = s[i]
      OBVIOUS
    <2>1. i \in 1 .. n /\ \A k \in i .. n : t[k].pc # "root"
      BY <1>2 DEF InBuild
    <2>2. \A k \in i .. m : k \in i .. n \/ k \in n .. m
      BY <1>1, <2>1
    <2>3. \A k \in i .. n : k \in 1 .. n /\ t[k] = s[k]
      BY <1>1, <1>2, <2>1
    <2>4. i \in 1 .. m /\ \A k \in i .. m : s[k].pc # "root"
      BY <1>1, <2>1, <2>2, <2>3
    <2>5. QED BY <1>2, <2>1, <2>4 DEF InBuild, m
  <1>4. QED BY <1>3 DEF OpenIn, t

LEMMA OpenMore ==
    \A Q, R : Q \in SUBSET R => Toks(Q) \in SUBSET Toks(R) /\ Anns(Q) \in SUBSET Anns(R)
  BY DEF Toks, Anns

(* More is given out, more is defined: what a frame holds stands for as much. *)
LEMMA EnvMoves ==
    ASSUME NEW S, NEW s \in Seq(S), NEW H, NEW more, NEW ds, NEW new, SegFine(s, H, ds), Tabled(ds), Tabled(new),
           Given(s, H) \in SUBSET more, Grew(Given(s, H), ds, new)
    PROVE  SegFine(s, more, new)
  <1> SUFFICES ASSUME NEW n \in InBuild(s) PROVE FrameFine(s[n], OpenIn(Upto(s, n)), more, new)
    BY DEF SegFine
  <1> DEFINE Q == OpenIn(Upto(s, n))
             f == s[n]
             T == Toks(Q) \cap H
             U == Toks(Q) \cap more
  <1>1. FrameFine(f, Q, H, ds) /\ T \in SUBSET Given(s, H)
    BY OpenUpto, OpenMore DEF SegFine, Given
  <1>2. T \in SUBSET U
    BY <1>1
  <1>3. Grew(T, ds, new)
    BY <1>1 DEF Grew
  <1> HIDE DEF T, U
  <1>4. ASSUME NEW k \in 1 .. Len(f.parts) PROVE Fine(f.parts[k], Reading[f.ann].parts[k], Q, U, new)
    <2>1. Fine(f.parts[k], Reading[f.ann].parts[k], Q, T, ds)
      BY <1>1 DEF FrameFine, FineParts, T
    <2>2. QED BY <1>2, <1>3, <2>1, FineStays
  <1>5. QED BY <1>4 DEF FrameFine, FineParts, U

-----------------------------------------------------------------------------
(* How frames sit on each other.                                           *)

Calls(f) == IF f.pc = "parts" THEN Reading[f.ann].parts[Len(f.parts) + 1]
            ELSE IF f.pc = "body" THEN Reading[f.ann].parts[1]
            ELSE IF f.pc = "evaluating" THEN Reading[f.ann].runs
            ELSE f.ann
Waits(f) == /\ f.pc \in {"root", "parts", "body", "evaluating"}
            /\ f.pc = "parts" => Len(f.parts) < Len(Reading[f.ann].parts)
Suits(f) == /\ f.ann \in Ann
            /\ f.parts \in Seq(Seq(Plain)) /\ Len(f.parts) <= Len(Reading[f.ann].parts)
            /\ f.pc = "parts" => Reading[f.ann].kind \in {"form", "join", "newtype", "class"}
            /\ f.pc = "body" => IsAlias(f.ann)
            /\ f.pc # "parts" => f.parts = <<>>

\* The table of a build, between what changes it.
WholeUnder(s, H, ds) == WholeTable(ds, Given(s, H))

\* f is what the top frame of s called for; a build in it was handed a whole table.
CalledFor(s, f) ==
    IF s = <<>> THEN f.pc = "root"
    ELSE /\ Waits(Upper(s)) /\ f.ann = Calls(Upper(s))
         /\ f.pc = "root" <=> Upper(s).pc = "evaluating"
Inside(s, f) == f.pc # "root" => \A i \in InBuild(s) : f.ann \in Names[s[i].ann]
Opened(s, f, tk) ==
    f.pc = "body" => f.token \in 1 .. tk /\ f.token \notin Toks(OpenIn(s)) /\ f.ann \notin Anns(OpenIn(s))
Kindly(s, H, ds) == Tabled(ds) /\ SegFine(s, H, ds) /\ WholeUnder(s, H, ds)
Handed(s, f) == f.pc = "root" => Kindly(s, HandedOut(f.saved.aliases), f.saved.defs)

Sits(s, f, tk) == Suits(f) /\ CalledFor(s, f) /\ Inside(s, f) /\ Opened(s, f, tk) /\ Handed(s, f)
Sound(s, tk)   == \A n \in 1 .. Len(s) : Sits(Upto(s, n - 1), s[n], tk)

LEMMA SoundPushed ==
    ASSUME NEW s, NEW f, NEW t, Pushed(t, s, f), NEW tk
    PROVE  Sound(t, tk) <=> Sound(s, tk) /\ Sits(s, f, tk)
  <1> DEFINE m == Len(s)
             P(n) == Sits(Upto(t, n - 1), t[n], tk)
  <1>1. /\ m \in Nat /\ Len(t) = m + 1 /\ t[m + 1] = f /\ Upto(t, m) = s
        /\ \A n \in 1 .. m : t[n] = s[n]
        /\ \A n \in 0 .. m : Upto(t, n) = Upto(s, n)
    BY DEF Pushed
  <1>2. \A n \in 1 .. m : t[n] = s[n] /\ Upto(t, n - 1) = Upto(s, n - 1)
    BY <1>1
  <1>3. P(m + 1) <=> Sits(s, f, tk)
    BY <1>1
  <1>4. (\A n \in 1 .. m : P(n)) <=> Sound(s, tk)
    BY <1>2 DEF Sound
  <1>5. 1 .. m + 1 = (1 .. m) \cup {m + 1}
    BY <1>1
  <1>6. Sound(t, tk) <=> \A n \in (1 .. m) \cup {m + 1} : P(n)
    BY <1>1, <1>5 DEF Sound
  <1> HIDE DEF P, m
  <1>7. QED BY <1>3, <1>4, <1>6

LEMMA SoundMore ==
    ASSUME NEW s, NEW tk \in Nat, NEW more \in Nat, tk <= more, Sound(s, tk)
    PROVE  Sound(s, more)
  <1>1. \A n \in 1 .. tk : n \in 1 .. more
    OBVIOUS
  <1>2. QED BY <1>1 DEF Sound, Sits, Opened

LEMMA OnNothing == /\ InBuild(<<>>) = {} /\ OpenIn(<<>>) = {} /\ \A tk : Sound(<<>>, tk)
                   /\ \A H, ds : SegFine(<<>>, H, ds) /\ Given(<<>>, H) = {}
                   /\ Tabled(<<>>) /\ \A T : WholeTable(<<>>, T)
  <1>1. Len(<<>>) = 0 /\ 1 .. 0 = {} /\ DOMAIN <<>> = {}
    OBVIOUS
  <1>2. InBuild(<<>>) = {}
    BY <1>1 DEF InBuild
  <1>3. OpenIn(<<>>) = {}
    BY <1>2 DEF OpenIn
  <1>4. \A tk : Sound(<<>>, tk)
    BY <1>1 DEF Sound
  <1>5. \A H, ds : SegFine(<<>>, H, ds) /\ Given(<<>>, H) = {}
    BY <1>2, <1>3 DEF SegFine, Given, Toks
  <1>6. Tabled(<<>>) /\ \A T : WholeTable(<<>>, T)
    BY <1>1 DEF Tabled, WholeTable
  <1>7. QED BY <1>2, <1>3, <1>4, <1>5, <1>6

\* The aliases open in a sound stack.
OpenWell(s, tk) == Paired(OpenIn(s)) /\ Opens(Anns(OpenIn(s))) /\ Toks(OpenIn(s)) \in SUBSET (1 .. tk)

LEMMA OpensWell ==
    ASSUME NEW S, NEW tk \in Nat, NEW s \in Seq(S), Sound(s, tk)
    PROVE  OpenWell(s, tk)
  <1> DEFINE T == {n \in Nat : \A t \in Seq(S) : Len(t) = n /\ Sound(t, tk) => OpenWell(t, tk)}
  <1>1. 0 \in T
    <2>1. \A t \in Seq(S) : Len(t) = 0 => t = <<>>
      OBVIOUS
    <2>2. OpenWell(<<>>, tk)
      BY OnNothing DEF OpenWell, Paired, Opens, Anns, Toks
    <2>3. QED BY <2>1, <2>2
  <1>2. ASSUME NEW n \in T PROVE n + 1 \in T
    <2> SUFFICES ASSUME NEW t \in Seq(S), Len(t) = n + 1, Sound(t, tk) PROVE OpenWell(t, tk)
      OBVIOUS
    <2> DEFINE r == Front(t)
               f == Upper(t)
               Q == OpenIn(r)
    <2>1. t # <<>> /\ n \in Nat
      OBVIOUS
    <2>2. r \in Seq(S) /\ Pushed(t, r, f) /\ Len(r) = n
      BY <2>1, PopIs
    <2>3. Sound(r, tk) /\ Sits(r, f, tk)
      BY <2>2, SoundPushed
    <2>4. OpenWell(r, tk)
      BY <2>2, <2>3
    <2> HIDE DEF T, r, f
    <2>5. CASE f.pc = "root"
      <3>1. OpenIn(t) = {}
        BY <2>2, <2>5, InBuildPushed
      <3>2. QED BY <3>1 DEF OpenWell, Paired, Opens, Anns, Toks
    <2>6. CASE f.pc # "root" /\ f.pc # "body"
      <3>1. OpenIn(t) = OpenIn(r)
        BY <2>2, <2>6, InBuildPushed
      <3>2. QED BY <2>4, <3>1 DEF OpenWell
    <2>7. CASE f.pc = "body"
      <3>1. OpenIn(t) = Q \cup {Tied(f)}
        BY <2>2, <2>7, InBuildPushed
      <3>2. /\ f.ann \in Ann /\ IsAlias(f.ann) /\ f.token \in 1 .. tk
            /\ f.token \notin Toks(Q) /\ f.ann \notin Anns(Q)
        BY <2>3, <2>7 DEF Sits, Suits, Opened
      <3>3. Tied(f) = <<f.ann, f.token>> /\ Tied(f)[1] = f.ann /\ Tied(f)[2] = f.token
        BY DEF Tied
      <3>4. /\ Paired(Q) /\ Opens(Anns(Q)) /\ Toks(Q) \in SUBSET (1 .. tk)
        BY <2>4 DEF OpenWell
      <3> HIDE DEF Q
      <3>5. \A q \in Q : q[2] # f.token /\ q[1] # f.ann
        BY <3>2 DEF Toks, Anns
      <3>6. f.token \in Nat \ {0}
        BY <3>2
      <3>7. Paired(OpenIn(t))
        BY <3>1, <3>2, <3>3, <3>4, <3>5, <3>6 DEF Paired
      <3>8. Anns(OpenIn(t)) = Anns(Q) \cup {f.ann} /\ Toks(OpenIn(t)) = Toks(Q) \cup {f.token}
        BY <3>1, <3>3 DEF Anns, Toks
      <3>9. QED BY <3>2, <3>4, <3>7, <3>8 DEF OpenWell, Opens
    <2>8. QED BY <2>5, <2>6, <2>7
  <1>3. T = Nat
    <2>1. T \in SUBSET Nat
      OBVIOUS
    <2> HIDE DEF T
    <2>2. QED BY <1>1, <1>2, <2>1, EveryNumber
  <1>4. Len(s) \in Nat
    OBVIOUS
  <1>5. QED BY <1>3, <1>4

-----------------------------------------------------------------------------
(* What is open on the thread is what the frames opened.                   *)

Told(q) == <<Reading[q[1]].name, q[2]>>
Linked(t, left) ==
    /\ \A k \in DOMAIN left.aliases : \E q \in OpenIn(t) : left.aliases[k] = Told(q)
    /\ \A q \in OpenIn(t) : \E k \in DOMAIN left.aliases : left.aliases[k] = Told(q)
    /\ \A k \in DOMAIN left.classes : \E i \in InBuild(t) :
          InClass(t[i]) /\ Reading[t[i].ann].name = left.classes[k]

LEMMA LinkedNothing == ASSUME NEW t, OpenIn(t) = {} PROVE Linked(t, Nothing)
  <1>1. Nothing.aliases = <<>> /\ Nothing.classes = <<>> /\ DOMAIN <<>> = {}
    BY DEF Nothing
  <1>2. QED BY <1>1 DEF Linked

LEMMA AppendAt ==
    ASSUME NEW S, NEW s \in Seq(S), NEW x
    PROVE  /\ DOMAIN Append(s, x) = DOMAIN s \cup {Len(s) + 1} /\ Append(s, x)[Len(s) + 1] = x
           /\ \A k \in DOMAIN s : Append(s, x)[k] = s[k]
  <1>1. Len(s) \in Nat /\ DOMAIN s = 1 .. Len(s) /\ DOMAIN Append(s, x) = 1 .. Len(s) + 1
    OBVIOUS
  <1>2. 1 .. Len(s) + 1 = (1 .. Len(s)) \cup {Len(s) + 1}
    BY <1>1
  <1>3. Append(s, x)[Len(s) + 1] = x /\ \A k \in DOMAIN s : Append(s, x)[k] = s[k]
    OBVIOUS
  <1>4. QED BY <1>1, <1>2, <1>3

LEMMA LinkedWith ==
    ASSUME NEW X, NEW r, NEW under \in Lefts, NEW f \in Frame(X), f.pc # "root", NEW t, Pushed(t, r, f),
           Linked(r, under)
    PROVE  Linked(t, With(under, f))
  <1> DEFINE left == With(under, f)
             m == Len(r)
             a == Reading[f.ann].name
  <1>1. under.aliases \in Seq(STRING \X Nat) /\ under.classes \in Seq(STRING)
    BY DEF Lefts
  <1>2. /\ InBuild(t) = InBuild(r) \cup {m + 1} /\ t[m + 1] = f
        /\ \A i \in InBuild(r) : t[i] = r[i]
        /\ f.pc = "body" => OpenIn(t) = OpenIn(r) \cup {Tied(f)}
        /\ f.pc # "body" => OpenIn(t) = OpenIn(r)
    <2>1. InBuild(r) \in SUBSET (1 .. m)
      BY DEF InBuild
    <2>2. QED BY <2>1, InBuildPushed DEF Pushed
  <1>3. /\ left.aliases = (IF f.pc = "body" THEN Append(under.aliases, <<a, f.token>>) ELSE under.aliases)
        /\ left.classes = (IF InClass(f) THEN Append(under.classes, a) ELSE under.classes)
    BY DEF With
  <1>4. Told(Tied(f)) = <<a, f.token>>
    <2>1. <<f.ann, f.token>>[1] = f.ann /\ <<f.ann, f.token>>[2] = f.token
      OBVIOUS
    <2>2. QED BY <2>1 DEF Told, Tied
  <1> HIDE DEF left, a, m
  <1>5. /\ \A k \in DOMAIN left.aliases : \E q \in OpenIn(t) : left.aliases[k] = Told(q)
        /\ \A q \in OpenIn(t) : \E k \in DOMAIN left.aliases : left.aliases[k] = Told(q)
    <2>1. CASE f.pc = "body"
      <3> DEFINE al == under.aliases
                 bl == left.aliases
                 n  == Len(al) + 1
                 Q  == OpenIn(r)
      <3>1. /\ DOMAIN bl = DOMAIN al \cup {n} /\ bl[n] = Told(Tied(f))
            /\ \A k \in DOMAIN al : bl[k] = al[k]
        BY <1>1, <1>3, <1>4, <2>1, AppendAt
      <3>2. OpenIn(t) = Q \cup {Tied(f)}
        BY <1>2, <2>1
      <3>3. /\ \A k \in DOMAIN al : \E q \in Q : al[k] = Told(q)
            /\ \A q \in Q : \E k \in DOMAIN al : al[k] = Told(q)
        BY DEF Linked
      <3> HIDE DEF al, bl, n, Q
      <3>4. QED BY <3>1, <3>2, <3>3 DEF bl
    <2>2. CASE f.pc # "body"
      BY <1>2, <1>3, <2>2 DEF Linked
    <2>3. QED BY <2>1, <2>2
  <1>6. ASSUME NEW k \in DOMAIN left.classes
        PROVE  \E i \in InBuild(t) : InClass(t[i]) /\ Reading[t[i].ann].name = left.classes[k]
    <2>1. \A j \in DOMAIN under.classes : \E i \in InBuild(t) :
             InClass(t[i]) /\ Reading[t[i].ann].name = under.classes[j]
      BY <1>2 DEF Linked
    <2>2. CASE InClass(f)
      <3>1. /\ DOMAIN left.classes = DOMAIN under.classes \cup {Len(under.classes) + 1}
            /\ left.classes[Len(under.classes) + 1] = a
            /\ \A j \in DOMAIN under.classes : left.classes[j] = under.classes[j]
        BY <1>1, <1>3, <2>2, AppendAt
      <3>2. CASE k \in DOMAIN under.classes
        BY <2>1, <3>1, <3>2
      <3>3. CASE k \notin DOMAIN under.classes
        <4>1. left.classes[k] = a
          BY <3>1, <3>3
        <4>2. InClass(f)
          BY <2>2
        <4>3. m + 1 \in InBuild(t) /\ t[m + 1] = f
          BY <1>2
        <4>4. QED BY <4>1, <4>2, <4>3 DEF a
      <3>4. QED BY <3>2, <3>3
    <2>3. CASE ~InClass(f)
      BY <1>3, <2>1, <2>3
    <2>4. QED BY <2>2, <2>3
  <1>7. QED BY <1>5, <1>6 DEF Linked, left

LEMMA LeavesLinked ==
    ASSUME NEW X, NEW s, NEW left, Leaving(X, s, left)
    PROVE  Linked(s, left)
  <1> DEFINE T == {n \in Nat : \A t, l : Leaving(X, t, l) /\ Len(t) = n => Linked(t, l)}
  <1>1. 0 \in T
    <2> SUFFICES ASSUME NEW t, NEW l, Leaving(X, t, l), Len(t) = 0 PROVE Linked(t, l)
      OBVIOUS
    <2>1. PICK L : Stacked(X, t, L) /\ L[Len(t)] = l
      BY DEF Leaving
    <2>2. t \in Seq(Frame(X)) /\ L[0] = Nothing
      BY <2>1 DEF Stacked
    <2>3. t = <<>> /\ l = Nothing
      BY <2>1, <2>2
    <2>4. QED BY <2>3, LinkedNothing, OnNothing
  <1>2. ASSUME NEW n \in T PROVE n + 1 \in T
    <2> SUFFICES ASSUME NEW t, NEW l, Leaving(X, t, l), Len(t) = n + 1 PROVE Linked(t, l)
      OBVIOUS
    <2> DEFINE r == Front(t)
               f == Upper(t)
    <2>1. PICK L : Stacked(X, t, L) /\ L[Len(t)] = l
      BY DEF Leaving
    <2>2. t \in Seq(Frame(X)) /\ n \in Nat
      BY <2>1 DEF Stacked
    <2>3. t # <<>> /\ Len(t) \in 1 .. Len(t)
      BY <2>2
    <2>4. Pushed(t, r, f) /\ Len(r) = n
      BY <2>2, <2>3, PopIs
    <2>5. f = t[Len(t)]
      BY DEF Upper
    <2>6. CASE f.pc = "root"
      <3>1. l = Nothing
        BY <2>1, <2>3, <2>5, <2>6 DEF Stacked
      <3>2. OpenIn(t) = {}
        BY <2>4, <2>6, InBuildPushed
      <3>3. QED BY <3>1, <3>2, LinkedNothing
    <2>7. CASE f.pc # "root"
      <3>1. f \in Frame(X)
        BY <2>3, <2>5, LeavingPopped
      <3>2. PICK under \in Lefts : Leaving(X, r, under) /\ l = With(under, f)
        BY <2>3, <2>5, <2>7, LeavingPopped
      <3>3. Linked(r, under)
        BY <2>4, <3>2
      <3> HIDE DEF r, f, T
      <3>4. QED BY <2>4, <2>7, <3>1, <3>2, <3>3, LinkedWith
    <2>8. QED BY <2>6, <2>7
  <1>3. T = Nat
    <2>1. T \in SUBSET Nat
      OBVIOUS
    <2> HIDE DEF T
    <2>2. QED BY <1>1, <1>2, <2>1, EveryNumber
  <1>4. Len(s) \in Nat
    <2>1. PICK L : Stacked(X, s, L)
      BY DEF Leaving
    <2>2. QED BY <2>1 DEF Stacked
  <1>5. QED BY <1>3, <1>4

\* The thread's own lists of what is open, and the frames that opened it.
Matched(s, al, cs) ==
    /\ al \in Seq(Opening) /\ cs \in Seq(STRING)
    /\ \A k \in DOMAIN al : \E q \in OpenIn(s) : Reading[q[1]].name = al[k].name /\ al[k].token = q[2]
    /\ \A q \in OpenIn(s) : \E k \in DOMAIN al : Reading[q[1]].name = al[k].name /\ al[k].token = q[2]
    /\ \A k \in DOMAIN cs : \E i \in InBuild(s) :
          InClass(s[i]) /\ Reading[s[i].ann].name = cs[k]

LEMMA ThreadMatches ==
    ASSUME NEW s, NEW d, NEW al, NEW cs, Thread(s, d, al, cs)
    PROVE  Matched(s, al, cs) /\ \E S : s \in Seq(S)
  <1>1. PICK X, left : Leaving(X, s, left) /\ Found(left, d, al, cs)
    BY DEF Thread, Has
  <1>2. Linked(s, left)
    BY <1>1, LeavesLinked
  <1>3. al \in Seq(Opening) /\ cs \in Seq(STRING) /\ left.aliases = Tags(al) /\ left.classes = cs
    BY <1>1 DEF Found
  <1>4. DOMAIN Tags(al) = DOMAIN al /\ \A k \in DOMAIN al : Tags(al)[k] = <<al[k].name, al[k].token>>
    BY DEF Tags
  <1>5. \A q, k : <<al[k].name, al[k].token>> = Told(q) <=> Reading[q[1]].name = al[k].name /\ al[k].token = q[2]
    BY DEF Told
  <1>6. \E S : s \in Seq(S)
    BY <1>1 DEF Leaving, Stacked
  <1> DEFINE tags == Tags(al)
             Q    == OpenIn(s)
  <1>7. /\ \A k \in DOMAIN tags : \E q \in Q : tags[k] = Told(q)
        /\ \A q \in Q : \E k \in DOMAIN tags : tags[k] = Told(q)
        /\ \A k \in DOMAIN cs : \E i \in InBuild(s) :
              InClass(s[i]) /\ Reading[s[i].ann].name = cs[k]
    BY <1>2, <1>3 DEF Linked
  <1>8. DOMAIN tags = DOMAIN al /\ \A k \in DOMAIN al : tags[k] = <<al[k].name, al[k].token>>
    BY <1>4
  <1> HIDE DEF tags, Q
  <1>9. /\ \A k \in DOMAIN al : \E q \in Q : Reading[q[1]].name = al[k].name /\ al[k].token = q[2]
        /\ \A q \in Q : \E k \in DOMAIN al : Reading[q[1]].name = al[k].name /\ al[k].token = q[2]
    <2>1. ASSUME NEW k \in DOMAIN al
          PROVE  \E q \in Q : Reading[q[1]].name = al[k].name /\ al[k].token = q[2]
      <3>1. PICK q \in Q : tags[k] = Told(q)
        BY <1>7, <1>8
      <3>2. <<al[k].name, al[k].token>> = Told(q)
        BY <1>8, <3>1
      <3>3. QED BY <1>5, <3>2
    <2>2. ASSUME NEW q \in Q
          PROVE  \E k \in DOMAIN al : Reading[q[1]].name = al[k].name /\ al[k].token = q[2]
      <3>1. PICK k \in DOMAIN al : tags[k] = Told(q)
        BY <1>7, <1>8
      <3>2. <<al[k].name, al[k].token>> = Told(q)
        BY <1>8, <3>1
      <3>3. QED BY <1>5, <3>2
    <2>3. QED BY <2>1, <2>2
  <1>10. QED BY <1>3, <1>6, <1>7, <1>9 DEF Matched, Q

-----------------------------------------------------------------------------
(* What holds between the steps of a build.                                *)

\* A refusal on its way up, when a definition may have been left out.
Spoiled(s, r) == s # <<>> /\ r.tag = "error" /\ Upper(s).pc # "evaluating"
Answered(f, r, Q, T, ds) ==
    /\ r.tag = "ok" => Fine(r.term, Calls(f), Q, T, ds)
    /\ r.tag = "error" => Cause(r.why, Calls(f))
Answers(s, r, H, ds) ==
    s # <<>> /\ r # None =>
       /\ Waits(Upper(s))
       /\ Upper(s).pc # "evaluating" => Answered(Upper(s), r, OpenIn(s), Given(s, H), ds)
Keeping(s, r, H, ds, tk) ==
    /\ Sound(s, tk) /\ Tabled(ds) /\ SegFine(s, H, ds)
    /\ ~Spoiled(s, r) => WholeUnder(s, H, ds)
    /\ Answers(s, r, H, ds)

LEMMA FineMore ==
    ASSUME NEW ds, Tabled(ds), NEW T, NEW U, T \in SUBSET U, NEW t, NEW b, NEW Q, Fine(t, b, Q, T, ds)
    PROVE  Fine(t, b, Q, U, ds)
  <1>1. Grew(T, ds, ds)
    BY DEF Grew
  <1>2. QED BY <1>1, FineStays

LEMMA WholeMore ==
    ASSUME NEW ds, NEW T, NEW U, T \in SUBSET U, WholeTable(ds, T)
    PROVE  WholeTable(ds, U)
  BY DEF WholeTable

\* What is below the top frame of s, and what it was called for.
Beneath(s, r, f, H, ds, tk) ==
    /\ f = Upper(s) /\ Pushed(s, r, f) /\ Sound(r, tk) /\ Sits(r, f, tk)
    /\ f.pc # "root" => /\ SegFine(r, H, ds) /\ FrameFine(f, OpenIn(s), H, ds)
                        /\ r # <<>> /\ Upper(r).pc # "evaluating" /\ Waits(Upper(r)) /\ Calls(Upper(r)) = f.ann

LEMMA BeneathIs ==
    ASSUME NEW S, NEW s \in Seq(S), s # <<>>, NEW H, NEW ds, NEW tk, Sound(s, tk), SegFine(s, H, ds)
    PROVE  /\ Beneath(s, Front(s), Upper(s), H, ds, tk)
           /\ Front(s) \in Seq(S) /\ Upper(s) \in S /\ s = Append(Front(s), Upper(s))
  <1> DEFINE r == Front(s)
             f == Upper(s)
  <1>1. Pushed(s, r, f) /\ r \in Seq(S) /\ f \in S /\ s = Append(r, f)
    BY PopIs
  <1>2. f = Upper(s)
    OBVIOUS
  <1> HIDE DEF r, f
  <1>3. Sound(r, tk) /\ Sits(r, f, tk)
    BY <1>1, SoundPushed
  <1>4. f.pc # "root" => SegFine(r, H, ds) /\ FrameFine(f, OpenIn(s), H, ds)
    BY <1>1, SegPushed
  <1>5. f.pc # "root" => r # <<>> /\ Upper(r).pc # "evaluating" /\ Waits(Upper(r)) /\ Calls(Upper(r)) = f.ann
    BY <1>3 DEF Sits, CalledFor
  <1>6. QED BY <1>1, <1>2, <1>3, <1>4, <1>5 DEF Beneath, r, f

Leaves(s, f, r, H, ds, tk, more, v) ==
    /\ s # <<>>
    /\ f = Upper(s)
    /\ f.pc \notin {"root", "body"}
    /\ Keeping(s, r, H, ds, tk)
    /\ Given(s, H) \in SUBSET more
    /\ v.tag \in {"ok", "error"}
    /\ v.tag = "ok" => ~Spoiled(s, r) /\ Fine(v.term, f.ann, OpenIn(s), Given(s, more), ds)
    /\ v.tag = "error" => Cause(v.why, f.ann)

(* A descent that opened no alias ends with v.                             *)
LEMMA KeepsLeaving ==
    ASSUME NEW S, NEW s \in Seq(S), NEW f, NEW r, NEW H, NEW ds, NEW tk, NEW more, NEW v, Leaves(s, f, r, H, ds, tk, more, v)
    PROVE  Keeping(Front(s), v, more, ds, tk)
  <1>0. /\ s # <<>>
        /\ f = Upper(s)
        /\ f.pc \notin {"root", "body"}
        /\ Keeping(s, r, H, ds, tk)
        /\ Given(s, H) \in SUBSET more
        /\ v.tag \in {"ok", "error"}
        /\ v.tag = "ok" => ~Spoiled(s, r) /\ Fine(v.term, f.ann, OpenIn(s), Given(s, more), ds)
        /\ v.tag = "error" => Cause(v.why, f.ann)
    BY DEF Leaves
  <1> USE <1>0
  <1> DEFINE b == Front(s)
  <1>1. Sound(s, tk) /\ Tabled(ds) /\ SegFine(s, H, ds) /\ (~Spoiled(s, r) => WholeUnder(s, H, ds))
    BY DEF Keeping
  <1>2. Beneath(s, b, f, H, ds, tk) /\ b \in Seq(S)
    BY <1>1, BeneathIs
  <1> HIDE DEF b
  <1>3. /\ Pushed(s, b, f) /\ Sound(b, tk) /\ SegFine(b, H, ds) /\ b # <<>> /\ Upper(b).pc # "evaluating"
        /\ Waits(Upper(b)) /\ Calls(Upper(b)) = f.ann
    BY <1>2 DEF Beneath
  <1>4. OpenIn(s) = OpenIn(b)
    BY <1>3, InBuildPushed
  <1>5. Given(b, H) = Given(s, H) /\ Given(b, more) = Given(s, more) /\ Given(b, H) \in SUBSET Given(b, more)
    BY <1>4 DEF Given
  <1>6. SegFine(b, more, ds)
    <2>1. Grew(Given(b, H), ds, ds)
      BY DEF Grew
    <2>2. QED BY <1>1, <1>2, <1>3, <1>5, <2>1, EnvMoves
  <1>7. Answers(b, v, more, ds)
    <2>1. Answered(Upper(b), v, OpenIn(b), Given(b, more), ds)
      BY <1>3, <1>4, <1>5 DEF Answered
    <2>2. QED BY <1>3, <2>1 DEF Answers
  <1>8. ASSUME ~Spoiled(b, v) PROVE WholeUnder(b, more, ds)
    <2>1. v.tag = "ok"
      BY <1>3, <1>8 DEF Spoiled
    <2>2. WholeTable(ds, Given(b, H))
      BY <1>1, <1>5, <2>1 DEF WholeUnder
    <2>3. QED BY <1>5, <2>2, WholeMore DEF WholeUnder
  <1>9. QED BY <1>1, <1>3, <1>6, <1>7, <1>8 DEF Keeping, b

LEMMA AnswersNone == \A s, H, ds : Answers(s, None, H, ds) /\ ~Spoiled(s, None)
  <1>1. None.tag # "error"
    BY DEF None
  <1>2. QED BY <1>1 DEF Answers, Spoiled

GoesOn(s, f, r, H, ds, tk, g, t) ==
    /\ s # <<>>
    /\ f = Upper(s)
    /\ f.pc \notin {"root", "body"}
    /\ Keeping(s, r, H, ds, tk)
    /\ ~Spoiled(s, r)
    /\ g.pc \notin {"root", "body"}
    /\ g.ann = f.ann
    /\ Suits(g)
    /\ FrameFine(g, OpenIn(s), H, ds)
    /\ t = Append(Front(s), g)

(* The top frame goes on as g.                                             *)
LEMMA KeepsGoing ==
    ASSUME NEW S, NEW s \in Seq(S), NEW f, NEW r, NEW H, NEW ds, NEW tk, NEW g, NEW t, GoesOn(s, f, r, H, ds, tk, g, t)
    PROVE  Keeping(t, None, H, ds, tk) /\ Upper(t) = g /\ t # <<>> /\ OpenIn(t) = OpenIn(s)
  <1>0. /\ s # <<>>
        /\ f = Upper(s)
        /\ f.pc \notin {"root", "body"}
        /\ Keeping(s, r, H, ds, tk)
        /\ ~Spoiled(s, r)
        /\ g.pc \notin {"root", "body"}
        /\ g.ann = f.ann
        /\ Suits(g)
        /\ FrameFine(g, OpenIn(s), H, ds)
        /\ t = Append(Front(s), g)
    BY DEF GoesOn
  <1> USE <1>0
  <1> DEFINE b == Front(s)
  <1>1. Sound(s, tk) /\ Tabled(ds) /\ SegFine(s, H, ds) /\ WholeUnder(s, H, ds)
    BY DEF Keeping
  <1>2. Beneath(s, b, f, H, ds, tk) /\ b \in Seq(S)
    BY <1>1, BeneathIs
  <1>3. t = Append(b, g)
    OBVIOUS
  <1> HIDE DEF b
  <1>4. /\ Pushed(s, b, f) /\ Sound(b, tk) /\ SegFine(b, H, ds) /\ b # <<>> /\ Upper(b).pc # "evaluating"
        /\ Waits(Upper(b)) /\ Calls(Upper(b)) = f.ann /\ Sits(b, f, tk)
    BY <1>2 DEF Beneath
  <1>5. Pushed(t, b, g)
    BY <1>2, <1>3, PushIs
  <1>6. OpenIn(t) = OpenIn(s) /\ Given(t, H) = Given(s, H)
    BY <1>4, <1>5, InBuildPushed DEF Given
  <1>7. Sits(b, g, tk)
    BY <1>4 DEF Sits, CalledFor, Inside, Opened, Handed
  <1>8. Sound(t, tk)
    BY <1>4, <1>5, <1>7, SoundPushed
  <1>9. SegFine(t, H, ds)
    BY <1>4, <1>5, <1>6, SegPushed
  <1>10. WholeUnder(t, H, ds)
    BY <1>1, <1>6 DEF WholeUnder
  <1>11. Upper(t) = g /\ t # <<>>
    BY <1>5 DEF Pushed
  <1>12. QED BY <1>1, <1>6, <1>8, <1>9, <1>10, <1>11, AnswersNone DEF Keeping

LEMMA StartIs ==
    ASSUME NEW a
    PROVE  Start(a).ann = a /\ Start(a).pc = "start" /\ Start(a).parts = <<>>
  BY DEF Start

LEMMA NoParts == \A f, Q, H, ds : f.parts = <<>> => FrameFine(f, Q, H, ds)
  <1>1. Len(<<>>) = 0 /\ 1 .. 0 = {}
    OBVIOUS
  <1>2. QED BY <1>1 DEF FrameFine, FineParts

LEMMA CallsPart ==
    ASSUME NEW f, Suits(f), Waits(f), f.pc \in {"parts", "body"}
    PROVE  Calls(f) \in PartsOf[f.ann] /\ Calls(f) \in Ann
  <1>1. f.ann \in Ann /\ f.parts \in Seq(Seq(Plain)) /\ (f.pc = "body" => IsAlias(f.ann))
    BY DEF Suits
  <1>2. /\ PartsOf[f.ann] \in SUBSET Ann /\ Reading[f.ann].parts \in Seq(Ann)
        /\ PartsOf[f.ann] = {Reading[f.ann].parts[k] : k \in 1 .. Len(Reading[f.ann].parts)}
    BY <1>1, PartsAre
  <1>3. CASE f.pc = "parts"
    <2>1. Len(f.parts) + 1 \in 1 .. Len(Reading[f.ann].parts)
      <3>1. Len(f.parts) \in Nat /\ Len(Reading[f.ann].parts) \in Nat /\ Len(f.parts) < Len(Reading[f.ann].parts)
        BY <1>1, <1>2, <1>3 DEF Waits
      <3>2. QED BY <3>1
    <2>2. QED BY <1>2, <1>3, <2>1 DEF Calls
  <1>4. CASE f.pc = "body"
    <2>1. Len(Reading[f.ann].parts) = 1
      BY <1>1, <1>4, PassesOn DEF IsAlias
    <2>2. QED BY <1>2, <1>4, <2>1 DEF Calls
  <1>5. QED BY <1>3, <1>4

CallsFor(s, f, H, ds, tk, a, t) ==
    /\ s # <<>>
    /\ f = Upper(s)
    /\ f.pc \in {"root", "parts", "body"}
    /\ Waits(f)
    /\ Keeping(s, None, H, ds, tk)
    /\ a = Calls(f)
    /\ t = Append(s, Start(a))

(* A descent begins.                                                       *)
LEMMA KeepsCalling ==
    ASSUME NEW S, NEW s \in Seq(S), NEW f, NEW H, NEW ds, NEW tk, NEW a, NEW t, CallsFor(s, f, H, ds, tk, a, t)
    PROVE  Keeping(t, None, H, ds, tk)
  <1>0. /\ s # <<>>
        /\ f = Upper(s)
        /\ f.pc \in {"root", "parts", "body"}
        /\ Waits(f)
        /\ Keeping(s, None, H, ds, tk)
        /\ a = Calls(f)
        /\ t = Append(s, Start(a))
    BY DEF CallsFor
  <1> USE <1>0
  <1> DEFINE b == Front(s)
             g == Start(a)
  <1>1. Sound(s, tk) /\ Tabled(ds) /\ SegFine(s, H, ds) /\ WholeUnder(s, H, ds)
    BY AnswersNone DEF Keeping
  <1>2. Beneath(s, b, f, H, ds, tk) /\ b \in Seq(S)
    BY <1>1, BeneathIs
  <1>3. t = Append(s, g) /\ g.ann = a /\ g.pc = "start" /\ g.parts = <<>>
    BY StartIs
  <1> HIDE DEF b, g
  <1>4. Pushed(s, b, f) /\ Sits(b, f, tk)
    BY <1>2 DEF Beneath
  <1>5. Pushed(t, s, g)
    BY <1>3, PushIs
  <1>6. OpenIn(t) = OpenIn(s) /\ Given(t, H) = Given(s, H)
    BY <1>3, <1>5, InBuildPushed DEF Given
  <1>7. Suits(f) /\ f.ann \in Ann /\ Inside(b, f)
    BY <1>4 DEF Sits, Suits
  <1>8. Inside(s, g)
    <2> SUFFICES ASSUME NEW i \in InBuild(s) PROVE a \in Names[s[i].ann]
      BY <1>3 DEF Inside
    <2>1. f.pc # "root"
      BY <1>4, InBuildPushed
    <2>2. a \in PartsOf[f.ann]
      BY <1>7, <2>1, CallsPart
    <2>3. InBuild(s) = InBuild(b) \cup {Len(b) + 1} /\ s[Len(b) + 1] = f /\ \A k \in InBuild(b) : s[k] = b[k]
      <3>1. InBuild(b) \in SUBSET (1 .. Len(b))
        BY DEF InBuild
      <3>2. QED BY <1>4, <2>1, <3>1, InBuildPushed DEF Pushed
    <2>4. CASE i = Len(b) + 1
      BY <1>7, <2>2, <2>3, <2>4, NamesGoOn
    <2>5. CASE i \in InBuild(b)
      <3>1. f.ann \in Names[b[i].ann] /\ s[i] = b[i]
        BY <1>7, <2>1, <2>3, <2>5 DEF Inside
      <3>2. b[i].ann \in Ann
        <4>1. Sound(b, tk) /\ i \in 1 .. Len(b)
          BY <1>2, <2>5 DEF Beneath, InBuild
        <4>2. QED BY <4>1 DEF Sound, Sits, Suits
      <3>3. QED BY <2>2, <3>1, <3>2, NamesGoOn
    <2>6. QED BY <2>3, <2>4, <2>5
  <1>9. Suits(g)
    <2>1. a \in Ann
      BY <1>7, CallsPart DEF Calls
    <2>2. Len(<<>>) = 0 /\ <<>> \in Seq(Seq(Plain)) /\ Len(Reading[a].parts) \in Nat
      BY <2>1, PartsAre
    <2>3. QED BY <1>3, <2>1, <2>2 DEF Suits
  <1>10. CalledFor(s, g)
    BY <1>3 DEF CalledFor
  <1>11. Sits(s, g, tk)
    BY <1>3, <1>8, <1>9, <1>10 DEF Sits, Opened, Handed
  <1>12. Sound(t, tk)
    BY <1>1, <1>5, <1>11, SoundPushed
  <1>13. SegFine(t, H, ds)
    BY <1>1, <1>3, <1>5, NoParts, SegPushed
  <1>14. WholeUnder(t, H, ds)
    BY <1>1, <1>6 DEF WholeUnder
  <1>15. QED BY <1>1, <1>12, <1>13, <1>14, AnswersNone DEF Keeping

OpensOne(s, f, r, H, ds, tk, g, t) ==
    /\ s # <<>>
    /\ f = Upper(s)
    /\ f.pc \notin {"root", "body"}
    /\ IsAlias(f.ann)
    /\ f.ann \notin Anns(OpenIn(s))
    /\ Keeping(s, r, H, ds, tk)
    /\ ~Spoiled(s, r)
    /\ g.pc = "body"
    /\ g.ann = f.ann
    /\ g.token = tk + 1
    /\ g.parts = <<>>
    /\ t = Append(Front(s), g)

(* An alias is opened.                                                     *)
LEMMA KeepsOpening ==
    ASSUME NEW S, NEW s \in Seq(S), NEW f, NEW r, NEW H, NEW ds, NEW tk \in Nat, NEW g, NEW t, OpensOne(s, f, r, H, ds, tk, g, t)
    PROVE  Keeping(t, None, H, ds, tk + 1) /\ Upper(t) = g /\ t # <<>>
  <1>0. /\ s # <<>>
        /\ f = Upper(s)
        /\ f.pc \notin {"root", "body"}
        /\ IsAlias(f.ann)
        /\ f.ann \notin Anns(OpenIn(s))
        /\ Keeping(s, r, H, ds, tk)
        /\ ~Spoiled(s, r)
        /\ g.pc = "body"
        /\ g.ann = f.ann
        /\ g.token = tk + 1
        /\ g.parts = <<>>
        /\ t = Append(Front(s), g)
    BY DEF OpensOne
  <1> USE <1>0
  <1> DEFINE b == Front(s)
  <1>1. Sound(s, tk) /\ Tabled(ds) /\ SegFine(s, H, ds) /\ WholeUnder(s, H, ds)
    BY DEF Keeping
  <1>2. Beneath(s, b, f, H, ds, tk) /\ b \in Seq(S)
    BY <1>1, BeneathIs
  <1>3. t = Append(b, g)
    OBVIOUS
  <1> HIDE DEF b
  <1>4. /\ Pushed(s, b, f) /\ Sound(b, tk) /\ SegFine(b, H, ds) /\ b # <<>> /\ Upper(b).pc # "evaluating"
        /\ Waits(Upper(b)) /\ Calls(Upper(b)) = f.ann /\ Sits(b, f, tk)
    BY <1>2 DEF Beneath
  <1>5. Pushed(t, b, g)
    BY <1>2, <1>3, PushIs
  <1>6. OpenIn(s) = OpenIn(b) /\ OpenIn(t) = OpenIn(b) \cup {Tied(g)}
    BY <1>4, <1>5, InBuildPushed
  <1>7. Given(s, H) \in SUBSET Given(t, H)
    <2>1. Toks(OpenIn(s)) \in SUBSET Toks(OpenIn(t))
      BY <1>6, OpenMore
    <2>2. QED BY <2>1 DEF Given
  <1>8. Sits(b, g, tk + 1)
    <2>1. tk + 1 \notin Toks(OpenIn(b)) /\ tk + 1 \in 1 .. tk + 1
      <3>1. Toks(OpenIn(b)) \in SUBSET (1 .. tk)
        BY <1>2, <1>4, OpensWell DEF OpenWell
      <3>2. QED BY <3>1
    <2>2. Opened(b, g, tk + 1)
      BY <1>6, <2>1 DEF Opened
    <2>3. Suits(g)
      <3>1. f.ann \in Ann
        BY <1>4 DEF Sits, Suits
      <3>2. Len(<<>>) = 0 /\ <<>> \in Seq(Seq(Plain)) /\ Len(Reading[f.ann].parts) \in Nat
        BY <3>1, PartsAre
      <3>3. QED BY <3>1, <3>2 DEF Suits
    <2>4. QED BY <1>4, <2>2, <2>3 DEF Sits, CalledFor, Inside, Handed
  <1>9. Sound(b, tk + 1)
    BY <1>4, SoundMore
  <1>10. Sound(t, tk + 1)
    BY <1>5, <1>8, <1>9, SoundPushed
  <1>11. SegFine(t, H, ds)
    BY <1>4, <1>5, NoParts, SegPushed
  <1>12. WholeUnder(t, H, ds)
    BY <1>1, <1>7, WholeMore DEF WholeUnder
  <1>13. Upper(t) = g /\ t # <<>>
    BY <1>5 DEF Pushed
  <1>14. QED BY <1>1, <1>10, <1>11, <1>12, <1>13, AnswersNone DEF Keeping

BeginsBuild(s, al, ds, tk, f, t) ==
    /\ Keeping(s, None, HandedOut(al), ds, tk)
    /\ s # <<>> => Waits(Upper(s)) /\ Upper(s).pc = "evaluating"
    /\ f.pc = "root"
    /\ f.ann \in Ann
    /\ s # <<>> => f.ann = Calls(Upper(s))
    /\ f.parts = <<>>
    /\ f.saved.aliases = al
    /\ f.saved.defs = ds
    /\ t = Append(s, f)

(* A build begins, on nothing or inside another.                           *)
LEMMA KeepsBuild ==
    ASSUME NEW S, NEW s \in Seq(S), NEW al, NEW ds, NEW tk, NEW f, NEW t, BeginsBuild(s, al, ds, tk, f, t)
    PROVE  Keeping(t, None, HandedOut(<<>>), <<>>, tk) /\ Upper(t) = f /\ t # <<>>
  <1>0. /\ Keeping(s, None, HandedOut(al), ds, tk)
        /\ s # <<>> => Waits(Upper(s)) /\ Upper(s).pc = "evaluating"
        /\ f.pc = "root"
        /\ f.ann \in Ann
        /\ s # <<>> => f.ann = Calls(Upper(s))
        /\ f.parts = <<>>
        /\ f.saved.aliases = al
        /\ f.saved.defs = ds
        /\ t = Append(s, f)
    BY DEF BeginsBuild
  <1> USE <1>0
  <1>1. Sound(s, tk) /\ Kindly(s, HandedOut(al), ds)
    BY AnswersNone DEF Keeping, Kindly
  <1>2. Pushed(t, s, f)
    BY PushIs
  <1>3. Sits(s, f, tk)
    <2>1. Len(<<>>) = 0 /\ <<>> \in Seq(Seq(Plain)) /\ Len(Reading[f.ann].parts) \in Nat
      BY PartsAre
    <2>2. Suits(f)
      BY <2>1 DEF Suits
    <2>3. CalledFor(s, f)
      BY DEF CalledFor
    <2>4. QED BY <1>1, <2>2, <2>3 DEF Sits, Inside, Opened, Handed
  <1>4. Sound(t, tk)
    BY <1>1, <1>2, <1>3, SoundPushed
  <1>5. SegFine(t, HandedOut(<<>>), <<>>)
    BY <1>2, SegPushed
  <1>6. WholeUnder(t, HandedOut(<<>>), <<>>) /\ Tabled(<<>>)
    BY OnNothing DEF WholeUnder
  <1>7. Upper(t) = f /\ t # <<>>
    BY <1>2 DEF Pushed
  <1>8. QED BY <1>4, <1>5, <1>6, <1>7, AnswersNone DEF Keeping

(* A build ends.                                                           *)
LEMMA KeepsBuilt ==
    ASSUME NEW S, NEW s \in Seq(S), s # <<>>, NEW f, f = Upper(s), f.pc = "root",
           NEW r, NEW H, NEW ds, NEW tk, Keeping(s, r, H, ds, tk), NEW v
    PROVE  Keeping(Front(s), v, HandedOut(f.saved.aliases), f.saved.defs, tk)
  <1> DEFINE b == Front(s)
  <1>1. Beneath(s, b, f, H, ds, tk)
    BY BeneathIs DEF Keeping
  <1> HIDE DEF b
  <1>2. Sound(b, tk) /\ CalledFor(b, f) /\ Handed(b, f)
    BY <1>1 DEF Beneath, Sits
  <1>3. Kindly(b, HandedOut(f.saved.aliases), f.saved.defs)
    BY <1>2 DEF Handed
  <1>4. Answers(b, v, HandedOut(f.saved.aliases), f.saved.defs)
    BY <1>2 DEF CalledFor, Answers
  <1>5. QED BY <1>2, <1>3, <1>4 DEF Keeping, Kindly, b

ClosesOne(s, f, r, H, was, tk, less, ds, v) ==
    /\ s # <<>>
    /\ f = Upper(s)
    /\ f.pc = "body"
    /\ Keeping(s, r, H, was, tk)
    /\ Given(Front(s), H) \in SUBSET less
    /\ Tabled(ds)
    /\ Grew(Given(Front(s), H), was, ds)
    /\ v.tag \in {"ok", "error"}
    /\ v.tag = "ok" => /\ WholeTable(ds, Given(Front(s), less)) /\ Fine(v.term, f.ann, OpenIn(Front(s)), Given(Front(s), less), ds)
    /\ v.tag = "error" => Cause(v.why, f.ann)

(* An alias closes, its body read: what is open below it has no part in it. *)
LEMMA KeepsClosing ==
    ASSUME NEW S, NEW s \in Seq(S), NEW f, NEW r, NEW H, NEW was, NEW tk, NEW less, NEW ds, NEW v, ClosesOne(s, f, r, H, was, tk, less, ds, v)
    PROVE  Keeping(Front(s), v, less, ds, tk)
  <1>0. /\ s # <<>>
        /\ f = Upper(s)
        /\ f.pc = "body"
        /\ Keeping(s, r, H, was, tk)
        /\ Given(Front(s), H) \in SUBSET less
        /\ Tabled(ds)
        /\ Grew(Given(Front(s), H), was, ds)
        /\ v.tag \in {"ok", "error"}
        /\ v.tag = "ok" => /\ WholeTable(ds, Given(Front(s), less)) /\ Fine(v.term, f.ann, OpenIn(Front(s)), Given(Front(s), less), ds)
        /\ v.tag = "error" => Cause(v.why, f.ann)
    BY DEF ClosesOne
  <1> USE <1>0
  <1> DEFINE b == Front(s)
  <1>1. Sound(s, tk) /\ Tabled(was) /\ SegFine(s, H, was)
    BY DEF Keeping
  <1>2. Beneath(s, b, f, H, was, tk) /\ b \in Seq(S)
    BY <1>1, BeneathIs
  <1>3. Given(b, H) \in SUBSET less /\ Grew(Given(b, H), was, ds)
    OBVIOUS
  <1>4. v.tag = "ok" => WholeUnder(b, less, ds) /\ Fine(v.term, f.ann, OpenIn(b), Given(b, less), ds)
    BY DEF WholeUnder
  <1> HIDE DEF b
  <1>5. /\ Pushed(s, b, f) /\ Sound(b, tk) /\ SegFine(b, H, was) /\ b # <<>> /\ Upper(b).pc # "evaluating"
        /\ Waits(Upper(b)) /\ Calls(Upper(b)) = f.ann
    BY <1>2 DEF Beneath
  <1>6. SegFine(b, less, ds)
    BY <1>1, <1>2, <1>3, <1>5, EnvMoves
  <1>7. Answers(b, v, less, ds)
    BY <1>4, <1>5 DEF Answers, Answered
  <1>8. ~Spoiled(b, v) => WholeUnder(b, less, ds)
    BY <1>4, <1>5 DEF Spoiled
  <1>9. QED BY <1>5, <1>6, <1>7, <1>8 DEF Keeping, b

-----------------------------------------------------------------------------
(* An alias whose body is being read is the last one open.                 *)

LEMMA TagsAre ==
    \A al : /\ DOMAIN Tags(al) = DOMAIN al
            /\ \A k \in DOMAIN al : Tags(al)[k] = <<al[k].name, al[k].token>>
  BY DEF Tags

LEMMA BodyOpen ==
    ASSUME NEW s, NEW d, NEW al, NEW cs, Thread(s, d, al, cs), s # <<>>, NEW f, f = Upper(s), f.pc = "body",
           NEW tk, Sound(s, tk)
    PROVE  /\ al[Len(al)].token = f.token /\ al[Len(al)].used \in BOOLEAN
           /\ f.token \notin HandedOut(Front(al))
           /\ al[Len(al)].used => HandedOut(al) = HandedOut(Front(al)) \cup {f.token}
           /\ ~al[Len(al)].used => HandedOut(al) = HandedOut(Front(al))
  <1> DEFINE b  == Front(s)
             bl == Front(al)
             n  == Len(al)
  <1>1. PICK X, left : Leaving(X, s, left) /\ Found(left, d, al, cs)
    BY DEF Thread, Has
  <1>2. f = s[Len(s)] /\ f.pc # "root"
    BY DEF Upper
  <1>3. PICK under \in Lefts : Leaving(X, b, under) /\ left = With(under, f)
    BY <1>1, <1>2, LeavingPopped
  <1>4. al \in Seq(Opening) /\ left.aliases = Tags(al)
    BY <1>1 DEF Found
  <1>5. under.aliases \in Seq(STRING \X Nat)
    BY DEF Lefts
  <1> DEFINE o == <<Reading[f.ann].name, f.token>>
  <1>6. Tags(al) = Append(under.aliases, o)
    BY <1>3, <1>4 DEF With
  <1>7. bl \in Seq(Opening) /\ Tags(bl) = under.aliases
    <2> HIDE DEF o
    <2>1. QED BY <1>4, <1>5, <1>6, TagsOfFewer
  <1>8. /\ n \in Nat \ {0} /\ Len(bl) = n - 1 /\ \A k \in 1 .. n - 1 : bl[k] = al[k]
        /\ al[n] \in Opening
    <2>1. DOMAIN Tags(al) = DOMAIN al /\ DOMAIN al = 1 .. n /\ n \in Nat
      BY <1>4, TagsAre
    <2>2. Len(under.aliases) + 1 \in DOMAIN Tags(al) /\ Len(under.aliases) \in Nat
      BY <1>5, <1>6, AppendAt
    <2>3. n # 0 /\ al # <<>>
      BY <2>1, <2>2
    <2>4. Len(bl) = Len(al) - 1 /\ \A k \in 1 .. Len(al) - 1 : bl[k] = al[k]
      BY <1>4, <2>3, FrontIs
    <2>5. n \in DOMAIN al /\ n \in Nat \ {0}
      BY <2>1, <2>3
    <2>6. al[n] \in Opening
      BY <1>4, <2>5
    <2>7. QED BY <2>4, <2>5, <2>6
  <1>9. al[n].token = f.token
    <2>1. DOMAIN under.aliases = 1 .. n - 1 /\ Len(under.aliases) = n - 1
      <3>1. DOMAIN Tags(bl) = DOMAIN bl /\ DOMAIN bl = 1 .. Len(bl)
        BY <1>7, TagsAre
      <3>2. DOMAIN under.aliases = 1 .. n - 1
        BY <1>7, <1>8, <3>1
      <3>3. DOMAIN under.aliases = 1 .. Len(under.aliases) /\ Len(under.aliases) \in Nat /\ n - 1 \in Nat
        BY <1>5, <1>8
      <3>4. QED BY <3>2, <3>3
    <2>2. Tags(al)[n] = o
      <3>1. Len(under.aliases) + 1 = n
        BY <1>8, <2>1
      <3> HIDE DEF o, n
      <3>2. QED BY <1>5, <1>6, <3>1, AppendAt
    <2>3. n \in DOMAIN al /\ Tags(al)[n] = <<al[n].name, al[n].token>>
      BY <1>4, <1>8, TagsAre
    <2>4. <<al[n].name, al[n].token>> = <<Reading[f.ann].name, f.token>>
      BY <2>2, <2>3
    <2>5. QED BY <2>4
  <1>10. al[n].used \in BOOLEAN
    BY <1>8 DEF Opening
  <1>11. f.token \notin Toks(OpenIn(b))
    <2>1. s \in Seq(Frame(X))
      BY <1>1 DEF Leaving, Stacked
    <2>2. Pushed(s, b, f)
      BY <2>1, PopIs
    <2>3. Sits(b, f, tk)
      BY <2>2, SoundPushed
    <2>4. QED BY <2>3 DEF Sits, Opened
  <1>12. f.token \notin HandedOut(bl)
    <2> SUFFICES ASSUME NEW k \in DOMAIN bl, bl[k].token = f.token PROVE FALSE
      BY DEF HandedOut
    <2>1. Linked(b, under)
      BY <1>3, LeavesLinked
    <2>2. k \in DOMAIN under.aliases /\ under.aliases[k] = <<bl[k].name, bl[k].token>>
      BY <1>7, TagsAre
    <2>3. PICK q \in OpenIn(b) : under.aliases[k] = <<Reading[q[1]].name, q[2]>>
      BY <2>1, <2>2 DEF Linked, Told
    <2>4. <<bl[k].name, bl[k].token>> = <<Reading[q[1]].name, q[2]>>
      BY <2>2, <2>3
    <2>5. q[2] = f.token
      BY <2>4
    <2>6. QED BY <1>11, <2>5 DEF Toks
  <1>13. /\ al[n].used => HandedOut(al) = HandedOut(bl) \cup {f.token}
         /\ ~al[n].used => HandedOut(al) = HandedOut(bl)
    <2>1. DOMAIN al = DOMAIN bl \cup {n} /\ \A k \in DOMAIN bl : al[k] = bl[k]
      <3>1. DOMAIN al = 1 .. n /\ DOMAIN bl = 1 .. n - 1 /\ 1 .. n = (1 .. n - 1) \cup {n}
        <4>1. DOMAIN bl = 1 .. Len(bl)
          BY <1>7
        <4>2. QED BY <1>4, <1>8, <4>1
      <3>2. QED BY <1>8, <3>1
    <2>2. {k \in DOMAIN al : al[k].used} = {k \in DOMAIN bl : bl[k].used} \cup {k \in {n} : al[n].used}
      BY <2>1
    <2> HIDE DEF bl, n
    <2>3. QED BY <1>9, <2>1, <2>2 DEF HandedOut
  <1>14. QED BY <1>9, <1>10, <1>12, <1>13

(* Its body read.                                                          *)
LEMMA ClosingIs ==
    ASSUME NEW S, NEW s \in Seq(S), s # <<>>, NEW f, f = Upper(s), f.pc = "body",
           NEW r, r.tag = "ok", NEW H, NEW ds, NEW tk, Keeping(s, r, H, ds, tk)
    PROVE  /\ Closing(OpenIn(Front(s)), f.ann, f.token, Calls(f), r.term, ds, Given(s, H))
           /\ WholeTable(ds, Given(s, H))
  <1> DEFINE b == Front(s)
             T == Given(s, H)
  <1>1. Sound(s, tk) /\ Tabled(ds) /\ SegFine(s, H, ds) /\ (~Spoiled(s, r) => WholeTable(ds, T)) /\ Answers(s, r, H, ds)
    BY DEF Keeping, WholeUnder
  <1>2. Beneath(s, b, f, H, ds, tk) /\ b \in Seq(S)
    BY <1>1, BeneathIs
  <1> HIDE DEF b
  <1>3. Pushed(s, b, f) /\ Sits(b, f, tk)
    BY <1>2 DEF Beneath
  <1>4. OpenIn(s) = OpenIn(b) \cup {<<f.ann, f.token>>}
    BY <1>3, InBuildPushed DEF Tied
  <1>5. r # None /\ ~Spoiled(s, r)
    <2>1. None.tag = "none"
      BY DEF None
    <2>2. QED BY <2>1 DEF Spoiled
  <1>6. Fine(r.term, Calls(f), OpenIn(s), T, ds)
    BY <1>1, <1>5 DEF Answers, Answered
  <1>7. f.ann \in Ann /\ IsAlias(f.ann) /\ f.ann \notin Anns(OpenIn(b)) /\ f.token \in Nat \ {0}
    BY <1>3 DEF Sits, Suits, Opened
  <1>8. PartsOf[f.ann] = {Calls(f)}
    <2>1. Calls(f) = Reading[f.ann].parts[1]
      BY DEF Calls
    <2>2. Len(Reading[f.ann].parts) = 1
      BY <1>7, PassesOn DEF IsAlias
    <2>3. 1 .. 1 = {1}
      OBVIOUS
    <2>4. QED BY <1>7, <2>1, <2>2, <2>3, PartsAre
  <1> HIDE DEF T
  <1>9. QED BY <1>1, <1>4, <1>5, <1>6, <1>7, <1>8 DEF Closing, b, T

\* What is given out below an alias, and with it.
Below(s, f, tk, H, less) ==
    /\ s # <<>> /\ f = Upper(s) /\ f.pc = "body" /\ Sound(s, tk)
    /\ f.token \notin less /\ (H = less \/ H = less \cup {f.token})

LEMMA GivenBelow ==
    ASSUME NEW S, NEW s \in Seq(S), NEW f, NEW tk, NEW H, NEW less, Below(s, f, tk, H, less)
    PROVE  /\ Given(Front(s), H) = Given(Front(s), less) /\ Given(Front(s), H) \in SUBSET less
           /\ Given(s, H) \ {f.token} = Given(Front(s), less)
           /\ f.token \notin Given(Front(s), less)
           /\ H = less => Given(s, H) = Given(Front(s), less)
  <1>0. /\ s # <<>> /\ f = Upper(s) /\ f.pc = "body" /\ Sound(s, tk)
        /\ f.token \notin less /\ (H = less \/ H = less \cup {f.token})
    BY DEF Below
  <1> USE <1>0
  <1> DEFINE b == Front(s)
  <1>1. Pushed(s, b, f)
    BY PopIs
  <1> HIDE DEF b
  <1>2. Sits(b, f, tk) /\ OpenIn(s) = OpenIn(b) \cup {Tied(f)}
    BY <1>1, SoundPushed, InBuildPushed
  <1>3. f.token \notin Toks(OpenIn(b))
    BY <1>2 DEF Sits, Opened
  <1>4. Toks(OpenIn(s)) = Toks(OpenIn(b)) \cup {f.token}
    <2>1. Tied(f)[2] = f.token
      BY DEF Tied
    <2>2. QED BY <1>2, <2>1 DEF Toks
  <1>5. QED BY <1>3, <1>4 DEF Given, b

-----------------------------------------------------------------------------
(* The frontend between its steps.                                         *)

Building == /\ Keeping(stack, ret, HandedOut(aliases), defs, tokens)
            /\ (ret = None \/ ret.tag \in {"ok", "error"})

Whole7(f) == f = [ann |-> f.ann, pc |-> f.pc, before |-> f.before, walks |-> f.walks,
                  parts |-> f.parts, token |-> f.token, saved |-> f.saved]
Alike(g, f, p) == g.pc = p /\ g.ann = f.ann /\ g.parts = f.parts

LEMMA FrameSet ==
    ASSUME NEW f, Whole7(f), NEW p, NEW b, NEW w, NEW t
    PROVE  /\ Alike([f EXCEPT !.pc = p], f, p)
           /\ Alike([f EXCEPT !.pc = p, !.before = b, !.walks = w], f, p)
           /\ Alike([f EXCEPT !.pc = p, !.token = t], f, p) /\ [f EXCEPT !.pc = p, !.token = t].token = t
  <1>1. ASSUME NEW an, NEW pc, NEW be, NEW wa, NEW pa, NEW to, NEW sa, NEW k,
               k = [ann |-> an, pc |-> pc, before |-> be, walks |-> wa, parts |-> pa, token |-> to, saved |-> sa]
        PROVE  /\ Alike([k EXCEPT !.pc = p], k, p)
               /\ Alike([k EXCEPT !.pc = p, !.before = b, !.walks = w], k, p)
               /\ Alike([k EXCEPT !.pc = p, !.token = t], k, p) /\ [k EXCEPT !.pc = p, !.token = t].token = t
    BY <1>1 DEF Alike
  <1>2. QED BY <1>1 DEF Whole7

LEMMA FrameMore ==
    ASSUME NEW f, Whole7(f), NEW x, NEW g, g = [f EXCEPT !.parts = Append(@, x)]
    PROVE  g.pc = f.pc /\ g.ann = f.ann /\ g.parts = Append(f.parts, x)
  <1> DEFINE q == Append(f.parts, x)
  <1>1. g = [f EXCEPT !.parts = q]
    OBVIOUS
  <1> HIDE DEF q
  <1>2. ASSUME NEW an, NEW pc, NEW be, NEW wa, NEW pa, NEW to, NEW sa, NEW k,
               k = [ann |-> an, pc |-> pc, before |-> be, walks |-> wa, parts |-> pa, token |-> to, saved |-> sa]
        PROVE  [k EXCEPT !.parts = q].pc = k.pc /\ [k EXCEPT !.parts = q].ann = k.ann /\ [k EXCEPT !.parts = q].parts = q
    BY <1>2
  <1>3. [f EXCEPT !.parts = q].pc = f.pc /\ [f EXCEPT !.parts = q].ann = f.ann /\ [f EXCEPT !.parts = q].parts = q
    BY <1>2 DEF Whole7
  <1>4. QED BY <1>1, <1>3 DEF q

LEMMA Replaced ==
    ASSUME NEW S, NEW s \in Seq(S), s # <<>>, NEW g
    PROVE  [s EXCEPT ![Len(s)] = g] = Append(Front(s), g)
  <1> DEFINE U == S \cup {g}
  <1>1. \A T, V : T \in SUBSET V => Seq(T) \in SUBSET Seq(V)
    OBVIOUS
  <1>2. S \in SUBSET U /\ g \in U
    OBVIOUS
  <1> HIDE DEF U
  <1>3. s \in Seq(U)
    BY <1>1, <1>2
  <1>4. QED BY <1>2, <1>3, TopReplaced

\* What is known of the frame on top.
Knows(f) ==
    /\ f = Top /\ f = Upper(stack) /\ f = stack[Len(stack)] /\ Whole7(f)
    /\ f.ann \in Ann /\ Suits(f) /\ Fits(f)
    /\ OpenWell(stack, tokens) /\ Tabled(defs) /\ Matched(stack, aliases, classes)
    /\ ~Spoiled(stack, ret) => WholeUnder(stack, HandedOut(aliases), defs)
    /\ f.pc # "root" => /\ FrameFine(f, OpenIn(stack), HandedOut(aliases), defs)
                        /\ \A i \in InBuild(Front(stack)) : f.ann \in Names[stack[i].ann]
                        /\ InBuild(stack) = InBuild(Front(stack)) \cup {Len(stack)}
    /\ ret # None => Waits(f)
    /\ ret # None /\ f.pc # "evaluating" =>
          Answered(f, ret, OpenIn(stack), Given(stack, HandedOut(aliases)), defs)
    /\ (ret = None \/ ret.tag \in {"ok", "error"})

LEMMA TopHas ==
    ASSUME Scopes, Building, tokens \in Nat, stack # <<>>
    PROVE  Knows(Top) /\ \E S : stack \in Seq(S)
  <1> DEFINE f == Top
             b == Front(stack)
             H == HandedOut(aliases)
  <1>1. Thread(stack, depth, aliases, classes)
    BY DEF Scopes
  <1>2. f = Upper(stack) /\ f = stack[Len(stack)]
    BY DEF Top, Upper
  <1>3. Matched(stack, aliases, classes) /\ \E S : stack \in Seq(S)
    BY <1>1, ThreadMatches
  <1>4. PICK S : stack \in Seq(S)
    BY <1>3
  <1>5. /\ Sound(stack, tokens) /\ Tabled(defs) /\ SegFine(stack, H, defs)
        /\ ~Spoiled(stack, ret) => WholeUnder(stack, H, defs)
        /\ Answers(stack, ret, H, defs) /\ (ret = None \/ ret.tag \in {"ok", "error"})
    BY DEF Building, Keeping
  <1>6. OpenWell(stack, tokens)
    BY <1>4, <1>5, OpensWell
  <1>7. Beneath(stack, b, f, H, defs, tokens)
    BY <1>2, <1>4, <1>5, BeneathIs
  <1>8. Fits(f) /\ Whole7(f)
    BY <1>1, <1>2, ThreadReads DEF Whole7
  <1> HIDE DEF b, H, f
  <1>9. Pushed(stack, b, f) /\ Sits(b, f, tokens)
    BY <1>7 DEF Beneath
  <1>10. Suits(f) /\ f.ann \in Ann
    BY <1>9 DEF Sits, Suits
  <1>11. ASSUME f.pc # "root"
         PROVE  /\ \A i \in InBuild(b) : f.ann \in Names[stack[i].ann]
                /\ InBuild(stack) = InBuild(b) \cup {Len(stack)}
    <2>1. \A i \in InBuild(b) : f.ann \in Names[b[i].ann] /\ i \in 1 .. Len(b)
      BY <1>9, <1>11 DEF Sits, Inside, InBuild
    <2>2. QED BY <1>9, <1>11, <2>1, InBuildPushed DEF Pushed
  <1>12. f.pc # "root" => FrameFine(f, OpenIn(stack), H, defs)
    BY <1>7 DEF Beneath
  <1>13. /\ ret # None => Waits(f)
         /\ ret # None /\ f.pc # "evaluating" => Answered(f, ret, OpenIn(stack), Given(stack, H), defs)
    BY <1>2, <1>5 DEF Answers
  <1>14. QED BY <1>2, <1>3, <1>5, <1>6, <1>8, <1>10, <1>11, <1>12, <1>13 DEF Knows, f, b, H

(* A descent that opened no alias ends.                                    *)
LEMMA LeaveKept ==
    ASSUME Scopes, Building, tokens \in Nat, stack # <<>>, Top.pc \notin {"root", "body"},
           stack' = Pop, defs' = defs, tokens' = tokens,
           Given(stack, HandedOut(aliases)) \in SUBSET HandedOut(aliases'),
           ret'.tag \in {"ok", "error"},
           ret'.tag = "ok" =>
              /\ ~Spoiled(stack, ret)
              /\ Fine(ret'.term, Top.ann, OpenIn(stack), Given(stack, HandedOut(aliases')), defs),
           ret'.tag = "error" => Cause(ret'.why, Top.ann)
    PROVE  Building'
  <1>1. PICK S : stack \in Seq(S)
    BY TopHas
  <1>2. Keeping(stack, ret, HandedOut(aliases), defs, tokens)
    BY DEF Building
  <1> DEFINE f == Top
             v == ret'
             H == HandedOut(aliases)
             more == HandedOut(aliases')
  <1>3. f = Upper(stack) /\ stack' = Front(stack)
    BY DEF Top, Upper, Pop, Front
  <1>4. f.pc \notin {"root", "body"} /\ Given(stack, H) \in SUBSET more /\ v.tag \in {"ok", "error"}
        /\ (v.tag = "ok" => ~Spoiled(stack, ret) /\ Fine(v.term, f.ann, OpenIn(stack), Given(stack, more), defs))
        /\ (v.tag = "error" => Cause(v.why, f.ann)) /\ Keeping(stack, ret, H, defs, tokens)
    BY <1>2
  <1> HIDE DEF f, H, more, v
  <1>5. Leaves(stack, f, ret, H, defs, tokens, more, v)
    BY <1>3, <1>4 DEF Leaves
  <1>6. Keeping(Front(stack), v, more, defs, tokens)
    BY <1>1, <1>5, KeepsLeaving
  <1>7. QED BY <1>3, <1>4, <1>6 DEF Building, v, more

(* A descent goes on.                                                      *)
LEMMA BecomeKept ==
    ASSUME Scopes, Building, tokens \in Nat, stack # <<>>, Top.pc \notin {"root", "body"}, ~Spoiled(stack, ret),
           NEW g, g.pc \notin {"root", "body"}, g.ann = Top.ann, Suits(g),
           FrameFine(g, OpenIn(stack), HandedOut(aliases), defs),
           stack' = [stack EXCEPT ![Len(stack)] = g], ret' = None, defs' = defs, tokens' = tokens,
           aliases' = aliases
    PROVE  Building'
  <1>1. PICK S : stack \in Seq(S)
    BY TopHas
  <1>2. Keeping(stack, ret, HandedOut(aliases), defs, tokens)
    BY DEF Building
  <1>3. Top = Upper(stack)
    BY DEF Top, Upper
  <1>4. stack' = Append(Front(stack), g)
    BY <1>1, Replaced
  <1>4a. GoesOn(stack, Top, ret, HandedOut(aliases), defs, tokens, g, stack')
    BY <1>2, <1>3, <1>4 DEF GoesOn
  <1>5. Keeping(stack', None, HandedOut(aliases), defs, tokens)
    BY <1>1, <1>4a, KeepsGoing
  <1>6. None.tag = "none"
    BY DEF None
  <1>7. QED BY <1>5, <1>6 DEF Building

LEMMA ErrIs == \A w : Err(w).tag = "error" /\ Err(w).why = w
  BY DEF Err

LEMMA OkIs == \A t : Ok(t).tag = "ok" /\ Ok(t).term = t
  BY DEF Ok

LEMMA CausedByBounds == \A w \in {"deep", "large", "definitions"} : \A a : Cause(w, a)
  BY DEF Cause

\* Nothing is on its way up: a descent goes on.
LEMMA CallsUnspoiled == ASSUME ret = None PROVE ~Spoiled(stack, ret)
  BY AnswersNone

LEMMA SuitsAlike ==
    ASSUME NEW f, NEW g, NEW p, Suits(f), Alike(g, f, p), f.pc # "parts", p # "body",
           p = "parts" => Reading[f.ann].kind \in {"form", "join", "newtype", "class"}
    PROVE  Suits(g) /\ g.parts = <<>>
  BY DEF Suits, Alike

(* The step of a descent that hands down no part.                          *)
LEMMA StepsOn ==
    ASSUME Scopes, Building, tokens \in Nat, stack # <<>>, Top.pc \notin {"root", "body", "parts"},
           ~Spoiled(stack, ret), NEW g, NEW p, Alike(g, Top, p), p \notin {"root", "body"},
           p = "parts" => TopReads.kind \in {"form", "join", "newtype", "class"},
           stack' = [stack EXCEPT ![Len(stack)] = g], ret' = None, defs' = defs, tokens' = tokens,
           aliases' = aliases
    PROVE  Building'
  <1>1. Suits(Top) /\ TopReads = Reading[Top.ann]
    BY TopHas DEF Knows, TopReads
  <1>2. Suits(g) /\ g.parts = <<>>
    BY <1>1, SuitsAlike
  <1>3. g.pc \notin {"root", "body"} /\ g.ann = Top.ann
    BY DEF Alike
  <1>4. FrameFine(g, OpenIn(stack), HandedOut(aliases), defs)
    BY <1>2, NoParts
  <1>5. QED BY <1>2, <1>3, <1>4, BecomeKept

(* A descent is refused, and so is what it was reached from.               *)
LEMMA Refusing ==
    ASSUME Scopes, Building, tokens \in Nat, stack # <<>>, Top.pc \notin {"root", "body"},
           stack' = Pop, defs' = defs, tokens' = tokens, aliases' = aliases,
           ret'.tag = "error", Cause(ret'.why, Top.ann)
    PROVE  Building'
  <1>1. Given(stack, HandedOut(aliases)) \in SUBSET HandedOut(aliases')
    BY DEF Given
  <1>2. QED BY <1>1, LeaveKept

(* A descent ends with a schema.                                           *)
LEMMA Answering ==
    ASSUME Scopes, Building, tokens \in Nat, stack # <<>>, Top.pc \notin {"root", "body"}, ret = None,
           stack' = Pop, defs' = defs, tokens' = tokens, aliases' = aliases, NEW t, ret' = Ok(t),
           Fine(t, Top.ann, OpenIn(stack), Given(stack, HandedOut(aliases)), defs)
    PROVE  Building'
  <1>1. Given(stack, HandedOut(aliases)) \in SUBSET HandedOut(aliases')
    BY DEF Given
  <1>2. ret'.tag = "ok" /\ ret'.term = t /\ ~Spoiled(stack, ret)
    BY OkIs, CallsUnspoiled
  <1>3. QED BY <1>1, <1>2, LeaveKept

LEMMA EnterFine == ASSUME Scopes, Building, tokens \in Nat, Enter PROVE Building'
  <1> DEFINE g == [Top EXCEPT !.pc = "read", !.before = held, !.walks = Walks]
  <1>1. /\ stack # <<>> /\ ret = None /\ Top.pc = "start" /\ defs' = defs /\ tokens' = tokens /\ aliases' = aliases
    BY DEF Enter, At, Calling, open
  <1>2. \/ stack' = Pop /\ ret' = Err("deep")
        \/ stack' = Pop /\ ret' = Err("large")
        \/ stack' = [stack EXCEPT ![Len(stack)] = g] /\ ret' = ret
    BY DEF Enter, Become
  <1>3. Alike(g, Top, "read")
    BY <1>1, TopHas, FrameSet DEF Knows
  <1> HIDE DEF g
  <1>4. CASE stack' = Pop /\ ret' = Err("deep")
    <2>1. ret'.tag = "error" /\ Cause(ret'.why, Top.ann)
      BY <1>4, ErrIs, CausedByBounds
    <2>2. QED BY <1>1, <1>4, <2>1, Refusing
  <1>5. CASE stack' = Pop /\ ret' = Err("large")
    <2>1. ret'.tag = "error" /\ Cause(ret'.why, Top.ann)
      BY <1>5, ErrIs, CausedByBounds
    <2>2. QED BY <1>1, <1>5, <2>1, Refusing
  <1>6. CASE stack' = [stack EXCEPT ![Len(stack)] = g] /\ ret' = ret
    BY <1>1, <1>3, <1>6, CallsUnspoiled, StepsOn
  <1>7. QED BY <1>2, <1>4, <1>5, <1>6

LEMMA ReadScalarFine == ASSUME Scopes, Building, tokens \in Nat, ReadScalar PROVE Building'
  <1>1. /\ stack # <<>> /\ ret = None /\ Top.pc = "read" /\ defs' = defs /\ tokens' = tokens /\ aliases' = aliases
        /\ TopReads.kind = "scalar" /\ stack' = Pop /\ ret' = Ok(Leaf(TopReads.name))
    BY DEF ReadScalar, At, Calling, open, Leave
  <1>2. Top.ann \in Ann /\ Opens(Anns(OpenIn(stack))) /\ Tabled(defs) /\ TopReads = Reading[Top.ann]
    BY <1>1, TopHas DEF Knows, OpenWell, TopReads
  <1>3. Fine(Leaf(TopReads.name), Top.ann, OpenIn(stack), Given(stack, HandedOut(aliases)), defs)
    BY <1>1, <1>2, ScalarFine
  <1>4. QED BY <1>1, <1>3, Answering

LEMMA ReadValidatorFine == ASSUME Scopes, Building, tokens \in Nat, ReadValidator PROVE Building'
  <1>1. /\ stack # <<>> /\ ret = None /\ Top.pc = "read" /\ defs' = defs /\ tokens' = tokens /\ aliases' = aliases
        /\ TopReads.kind = "validator" /\ stack' = Pop /\ ret' = Ok(Whole(TopReads.name, TopReads.whole))
    BY DEF ReadValidator, At, Calling, open, Leave
  <1>2. Top.ann \in Ann /\ Opens(Anns(OpenIn(stack))) /\ Tabled(defs) /\ TopReads = Reading[Top.ann]
    BY <1>1, TopHas DEF Knows, OpenWell, TopReads
  <1>3. Fine(Whole(TopReads.name, TopReads.whole), Top.ann, OpenIn(stack), Given(stack, HandedOut(aliases)), defs)
    BY <1>1, <1>2, ScalarFine
  <1>4. QED BY <1>1, <1>3, Answering

(* A refusal has a cause where it is made.                                 *)
LEMMA RefusesHere ==
    ASSUME NEW a \in Ann, Reading[a].kind = "refused" \/ Reading[a].runs # NoAnn
    PROVE  Cause("refused", a)
  <1>1. a \in Within(a)
    BY DEF Within
  <1>2. Refuses(a)
    BY <1>1 DEF Refuses, Ofkind
  <1>3. QED BY <1>2 DEF Cause

LEMMA ReadRefusedFine == ASSUME Scopes, Building, tokens \in Nat, ReadRefused PROVE Building'
  <1>1. /\ stack # <<>> /\ Top.pc = "read" /\ defs' = defs /\ tokens' = tokens /\ aliases' = aliases
        /\ TopReads.kind = "refused" /\ stack' = Pop /\ ret' = Err("refused")
    BY DEF ReadRefused, At, Calling, open, Leave
  <1>2. Top.ann \in Ann /\ TopReads = Reading[Top.ann]
    BY <1>1, TopHas DEF Knows, TopReads
  <1>3. ret'.tag = "error" /\ Cause(ret'.why, Top.ann)
    BY <1>1, <1>2, ErrIs, RefusesHere
  <1>4. QED BY <1>1, <1>3, Refusing

LEMMA ReadPartsFine == ASSUME Scopes, Building, tokens \in Nat, ReadParts PROVE Building'
  <1> DEFINE g == [Top EXCEPT !.pc = "parts"]
  <1>1. /\ stack # <<>> /\ ret = None /\ Top.pc = "read" /\ defs' = defs /\ tokens' = tokens /\ aliases' = aliases
        /\ TopReads.kind \in {"form", "join", "newtype"}
        /\ stack' = [stack EXCEPT ![Len(stack)] = g] /\ ret' = None
    BY DEF ReadParts, At, Calling, open, Become
  <1>2. Alike(g, Top, "parts")
    BY <1>1, TopHas, FrameSet DEF Knows
  <1> HIDE DEF g
  <1>3. QED BY <1>1, <1>2, CallsUnspoiled, StepsOn

(* A part is called for.                                                   *)
LEMMA BuildPartFine == ASSUME Scopes, Building, tokens \in Nat, BuildPart PROVE Building'
  <1> DEFINE f == Top
             a == TopReads.parts[Len(Top.parts) + 1]
             t == [stack EXCEPT ![Len(stack)] = f]
             H == HandedOut(aliases)
  <1>1. /\ stack # <<>> /\ ret = None /\ f.pc = "parts" /\ defs' = defs /\ tokens' = tokens /\ aliases' = aliases
        /\ Len(f.parts) < Len(TopReads.parts) /\ stack' = t \o <<Start(a)>> /\ ret' = None
    BY DEF BuildPart, At, Calling, open, Call
  <1>2. PICK S : stack \in Seq(S)
    BY <1>1, TopHas
  <1>3. /\ f = Upper(stack) /\ f.ann \in Ann /\ Suits(f) /\ FrameFine(f, OpenIn(stack), H, defs)
        /\ TopReads = Reading[f.ann]
    BY <1>1, TopHas DEF Knows, TopReads
  <1>4. Keeping(stack, ret, H, defs, tokens)
    BY DEF Building
  <1>5. t = Append(Front(stack), f)
    BY <1>1, <1>2, Replaced
  <1>6. a = Calls(f) /\ Waits(f)
    BY <1>1, <1>3 DEF Calls, Waits
  <1>7. ~Spoiled(stack, ret)
    BY <1>1, CallsUnspoiled
  <1>8. stack' = Append(t, Start(a))
    <2>1. Front(stack) \in Seq(S) /\ f \in S
      BY <1>1, <1>2, <1>3, PopIs
    <2> HIDE DEF f, t
    <2>2. t \in Seq(S)
      BY <1>5, <2>1
    <2>3. t \in Seq(S \cup {Start(a)})
      <3>1. \A T, U : T \in SUBSET U => Seq(T) \in SUBSET Seq(U)
        OBVIOUS
      <3>2. S \in SUBSET (S \cup {Start(a)})
        OBVIOUS
      <3>3. QED BY <2>2, <3>1, <3>2
    <2>4. t \o <<Start(a)>> = Append(t, Start(a))
      BY <2>3
    <2>5. QED BY <1>1, <2>4
  <1> HIDE DEF f, a, t, H
  <1>9. GoesOn(stack, f, ret, H, defs, tokens, f, t)
    BY <1>1, <1>3, <1>4, <1>5, <1>7 DEF GoesOn
  <1>10. Keeping(t, None, H, defs, tokens) /\ Upper(t) = f /\ t # <<>>
    BY <1>2, <1>9, KeepsGoing
  <1>11. CallsFor(t, f, H, defs, tokens, a, stack')
    BY <1>1, <1>6, <1>8, <1>10 DEF CallsFor
  <1>12. \E U : t \in Seq(U)
    <2>1. f \in S /\ Front(stack) \in Seq(S)
      BY <1>1, <1>2, <1>3, PopIs
    <2>2. QED BY <1>5, <2>1
  <1>13. Keeping(stack', None, H, defs, tokens)
    BY <1>11, <1>12, KeepsCalling
  <1>14. QED BY <1>1, <1>13 DEF Building, None, H

(* A part is read.                                                         *)
LEMMA PartReturnFine == ASSUME Scopes, Building, tokens \in Nat, PartReturn PROVE Building'
  <1> DEFINE f == Top
             g == [Top EXCEPT !.parts = Append(@, ret.term)]
             H == HandedOut(aliases)
             Q == OpenIn(stack)
  <1>1. /\ stack # <<>> /\ ret # None /\ f.pc = "parts" /\ defs' = defs /\ tokens' = tokens /\ aliases' = aliases
        /\ \/ ret.tag = "ok" /\ stack' = [stack EXCEPT ![Len(stack)] = g] /\ ret' = None
           \/ ret.tag = "error" /\ stack' = Pop /\ ret' = ret
    BY DEF PartReturn, Back, Leave, Become
  <1>2. /\ f.ann \in Ann /\ Suits(f) /\ FrameFine(f, Q, H, defs) /\ Whole7(f) /\ Waits(f)
        /\ Answered(f, ret, Q, Given(stack, H), defs)
    BY <1>1, TopHas DEF Knows
  <1>3. CASE ret.tag = "error" /\ stack' = Pop /\ ret' = ret
    <2>1. Calls(f) \in PartsOf[f.ann] /\ Cause(ret.why, Calls(f))
      BY <1>1, <1>2, <1>3, CallsPart DEF Answered
    <2>2. ret'.tag = "error" /\ Cause(ret'.why, f.ann)
      BY <1>2, <1>3, <2>1, CauseOfPart
    <2>3. QED BY <1>1, <1>3, <2>2, Refusing
  <1>4. CASE ret.tag = "ok" /\ stack' = [stack EXCEPT ![Len(stack)] = g] /\ ret' = None
    <2> DEFINE r == ret.term
               ps == f.parts
    <2>1. g.pc = f.pc /\ g.ann = f.ann /\ g.parts = Append(ps, r)
      BY <1>2, FrameMore
    <2>2. Fine(r, Calls(f), Q, Given(stack, H), defs)
      BY <1>2, <1>4 DEF Answered
    <2>3. /\ ps \in Seq(Seq(Plain)) /\ Len(ps) < Len(Reading[f.ann].parts) /\ Calls(f) = Reading[f.ann].parts[Len(ps) + 1]
          /\ Reading[f.ann].kind \in {"form", "join", "newtype", "class"}
      BY <1>1, <1>2 DEF Suits, Waits, Calls
    <2>4. r \in Seq(Plain)
      BY <2>2 DEF Fine, Orderly
    <2> HIDE DEF f, g, r, ps, H, Q
    <2>5. /\ DOMAIN g.parts = DOMAIN ps \cup {Len(ps) + 1} /\ g.parts[Len(ps) + 1] = r
          /\ \A k \in DOMAIN ps : g.parts[k] = ps[k]
      BY <2>1, <2>3, AppendAt
    <2>6. g.parts \in Seq(Seq(Plain)) /\ Len(g.parts) = Len(ps) + 1 /\ Len(ps) \in Nat
      BY <2>1, <2>3, <2>4
    <2>7. Len(Reading[f.ann].parts) \in Nat
      BY <1>2, PartsAre
    <2>8. Suits(g)
      BY <1>1, <1>2, <2>1, <2>3, <2>6, <2>7 DEF Suits
    <2>9. FrameFine(g, Q, H, defs)
      <3>1. Given(stack, H) = Toks(Q) \cap H
        BY DEF Given, Q
      <3>2. 1 .. Len(g.parts) = DOMAIN g.parts /\ 1 .. Len(ps) = DOMAIN ps
        BY <2>3, <2>6
      <3>3. \A k \in 1 .. Len(ps) : Fine(ps[k], Reading[f.ann].parts[k], Q, Toks(Q) \cap H, defs)
        BY <1>2 DEF FrameFine, FineParts, ps
      <3>4. ASSUME NEW k \in 1 .. Len(g.parts)
            PROVE  Fine(g.parts[k], Reading[f.ann].parts[k], Q, Toks(Q) \cap H, defs)
        <4>1. k \in 1 .. Len(ps) \/ k = Len(ps) + 1
          BY <2>5, <3>2
        <4>2. QED BY <2>2, <2>3, <2>5, <3>1, <3>2, <3>3, <4>1
      <3>5. QED BY <2>1, <3>4 DEF FrameFine, FineParts
    <2>10. ~Spoiled(stack, ret)
      BY <1>4 DEF Spoiled
    <2>11. g.pc \notin {"root", "body"}
      BY <1>1, <2>1
    <2>12. /\ f.pc \notin {"root", "body"} /\ stack' = [stack EXCEPT ![Len(stack)] = g] /\ ret' = None
           /\ stack # <<>> /\ defs' = defs /\ tokens' = tokens /\ aliases' = aliases
      BY <1>1, <1>4
    <2>13. f = Top /\ H = HandedOut(aliases) /\ Q = OpenIn(stack)
      BY DEF f, H, Q
    <2> HIDE DEF Building
    <2>14. QED BY <2>1, <2>8, <2>9, <2>10, <2>11, <2>12, <2>13, BecomeKept
  <1>5. QED BY <1>1, <1>3, <1>4

(* The parts are read.                                                     *)
LEMMA PartsBuiltFine == ASSUME Scopes, Building, tokens \in Nat, PartsBuilt PROVE Building'
  <1> DEFINE f == Top
             t == IF TopReads.kind = "newtype" THEN Top.parts[1] ELSE Built(Top.ann, Top.parts)
             H == HandedOut(aliases)
             Q == OpenIn(stack)
             T == Given(stack, H)
  <1>1. /\ stack # <<>> /\ ret = None /\ f.pc = "parts" /\ defs' = defs /\ tokens' = tokens /\ aliases' = aliases
        /\ Len(f.parts) = Len(TopReads.parts) /\ stack' = Pop /\ ret' = Ok(t)
    BY DEF PartsBuilt, At, Calling, Leave
  <1>2. /\ f.ann \in Ann /\ Suits(f) /\ FrameFine(f, Q, H, defs) /\ TopReads = Reading[f.ann]
        /\ Opens(Anns(Q)) /\ Tabled(defs)
    BY <1>1, TopHas DEF Knows, TopReads, OpenWell
  <1>3. /\ f.parts \in Seq(Seq(Plain)) /\ FineParts(f.parts, f.ann, Q, T, defs)
        /\ Reading[f.ann].kind \in {"form", "join", "newtype", "class"}
    BY <1>1, <1>2 DEF Suits, FrameFine, Given
  <1>4. t = IF Reading[f.ann].kind = "newtype" THEN f.parts[1] ELSE Built(f.ann, f.parts)
    BY <1>2
  <1>5. Len(f.parts) = Len(Reading[f.ann].parts)
    BY <1>1, <1>2
  <1> HIDE DEF t, H, Q, T, f
  <1>6. Fine(t, f.ann, Q, T, defs)
    <2>1. CASE Reading[f.ann].kind \in {"form", "class"}
      <3>1. Fine(Built(f.ann, f.parts), f.ann, Q, T, defs)
        BY <1>2, <1>3, <1>5, <2>1, BuiltForm
      <3>2. QED BY <1>4, <2>1, <3>1
    <2>2. CASE Reading[f.ann].kind = "join"
      <3>1. Fine(Built(f.ann, f.parts), f.ann, Q, T, defs)
        BY <1>2, <1>3, <1>5, <2>2, BuiltJoin
      <3>2. QED BY <1>4, <2>2, <3>1
    <2>3. CASE Reading[f.ann].kind = "newtype"
      <3>1. Fine(f.parts[1], f.ann, Q, T, defs)
        BY <1>2, <1>3, <1>5, <2>3, BuiltNewtype
      <3>2. QED BY <1>4, <2>3, <3>1
    <2>4. QED BY <1>3, <2>1, <2>2, <2>3
  <1>7. Fine(t, Top.ann, OpenIn(stack), Given(stack, HandedOut(aliases)), defs) /\ Top.pc \notin {"root", "body"}
    BY <1>1, <1>6 DEF f, Q, T, H
  <1>8. QED BY <1>1, <1>7, Answering

(* A class met among its own fields is refused; any other is opened.       *)
LEMMA EnterClassFine == ASSUME Scopes, Building, tokens \in Nat, EnterClass PROVE Building'
  <1> DEFINE f == Top
             p == IF TopReads.runs = NoAnn THEN "parts" ELSE "scoped"
             g == [Top EXCEPT !.pc = p]
  <1>1. /\ stack # <<>> /\ ret = None /\ f.pc = "read" /\ defs' = defs /\ tokens' = tokens /\ aliases' = aliases
        /\ TopReads.kind = "class"
        /\ \/ IsOpenClass(TopReads.name) /\ stack' = Pop /\ ret' = Err("class")
           \/ stack' = [stack EXCEPT ![Len(stack)] = g] /\ ret' = None
    BY DEF EnterClass, At, Calling, Leave, Become
  <1>2. /\ f.ann \in Ann /\ TopReads = Reading[f.ann] /\ Matched(stack, aliases, classes) /\ Whole7(f)
        /\ \A i \in InBuild(Front(stack)) : f.ann \in Names[stack[i].ann]
        /\ InBuild(stack) = InBuild(Front(stack)) \cup {Len(stack)} /\ f = stack[Len(stack)]
    BY <1>1, TopHas DEF Knows, TopReads
  <1>3. CASE IsOpenClass(TopReads.name) /\ stack' = Pop /\ ret' = Err("class")
    <2>1. PICK k \in DOMAIN classes : classes[k] = TopReads.name
      BY <1>3 DEF IsOpenClass
    <2>2. PICK i \in InBuild(stack) : InClass(stack[i]) /\ Reading[stack[i].ann].name = classes[k]
      BY <1>2, <2>1 DEF Matched
    <2>3. i \in InBuild(Front(stack))
      <3>1. ~InClass(f)
        BY <1>1 DEF InClass
      <3>2. QED BY <1>2, <2>2, <3>1
    <2>4. stack[i].ann \in Ann
      <3>1. Sound(stack, tokens) /\ i \in 1 .. Len(stack)
        BY <2>2 DEF Building, Keeping, InBuild
      <3>2. QED BY <3>1 DEF Sound, Sits, Suits
    <2>5. stack[i].ann = f.ann
      BY <1>1, <1>2, <2>1, <2>2, <2>4, NamesAreTheirs DEF InClass
    <2>6. f.ann \in Names[f.ann]
      BY <1>2, <2>3, <2>5
    <2>7. ClassNamesItself(f.ann)
      BY <1>1, <1>2, <2>6 DEF ClassNamesItself, Ofkind, Within
    <2>8. ret'.tag = "error" /\ Cause(ret'.why, f.ann)
      BY <1>3, <2>7, ErrIs DEF Cause
    <2>9. QED BY <1>1, <1>3, <2>8, Refusing
  <1>4. CASE stack' = [stack EXCEPT ![Len(stack)] = g] /\ ret' = None
    <2>1. Alike(g, f, p) /\ p \notin {"root", "body"}
      BY <1>2, FrameSet
    <2> HIDE DEF g, p
    <2>2. QED BY <1>1, <1>4, <2>1, CallsUnspoiled, StepsOn
  <1>5. QED BY <1>1, <1>3, <1>4

(* The code an annotation runs has built what it built.                    *)
LEMMA EvaluatedFine == ASSUME Scopes, Building, tokens \in Nat, Evaluated PROVE Building'
  <1> DEFINE f == Top
             p == IF TopReads.kind = "class" THEN "parts" ELSE "evaluated"
             g == [Top EXCEPT !.pc = p]
  <1>1. /\ stack # <<>> /\ f.pc = "evaluating" /\ defs' = defs /\ tokens' = tokens /\ aliases' = aliases
        /\ \/ stack' = Pop /\ ret' = Err("refused")
           \/ stack' = [stack EXCEPT ![Len(stack)] = g] /\ ret' = None
    BY DEF Evaluated, Back, Leave, Become
  <1>2. f.ann \in Ann /\ Whole7(f) /\ Fits(f) /\ f = Upper(stack)
    BY <1>1, TopHas DEF Knows
  <1>3. CASE stack' = Pop /\ ret' = Err("refused")
    <2>1. Reading[f.ann].runs # NoAnn
      BY <1>1, <1>2 DEF Fits
    <2>2. ret'.tag = "error" /\ Cause(ret'.why, f.ann)
      BY <1>2, <1>3, <2>1, ErrIs, RefusesHere
    <2>3. QED BY <1>1, <1>3, <2>2, Refusing
  <1>4. CASE stack' = [stack EXCEPT ![Len(stack)] = g] /\ ret' = None
    <2>1. Alike(g, f, p) /\ p \notin {"root", "body"} /\ (p = "parts" => TopReads.kind = "class")
      BY <1>2, FrameSet
    <2>2. ~Spoiled(stack, ret)
      BY <1>1, <1>2 DEF Spoiled
    <2> HIDE DEF g, p
    <2>3. QED BY <1>1, <1>4, <2>1, <2>2, StepsOn
  <1>5. QED BY <1>1, <1>3, <1>4

LEMMA RootIs ==
    ASSUME NEW a
    PROVE  /\ Root(a).ann = a /\ Root(a).pc = "root" /\ Root(a).parts = <<>>
           /\ Root(a).saved.aliases = aliases /\ Root(a).saved.defs = defs
  <1> DEFINE v == [depth |-> depth, descents |-> descents, held |-> held,
                   aliases |-> aliases, classes |-> classes, defs |-> defs]
             s == Start(a)
  <1>1. v.aliases = aliases /\ v.defs = defs
    OBVIOUS
  <1> HIDE DEF v
  <1>2. s = [ann |-> a, pc |-> "start", before |-> 0, walks |-> FALSE, parts |-> <<>>, token |-> 0, saved |-> Empty]
    BY DEF Start
  <1> HIDE DEF s
  <1>3. Root(a) = [s EXCEPT !.pc = "root", !.saved = v]
    BY DEF Root, v, s
  <1>4. Root(a).ann = a /\ Root(a).pc = "root" /\ Root(a).parts = <<>> /\ Root(a).saved = v
    BY <1>2, <1>3
  <1>5. QED BY <1>1, <1>4

LEMMA TwoMore ==
    ASSUME NEW S, NEW t \in Seq(S), NEW a, NEW b
    PROVE  /\ t \o <<a>> = Append(t, a) /\ t \o <<a, b>> = Append(Append(t, a), b)
           /\ \E U : t \in Seq(U) /\ Append(t, a) \in Seq(U)
  <1> DEFINE U == S \cup {a, b}
  <1>1. t \in Seq(U) /\ a \in U /\ b \in U
    <2>1. \A T, V : T \in SUBSET V => Seq(T) \in SUBSET Seq(V)
      OBVIOUS
    <2>2. QED BY <2>1
  <1> HIDE DEF U
  <1>2. QED BY <1>1

\* A build begins on s: the frame of it, and the descent it begins with.
BuildsOn(s, a, u) == u = Append(Append(s, Root(a)), Start(a))

(* A build begins.                                                         *)
LEMMA BuildBegins ==
    ASSUME NEW S, NEW s \in Seq(S), Keeping(s, None, HandedOut(aliases), defs, tokens), NEW a \in Ann,
           s # <<>> => Waits(Upper(s)) /\ Upper(s).pc = "evaluating" /\ a = Calls(Upper(s)),
           NEW u, BuildsOn(s, a, u)
    PROVE  Keeping(u, None, HandedOut(<<>>), <<>>, tokens)
  <1> DEFINE f == Root(a)
             t == Append(s, f)
  <1>1. /\ f.ann = a /\ f.pc = "root" /\ f.parts = <<>> /\ f.saved.aliases = aliases /\ f.saved.defs = defs
    BY RootIs
  <1>2. u = Append(t, Start(a)) /\ t = Append(s, f)
    BY DEF BuildsOn
  <1> HIDE DEF f, t
  <1>3. BeginsBuild(s, aliases, defs, tokens, f, t)
    BY <1>1, <1>2 DEF BeginsBuild
  <1>4. Keeping(t, None, HandedOut(<<>>), <<>>, tokens) /\ Upper(t) = f /\ t # <<>>
    BY <1>3, KeepsBuild
  <1>5. Calls(f) = a /\ Waits(f)
    BY <1>1 DEF Calls, Waits
  <1> DEFINE H == HandedOut(<<>>)
             D == <<>>
  <1>6. Keeping(t, None, H, D, tokens)
    BY <1>4
  <1> HIDE DEF H, D
  <1>7. CallsFor(t, f, H, D, tokens, a, u)
    BY <1>1, <1>2, <1>4, <1>5, <1>6 DEF CallsFor
  <1>8. \E U : t \in Seq(U)
    BY <1>2, TwoMore
  <1>9. Keeping(u, None, H, D, tokens)
    BY <1>7, <1>8, KeepsCalling
  <1>10. QED BY <1>9 DEF H, D

(* The code of an annotation is run, and may begin a build.                *)
LEMMA EvaluateFine == ASSUME Scopes, Building, tokens \in Nat, Evaluate PROVE Building'
  <1> DEFINE f == Top
             e == [Top EXCEPT !.pc = "evaluating"]
             t == [stack EXCEPT ![Len(stack)] = e]
             a == TopReads.runs
             p == IF TopReads.kind = "class" THEN "parts" ELSE "evaluated"
             g == [Top EXCEPT !.pc = p]
             H == HandedOut(aliases)
  <1>1. /\ stack # <<>> /\ ret = None /\ f.pc \in {"read", "scoped"} /\ tokens' = tokens
        /\ f.pc = "read" => a # NoAnn
        /\ \/ stack' = t \o <<Root(a), Start(a)>> /\ ret' = None /\ aliases' = <<>> /\ defs' = <<>>
           \/ stack' = [stack EXCEPT ![Len(stack)] = g] /\ ret' = None /\ defs' = defs /\ aliases' = aliases
    BY DEF Evaluate, Evaluates, At, Calling, Become, Call, ScopeTaken, open
  <1>2. f.ann \in Ann /\ Whole7(f) /\ Fits(f) /\ f = Upper(stack) /\ TopReads = Reading[f.ann] /\ Suits(f)
    BY <1>1, TopHas DEF Knows, TopReads
  <1>3. a \in Ann
    BY <1>1, <1>2, PartsAre DEF Fits
  <1>4. CASE stack' = t \o <<Root(a), Start(a)>> /\ ret' = None /\ aliases' = <<>> /\ defs' = <<>>
    <2>1. Alike(e, f, "evaluating")
      BY <1>2, FrameSet
    <2>2. PICK S : stack \in Seq(S)
      BY <1>1, TopHas
    <2>3. t = Append(Front(stack), e)
      BY <1>1, <2>2, Replaced
    <2> HIDE DEF e
    <2>4. Front(stack) \in Seq(S)
      BY <1>1, <2>2, PopIs
    <2>5. t \in Seq(S \cup {e})
      <3>1. Front(stack) \in Seq(S \cup {e})
        <4>1. \A T, V : T \in SUBSET V => Seq(T) \in SUBSET Seq(V)
          OBVIOUS
        <4>2. QED BY <2>4, <4>1
      <3> HIDE DEF t
      <3>2. QED BY <2>3, <3>1
    <2>6. Suits(e) /\ e.parts = <<>> /\ e.pc = "evaluating" /\ e.ann = f.ann
      <3>1. f.pc # "parts" /\ "evaluating" \notin {"body", "parts"}
        BY <1>1
      <3>2. QED BY <1>2, <2>1, <3>1, SuitsAlike DEF Alike
    <2>7. FrameFine(e, OpenIn(stack), H, defs)
      BY <2>6, NoParts
    <2>8. Keeping(stack, ret, H, defs, tokens) /\ ~Spoiled(stack, ret)
      BY <1>1, CallsUnspoiled DEF Building
    <2> HIDE DEF t, a, f
    <2>9. GoesOn(stack, f, ret, H, defs, tokens, e, t)
      BY <1>1, <1>2, <2>3, <2>6, <2>7, <2>8 DEF GoesOn
    <2> HIDE DEF H
    <2>10. Keeping(t, None, H, defs, tokens) /\ Upper(t) = e /\ t # <<>>
      BY <2>2, <2>9, KeepsGoing
    <2>11. Waits(e) /\ a = Calls(e)
      BY <1>2, <2>6 DEF Waits, Calls, a
    <2>12. BuildsOn(t, a, stack')
      BY <1>4, <2>5, TwoMore DEF BuildsOn
    <2>13. Keeping(stack', None, HandedOut(<<>>), <<>>, tokens)
      BY <1>3, <2>5, <2>6, <2>10, <2>11, <2>12, BuildBegins DEF H
    <2>14. None.tag = "none"
      BY DEF None
    <2>15. QED BY <1>1, <1>4, <2>13, <2>14 DEF Building
  <1>5. CASE stack' = [stack EXCEPT ![Len(stack)] = g] /\ ret' = None /\ defs' = defs /\ aliases' = aliases
    <2>1. Alike(g, f, p) /\ p \notin {"root", "body"} /\ (p = "parts" => TopReads.kind = "class")
      BY <1>2, FrameSet
    <2> HIDE DEF g, p
    <2>2. QED BY <1>1, <1>5, <2>1, CallsUnspoiled, StepsOn
  <1>6. QED BY <1>1, <1>4, <1>5

(* A build asked for.                                                      *)
LEMMA BeginFine == ASSUME Scopes, Building, tokens \in Nat, Begin PROVE Building'
  <1>1. PICK a \in RootAnns : stack' = <<Root(a), Start(a)>>
    BY DEF Begin
  <1>2. stack = <<>> /\ ret' = None /\ tokens' = tokens /\ aliases' = <<>> /\ defs' = <<>>
    BY DEF Begin, ScopeTaken
  <1>3. a \in Ann
    BY AnnsRead
  <1> DEFINE E == <<>>
             f == Root(a)
             g == Start(a)
  <1>4. E \in Seq({}) /\ stack = E
    BY <1>2
  <1>5. Keeping(stack, None, HandedOut(aliases), defs, tokens)
    <2>1. /\ Sound(<<>>, tokens) /\ SegFine(<<>>, HandedOut(aliases), defs) /\ defs = <<>> /\ Tabled(<<>>)
          /\ WholeUnder(<<>>, HandedOut(aliases), <<>>)
      BY <1>2, OnNothing DEF Scopes, WholeUnder
    <2>2. QED BY <1>2, <2>1, AnswersNone DEF Keeping
  <1>6. BuildsOn(stack, a, stack')
    <2> HIDE DEF f, g
    <2>1. <<f, g>> = Append(Append(<<>>, f), g)
      OBVIOUS
    <2>2. QED BY <1>1, <1>2, <2>1 DEF BuildsOn, f, g
  <1> HIDE DEF E
  <1>7. Keeping(stack', None, HandedOut(<<>>), <<>>, tokens)
    BY <1>2, <1>3, <1>4, <1>5, <1>6, BuildBegins
  <1>8. None.tag = "none"
    BY DEF None
  <1>9. QED BY <1>2, <1>7, <1>8 DEF Building

(* A placeholder given out is given out; no other is.                      *)
LEMMA MarkedGives ==
    ASSUME NEW al \in Seq(Opening), NEW i \in DOMAIN al
    PROVE  /\ HandedOut(al) \in SUBSET HandedOut(Marked(al, i)) /\ al[i].token \in HandedOut(Marked(al, i))
  <1> DEFINE bs == Marked(al, i)
             o  == [al[i] EXCEPT !.used = TRUE]
  <1>1. bs = [al EXCEPT ![i] = o]
    BY DEF Marked
  <1>2. al[i] \in Opening
    OBVIOUS
  <1>3. o.token = al[i].token /\ o.used = TRUE
    BY <1>2 DEF Opening
  <1> HIDE DEF bs, o
  <1>4. DOMAIN bs = DOMAIN al /\ bs[i] = o /\ \A k \in DOMAIN al : k # i => bs[k] = al[k]
    BY <1>1
  <1>5. \A k \in DOMAIN al : bs[k].token = al[k].token /\ (al[k].used => bs[k].used)
    BY <1>3, <1>4
  <1>6. HandedOut(al) \in SUBSET HandedOut(bs)
    BY <1>4, <1>5 DEF HandedOut
  <1>7. al[i].token \in HandedOut(bs)
    BY <1>3, <1>4 DEF HandedOut
  <1>8. QED BY <1>6, <1>7 DEF bs

LEMMA UnusedGives ==
    ASSUME NEW al \in Seq(Opening), NEW o, o.used = FALSE
    PROVE  HandedOut(Append(al, o)) = HandedOut(al)
  <1> DEFINE bs == Append(al, o)
  <1>1. /\ DOMAIN bs = DOMAIN al \cup {Len(al) + 1} /\ bs[Len(al) + 1] = o
        /\ \A k \in DOMAIN al : bs[k] = al[k]
    BY AppendAt
  <1> HIDE DEF bs
  <1>2. {k \in DOMAIN bs : bs[k].used} = {k \in DOMAIN al : al[k].used}
    BY <1>1
  <1>3. QED BY <1>1, <1>2 DEF HandedOut, bs

\* The alias the top frame names is open, with this placeholder.
LEMMA NamesTheOpen ==
    ASSUME Scopes, Building, tokens \in Nat, stack # <<>>, TopReads.kind = "alias", NEW q \in OpenIn(stack)
    PROVE  Reading[q[1]].name = TopReads.name => q = <<Top.ann, q[2]>>
  <1>1. Paired(OpenIn(stack)) /\ Top.ann \in Ann /\ TopReads = Reading[Top.ann]
    BY TopHas DEF Knows, OpenWell, TopReads
  <1>2. q = <<q[1], q[2]>> /\ q[1] \in Ann /\ IsAlias(q[1])
    BY <1>1 DEF Paired
  <1>3. Reading[q[1]].name = TopReads.name => q[1] = Top.ann
    BY <1>1, <1>2, NamesAreTheirs DEF IsAlias
  <1>4. QED BY <1>2, <1>3

LEMMA AliasAgainFine == ASSUME Scopes, Building, tokens \in Nat, AliasAgain PROVE Building'
  <1> DEFINE f == Top
             i == CHOOSE j \in OpenAt(TopReads.name) : \A k \in OpenAt(TopReads.name) : j <= k
             token == aliases[i].token
             Q == OpenIn(stack)
             more == HandedOut(aliases')
  <1>1. /\ AliasRead /\ aliases' = [aliases EXCEPT ![i].used = TRUE] /\ OpenAt(TopReads.name) # {}
        /\ stack' = Pop /\ ret' = Ok(Self(token)) /\ defs' = defs /\ tokens' = tokens
    BY DEF AliasAgain, Leave
  <1>2. /\ stack # <<>> /\ f.pc \in {"read", "evaluated"} /\ TopReads.kind = "alias" /\ TopReads = Reading[f.ann]
    BY <1>1, AliasReads
  <1>3. /\ f.ann \in Ann /\ Matched(stack, aliases, classes) /\ OpenWell(stack, tokens) /\ Tabled(defs)
        /\ ret = None
    BY <1>1, <1>2, TopHas DEF Knows, AliasRead, At, Calling
  <1>4. aliases \in Seq(Opening)
    BY <1>3 DEF Matched
  <1>5. i \in DOMAIN aliases /\ aliases[i].name = TopReads.name
    <2>1. OpenAt(TopReads.name) \in SUBSET DOMAIN aliases /\ DOMAIN aliases \in SUBSET Nat
      BY <1>4 DEF OpenAt
    <2>2. \E j \in OpenAt(TopReads.name) : \A k \in OpenAt(TopReads.name) : j <= k
      BY <1>1, <2>1, LeastNumber
    <2>3. i \in OpenAt(TopReads.name)
      BY <2>2
    <2> HIDE DEF i
    <2>4. QED BY <2>3 DEF OpenAt
  <1> HIDE DEF i
  <1>6. PICK q \in Q : Reading[q[1]].name = aliases[i].name /\ aliases[i].token = q[2]
    BY <1>3, <1>5 DEF Matched
  <1>7. <<f.ann, token>> \in Q
    <2>1. q = <<f.ann, q[2]>>
      BY <1>2, <1>5, <1>6, NamesTheOpen
    <2>2. QED BY <1>6, <2>1
  <1>8. aliases' = Marked(aliases, i)
    BY <1>1 DEF Marked
  <1>9. HandedOut(aliases) \in SUBSET more /\ token \in more
    BY <1>4, <1>5, <1>8, MarkedGives
  <1>10. token \in Given(stack, more)
    <2>1. <<f.ann, token>>[2] = token
      OBVIOUS
    <2>2. token \in Toks(Q)
      BY <1>7, <2>1 DEF Toks
    <2>3. QED BY <1>9, <2>2 DEF Given
  <1>11. Fine(Self(token), f.ann, Q, Given(stack, more), defs)
    <2> HIDE DEF f, token, Q, more
    <2>1. Paired(Q)
      BY <1>3 DEF OpenWell, Q
    <2>2. QED BY <1>3, <1>7, <1>10, <2>1, AgainFine
  <1>12. ret'.tag = "ok" /\ ret'.term = Self(token)
    BY <1>1, OkIs
  <1>13. ~Spoiled(stack, ret)
    BY <1>3, CallsUnspoiled
  <1>14. Given(stack, HandedOut(aliases)) \in SUBSET more
    BY <1>9 DEF Given
  <1> HIDE DEF token
  <1>15. QED BY <1>1, <1>2, <1>11, <1>12, <1>13, <1>14, LeaveKept

Retold(g, f, p, x) == Whole7(f) /\ g = [f EXCEPT !.pc = p, !.token = x]

LEMMA TokenSet ==
    ASSUME NEW f, NEW p, NEW x, NEW g, Retold(g, f, p, x)
    PROVE  Alike(g, f, p) /\ g.token = x
  <1>1. ASSUME NEW an, NEW pc, NEW be, NEW wa, NEW pa, NEW to, NEW sa, NEW k,
               k = [ann |-> an, pc |-> pc, before |-> be, walks |-> wa, parts |-> pa, token |-> to, saved |-> sa]
        PROVE  Alike([k EXCEPT !.pc = p, !.token = x], k, p) /\ [k EXCEPT !.pc = p, !.token = x].token = x
    BY <1>1 DEF Alike
  <1>2. Alike([f EXCEPT !.pc = p, !.token = x], f, p) /\ [f EXCEPT !.pc = p, !.token = x].token = x
    BY <1>1 DEF Whole7, Retold
  <1>3. g = [f EXCEPT !.pc = p, !.token = x]
    BY DEF Retold
  <1>4. QED BY <1>2, <1>3

LEMMA OpenTheAliasFine == ASSUME Scopes, Building, tokens \in Nat, OpenTheAlias PROVE Building'
  <1> DEFINE f == Top
             g == [Top EXCEPT !.pc = "body", !.token = tokens + 1]
             t == [stack EXCEPT ![Len(stack)] = g]
             a == TopReads.parts[1]
             o == [name |-> TopReads.name, token |-> tokens + 1, used |-> FALSE]
             H == HandedOut(aliases)
  <1>1. /\ AliasRead /\ aliases' = Append(aliases, o) /\ OpenAt(TopReads.name) = {}
        /\ stack' = t \o <<Start(a)>> /\ ret' = None /\ defs' = defs /\ tokens' = tokens + 1
    BY DEF OpenTheAlias, Call
  <1>2. /\ stack # <<>> /\ f.pc \in {"read", "evaluated"} /\ TopReads.kind = "alias" /\ TopReads = Reading[f.ann]
    BY <1>1, AliasReads
  <1>3. /\ f.ann \in Ann /\ Matched(stack, aliases, classes) /\ Whole7(f) /\ Suits(f) /\ f = Upper(stack)
        /\ ret = None
    BY <1>1, <1>2, TopHas DEF Knows, AliasRead, At, Calling
  <1>4. H = HandedOut(aliases')
    <2>1. aliases \in Seq(Opening) /\ o.used = FALSE
      BY <1>3 DEF Matched
    <2> HIDE DEF o
    <2>2. QED BY <1>1, <2>1, UnusedGives
  <1>5. f.ann \notin Anns(OpenIn(stack))
    <2> SUFFICES ASSUME NEW q \in OpenIn(stack), q[1] = f.ann PROVE FALSE
      BY DEF Anns
    <2>1. PICK k \in DOMAIN aliases : Reading[q[1]].name = aliases[k].name
      BY <1>3 DEF Matched
    <2>2. k \in OpenAt(TopReads.name)
      BY <1>2, <2>1 DEF OpenAt
    <2>3. QED BY <1>1, <2>2
  <1>6. Alike(g, f, "body") /\ g.token = tokens + 1
    <2> DEFINE tk == tokens + 1
    <2>1. Retold(g, f, "body", tk)
      BY <1>3 DEF Retold
    <2> HIDE DEF f, g, tk
    <2>2. Alike(g, f, "body") /\ g.token = tk
      BY <2>1, TokenSet
    <2>3. QED BY <2>2 DEF tk
  <1>7. PICK S : stack \in Seq(S)
    BY <1>2, TopHas
  <1>8. t = Append(Front(stack), g)
    BY <1>2, <1>7, Replaced
  <1>9. Keeping(stack, ret, H, defs, tokens) /\ ~Spoiled(stack, ret)
    BY <1>3, CallsUnspoiled DEF Building
  <1>10. g.pc = "body" /\ g.ann = f.ann /\ g.parts = <<>>
    <2>1. f.parts = <<>>
      BY <1>2, <1>3 DEF Suits
    <2>2. QED BY <1>6, <2>1 DEF Alike
  <1>11. Front(stack) \in Seq(S)
    BY <1>2, <1>7, PopIs
  <1>12. IsAlias(f.ann)
    BY <1>2 DEF IsAlias
  <1>13. a = Reading[f.ann].parts[1]
    BY <1>2
  <1> HIDE DEF g, t, a, f, H, o
  <1>14. t \in Seq(S \cup {g})
    <2>1. Front(stack) \in Seq(S \cup {g})
      <3>1. \A T, V : T \in SUBSET V => Seq(T) \in SUBSET Seq(V)
        OBVIOUS
      <3>2. QED BY <1>11, <3>1
    <2>2. QED BY <1>8, <2>1
  <1>15. OpensOne(stack, f, ret, H, defs, tokens, g, t)
    BY <1>2, <1>3, <1>5, <1>6, <1>8, <1>9, <1>10, <1>12 DEF OpensOne
  <1>16. Keeping(t, None, H, defs, tokens + 1) /\ Upper(t) = g /\ t # <<>>
    BY <1>7, <1>15, KeepsOpening
  <1>17. Waits(g) /\ a = Calls(g)
    BY <1>10, <1>13 DEF Waits, Calls
  <1>18. stack' = Append(t, Start(a))
    BY <1>1, <1>14, TwoMore
  <1>19. CallsFor(t, g, H, defs, tokens + 1, a, stack')
    BY <1>10, <1>16, <1>17, <1>18 DEF CallsFor
  <1>20. Keeping(stack', None, H, defs, tokens + 1)
    BY <1>14, <1>19, KeepsCalling
  <1>21. None.tag = "none"
    BY DEF None
  <1>22. QED BY <1>1, <1>4, <1>20, <1>21 DEF Building

-----------------------------------------------------------------------------
(* An alias closes.                                                        *)

\* What a body has come to, its alias on top with placeholder `token`: what is
\* given out below it, with it, and the schema read.
AtClose(f, token, H, less) ==
    /\ stack # <<>> /\ f = Upper(stack) /\ f.pc = "body" /\ token = f.token /\ token \in Nat \ {0}
    /\ f.ann \in Ann /\ IsAlias(f.ann) /\ Calls(f) \in PartsOf[f.ann]
    /\ H = HandedOut(aliases) /\ less = HandedOut(Front(aliases)) /\ token \notin less
    /\ H = IF aliases[Len(aliases)].used THEN less \cup {token} ELSE less
    /\ aliases[Len(aliases)].token = token /\ aliases[Len(aliases)].used \in BOOLEAN
    /\ Keeping(stack, ret, H, defs, tokens) /\ Tabled(defs)
    /\ ret.tag \in {"ok", "error"} /\ (ret.tag = "error" => Cause(ret.why, Calls(f)))
    /\ Given(Front(stack), H) = Given(Front(stack), less) /\ Given(Front(stack), H) \in SUBSET less
    /\ Given(stack, H) \ {token} = Given(Front(stack), less) /\ token \notin Given(Front(stack), less)
    /\ H = less => Given(stack, H) = Given(Front(stack), less)

LEMMA AtCloseIs ==
    ASSUME Scopes, Building, tokens \in Nat, Back("body")
    PROVE  AtClose(Top, Top.token, HandedOut(aliases), HandedOut(Front(aliases))) /\ \E S : stack \in Seq(S)
  <1> DEFINE f == Top
             token == f.token
             H == HandedOut(aliases)
             less == HandedOut(Front(aliases))
  <1>1. stack # <<>> /\ ret # None /\ f.pc = "body"
    BY DEF Back
  <1>2. /\ f = Upper(stack) /\ f.ann \in Ann /\ Suits(f) /\ Waits(f) /\ Tabled(defs)
        /\ Answered(f, ret, OpenIn(stack), Given(stack, H), defs) /\ ret.tag \in {"ok", "error"}
    BY <1>1, TopHas DEF Knows
  <1>3. PICK S : stack \in Seq(S)
    BY <1>1, TopHas
  <1>4. Keeping(stack, ret, H, defs, tokens) /\ Sound(stack, tokens)
    BY DEF Building, Keeping
  <1>5. Thread(stack, depth, aliases, classes)
    BY DEF Scopes
  <1>6. /\ IsAlias(f.ann) /\ Calls(f) \in PartsOf[f.ann]
    BY <1>1, <1>2, CallsPart DEF Suits
  <1>7. /\ aliases[Len(aliases)].token = token /\ aliases[Len(aliases)].used \in BOOLEAN /\ token \notin less
        /\ aliases[Len(aliases)].used => H = less \cup {token}
        /\ ~aliases[Len(aliases)].used => H = less
    <2> HIDE DEF f
    <2>1. QED BY <1>1, <1>2, <1>4, <1>5, BodyOpen
  <1>8. token \in Nat \ {0}
    <2>1. Pushed(stack, Front(stack), f)
      BY <1>1, <1>2, <1>3, PopIs
    <2> HIDE DEF f
    <2>2. Sits(Front(stack), f, tokens)
      BY <1>4, <2>1, SoundPushed
    <2>3. QED BY <1>1, <2>2 DEF Sits, Opened
  <1>9. H = less \/ H = less \cup {token}
    BY <1>7
  <1> HIDE DEF f, H, less
  <1>10. /\ Given(Front(stack), H) = Given(Front(stack), less) /\ Given(Front(stack), H) \in SUBSET less
         /\ Given(stack, H) \ {token} = Given(Front(stack), less) /\ token \notin Given(Front(stack), less)
         /\ H = less => Given(stack, H) = Given(Front(stack), less)
    <2>1. Below(stack, f, tokens, H, less)
      BY <1>1, <1>2, <1>4, <1>7, <1>9 DEF Below
    <2>2. QED BY <1>3, <2>1, GivenBelow
  <1>11. H = IF aliases[Len(aliases)].used THEN less \cup {token} ELSE less
    BY <1>7
  <1>12. ret.tag = "error" => Cause(ret.why, Calls(f))
    BY <1>2 DEF Answered
  <1>13. H = HandedOut(aliases) /\ less = HandedOut(Front(aliases)) /\ token = f.token
    BY DEF H, less
  <1> HIDE DEF token
  <1>14. AtClose(f, token, H, less)
    BY <1>1, <1>2, <1>4, <1>6, <1>7, <1>8, <1>10, <1>11, <1>12, <1>13 DEF AtClose
  <1>15. QED BY <1>3, <1>14 DEF f, token, H, less

\* What the alias leaves: the table ds, and v.
Leaving1(f, ds, v) ==
    /\ stack' = Front(stack) /\ aliases' = Front(aliases) /\ tokens' = tokens /\ defs' = ds /\ ret' = v

LEMMA ClosedKept ==
    ASSUME NEW S, stack \in Seq(S), NEW f, NEW token, NEW H, NEW less, AtClose(f, token, H, less), NEW ds, NEW v,
           Leaving1(f, ds, v), ClosesOne(stack, f, ret, H, defs, tokens, less, ds, v)
    PROVE  Building'
  <1>1. Keeping(Front(stack), v, less, ds, tokens)
    BY KeepsClosing
  <1>2. v.tag \in {"ok", "error"}
    BY DEF ClosesOne
  <1>3. stack' = Front(stack) /\ HandedOut(aliases') = less /\ tokens' = tokens /\ defs' = ds /\ ret' = v
    BY DEF Leaving1, AtClose
  <1>4. QED BY <1>1, <1>2, <1>3 DEF Building

\* An alias refused, or refused above: whatever the table becomes below it.
LEMMA ClosedRefused ==
    ASSUME NEW S, stack \in Seq(S), NEW f, NEW token, NEW H, NEW less, AtClose(f, token, H, less), NEW ds, NEW v,
           Leaving1(f, ds, v), Tabled(ds), Grew(Given(Front(stack), H), defs, ds), v.tag = "error", Cause(v.why, f.ann)
    PROVE  Building'
  <1>1. ClosesOne(stack, f, ret, H, defs, tokens, less, ds, v)
    BY DEF ClosesOne, AtClose
  <1>2. QED BY <1>1, ClosedKept

LEMMA ClosedAs ==
    ASSUME NEW S, stack \in Seq(S), NEW f, NEW token, NEW H, NEW less, AtClose(f, token, H, less), NEW ds, NEW v,
           Leaving1(f, ds, v), Tabled(ds), Grew(Given(Front(stack), H), defs, ds), v.tag = "ok",
           WholeTable(ds, Given(Front(stack), less)), Fine(v.term, f.ann, OpenIn(Front(stack)), Given(Front(stack), less), ds)
    PROVE  Building'
  <1>1. ClosesOne(stack, f, ret, H, defs, tokens, less, ds, v)
    BY DEF ClosesOne, AtClose
  <1>2. QED BY <1>1, ClosedKept

LEMMA GrewSame == \A T, ds : Grew(T, ds, ds)
  BY DEF Grew

(* The body is refused, or never named its alias.                          *)
LEMMA BodyPassedFine ==
    ASSUME NEW S, stack \in Seq(S), NEW f, NEW token, NEW H, NEW less, AtClose(f, token, H, less),
           Leaving1(f, defs, ret), ret.tag = "error" \/ ~aliases[Len(aliases)].used
    PROVE  Building'
  <1>1. Tabled(defs) /\ Grew(Given(Front(stack), H), defs, defs) /\ ret.tag \in {"ok", "error"}
    BY GrewSame DEF AtClose
  <1>2. CASE ret.tag = "error"
    <2>1. f.ann \in Ann /\ Calls(f) \in PartsOf[f.ann] /\ Cause(ret.why, Calls(f))
      BY <1>2 DEF AtClose
    <2>2. Cause(ret.why, f.ann)
      BY <2>1, CauseOfPart
    <2>3. QED BY <1>1, <1>2, <2>2, ClosedRefused
  <1>3. CASE ret.tag = "ok" /\ ~aliases[Len(aliases)].used
    <2> DEFINE T == Given(stack, H)
               Q == OpenIn(Front(stack))
               r == ret.term
               b == Calls(f)
    <2>1. T = Given(Front(stack), less) /\ token \notin T
      BY <1>3 DEF AtClose
    <2>2. Closing(Q, f.ann, f.token, b, r, defs, T) /\ WholeTable(defs, T)
      BY <1>3, ClosingIs DEF AtClose
    <2>3. token = f.token
      BY DEF AtClose
    <2> HIDE DEF T, Q, r, b
    <2>4. /\ f.ann \in Ann /\ IsAlias(f.ann) /\ f.ann \notin Anns(Q) /\ PartsOf[f.ann] = {b}
          /\ Tabled(defs) /\ Fine(r, b, Q \cup {<<f.ann, token>>}, T, defs)
      BY <2>2, <2>3 DEF Closing
    <2>5. Fine(r, f.ann, Q, T, defs)
      BY <2>1, <2>4, ClosesUnused
    <2>6. /\ WholeTable(defs, Given(Front(stack), less))
          /\ Fine(ret.term, f.ann, OpenIn(Front(stack)), Given(Front(stack), less), defs)
      BY <2>1, <2>2, <2>5 DEF Q, r
    <2>7. QED BY <1>1, <1>3, <2>6, ClosedAs
  <1>4. QED BY <1>1, <1>2, <1>3

\* The body with its references to the alias resolved, and the table so.
Tying(f, token, H, at, body, ds) ==
    /\ at = Len(defs) + 1 /\ body = Resolved(ret.term, token, at) /\ ds = ResolvedAll(defs, token, at)
    /\ ret.tag = "ok" /\ aliases[Len(aliases)].used
    /\ Closing(OpenIn(Front(stack)), f.ann, token, Calls(f), ret.term, defs, Given(stack, H))

LEMMA TyingTells ==
    ASSUME NEW S, stack \in Seq(S), NEW f, NEW token, NEW H, NEW less, AtClose(f, token, H, less),
           NEW at, NEW body, NEW ds, Tying(f, token, H, at, body, ds)
    PROVE  /\ Tabled(ds) /\ Grew(Given(Front(stack), H), defs, ds) /\ DOMAIN ds = DOMAIN defs
           /\ Unguarded(at, body, ds) => Cause("bare", f.ann)
  <1> DEFINE T == Given(stack, H)
             Q == OpenIn(Front(stack))
             r == ret.term
             b == Calls(f)
  <1>1. /\ at = Len(defs) + 1 /\ body = Resolved(r, token, at) /\ ds = ResolvedAll(defs, token, at)
        /\ Closing(Q, f.ann, token, b, r, defs, T)
    BY DEF Tying
  <1>2. token \in Nat \ {0} /\ token \notin Given(Front(stack), H) /\ Tabled(defs)
    BY DEF AtClose
  <1>3. at \in Nat \ {0}
    BY <1>1, <1>2, TabledIs
  <1>4. Tabled(ds) /\ DOMAIN ds = DOMAIN defs /\ (\A V : token \notin V => Grew(V, defs, ds))
    BY <1>1, <1>2, <1>3, ResolvedAllIs
  <1> HIDE DEF T, Q, r, b
  <1>5. ASSUME Unguarded(at, body, ds) PROVE Cause("bare", f.ann)
    <2>1. Fine(r, b, Q \cup {<<f.ann, token>>}, T, defs)
      BY <1>1 DEF Closing
    <2>2. Sealed(r, T, defs) /\ r \in Seq(Plain)
      BY <2>1 DEF Fine, Orderly
    <2>3. token \in BareToks(r, defs)
      BY <1>1, <1>2, <1>5, <2>2, UnguardedTells
    <2>4. NotContractive(f.ann)
      BY <1>1, <2>3, ClosesBare
    <2>5. QED BY <2>4 DEF Cause
  <1>6. QED BY <1>2, <1>4, <1>5

(* The alias is not contractive.                                           *)
LEMMA BareFine ==
    ASSUME NEW S, stack \in Seq(S), NEW f, NEW token, NEW H, NEW less, AtClose(f, token, H, less),
           NEW at, NEW body, NEW ds, Tying(f, token, H, at, body, ds), Unguarded(at, body, ds),
           Leaving1(f, ds, Err("bare"))
    PROVE  Building'
  <1> DEFINE v == Err("bare")
  <1>1. Tabled(ds) /\ Grew(Given(Front(stack), H), defs, ds) /\ Cause("bare", f.ann)
    BY TyingTells
  <1>2. v.tag = "error" /\ v.why = "bare"
    BY ErrIs
  <1>3. Cause(v.why, f.ann) /\ Leaving1(f, ds, v)
    BY <1>1, <1>2
  <1> HIDE DEF v
  <1>4. QED BY <1>1, <1>2, <1>3, ClosedRefused

(* The definition the body would be is one the table holds.                *)
LEMMA HeldFine ==
    ASSUME NEW S, stack \in Seq(S), NEW f, NEW token, NEW H, NEW less, AtClose(f, token, H, less),
           NEW at, NEW body, NEW ds, Tying(f, token, H, at, body, ds), ~Unguarded(at, body, ds),
           NamedByNone(token, defs),
           NEW k \in HeldAlready(body, at, ds), Leaving1(f, ds, Ok(Ref(k)))
    PROVE  Building'
  <1> DEFINE v == Ok(Ref(k))
             Q == OpenIn(Front(stack))
             T == Given(stack, H)
             U == Given(Front(stack), less)
             r == ret.term
             b == Calls(f)
  <1>1. Tabled(ds) /\ Grew(Given(Front(stack), H), defs, ds)
    BY TyingTells
  <1>2. v.tag = "ok" /\ v.term = Ref(k)
    BY OkIs
  <1>3. /\ at = Len(defs) + 1 /\ body = Resolved(r, token, at) /\ ds = ResolvedAll(defs, token, at)
        /\ Closing(Q, f.ann, token, b, r, defs, T)
    BY DEF Tying
  <1>4. T \ {token} = U
    BY DEF AtClose
  <1>5. Leaving1(f, ds, v)
    OBVIOUS
  <1> HIDE DEF T, Q, r, b, U, v
  <1>6. WholeTable(ds, T \ {token}) /\ Fine(Ref(k), f.ann, Q, T \ {token}, ds)
    <2>1. TyingHeld(at, body, ds, r, token, defs)
      BY <1>3 DEF TyingHeld
    <2>2. EndsHeld(Q, f.ann, token, T, k, ds, defs)
      BY <1>3, <2>1, ClosesHeld
    <2>3. QED BY <2>2 DEF EndsHeld
  <1>7. WholeTable(ds, U) /\ Fine(v.term, f.ann, Q, U, ds)
    BY <1>2, <1>4, <1>6
  <1>8. QED BY <1>1, <1>2, <1>5, <1>7, ClosedAs DEF U, Q

(* The alias becomes a definition.                                         *)
LEMMA AddedFine ==
    ASSUME NEW S, stack \in Seq(S), NEW f, NEW token, NEW H, NEW less, AtClose(f, token, H, less),
           NEW at, NEW body, NEW ds, Tying(f, token, H, at, body, ds), ~Unguarded(at, body, ds),
           NEW more, more = Append(ds, body), Leaving1(f, more, Ok(Ref(at)))
    PROVE  Building'
  <1> DEFINE v == Ok(Ref(at))
             Q == OpenIn(Front(stack))
             T == Given(stack, H)
             U == Given(Front(stack), less)
             r == ret.term
             b == Calls(f)
  <1>1. Tabled(ds) /\ Grew(Given(Front(stack), H), defs, ds) /\ DOMAIN ds = DOMAIN defs
    BY TyingTells
  <1>2. v.tag = "ok" /\ v.term = Ref(at)
    BY OkIs
  <1>3. /\ at = Len(defs) + 1 /\ body = Resolved(r, token, at) /\ ds = ResolvedAll(defs, token, at)
        /\ Closing(Q, f.ann, token, b, r, defs, T)
    BY DEF Tying
  <1>4. T \ {token} = U
    BY DEF AtClose
  <1>5. Leaving1(f, more, v)
    OBVIOUS
  <1> HIDE DEF T, Q, r, b, U, v
  <1>6. Tabled(more) /\ WholeTable(more, T \ {token}) /\ Fine(Ref(at), f.ann, Q, T \ {token}, more)
    BY <1>3, ClosesNew
  <1>7. WholeTable(more, U) /\ Fine(v.term, f.ann, Q, U, more)
    BY <1>2, <1>4, <1>6
  <1>8. Grew(Given(Front(stack), H), defs, more)
    <2>1. DOMAIN more = DOMAIN ds \cup {Len(ds) + 1} /\ \A d \in DOMAIN ds : more[d] = ds[d]
      BY <1>1, AppendAt DEF Tabled
    <2>2. QED BY <1>1, <2>1 DEF Grew
  <1>9. QED BY <1>2, <1>5, <1>6, <1>7, <1>8, ClosedAs DEF U, Q

(* Where no definition dropped is named, a body held already is named by none. *)
LEMMA NamedWhereDropped ==
    ASSUME NEW at, at = Len(defs) + 1, NEW token, token = aliases[Len(aliases)].token,
           NEW body, body = Resolved(ret.term, token, at), NEW ds, ds = ResolvedAll(defs, token, at),
           Back("body"), ret.tag = "ok", aliases[Len(aliases)].used,
           ~Unguarded(at, body, ds), HeldAlready(body, at, ds) # {}, ~DropsWhatIsNamed
    PROVE  NamedByNone(token, defs)
  <1>1. ~ \E d \in DOMAIN defs : IsNamedIn(token, defs[d])
    BY DEF DropsWhatIsNamed
  <1>2. \A t : token \in Selfs(t) => IsNamedIn(token, t)
    BY DEF Selfs, IsNamedIn
  <1>3. QED BY <1>1, <1>2 DEF NamedByNone

LEMMA BodyReturnFine == ASSUME Scopes, Building, tokens \in Nat, BodyReturn, ~DropsWhatIsNamed PROVE Building'
  <1> DEFINE f     == Top
             token == f.token
             H     == HandedOut(aliases)
             less  == HandedOut(Front(aliases))
             at    == Len(defs) + 1
             body  == Resolved(ret.term, token, at)
             ds    == ResolvedAll(defs, token, at)
             same  == HeldAlready(body, at, ds)
             more  == Append(ds, body)
             k     == CHOOSE d \in same : \A e \in same : d <= e
  <1>1. Back("body")
    BY DEF BodyReturn
  <1>2. AtClose(f, token, H, less)
    BY <1>1, AtCloseIs
  <1>3. PICK S : stack \in Seq(S)
    BY <1>1, AtCloseIs
  <1>4. aliases[Len(aliases)].token = token
    BY <1>2 DEF AtClose
  <1>5. /\ stack' = Front(stack) /\ aliases' = Front(aliases) /\ tokens' = tokens
        /\ \/ (ret.tag = "error" \/ ~aliases[Len(aliases)].used) /\ ret' = ret /\ defs' = defs
           \/ /\ ret.tag = "ok" /\ aliases[Len(aliases)].used
              /\ \/ Unguarded(at, body, ds) /\ ret' = Err("bare") /\ defs' = ds
                 \/ ~Unguarded(at, body, ds) /\ same # {} /\ ret' = Ok(Ref(k)) /\ defs' = ds
                 \/ ~Unguarded(at, body, ds) /\ same = {} /\ ret' = Ok(Ref(at)) /\ defs' = more
    <2>1. stack' = Front(stack) /\ aliases' = Front(aliases) /\ tokens' = tokens
      BY DEF BodyReturn, AliasesLeft, Leave, Pop, Front
    <2>2. LET tk == aliases[Len(aliases)].token
              bd == Resolved(ret.term, tk, at)
              es == ResolvedAll(defs, tk, at)
              sm == HeldAlready(bd, at, es)
          IN  \/ (ret.tag = "error" \/ ~aliases[Len(aliases)].used) /\ ret' = ret /\ defs' = defs
              \/ /\ ret.tag = "ok" /\ aliases[Len(aliases)].used
                 /\ \/ Unguarded(at, bd, es) /\ ret' = Err("bare") /\ defs' = es
                    \/ /\ ~Unguarded(at, bd, es) /\ sm # {}
                       /\ ret' = Ok(Ref(CHOOSE d \in sm : \A e \in sm : d <= e)) /\ defs' = es
                    \/ ~Unguarded(at, bd, es) /\ sm = {} /\ ret' = Ok(Ref(at)) /\ defs' = Append(es, bd)
      BY DEF BodyReturn, Leave
    <2> HIDE DEF token
    <2>3. QED BY <1>4, <2>1, <2>2
  <1>6. CASE (ret.tag = "error" \/ ~aliases[Len(aliases)].used) /\ ret' = ret /\ defs' = defs
    <2>1. Leaving1(f, defs, ret)
      BY <1>5, <1>6 DEF Leaving1
    <2> HIDE DEF f, token, H, less
    <2>2. QED BY <1>2, <1>3, <1>6, <2>1, BodyPassedFine
  <1>7. ASSUME ret.tag = "ok", aliases[Len(aliases)].used PROVE Tying(f, token, H, at, body, ds)
    <2>1. Closing(OpenIn(Front(stack)), f.ann, f.token, Calls(f), ret.term, defs, Given(stack, H))
      <3> HIDE DEF f
      <3>1. QED BY <1>2, <1>3, <1>7, ClosingIs DEF AtClose
    <2>2. QED BY <1>7, <2>1 DEF Tying
  <1> HIDE DEF f, token, H, less, at, body, ds, same, more
  <1>8. CASE ret.tag = "ok" /\ aliases[Len(aliases)].used /\ Unguarded(at, body, ds) /\ ret' = Err("bare") /\ defs' = ds
    <2>1. Leaving1(f, ds, Err("bare"))
      BY <1>5, <1>8 DEF Leaving1
    <2>2. QED BY <1>2, <1>3, <1>7, <1>8, <2>1, BareFine
  <1>9. CASE /\ ret.tag = "ok" /\ aliases[Len(aliases)].used
             /\ ~Unguarded(at, body, ds) /\ same # {} /\ ret' = Ok(Ref(k)) /\ defs' = ds
    <2>1. Leaving1(f, ds, Ok(Ref(k)))
      BY <1>5, <1>9 DEF Leaving1
    <2>2. Tying(f, token, H, at, body, ds) /\ Tabled(ds)
      BY <1>2, <1>3, <1>7, <1>9, TyingTells
    <2>3. k \in same
      <3>1. same \in SUBSET DOMAIN ds
        BY DEF same, HeldAlready
      <3>2. DOMAIN ds \in SUBSET Nat
        BY <2>2, TabledIs
      <3>3. \E d \in same : \A e \in same : d <= e
        BY <1>9, <3>1, <3>2, LeastNumber
      <3>4. QED BY <3>3
    <2>4. NamedByNone(token, defs)
      BY <1>1, <1>4, <1>9, NamedWhereDropped DEF at, body, ds, same
    <2> HIDE DEF k
    <2>5. k \in HeldAlready(body, at, ds)
      BY <2>3 DEF same
    <2>6. QED BY <1>2, <1>3, <1>9, <2>1, <2>2, <2>4, <2>5, HeldFine
  <1>10. CASE /\ ret.tag = "ok" /\ aliases[Len(aliases)].used
              /\ ~Unguarded(at, body, ds) /\ same = {} /\ ret' = Ok(Ref(at)) /\ defs' = more
    <2>1. Leaving1(f, more, Ok(Ref(at))) /\ more = Append(ds, body)
      BY <1>5, <1>10 DEF Leaving1, more
    <2>2. QED BY <1>2, <1>3, <1>7, <1>10, <2>1, AddedFine
  <1>11. QED BY <1>5, <1>6, <1>8, <1>9, <1>10

-----------------------------------------------------------------------------
(* A build ends.                                                           *)

RefsIn(ds) == [d \in DOMAIN ds |-> Refs(ds[d])]

LEMMA KeptIsGood ==
    ASSUME NEW T, NEW ds, Tabled(ds), NEW t, Sealed(t, T, ds)
    PROVE  Kept(t, ds) \in SUBSET Good(T, ds)
  <1> DEFINE G == Good(T, ds)
             names == RefsIn(ds)
  <1>1. G \in SUBSET (DOMAIN ds) /\ ShutIn(G, T, ds)
    BY GoodIs
  <1>2. DOMAIN names = DOMAIN ds /\ (\A d \in DOMAIN ds : names[d] = Refs(ds[d])) /\ IsFiniteSet(DOMAIN names)
    BY TabledIs DEF RefsIn
  <1>3. Kept(t, ds) = Closure(Refs(t), names) \cap DOMAIN ds
    BY DEF Kept, RefsIn
  <1> HIDE DEF names, G
  <1>4. Shut(G, names)
    BY <1>1, <1>2 DEF Shut, ShutIn
  <1>5. Refs(t) \in SUBSET G
    BY DEF Sealed, G
  <1>6. Closure(Refs(t), names) \in SUBSET G
    BY <1>2, <1>4, <1>5, ClosureIs
  <1>7. QED BY <1>3, <1>6 DEF G

LEMMA SealedIn == \A t : Selfs(t) = {} => ~Escapes(t)
  BY DEF Selfs, Escapes

(* No placeholder is left in a schema sealed with none given out.          *)
LEMMA CheckedIs ==
    ASSUME NEW ds, Tabled(ds), NEW t, Sealed(t, {}, ds)
    PROVE  Checked(t, ds) \in {Err("deep"), Err("definitions"), Err("large"), Ok(t)}
  <1> DEFINE keep == [d \in Kept(t, ds) |-> ds[d]]
  <1>1. DOMAIN keep = Kept(t, ds) /\ \A d \in DOMAIN keep : keep[d] = ds[d]
    OBVIOUS
  <1>2. ~Escapes(t)
    BY SealedIn DEF Sealed
  <1>3. \A d \in Kept(t, ds) : ~Escapes(ds[d])
    <2>1. \A d \in Kept(t, ds) : Selfs(ds[d]) = {}
      <3> DEFINE K == Kept(t, ds)
                 G == Good({}, ds)
      <3>1. K \in SUBSET G
        BY KeptIsGood
      <3>2. ShutIn(G, {}, ds)
        BY GoodIs
      <3> HIDE DEF K, G
      <3>3. \A d \in K : Selfs(ds[d]) = {}
        BY <3>1, <3>2 DEF ShutIn
      <3>4. QED BY <3>3 DEF K
    <2>2. QED BY <2>1, SealedIn
  <1>4. Checked(t, ds) = IF Deep(t) \/ \E d \in DOMAIN keep : Deep(keep[d]) THEN Err("deep")
                         ELSE IF Cardinality(DOMAIN keep) > MaxDefinitions THEN Err("definitions")
                         ELSE IF Nodes(t, keep) > MaxSchemaNodes THEN Err("large")
                         ELSE IF Escapes(t) \/ \E d \in DOMAIN keep : Escapes(keep[d]) THEN Err("unresolved")
                         ELSE Ok(t)
    BY DEF Checked
  <1> HIDE DEF keep
  <1>5. ~(Escapes(t) \/ \E d \in DOMAIN keep : Escapes(keep[d]))
    BY <1>1, <1>2, <1>3
  <1>6. QED BY <1>4, <1>5

LEMMA OkWhy == \A t : Ok(t).why = Blank
  BY DEF Ok, Blank

LEMMA NoneWhy == None.why = Blank /\ None.tag = "none"
  BY DEF None, Blank

\* What a build that has ended is known to be.
EndsFine(r, a, ds) ==
    /\ r.tag = "error" => Cause(r.why, a)
    /\ r.tag = "ok" => /\ r.why = Blank /\ ~NotContractive(a) /\ ~NeverEnds(a)
                     /\ Tabled(ds) /\ Sealed(r.term, {}, ds)
    /\ r.tag \in {"ok", "error"}
Caused == last.result = None \/ EndsFine(last.result, last.ann, last.defs)

LEMMA RootReturnFine ==
    ASSUME Scopes, Building, tokens \in Nat, RootReturn
    PROVE  Building' /\ Caused'
  <1> DEFINE f == Top
             r == IF ret.tag = "ok" THEN Checked(ret.term, defs) ELSE ret
             H == HandedOut(aliases)
             t == ret.term
  <1>1. /\ stack # <<>> /\ ret # None /\ f.pc = "root" /\ stack' = Front(stack) /\ ret' = r /\ tokens' = tokens
        /\ aliases' = f.saved.aliases /\ defs' = f.saved.defs
        /\ last' = [ann |-> f.ann, result |-> r, defs |-> defs]
    BY DEF RootReturn, Back, Pop, Front
  <1>2. /\ f = Upper(stack) /\ f.ann \in Ann /\ Tabled(defs) /\ Answered(f, ret, OpenIn(stack), Given(stack, H), defs)
        /\ ret.tag \in {"ok", "error"}
    BY <1>1, TopHas DEF Knows
  <1>3. PICK S : stack \in Seq(S)
    BY <1>1, TopHas
  <1>4. Calls(f) = f.ann
    BY <1>1 DEF Calls
  <1>5. OpenIn(stack) = {} /\ Given(stack, H) = {} /\ Anns(OpenIn(stack)) = {}
    <2>1. Pushed(stack, Front(stack), f)
      BY <1>1, <1>2, <1>3, PopIs
    <2> HIDE DEF f
    <2>2. OpenIn(stack) = {}
      BY <1>1, <2>1, InBuildPushed
    <2>3. QED BY <2>2 DEF Given, Toks, Anns
  <1>6. Keeping(stack, ret, H, defs, tokens)
    BY DEF Building
  <1> HIDE DEF f, r, H
  <1>7. EndsFine(r, f.ann, defs)
    <2>1. CASE ret.tag = "error"
      <3>1. r = ret
        BY <2>1 DEF r
      <3>2. Cause(ret.why, f.ann)
        BY <1>2, <1>4, <2>1 DEF Answered
      <3>3. QED BY <2>1, <3>1, <3>2 DEF EndsFine
    <2>2. CASE ret.tag = "ok"
      <3>1. r = Checked(t, defs)
        BY <2>2 DEF r
      <3>2. Fine(t, f.ann, {}, {}, defs)
        BY <1>2, <1>4, <1>5, <2>2 DEF Answered
      <3> HIDE DEF t
      <3>3. Sealed(t, {}, defs) /\ Tame(f.ann, {})
        <4>1. Anns({}) = {}
          BY DEF Anns
        <4>2. QED BY <3>2, <4>1 DEF Fine
      <3>4. ~NotContractive(f.ann) /\ ~NeverEnds(f.ann)
        BY <1>2, <3>3, TameIsSound
      <3>5. r \in {Err("deep"), Err("definitions"), Err("large"), Ok(t)}
        BY <1>2, <3>1, <3>3, CheckedIs
      <3>6. CASE r = Ok(t)
        <4>1. r.tag = "ok" /\ r.why = Blank /\ r.term = t
          BY <3>6, OkIs, OkWhy
        <4>2. QED BY <1>2, <3>3, <3>4, <4>1 DEF EndsFine
      <3>7. CASE r \in {Err("deep"), Err("definitions"), Err("large")}
        <4>1. r.tag = "error" /\ r.why \in {"deep", "large", "definitions"}
          BY <3>7, ErrIs
        <4>2. QED BY <4>1, CausedByBounds DEF EndsFine
      <3>8. QED BY <3>5, <3>6, <3>7
    <2>3. QED BY <1>2, <2>1, <2>2
  <1>8. Caused'
    BY <1>1, <1>7 DEF Caused
  <1>9. Keeping(Front(stack), r, HandedOut(f.saved.aliases), f.saved.defs, tokens)
    BY <1>1, <1>2, <1>3, <1>6, KeepsBuilt
  <1>10. Building'
    BY <1>1, <1>7, <1>9 DEF Building, EndsFine
  <1>11. QED BY <1>8, <1>10

-----------------------------------------------------------------------------
(* Every refusal has its cause.                                            *)

\* What the frontend keeps at every step: the scopes of the thread, what its frames
\* and the table stand for, and what the build that ended last came to.
BuildInv == ScopesInv /\ Building /\ Caused

LEMMA StartsBuilding == Init => BuildInv
  <1> SUFFICES ASSUME Init PROVE BuildInv
    OBVIOUS
  <1>1. ScopesInv
    BY ScopesInInit
  <1>2. last = [ann |-> NoAnn, result |-> None, defs |-> <<>>] /\ stack = <<>> /\ ret = None /\ defs = <<>>
    BY DEF Init
  <1>3. Caused
    <2> DEFINE r == None
    <2>1. last = [ann |-> NoAnn, result |-> r, defs |-> <<>>]
      BY <1>2
    <2> HIDE DEF r
    <2>2. last.result = r
      BY <2>1
    <2>3. QED BY <2>2 DEF Caused, r
  <1>4. Building
    <2>1. /\ Sound(<<>>, tokens) /\ SegFine(<<>>, HandedOut(aliases), <<>>) /\ Tabled(<<>>)
          /\ WholeUnder(<<>>, HandedOut(aliases), <<>>)
      BY OnNothing DEF WholeUnder
    <2>2. QED BY <1>2, <2>1, AnswersNone DEF Building, Keeping
  <1>5. QED BY <1>1, <1>3, <1>4 DEF BuildInv

LEMMA BuildingUnchanged == ASSUME Building, UNCHANGED vars PROVE Building'
  BY DEF Building, vars, counts, open

\* Only the end of a build is the end of one.
LEMMA LastStays ==
    ASSUME [Next]_vars, ~RootReturn
    PROVE  last' = last
  BY DEF Next, Step, Begin, Enter, ReadScalar, ReadValidator, ReadRefused, ReadParts, BuildPart,
         PartReturn, PartsBuilt, EnterClass, Evaluate, Evaluated, AliasAgain, OpenTheAlias,
         BodyReturn, vars

LEMMA KeepsBuilding ==
    ASSUME Scopes, Building, tokens \in Nat, [Next]_vars, ~DropsWhatIsNamed
    PROVE  Building'
  <1>1. CASE Begin
    BY <1>1, BeginFine
  <1>2. CASE Enter
    BY <1>2, EnterFine
  <1>3. CASE ReadScalar
    BY <1>3, ReadScalarFine
  <1>4. CASE ReadValidator
    BY <1>4, ReadValidatorFine
  <1>5. CASE ReadRefused
    BY <1>5, ReadRefusedFine
  <1>6. CASE ReadParts
    BY <1>6, ReadPartsFine
  <1>7. CASE BuildPart
    BY <1>7, BuildPartFine
  <1>8. CASE PartReturn
    BY <1>8, PartReturnFine
  <1>9. CASE PartsBuilt
    BY <1>9, PartsBuiltFine
  <1>10. CASE EnterClass
    BY <1>10, EnterClassFine
  <1>11. CASE Evaluate
    BY <1>11, EvaluateFine
  <1>12. CASE Evaluated
    BY <1>12, EvaluatedFine
  <1>13. CASE AliasAgain
    BY <1>13, AliasAgainFine
  <1>14. CASE OpenTheAlias
    BY <1>14, OpenTheAliasFine
  <1>15. CASE BodyReturn
    BY <1>15, BodyReturnFine
  <1>16. CASE RootReturn
    BY <1>16, RootReturnFine
  <1>17. CASE UNCHANGED vars
    BY <1>17, BuildingUnchanged
  <1>18. QED BY <1>1, <1>2, <1>3, <1>4, <1>5, <1>6, <1>7, <1>8, <1>9, <1>10, <1>11, <1>12, <1>13,
               <1>14, <1>15, <1>16, <1>17 DEF Next, Step

LEMMA BuildInductive == BuildInv /\ [Next]_vars /\ ~DropsWhatIsNamed => BuildInv'
  <1> SUFFICES ASSUME ScopesInv, Building, Caused, [Next]_vars, ~DropsWhatIsNamed PROVE BuildInv'
    BY DEF BuildInv
  <1>1. Scopes /\ tokens \in Nat
    BY DEF ScopesInv
  <1>2. ScopesInv'
    BY ScopesInductive
  <1>3. Building'
    BY <1>1, KeepsBuilding
  <1>4. Caused'
    <2>1. CASE RootReturn
      BY <1>1, <2>1, RootReturnFine
    <2>2. CASE ~RootReturn
      BY <2>2, LastStays DEF Caused
    <2>3. QED BY <2>1, <2>2
  <1>5. QED BY <1>2, <1>3, <1>4 DEF BuildInv

LEMMA CausedIsEnough == ASSUME Caused PROVE RefusedForCause
  <1> DEFINE r == last.result
             a == last.ann
  <1>1. r.why # Blank => r # None
    BY NoneWhy
  <1>2. r.tag = "ok" => r # None
    BY NoneWhy
  <1>3. Blank \notin {"bare", "class", "refused", "unresolved"}
    BY Zenon DEF Blank
  <1>4. r = None \/ EndsFine(r, a, last.defs)
    BY DEF Caused
  <1>5. ASSUME NEW w \in {"bare", "class", "refused", "unresolved"}, r.why = w PROVE Cause(w, a)
    BY <1>1, <1>3, <1>4, <1>5 DEF EndsFine
  <1>6. r.tag = "ok" => ~NotContractive(a) /\ ~NeverEnds(a)
    BY <1>2, <1>4 DEF EndsFine
  <1>7. QED BY <1>5, <1>6 DEF RefusedForCause, Refused, EndedOk, Cause

LEMMA HoldsWhatItNames == ASSUME Caused PROVE NamesWhatItHolds
  <1> SUFFICES ASSUME EndedOk,
                      NEW t \in {last.result.term} \cup {last.defs[d] : d \in Kept(last.result.term, last.defs)}
               PROVE  Refs(t) \subseteq DOMAIN last.defs
    BY DEF NamesWhatItHolds
  <1> DEFINE ds == last.defs
             r  == last.result.term
             G  == Good({}, ds)
  <1>1. Tabled(ds) /\ Sealed(r, {}, ds)
    BY NoneWhy DEF Caused, EndsFine, EndedOk
  <1>2. G \in SUBSET (DOMAIN ds) /\ ShutIn(G, {}, ds)
    BY GoodIs
  <1>3. Kept(r, ds) \in SUBSET G
    BY <1>1, KeptIsGood
  <1>4. Refs(r) \in SUBSET G
    BY <1>1 DEF Sealed
  <1> HIDE DEF G, ds, r
  <1>5. \A d \in Kept(r, ds) : Refs(ds[d]) \in SUBSET G
    BY <1>2, <1>3 DEF ShutIn
  <1>6. t = r \/ \E d \in Kept(r, ds) : t = ds[d]
    BY DEF r, ds
  <1>7. Refs(t) \in SUBSET G
    BY <1>4, <1>5, <1>6
  <1>8. QED BY <1>2, <1>7 DEF ds

LEMMA WholeAtEnds == ASSUME Building PROVE TableIsWhole
  <1> SUFFICES ASSUME ret.tag = "ok", NEW d \in DOMAIN defs PROVE Refs(defs[d]) \subseteq DOMAIN defs
    BY DEF TableIsWhole
  <1>1. ~Spoiled(stack, ret)
    BY DEF Spoiled
  <1>2. WholeTable(defs, Given(stack, HandedOut(aliases)))
    BY <1>1 DEF Building, Keeping, WholeUnder
  <1>3. QED BY <1>2 DEF WholeTable

(* While no alias is closed on a definition the table holds with its own   *)
(* placeholder named in the table: whatever aliases are tied, refused,     *)
(* found held and dropped, and whatever builds run inside the build, what  *)
(* a definition names is in the table wherever a descent ends with a       *)
(* schema, and a finished schema, with the definitions it reaches, names   *)
(* none the table has not.  It is the only step that breaks either.        *)
THEOREM TablesStayWhole == Spec /\ []~DropsWhatIsNamed => []TableIsWhole /\ []NamesWhatItHolds
  <1>1. BuildInv => TableIsWhole
    BY WholeAtEnds DEF BuildInv
  <1>2. BuildInv => NamesWhatItHolds
    BY HoldsWhatItNames DEF BuildInv
  <1>3. QED BY <1>1, <1>2, StartsBuilding, BuildInductive, PTL DEF Spec

(* While no alias is closed so: whatever builds the thread makes, and      *)
(* whatever code they run, an annotation is refused as not contractive, as *)
(* a class of itself or as what has no reading only if its own graph is    *)
(* so, no placeholder escapes, and one that is accepted neither names      *)
(* itself bare nor goes on for ever without an alias.                      *)
THEOREM RefusedForACause == Spec /\ []~DropsWhatIsNamed => []RefusedForCause
  <1>1. BuildInv => RefusedForCause
    BY CausedIsEnough DEF BuildInv
  <1>2. QED BY <1>1, StartsBuilding, BuildInductive, PTL DEF Spec
=============================================================================
