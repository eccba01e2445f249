------------------------------ MODULE MCBuild ------------------------------
(***************************************************************************)
(* Instances of the schema frontend: tables of annotations.                *)
(***************************************************************************)
EXTENDS BuildMeaning

Row(kind, name, parts) == [kind |-> kind, name |-> name, parts |-> parts, whole |-> 0, runs |-> ""]
Form(name, parts)  == Row("form", name, parts)
Join(parts)        == Row("join", "", parts)
Alias(name, value) == Row("alias", name, <<value>>)
Running(row, a)    == [row EXCEPT !.runs = a]
OfNodes(n)          == [Row("validator", "v", <<>>) EXCEPT !.whole = n]

Scalars == ("int" :> Row("scalar", "int", <<>>)) @@ ("str" :> Row("scalar", "str", <<>>))
             @@ ("bad" :> Row("refused", "", <<>>))

(* Aliases, classes, and validators built as an annotation is read.         *)
Aliases ==
    Scalars
    \* A and B alike; each in its own fixpoint.
    @@ ("A" :> Alias("A", "A_")) @@ ("A_" :> Join(<<"int", "[A]">>)) @@ ("[A]" :> Form("list", <<"A">>))
    @@ ("B" :> Alias("B", "B_")) @@ ("B_" :> Join(<<"int", "[B]">>)) @@ ("[B]" :> Form("list", <<"B">>))
    @@ ("A|B" :> Join(<<"A", "B">>)) @@ ("A,B" :> Form("tuple", <<"A", "B">>))
    @@ ("A,A" :> Form("tuple", <<"A", "A">>)) @@ ("A|A_" :> Join(<<"A", "A_">>))
    \* E and F name each other.
    @@ ("E" :> Alias("E", "E_")) @@ ("E_" :> Join(<<"int", "[F]">>)) @@ ("[E]" :> Form("list", <<"E">>))
    @@ ("F" :> Alias("F", "F_")) @@ ("F_" :> Join(<<"str", "[E]">>)) @@ ("[F]" :> Form("list", <<"F">>))
    @@ ("E,F" :> Form("tuple", <<"E", "F">>)) @@ ("E,E" :> Form("tuple", <<"E", "E">>))
    \* T names itself and S, whose body it is in.
    @@ ("S" :> Alias("S", "S_")) @@ ("S_" :> Join(<<"int", "[T]">>)) @@ ("[S]" :> Form("list", <<"S">>))
    @@ ("T" :> Alias("T", "T_")) @@ ("T_" :> Join(<<"[T]", "[S]">>)) @@ ("[T]" :> Form("list", <<"T">>))
    @@ ("S,S" :> Form("tuple", <<"S", "S">>)) @@ ("S,T" :> Form("tuple", <<"S", "T">>))
    @@ ("T,S,A" :> Form("tuple", <<"T", "S", "A">>))
    \* Names outside any constructor.
    @@ ("G" :> Alias("G", "G_")) @@ ("G_" :> Join(<<"int", "G">>))
    @@ ("H" :> Alias("H", "H_")) @@ ("H_" :> Join(<<"I", "[H]">>)) @@ ("[H]" :> Form("list", <<"H">>))
    @@ ("I" :> Alias("I", "I_")) @@ ("I_" :> Join(<<"H", "[I]">>)) @@ ("[I]" :> Form("list", <<"I">>))
    @@ ("A,G" :> Form("tuple", <<"A", "G">>))
    \* Aliases of aliases, and a NewType over one.
    @@ ("K" :> Alias("K", "A")) @@ ("N" :> Row("newtype", "N", <<"K">>)) @@ ("N,K" :> Form("tuple", <<"N", "K">>))
    \* Classes: of an alias, of itself, of an alias of itself, refused below.
    @@ ("C" :> Row("class", "C", <<"A", "int">>)) @@ ("D" :> Row("class", "D", <<"int", "[D]">>))
    @@ ("[D]" :> Form("list", <<"D">>))
    @@ ("X" :> Alias("X", "Y")) @@ ("Y" :> Row("class", "Y", <<"X", "C">>)) @@ ("X,C" :> Form("tuple", <<"X", "C">>))
    @@ ("Z" :> Row("class", "Z", <<"C", "U">>)) @@ ("U" :> Alias("U", "U_")) @@ ("U_" :> Join(<<"[U]", "bad">>))
    @@ ("[U]" :> Form("list", <<"U">>))
    \* Annotations whose reading builds a validator.
    @@ ("L" :> Running(Alias("L", "L_"), "S")) @@ ("L_" :> Join(<<"A", "[L]">>)) @@ ("[L]" :> Form("list", <<"L">>))
    @@ ("M" :> Running(Row("class", "M", <<"L", "B">>), "Z")) @@ ("O" :> Running(Row("class", "O", <<"A">>), "P"))
    @@ ("P" :> Running(Alias("P", "P_"), "P")) @@ ("P_" :> Form("tuple", <<"O", "P">>))
AliasRoots == {"A", "A|B", "A,B", "A,A", "A|A_", "E,F", "E,E", "S,S", "S,T", "T,S,A", "G", "H", "A,G",
               "N,K", "D", "Y", "X,C", "Z", "L", "M", "P"}

(* Schemas at the bounds of the run build, which are 7 levels and 25 nodes: *)
(* no alias, and no NewType near the depth bound.                          *)
Passed(n) == [i \in 1 .. n |-> IF i % 3 = 0 THEN "int" ELSE "n"]
Bounds ==
    ("1" :> Form("list", <<"int">>)) @@ ("2" :> Form("list", <<"1">>)) @@ ("3" :> Form("list", <<"2">>))
    @@ ("4" :> Form("list", <<"3">>)) @@ ("5" :> Form("list", <<"4">>)) @@ ("6" :> Form("list", <<"5">>))
    @@ ("7" :> Form("list", <<"6">>)) @@ ("8" :> Form("list", <<"7">>))
    @@ ("v2" :> OfNodes(2)) @@ ("v25" :> OfNodes(25))
    @@ ("v2,v2" :> Form("tuple", <<"v2", "v2">>)) @@ ("v25,int" :> Form("tuple", <<"v25", "int">>))
    @@ ("n" :> Row("newtype", "n", <<"int">>)) @@ ("nn" :> Row("newtype", "nn", <<"n">>))
    @@ ("four" :> Form("tuple", <<"nn", "nn", "nn", "int">>))
    @@ ("full" :> Form("tuple", Passed(24))) @@ ("over" :> Form("tuple", Passed(25)))
    @@ ("chains" :> Form("tuple", <<"3", "3", "3", "3", "3", "3", "3", "3">>))
    @@ ("two" :> Form("tuple", <<"1", "1">>)) @@ ("twice" :> Form("tuple", <<"two", "two">>))
    @@ ("again" :> Form("tuple", <<"twice", "twice", "twice">>))
    @@ ("loop" :> Form("list", <<"loop">>)) @@ ("grove" :> Form("tuple", <<"int", "grove", "grove">>))
    @@ ("class" :> Running(Row("class", "class", <<"2">>), "6")) @@ ("[class]" :> Form("list", <<"class">>))
    @@ ("wide" :> Running(Row("class", "wide", <<"int", "int">>), "full")) @@ ("int,wide" :> Form("tuple", <<"int", "int", "wide">>))
    @@ ("own" :> Running(Row("class", "own", <<"1">>), "own")) @@ ("[own]" :> Form("tuple", <<"own", "own">>))

(* The run build: two builds of one family, one after the other.           *)
Annotations == Aliases @@ Bounds
AnnNames    == DOMAIN Annotations
BoundRoots  == DOMAIN Bounds
Roots       == AliasRoots \cup BoundRoots

MCBegin == Begin /\ (begun > 0 => (stack'[1].ann \in AliasRoots <=> last.ann \in AliasRoots))
MCNext  == MCBegin \/ Step
MCSpec  == Init /\ [][MCNext]_vars

(* The run build_dropped: D and X write one set, E names them both.        *)
Dropped ==
    ("int" :> Row("scalar", "int", <<>>))
    @@ ("X" :> Alias("X", "X_")) @@ ("X_" :> Join(<<"int", "(E,X)">>)) @@ ("(E,X)" :> Form("tuple", <<"E", "X">>))
    @@ ("D" :> Alias("D", "D_")) @@ ("D_" :> Join(<<"int", "(E,D)">>)) @@ ("(E,D)" :> Form("tuple", <<"E", "D">>))
    @@ ("E" :> Alias("E", "E_")) @@ ("E_" :> Join(<<"int", "(X,E,D)">>)) @@ ("(X,E,D)" :> Form("tuple", <<"X", "E", "D">>))
DroppedNames == DOMAIN Dropped
=============================================================================
