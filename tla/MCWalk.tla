------------------------------- MODULE MCWalk -------------------------------
(***************************************************************************)
(* Instances of the walk.  The schemas are generated: base nodes, and      *)
(* unions and meets of two or three of them, over two definitions D and E  *)
(* whose bodies are such nodes.  A root reads one value by three members,  *)
(* which is what arms the memo.                                            *)
(***************************************************************************)
EXTENDS WalkMeaning

(* The base nodes. *)
pred  == 1
int   == 2
refD  == 3
refE  == 4
listD == 5
listE == 6
notLD == 7
notLE == 8
notD  == 9
notE  == 10
pairE == 11
lit   == 12
meetD == 13
notMD == 14
notP  == 15
pairN == 16
Base  == 1 .. 16

Row(kind, kids, tail, def) ==
    [kind |-> kind, kids |-> kids, tail |-> tail, def |-> def,
     admits |-> IF kind \in {"leaf", "literal", "pred"} THEN {"a"} ELSE {},
     raises |-> IF kind \in {"literal", "pred"} THEN {"b"} \cap Value ELSE {},
     kills  |-> IF kind \in {"literal", "pred"} THEN {"k"} \cap Value ELSE {}]

BaseRow(n) ==
    CASE n = pred  -> Row("pred", <<>>, 0, "D")
      [] n = lit   -> Row("literal", <<>>, 0, "D")
      [] n = int   -> Row("leaf", <<>>, 0, "D")
      [] n = refD  -> Row("ref", <<>>, 0, "D")
      [] n = refE  -> Row("ref", <<>>, 0, "E")
      [] n = listD -> Row("seq", <<>>, refD, "D")
      [] n = listE -> Row("seq", <<>>, refE, "D")
      [] n = notLD -> Row("not", <<listD>>, 0, "D")
      [] n = notLE -> Row("not", <<listE>>, 0, "D")
      [] n = notD  -> Row("not", <<refD>>, 0, "D")
      [] n = notE  -> Row("not", <<refE>>, 0, "D")
      [] n = pairE -> Row("seq", <<refE, int>>, 0, "D")
      [] n = meetD -> Row("meet", <<refD, listE>>, 0, "D")
      [] n = notMD -> Row("not", <<meetD>>, 0, "D")
      [] n = notP  -> Row("not", <<pred>>, 0, "D")
      [] n = pairN -> Row("seq", <<notP, int>>, 0, "D")

\* 100 * x + y is the union of x and y, and 10000 more is their meet; 100000 * z
\* more has z for a third member.
Union2(x, y) == 100 * x + y
Meet2(x, y)  == 10000 + 100 * x + y
Wider(n, z)  == n + 100000 * z
JoinedRow(n) ==
    LET pair == n % 10000
        two  == <<pair \div 100, pair % 100>>
    IN  Row(IF (n % 100000) >= 10000 THEN "meet" ELSE "union",
            IF n < 100000 THEN two ELSE Append(two, n \div 100000), 0, "D")

Joins(S, T) == {Union2(x, y) : x \in S, y \in T} \cup {Meet2(x, y) : x \in S, y \in T}

Table(d, e)  == [n \in {"D", "E"} |-> IF n = "D" THEN d ELSE e]

(* The run walk_bounds: values nested deeper than the bounds reach.        *)
BoundTables  == {Table(d, e) : d \in Joins({int, listE, notLE}, {int, listE, notLE}),
                               e \in {Union2(int, listD), Meet2(listD, notLE)}}
BoundRoots   == {Wider(n, z) : n \in {Union2(refD, notE), Meet2(refD, refE), Union2(refE, refD),
                                      Meet2(refE, notD), Union2(refD, notD)},
                               z \in {refD, notD, listE, notLE}}
NestValue    == {"a", "e", "l", "m"}
NestLists    == {"e", "l", "m"}
NestHeaps    == {[l \in NestLists |-> CASE l = "e" -> <<>> [] l = "l" -> <<"a">> [] l = "m" -> <<"l", "e">>]}
NestContents == {<<>>, <<"a">>, <<"l", "e">>}
NestTargets  == {"m"}

(* The run walk_stops: what stops a walk besides its bounds.  Of "l" it    *)
(* asks what raises and interrupts, of "m" what is written to meanwhile.   *)
StopValue      == {"a", "b", "k", "l", "m"}
StopLists      == {"l", "m"}
StopTargets    == {"l", "m"}

(* The run walk_stops, of "l": a predicate that raises for "b" and is       *)
(* interrupted at "k", and a literal whose `==` is, in lists of D; and two  *)
(* lists that hold each other.                                             *)
SignalTables   == {Table(d, Union2(int, listE)) : d \in Joins({pred, lit, listE}, {pred, notLE})}
SignalRoots    == {Wider(n, z) : n \in {Union2(refE, listE), Meet2(listE, refE)},
                                 z \in {listD, notLD}}
                    \cup {notLD, Union2(pairE, listD), Union2(notLD, listD), Meet2(listD, notLD)}
SignalContents == {<<>>, <<"a">>, <<"a", "b">>, <<"b", "a">>, <<"b", "k">>, <<"a", "k">>, <<"l">>, <<"m", "b">>}
SignalHeaps    == {[x \in StopLists |-> IF x = "l" THEN items ELSE <<"l">>] : items \in SignalContents}

(* The run walk_stops, of "m": a list written to while it is walked, asked  *)
(* by roots that do not arm the memo; one interrupts and reads on.         *)
WriteTables   == {Table(d, Union2(int, listE)) : d \in Joins({int}, {listE, notLE})}
WriteRoots    == {notD, notE, Union2(int, listD), Meet2(notLE, listE), notLD, pairN}
Interrupts    == <<"k", "a">>
WriteHeaps    == [StopLists -> {<<"a">>, <<"l">>}]
                    \cup {[x \in StopLists |-> IF x = "m" THEN Interrupts ELSE <<"a">>]}
WriteContents == {<<"a">>, <<"l">>, <<"a", "l">>}

StopContents   == SignalContents \cup WriteContents \cup {Interrupts}
StopTables     == SignalTables \cup WriteTables
StopRoots      == SignalRoots \cup WriteRoots
StopHeaps      == SignalHeaps \cup WriteHeaps
StopsAsked     == CASE asked.val = "l" -> /\ defs \in SignalTables
                                          /\ heap \in SignalHeaps
                                          /\ asked.node \in SignalRoots
                    [] asked.val = "m" -> /\ defs \in WriteTables
                                          /\ heap \in WriteHeaps
                                          /\ asked.node \in WriteRoots
                                          /\ asked.node = pairN <=> heap["m"] = Interrupts
StopsInit      == Init /\ StopsAsked /\ MInit
StopsWrite     == asked.val = "m" /\ Write /\ heap' \in [StopLists -> WriteContents]
StopsNext      == (Step \/ StopsWrite) /\ History
StopsSpec      == StopsInit /\ [][StopsNext]_tvars /\ WF_tvars(Step /\ History)

(* The run walk_moved: the same writes, asked by a root that arms it. D is *)
(* list[E] and E is a literal, whose comparison may run code, or list[D].  *)
MovedTables   == {Table(listE, Union2(lit, listD))}
MovedRoots    == {Wider(Union2(refE, notD), notMD)}
MovedValue    == {"a", "m"}
MovedLists    == {"m"}
MovedHeaps    == [MovedLists -> {<<"a">>}]
MovedContents == {<<"a">>, <<"a", "a">>}

MCDef    == {"D", "E"}
MCNode   == Base \cup BoundRoots \cup SignalRoots \cup WriteRoots
              \cup MovedRoots
              \cup UNION {{t["D"], t["E"]} : t \in BoundTables \cup SignalTables
                                                     \cup WriteTables \cup MovedTables}
MCSchema == [n \in MCNode |-> IF n \in Base THEN BaseRow(n) ELSE JoinedRow(n)]
=============================================================================
