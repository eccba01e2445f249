----------------------------- MODULE MCSharing -----------------------------
(***************************************************************************)
(* Few blocks, so that each is written again and again.                    *)
(***************************************************************************)
EXTENDS SharingMeaning, TLC

CONSTANTS t1, t2, x, y, r, s

MCAny    == [kind |-> "anything", spelling |-> "Any"]
MCObject == [kind |-> "anything", spelling |-> "object"]
MCNot    == [kind |-> "complement", spelling |-> ""]
MCBoth   == [kind |-> "intersection", spelling |-> ""]
MCLabel  == {MCAny, MCObject, MCNot, MCBoth}
MCArity  == [l \in MCLabel |-> CASE l = MCNot -> 1 [] l = MCBoth -> 2 [] OTHER -> 0]

MCWord  == {1, 2}
MCReads == [text \in {"a", "("} |-> CASE text = "a" -> {1} [] text = "(" -> Refused]
MCBytes == [words \in SUBSET MCWord |-> IF words = {} THEN 1 ELSE Cardinality(words)]
MCFits  == [words \in SUBSET MCWord |-> Cardinality(words) < 2]

\* Two threads that let go of one another's nodes, in slots that collide.
Crossing == [threads |-> {t1, t2}, vars |-> {x, y}, labels |-> {MCAny, MCNot}, exact |-> FALSE,
             texts |-> {}, registers |-> {}]

\* One thread, whose every node has a slot of its own.
Apart == [threads |-> {t1}, vars |-> {x, y}, labels |-> {MCAny, MCObject, MCNot, MCBoth}, exact |-> TRUE,
          texts |-> {}, registers |-> {}]

\* One thread that makes nodes and languages.
Mixed == [threads |-> {t1}, vars |-> {x}, labels |-> {MCAny, MCObject}, exact |-> FALSE,
          texts |-> {"a", "("}, registers |-> {r, s}]

\* Blocks are alike.
Alike == Permutations(Address)

MCPrograms == {Crossing, Apart, Mixed}
=============================================================================
