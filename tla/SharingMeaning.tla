--------------------------- MODULE SharingMeaning ---------------------------
(***************************************************************************)
(* The trees the handles of Sharing stand for, and what is promised of     *)
(* them.                                                                   *)
(***************************************************************************)
EXTENDS Sharing

\* A tree is read level by level, each from the one below; no block is in itself, so
\* there are no more levels than blocks.
Cut == [label |-> Gone, parts |-> <<>>]

Grown(mem, below) ==
    [a \in Address |->
        IF mem[a] = Gone THEN Cut
        ELSE [label |-> mem[a].label,
              parts |-> [i \in DOMAIN mem[a].parts |-> below[mem[a].parts[i]]]]]

Trees(mem) ==
    LET levels[n \in 0 .. Cardinality(Address)] ==
          IF n = 0 THEN [a \in Address |-> Cut] ELSE Grown(mem, levels[n - 1])
    IN  levels

TreeAt(mem, a) == Trees(mem)[Cardinality(Address)][a]

TreesAt(mem, hd) == [x \in Var |-> IF hd[x] = Nobody THEN <<>> ELSE <<TreeAt(mem, hd[x])>>]

Making(mem, call) ==
    IF call = Idle THEN <<>>
    ELSE <<[into |-> call.into,
            tree |-> [label |-> call.node.label,
                      parts |-> [i \in DOMAIN call.node.parts |-> TreeAt(mem, call.node.parts[i])]]]>>

Means == TreesAt(memory, held)
Asks  == [t \in Thread |-> Making(memory, calls[t])]

Promise == INSTANCE Construction WITH means <- Means, asks <- Asks

\* A handle stands for the schema it was asked for, spelling and all, for as long as it is
\* held: whatever was dropped by whichever thread, wherever the allocator writes next, and
\* whatever a slot's block held before (intern.rs: "What makes it sound").
HandsWhatWasAsked == Promise!Spec

\* Where no two nodes share a slot, two equal schemas alive at once that one thread made are one
\* block, however deep: a slot that named a dropped node names the next one made (intern.rs: "One
\* node built twice is one node", and that sharing a child shares the parent over it).
BuiltTwiceIsOne ==
    program.exact /\ (\E t \in Thread : program.threads = {t}) =>
      \A a, b \in HandlesIn(held) : TreeAt(memory, a) = TreeAt(memory, b) => a = b
=============================================================================
