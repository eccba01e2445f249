--------------------------- MODULE Construction ---------------------------
(***************************************************************************)
(* What making schemas promises, tables or none: a variable holds the tree *)
(* it was given, until it is given another or let go.                      *)
(***************************************************************************)
EXTENDS Naturals, Sequences

CONSTANTS Thread, Var, Label, Arity

VARIABLES means, \* the tree each variable holds, if any
          asks   \* what each thread is making, [into, tree], if anything

Init ==
    /\ means = [x \in Var |-> <<>>]
    /\ asks = [t \in Thread |-> <<>>]

Ask(t, x, l) ==
    /\ asks[t] = <<>>
    /\ \E of \in [1 .. Arity[l] -> {y \in Var : means[y] # <<>>}] :
         asks' = [asks EXCEPT ![t] =
                    <<[into |-> x,
                       tree |-> [label |-> l, parts |-> [i \in DOMAIN of |-> means[of[i]][1]]]]>>]
    /\ UNCHANGED means

Answer(t) ==
    /\ asks[t] # <<>>
    /\ means' = [means EXCEPT ![asks[t][1].into] = <<asks[t][1].tree>>]
    /\ asks' = [asks EXCEPT ![t] = <<>>]

Drop(x) ==
    /\ means' = [means EXCEPT ![x] = <<>>]
    /\ UNCHANGED asks

Next ==
    \/ \E t \in Thread : Answer(t) \/ \E x \in Var, l \in Label : Ask(t, x, l)
    \/ \E x \in Var : Drop(x)

Spec == Init /\ [][Next]_<<means, asks>>
=============================================================================
