----------------------------- MODULE KeptOnce -----------------------------
(***************************************************************************)
(* What a validator promises of the values it computes on first use (its   *)
(* index, the keys of its pool, its hash): one value is kept for each, and *)
(* whoever asks, from whatever thread and however deep in another asking,  *)
(* is told that one.                                                       *)
(***************************************************************************)
EXTENDS Sequences

CONSTANTS Thread,
          Cell,     \* the values kept
          Fallible, \* the cells whose computing may raise instead
          Value,
          None      \* no value yet

VARIABLES kept,  \* the value of each cell, or None
          wants  \* what each thread asks for, the innermost first, and what it was told

once == <<kept, wants>>

Init ==
    /\ kept = [c \in Cell |-> None]
    /\ wants = [t \in Thread |-> <<>>]

Ask(t, c) ==
    /\ wants' = [wants EXCEPT ![t] = <<[cell |-> c, value |-> None]>> \o @]
    /\ UNCHANGED kept

Keep(c, v) ==
    /\ kept[c] = None
    /\ kept' = [kept EXCEPT ![c] = v]

Tell(t) ==
    /\ wants[t] # <<>> /\ wants[t][1].value = None
    /\ wants' = [wants EXCEPT ![t][1].value = kept'[wants[t][1].cell]]
    /\ wants'[t][1].value # None

Return(t) ==
    /\ wants[t] # <<>> /\ wants[t][1].value # None
    /\ wants' = [wants EXCEPT ![t] = Tail(@)]
    /\ UNCHANGED kept

\* A fatal signal: the asking ends, and nothing is kept or told.
Fail(t) ==
    /\ wants[t] # <<>> /\ wants[t][1].value = None /\ wants[t][1].cell \in Fallible
    /\ wants' = [wants EXCEPT ![t] = Tail(@)]
    /\ UNCHANGED kept

\* A value is kept by telling it, or told because it was kept.
Next ==
    \/ \E t \in Thread, c \in Cell : Ask(t, c)
    \/ \E t \in Thread, v \in Value : wants[t] # <<>> /\ Keep(wants[t][1].cell, v) /\ Tell(t)
    \/ \E t \in Thread : UNCHANGED kept /\ Tell(t)
    \/ \E t \in Thread : Return(t) \/ Fail(t)

Spec == Init /\ [][Next]_once
=============================================================================
