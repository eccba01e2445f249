----------------------------- MODULE Relations -----------------------------
(***************************************************************************)
(* The relations of one thread, asked in turn: inclusion, equivalence and  *)
(* emptiness, each under a budget of its own.  What a thread keeps between *)
(* them (READINGS, HELD, NARROWING, ASKED_NARROWED and what Emptiness      *)
(* keeps) is every later question's to find.                               *)
(***************************************************************************)
EXTENDS Goals

CONSTANT Scripts  \* what a caller may ask in turn: sequences of questions

VARIABLES thread,  \* the state of the thread
          todo,    \* the questions the caller has left
          last     \* the last question and its answer, the thread as it found it

vars == <<thread, todo, last>>

NoQuestion == [kind |-> "none"]
Question(kind, terms) == [kind |-> kind, of |-> terms]

Init ==
  /\ thread = Fresh
  /\ todo \in Scripts
  /\ last = NoQuestion

(* The caller has the answer, the thread what it was left with.            *)
Settled(answer) ==
  /\ thread' = answer.cx
  /\ last' = [kind |-> Head(todo).kind, of |-> Head(todo).of, v |-> answer.v, found |-> thread]
  /\ todo' = Tail(todo)

Asking(kind) == todo # <<>> /\ Head(todo).kind = kind

IsSubtype ==
  /\ Asking("subtype")
  /\ Settled(Decide("inclusion", Head(todo).of, thread))

IsEquivalent ==
  /\ Asking("equivalent")
  /\ Settled(Decide("equivalence", Head(todo).of, thread))

IsEmpty ==
  /\ Asking("empty")
  /\ Settled(Decide("no value", Head(todo).of[1], thread))

Next == IsSubtype \/ IsEquivalent \/ IsEmpty

Spec == Init /\ [][Next]_vars
=============================================================================
