----------------------------- MODULE Questions -----------------------------
(***************************************************************************)
(* The questions of one thread, one after another: an `is_empty` from the  *)
(* root, or a relation's query, inside which the rules ask whether two     *)
(* terms share a value.  What a thread keeps between them is the thread's  *)
(* to leave as it was found.                                               *)
(***************************************************************************)
EXTENDS Emptiness

\* What a caller may ask in turn: sequences of questions, each of one term at
\* a root or of a query's pairs, in the order its rules come to them.
CONSTANT Scripts

VARIABLES thread,    \* the context and the thread's own state
          querying,  \* a relation's query is under way
          todo,      \* the questions the caller has left
          last       \* the last question, with the thread as it found it

vars == <<thread, querying, todo, last>>

NoQuestion == [kind |-> "none"]
\* A question holds the sequences of terms it asks of, one after another.
Root(s) == [kind |-> "empty", of |-> <<<<s>>>>]
Query(pairs) == [kind |-> "query", of |-> pairs]

Init ==
  /\ thread = Fresh
  /\ querying = FALSE
  /\ todo \in Scripts
  /\ last = NoQuestion

(* The caller has the answer, the thread what it was left with.            *)
Settled(kind, of, answer) ==
  /\ thread' = answer.cx
  /\ last' = [kind |-> kind, of |-> of, v |-> answer.v, found |-> thread]
  /\ UNCHANGED querying

IsEmpty ==
  /\ todo # <<>>
  /\ Head(todo).kind = "empty"
  /\ LET s == Head(Head(todo).of)[1]
     IN  Settled("empty", s, IsEmptyWith(s, thread))
  /\ todo' = Tail(todo)

BeginQuery ==
  /\ todo # <<>>
  /\ Head(todo).kind = "query"
  /\ ~querying
  /\ querying' = TRUE
  /\ thread' = NewQuery(thread)
  /\ last' = NoQuestion
  /\ UNCHANGED todo

Beside ==
  LET pairs == Head(todo).of
      pair == Head(pairs)
  IN  /\ querying
      /\ pairs # <<>>
      /\ Settled("beside", pair, VerdictBeside(pair[1], pair[2], thread))
      /\ todo' = <<Query(Tail(pairs))>> \o Tail(todo)

EndQuery ==
  /\ querying
  /\ Head(todo).of = <<>>
  /\ querying' = FALSE
  /\ thread' = BackIn(Fresh, thread)
  /\ last' = NoQuestion
  /\ todo' = Tail(todo)

Next == IsEmpty \/ BeginQuery \/ Beside \/ EndQuery

Spec == Init /\ [][Next]_vars
=============================================================================
