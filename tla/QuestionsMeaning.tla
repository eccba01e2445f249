-------------------------- MODULE QuestionsMeaning --------------------------
(***************************************************************************)
(* What the answers of Questions must mean, by the values of their terms.  *)
(***************************************************************************)
EXTENDS Questions, Values

CONSTANT Longer  \* a budget past the one asked under

(* Whatever is answered, at a root, of a pair inside a query or to Python  *)
(* in the middle of one, is true of the terms: a refutation stands on a    *)
(* value, and a hypothesis taken on the way has been discharged.           *)
AnswersAreTrue ==
  /\ last.kind = "empty" => TrueOf(last.v, last.of)
  /\ last.kind = "beside" => TrueOf(last.v, Meet(last.of))
  /\ \A told \in thread.told : TrueOf(told[2], told[1])

(* What is kept for the query is a fact of the terms, also where it was    *)
(* read with a meet open: no verdict outlives the hypothesis it rests on.  *)
KeptVerdictsAreTrue ==
  \A key \in DOMAIN thread.verdicts : TrueOf(thread.verdicts[key].v, key[2])

(* The memo takes no answer away: with the verdicts forgotten and none     *)
(* kept, what a pair's reading decides is what was answered.  A definition *)
(* that does not exist, held as being resolved, is what keeps none.        *)
WithNoMemo(cx) ==
  [cx EXCEPT !.verdicts = <<>>, !.visiting = <<[def |-> "none", crossed |-> 0]>>]

TheMemoTakesNoAnswer ==
  last.kind = "beside" =>
    VerdictBeside(last.of[1], last.of[2], WithNoMemo(last.found)).v \in {"Unknown", last.v}

AsWithMoreSteps(held) ==
  held.cx.met = last.found.met =>
    EmptinessOn(last.of, [NewQuery(last.found) EXCEPT !.left = Longer]).v = held.v

(* A reading no bound stopped answers alike with more steps, so a decline  *)
(* is then of the terms and not of the budget.                             *)
MoreStepsAnswerAlike ==
  last.kind = "empty" => AsWithMoreSteps(EmptinessOn(last.of, NewQuery(last.found)))

(* Where steps are not short, the hypotheses alone end the recursion: no   *)
(* question stops at a bound, however the definitions turn on each other.  *)
HypothesesEndIt ==
  last.kind = "empty" =>
    LET found == [NewQuery(last.found) EXCEPT !.left = Longer, !.allowance = Longer]
    IN  EmptinessOn(last.of, found).cx.met = found.met
=============================================================================
