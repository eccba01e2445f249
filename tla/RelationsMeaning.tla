-------------------------- MODULE RelationsMeaning --------------------------
(***************************************************************************)
(* What the answers of Relations must mean, by the values of their terms.  *)
(***************************************************************************)
EXTENDS Relations, Values

CONSTANT Longer  \* steps of a longer budget

(* An answer to each kind of question, and to one Python asked inside.     *)
TrueOfTheQuestion(kind, terms, answer) ==
  CASE kind = "subtype" -> TrueOfThePair(answer, terms[1], terms[2])
    [] kind = "equivalent" ->
         CASE answer = "Holds" ->
                TrueOfThePair(answer, terms[1], terms[2]) /\ TrueOfThePair(answer, terms[2], terms[1])
           [] answer = "Fails" ->
                TrueOfThePair(answer, terms[1], terms[2]) \/ TrueOfThePair(answer, terms[2], terms[1])
           [] OTHER -> TRUE
    [] kind = "empty" -> TrueOf(answer, terms[1])
    [] OTHER -> TRUE

TrueOfWhatWasTold(of, answer) ==
  IF Is("Below", of) THEN TrueOfThePair(answer, of[2], of[3]) ELSE TrueOf(answer, of)

(* A relation is answered true to the values of its terms, whatever was    *)
(* assumed, kept or read on the way: no coinductive assumption, no record  *)
(* of the root's goals and no reading of another query's is in an answer   *)
(* it does not support.                                                    *)
RelationsAreTrue ==
  /\ last.kind # "none" => TrueOfTheQuestion(last.kind, last.of, last.v)
  /\ \A told \in thread.told : TrueOfWhatWasTold(told[1], told[2])

(* What a query keeps is a fact: a member its record holds as placed or    *)
(* refuted, a term it read empty, what a narrowed meet was answered, and   *)
(* the verdict of a meet.                                                  *)
RecordIsTrue(record) ==
  LET member(at) == Members(record.whole)[at]
      placed(at) == IF Is("Union", record.whole)
                    THEN TrueOfThePair("Holds", member(at), record.subject)
                    ELSE TrueOfThePair("Holds", record.subject, member(at))
  IN  /\ \A at \in record.placed : placed(at)
      /\ \A at \in record.refuted : TrueOfThePair("Fails", record.subject, member(at))

KeptAnswersAreTrue ==
  /\ thread.held # NoRecord => RecordIsTrue(thread.held)
  /\ \A key \in DOMAIN thread.readings : thread.readings[key] => TrueOf("Empty", key[2])
  /\ \A key \in DOMAIN thread.asked :
       TrueOfThePair(thread.asked[key], Meet(key.members), key.sup)
  /\ \A key \in DOMAIN thread.verdicts : TrueOf(thread.verdicts[key].v, key[2])

(* Between questions nothing is assumed, opened or being narrowed.         *)
NothingIsLeftOpen ==
  /\ thread.trail = <<>> /\ thread.visiting = <<>> /\ thread.open = <<>>
  /\ thread.depth = 0
  /\ thread.narrowing = 0
  /\ thread.allowance = Respelling

(* A goal met again on the trail, and a term met again while it is read,   *)
(* is met past a constructor.                                              *)
GoalsAreGuarded == ~thread.unguarded

(* A rule's answer that no bound stopped is the answer more steps give, and *)
(* a decided one whatever stopped: on a fresh thread a pair is decided     *)
(* alike by a longer budget.                                               *)
MoreStepsDecideAlike ==
  last.kind = "subtype" =>
    \E rules \in {Decide("goal", last.of, Fresh)} :
      (rules.v # "Unknown" \/ rules.cx.met = 0) =>
        Decide("goal", last.of, [Fresh EXCEPT !.left = Longer]).v = rules.v
=============================================================================
