---------------------------- MODULE WalkMeaning ----------------------------
(***************************************************************************)
(* What the walk's answers mean, and the properties that hold it to that.  *)
(*                                                                         *)
(* Two references, neither of which has a memo, an order of reading, or a  *)
(* cell.  Truth is the set a schema denotes over the whole value, its      *)
(* definitions' least fixpoint in three values: "maybe" is a pair nothing  *)
(* decides.  Meaning is the same reading cut where the walk must stop: at  *)
(* its levels, at the trail's bound, at a value inside itself.             *)
(***************************************************************************)
EXTENDS Walk

VARIABLES truth,  \* history: the definitions' answers, for what the lists hold now
          held    \* history: what the question's answer has been so far

tvars == <<vars, truth, held>>

-----------------------------------------------------------------------------
(* Kleene's strong logic.                                                  *)

AllOf(S)     == IF "no" \in S THEN "no" ELSE IF "maybe" \in S THEN "maybe" ELSE "yes"
AnyOf(S)     == IF "yes" \in S THEN "yes" ELSE IF "maybe" \in S THEN "maybe" ELSE "no"
Negated(t)   == CASE t = "yes" -> "no" [] t = "no" -> "yes" [] t = "maybe" -> "maybe"

\* A comparison and a predicate run user code, which may stop them.
Tested(n, v) == IF v \in Schema[n].kills \/ (Schema[n].kind = "pred" /\ v \in Schema[n].raises)
                THEN "maybe" ELSE Says(v \in Schema[n].admits \ Schema[n].raises)

\* A node at a value, the lists holding `h`: what is below it is read by `at`, and the
\* definition it names, if it names one, is `ref`.
Judged(at(_, _), ref, h, n, v) ==
    LET kids == Schema[n].kids
    IN  CASE Schema[n].kind = "leaf" -> Says(v \in Schema[n].admits)
          [] Schema[n].kind \in {"literal", "pred"} -> Tested(n, v)
          [] Schema[n].kind = "seq" ->
               IF v \in Lists /\ HasArity(n, Len(h[v]))
               THEN AllOf({at(ElementOf(n, i), h[v][i]) : i \in DOMAIN h[v]})
               ELSE "no"
          [] Schema[n].kind = "union" -> AnyOf({at(kids[i], v) : i \in DOMAIN kids})
          [] Schema[n].kind = "meet"  -> AllOf({at(kids[i], v) : i \in DOMAIN kids})
          [] Schema[n].kind = "not"   -> Negated(at(kids[1], v))
          [] Schema[n].kind = "ref"   -> ref

\* The answer of a definition at a value, of those decided.
Told(t, key) == IF <<key, "yes">> \in t THEN "yes" ELSE IF <<key, "no">> \in t THEN "no" ELSE "maybe"

\* Every node at every value, its references read from `t`.
Eval(t, h) ==
    LET eval[n \in Node] ==
            [v \in Value |-> Judged(LAMBDA m, w : eval[m][w], Told(t, <<v, Schema[n].def>>), h, n, v)]
    IN  eval

\* The answers decided from those that are, each pair judged once.
Answers     == {<<key, r>> : key \in Key, r \in Reply}
Round(t, h) == {d \in {<<key, Eval(t, h)[defs[key[2]]][key[1]]>> : key \in Key} : d[2] \in Reply}

\* The least fixpoint: nothing decided at first, and as many rounds as there are pairs.
LeastFixpoint(h) ==
    LET round[i \in 0 .. Cardinality(Key)] ==
            IF i = 0 THEN {} ELSE Round(round[i - 1], h)
    IN  round[Cardinality(Key)]

\* A node at a value, as a walk with `levels` open and `path` on its trail may
\* decide it: one level less is left to what is below it, and one more pair is
\* on the trail of a definition's body.
Meaning(n, v, levels, path) ==
    LET Entered(within, m, w, over) ==
            LET pair == <<w, Schema[m].def>>
            IN  IF Len(over) >= MaxRecursionDepth \/ \E i \in DOMAIN over : over[i] = pair
                THEN "maybe"
                ELSE within[<<defs[Schema[m].def], w, Append(over, pair)>>]
        within[left \in Nat] ==
            [call \in Node \X Value \X Seq(Key) |->
                IF left = 0 THEN "maybe"
                ELSE Judged(LAMBDA m, w : within[left - 1][<<m, w, call[3]>>],
                            Entered(within[left - 1], call[1], call[2], call[3]),
                            heap, call[1], call[2])]
    IN  within[MaxWalkDepth - levels][<<n, v, path>>]

-----------------------------------------------------------------------------
(* The specification, with the history variable.                           *)

Fits(t, h) == Eval(t, h)[asked.node][asked.val]

History ==
    \/ heap' = heap /\ UNCHANGED <<truth, held>>
    \/ /\ heap' # heap
       /\ \E h \in {heap'} : truth' = LeastFixpoint(h)
       /\ \E t \in {truth'} : held' = held \cup {Fits(t, heap')}

MInit == Init /\ truth = LeastFixpoint(heap) /\ held = {Fits(truth, heap)}
MNext == Next /\ History
MSpec == MInit /\ [][MNext]_tvars /\ WF_tvars(Step /\ History)

\* The call that just returned, read off the frame it returned to.
Returned ==
    IF stack = <<>> THEN [node |-> asked.node, val |-> asked.val, mode |-> "fast"]
    ELSE CASE TopNode.kind = "seq" -> [node |-> ElementOf(Top.node, Top.at),
                                       val |-> heap[Top.val][Top.at], mode |-> Top.mode]
           [] TopNode.kind \in {"union", "meet"} -> [node |-> TopNode.kids[Top.at],
                                                     val |-> Top.val, mode |-> Top.mode]
           [] TopNode.kind = "not" -> [node |-> TopNode.kids[1], val |-> Top.val, mode |-> "settle"]
           [] TopNode.kind = "ref" -> [node |-> defs[TopNode.def], val |-> Top.val, mode |-> Top.mode]

\* A call has returned, no signal is unwinding the walk and no list was written to.
Answered == ret # "none" /\ ~fatal /\ writes = 0

(***************************************************************************)
(* An answer is never wrong: a value admitted is in the set, and so is one *)
(* a settling walk admits with no stop in the cell; a value a settling     *)
(* walk refuses is outside it.  A complement takes the last for its own    *)
(* admission, so it never admits on a stop: at a bound, a loop, a          *)
(* predicate that raised, or any of these said again by the memo           *)
(* (walk.rs, check_complement, settled_union; memo.rs, keep_decided).      *)
(***************************************************************************)
Sound ==
    Answered =>
        LET call == Returned
            t    == Eval(truth, heap)[call.node][call.val]
        IN  IF call.mode = "fast" THEN ret = "yes" => t = "yes"
            ELSE /\ ret = "no" => t = "no"
                 /\ ret = "yes" /\ stopped = None => t = "yes"

(***************************************************************************)
(* What the bounds leave decidable is decided, whatever order the parts    *)
(* are read in and whatever the memo kept on the way: a walk that can      *)
(* admit admits, and a settling walk that can refuse refuses.  In          *)
(* particular a refusal kept at a stop answers only walks that would       *)
(* refuse as well (memo.rs, Room::within; walk.rs, settled_union).         *)
(***************************************************************************)
Complete ==
    Answered =>
        LET call == Returned
            m    == Meaning(call.node, call.val, depth, trail)
        IN  /\ m = "yes" => ret = "yes"
            /\ call.mode = "settle" /\ m = "no" => ret = "no"

(***************************************************************************)
(* A value admitted while another thread writes to it belonged to the set  *)
(* at some moment of the walk: a scan that found its list moved answers    *)
(* for no content of it, and a complement takes no answer from one         *)
(* (walk.rs, `mutated`, check_complement).                                 *)
(***************************************************************************)
AdmissionHeldOnce == Done /\ Outcome = "yes" => held # {"no"}
=============================================================================
