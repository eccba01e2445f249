------------------------------ MODULE Fixpoints ------------------------------
(***************************************************************************)
(* Validators made from validators, and recursive(builder): lib.rs,        *)
(* validator.rs (checked and the open definitions) and build.rs (compose   *)
(* and combine).                                                           *)
(*                                                                         *)
(* Threads share what they make.  recursive hands its builder a            *)
(* placeholder, which the builder may use, keep, give to another thread,   *)
(* or use in a builder nested in it; the builder returns an annotation or  *)
(* raises, and what it returns is read only after its definition is no     *)
(* longer open.  Reading an annotation may run code that makes validators  *)
(* too.  Each validator carries the term it was written as, which nothing  *)
(* here reads.                                                             *)
(***************************************************************************)
EXTENDS Naturals, Sequences, FiniteSets

CONSTANTS Thread,
          Programs,   \* what the threads run: a program begins with the validators
                      \* begun, is run by threads, writes its annotations with the
                      \* scalars in leaf and the forms in forms, makes at most most
                      \* validators and calls recursive at most calls times
          MaxSchemaDepth, MaxDefinitions, MaxSchemaNodes

\* What is read of schemas: a form over its arguments, the definitions reached, a marker
\* resolved, whether a definition meets itself bare, the facts taken in one walk of a tree.
CONSTANTS Read(_, _), Prune(_, _), Resolve(_, _, _), Unguarded(_, _, _), Measure(_)

ASSUME FixpointBounds ==
  /\ MaxSchemaDepth \in Nat /\ MaxDefinitions \in Nat /\ MaxSchemaNodes \in Nat
ASSUME ProgramsAreOfThreads == \A p \in Programs : p.threads \subseteq Thread /\ p.calls \in Nat
\* A placeholder carries its marker and no other.
ASSUME PlaceholdersAreMarked == \A p \in Programs : \A t \in 1..p.calls :
  Measure(<<"self", t>>).markers = {t}

VARIABLES program,  \* the one run
          made,     \* the validators there are, placeholders among them
          calls,    \* of each thread, its calls of recursive, innermost last
          open,     \* of each thread, the markers of the definitions it has open
          tokens,   \* how many markers there have been, in the process
          refused   \* of the last step: the thread whose it was (no thread's at
                    \* first), what it refused a call for, and what it had read

Nought(by) == [by |-> by, cause |-> "none", of |-> << >>]

vars == <<program, made, calls, open, tokens, refused>>

Validator(schema, defs, written) == [schema |-> schema, defs |-> defs, written |-> written]

\* The forms of one argument.
OfOne == {"list", "complement", "itself"}

-----------------------------------------------------------------------------
(* Reading.                                                                *)

\* As the caller wrote it.
Written(form, args) ==
  LET ws == [k \in DOMAIN args |-> args[k].written] IN
  CASE form = "list"              -> <<"list", ws[1]>>
    [] form = "pair"              -> <<"pair", ws[1], ws[2]>>
    [] form \in {"Union", "union"} -> <<"union", ws>>
    [] form = "intersection"      -> <<"meet", ws>>
    [] form = "complement"        -> <<"not", ws[1]>>
    [] form = "itself"            -> ws[1]

\* What is read, and as it was written.
Compiles(form, args) ==
  LET read == Read(form, args) IN Validator(read.schema, read.defs, Written(form, args))

-----------------------------------------------------------------------------
(* Checking: what nothing reaches is dropped, and the rest is measured.    *)

Trees(v) == {v.schema} \cup {v.defs[i] : i \in DOMAIN v.defs}

AllMarkers(v) == UNION {Measure(s).markers : s \in Trees(v)}
AllNodes(v) ==
  LET upto[n \in 0..Len(v.defs)] ==
        IF n = 0 THEN Measure(v.schema).nodes ELSE upto[n - 1] + Measure(v.defs[n]).nodes
  IN  upto[Len(v.defs)]

Cause(v, opened) ==
  CASE \E s \in Trees(v) : Measure(s).depth > MaxSchemaDepth -> "deep"
    [] Len(v.defs) > MaxDefinitions             -> "definitions"
    [] AllNodes(v) > MaxSchemaNodes             -> "large"
    [] \E t \in AllMarkers(v) : t \notin opened -> "placeholder"
    [] OTHER                                    -> "none"

AsPruned(v, p) == [v EXCEPT !.schema = p.schema, !.defs = p.defs]

\* Keep the validator, or refuse it, on the thread th.
Checked(th, v, opened) ==
  LET kept == AsPruned(v, Prune(v.schema, v.defs)) IN
  /\ refused' = [by |-> {th}, cause |-> Cause(kept, opened), of |-> v.written]
  /\ made' = IF refused'.cause = "none" THEN made \cup {kept} ELSE made

-----------------------------------------------------------------------------
(* recursive: the body closed over its own name.                           *)

\* A defect: the marker resolved where the body shows it and nowhere else.
TiedInTheBody(v, token) ==
  LET index == Len(v.defs) + 1
  IN  [body |-> Resolve(v.schema, token, index), defs |-> v.defs, index |-> index]

Tied(v, token) ==
  LET index == Len(v.defs) + 1
      resolved == [i \in DOMAIN v.defs |-> Resolve(v.defs[i], token, index)]
  IN  [body |-> Resolve(v.schema, token, index), defs |-> resolved, index |-> index]

\* The rest of recursive once its builder has returned and what it returned is
\* compiled: v, which may carry the marker in its schema or in a definition.
CloseOver(th, v, token, tied, opened) ==
  IF token \notin AllMarkers(v)
  THEN Checked(th, Validator(v.schema, v.defs, <<"mu", token, v.written>>), opened)
  ELSE IF Unguarded(tied.body, tied.index, tied.defs)
  THEN /\ refused' = [by |-> {th}, cause |-> "not contractive", of |-> <<"mu", token, v.written>>]
       /\ UNCHANGED made
  ELSE Checked(th, Validator(<<"ref", tied.index>>, Append(tied.defs, tied.body),
                             <<"mu", token, v.written>>),
               opened)

CloseCompiled(th, v, token, opened) == CloseOver(th, v, token, Tied(v, token), opened)

-----------------------------------------------------------------------------
(* What a thread does.                                                     *)

MarksOf(th) == {open[th][k] : k \in DOMAIN open[th]}

\* A defect: the open definitions are the process's, not the thread's.
OpenedAnywhere(th) == UNION {MarksOf(other) : other \in Thread}

\* A defect: the innermost alone.
OpenedInnermost(th) ==
  IF open[th] = << >> THEN {} ELSE {open[th][Len(open[th])]}

Opened(th) == MarksOf(th)

Arguments == made \cup {Validator(s, << >>, s) : s \in program.leaf}

\* What a thread may write, and not both ways round where order is nothing.
Annotations ==
  {[form |-> f, args |-> << v >>] : f \in program.forms \cap OfOne, v \in Arguments}
  \cup {[form |-> f, args |-> << v, w >>] : f \in program.forms \ OfOne, v \in Arguments, w \in Arguments}

Innermost(th) == calls[th][Len(calls[th])]

Front(seq) == SubSeq(seq, 1, Len(seq) - 1)

\* Validator(annotation), a combinator, or an operator on validators.
Make(th, a) ==
  /\ Cardinality(made) < program.most
  /\ Checked(th, Compiles(a.form, a.args), Opened(th))
  /\ UNCHANGED <<program, calls, open, tokens>>

\* recursive(builder): a fresh marker, a placeholder that carries it, which is
\* not checked, and the call of the builder while its definition is open.
Call(th) ==
  /\ tokens < program.calls /\ Cardinality(made) < program.most
  /\ tokens' = tokens + 1
  /\ made' = made \cup {Validator(<<"self", tokens'>>, << >>, <<"self", tokens'>>)}
  /\ open' = [open EXCEPT ![th] = Append(@, tokens')]
  /\ calls' = [calls EXCEPT ![th] = Append(@, [token |-> tokens', body |-> {}])]
  /\ refused' = Nought({th})
  /\ UNCHANGED program

\* A defect: the definition stays open while what its builder returned is read.
ReturnHeldOpen(th, a) ==
  /\ calls[th] # << >> /\ Innermost(th).body = {}
  /\ calls' = [calls EXCEPT ![th][Len(calls[th])].body = {a}]
  /\ refused' = Nought({th})
  /\ UNCHANGED <<program, made, open, tokens>>

\* The builder returns an annotation: its definition is closed, and what it
\* returned is still to be read.
Return(th, a) ==
  /\ calls[th] # << >> /\ Innermost(th).body = {}
  /\ calls' = [calls EXCEPT ![th][Len(calls[th])].body = {a}]
  /\ open' = [open EXCEPT ![th] = Front(@)]
  /\ refused' = Nought({th})
  /\ UNCHANGED <<program, made, tokens>>

\* What it returned is read, tied to its own name, and checked.
Finish(th) ==
  /\ calls[th] # << >> /\ Innermost(th).body # {}
  /\ \E a \in Innermost(th).body :
       CloseCompiled(th, Compiles(a.form, a.args), Innermost(th).token, Opened(th))
  /\ calls' = [calls EXCEPT ![th] = Front(@)]
  /\ UNCHANGED <<program, open, tokens>>

\* The builder raises, or the code of what it returned does.
Raise(th) ==
  /\ calls[th] # << >>
  /\ open' = [open EXCEPT ![th] = IF Innermost(th).body = {} THEN Front(@) ELSE @]
  /\ calls' = [calls EXCEPT ![th] = Front(@)]
  /\ refused' = Nought({th})
  /\ UNCHANGED <<program, made, tokens>>

Init ==
  /\ program \in Programs
  /\ made = program.begun
  /\ calls = [th \in Thread |-> << >>]
  /\ open = [th \in Thread |-> << >>]
  /\ tokens = 0
  /\ refused = Nought({})

Next == \E th \in program.threads :
  \/ \E a \in Annotations : Make(th, a) \/ Return(th, a)
  \/ Call(th) \/ Finish(th) \/ Raise(th)

Spec == Init /\ [][Next]_vars

-----------------------------------------------------------------------------
(* What is promised of the markers.                                        *)

\* The calls whose builders are running, on each thread.
Running(th) ==
  {calls[th][k].token : k \in {n \in DOMAIN calls[th] : calls[th][n].body = {}}}

\* No validator made carries the marker of a definition that the thread that
\* made it was not building when it made it, whatever other threads were
\* building then: checked, validator.rs.
MarkersAreOfRunning ==
  [][\A v \in made' \ made :
       \E th \in refused'.by : AllMarkers(v) \subseteq Running(th)']_vars
=============================================================================
