------------------------------ MODULE Refusals ------------------------------
(***************************************************************************)
(* When the frontend may refuse an annotation, read from what names what   *)
(* alone: no stack, no table of definitions.                               *)
(***************************************************************************)
EXTENDS Build

\* A build has just ended with result r, of the annotation `last` names.
Ended(r) == last.result = r /\ ret = r /\ (stack = <<>> \/ Back("evaluating"))
EndedOk    == last.result.tag = "ok" /\ Ended(last.result)
Refused(w) == last.result.why = w /\ Ended(last.result)

-----------------------------------------------------------------------------
(* Which annotation names which.                                           *)

PartsOf == [a \in Ann |-> ToSet(Reading[a].parts)]
\* The parts no constructor stands above, and those no alias is named on the way to.
BareOf     == [a \in Ann |-> IF Reading[a].kind \in {"alias", "newtype", "join"} THEN PartsOf[a] ELSE {}]
WrittenOut == [a \in Ann |-> IF Reading[a].kind = "alias" THEN {} ELSE PartsOf[a]]

\* What each annotation names in any number of steps.
Reached(steps) == [a \in Ann |-> Closure(steps[a], steps)]
Names          == Reached(PartsOf)
BareName       == Reached(BareOf)
WritesIn       == Reached(WrittenOut)

Within(a)       == {a} \cup Names[a]
Ofkind(a, kind) == {b \in Within(a) : Reading[b].kind = kind}

NotContractive(a)   == \E b \in Ofkind(a, "alias") : b \in BareName[b]
NeverEnds(a)        == \E b \in Within(a) : b \in WritesIn[b]
ClassNamesItself(a) == \E b \in Ofkind(a, "class") : b \in Names[b]
Refuses(a)          == Ofkind(a, "refused") # {} \/ \E b \in Within(a) : Reading[b].runs # NoAnn

\* A refusal other than a bound's has its cause in the annotation: an alias that
\* names itself outside any constructor, a class among its own fields, a form
\* with no reading. A placeholder never escapes, whichever alias it stood for,
\* and what denotes no set, or never bottoms out, is refused.
RefusedForCause ==
    /\ Refused("bare") => NotContractive(last.ann)
    /\ Refused("class") => ClassNamesItself(last.ann)
    /\ Refused("refused") => Refuses(last.ann)
    /\ ~Refused("unresolved")
    /\ EndedOk => ~NotContractive(last.ann) /\ ~NeverEnds(last.ann)

-----------------------------------------------------------------------------
(* The table of definitions.                                               *)

\* Where a descent ends with a schema, what a definition of the table names is in
\* the table: tying an alias never drops the definition its body would have been
\* where one before it names it (build.rs, tie_alias).
TableIsWhole == ret.tag = "ok" => \A d \in DOMAIN defs : Refs(defs[d]) \subseteq DOMAIN defs

\* The one step that breaks it: an alias whose body is a definition the table holds is
\* about to be closed without one of its own, and a definition names its placeholder.
IsNamedIn(token, t) == \E i \in DOMAIN t : t[i].self = token
DropsWhatIsNamed ==
    /\ Back("body") /\ ret.tag = "ok" /\ aliases[Len(aliases)].used
    /\ LET at    == Len(defs) + 1
           token == aliases[Len(aliases)].token
           body  == Resolved(ret.term, token, at)
           ds    == ResolvedAll(defs, token, at)
       IN  /\ ~Unguarded(at, body, ds) /\ HeldAlready(body, at, ds) # {}
           /\ \E d \in DOMAIN defs : IsNamedIn(token, defs[d])

\* A finished schema names no definition past its table (walk.rs, check_ref).
NamesWhatItHolds ==
    EndedOk => \A t \in {last.result.term} \cup {last.defs[d] : d \in Kept(last.result.term, last.defs)} :
                  Refs(t) \subseteq DOMAIN last.defs
=============================================================================
