------------------------------- MODULE Build -------------------------------
(***************************************************************************)
(* The schema frontend of the binding (build.rs, build/classes.rs): the    *)
(* recursion of build_schema over one annotation, on one thread.           *)
(*                                                                         *)
(* Each descent is a frame of `stack`.  What the recursion keeps on the    *)
(* thread (its depth, the descents made, the nodes held, the aliases and   *)
(* classes open) is a variable of its own, since every early return has to *)
(* leave it right, and since reading an annotation may run code that       *)
(* begins a build inside the build.                                        *)
(*                                                                         *)
(* Which annotation reads as which node is data: an annotation has a kind  *)
(* and parts.  A schema is its nodes in preorder, each with its level, and *)
(* whether a structural constructor stands above it.  The union constructor *)
(* flattens a union among its members and drops a member it holds; that it  *)
(* sorts them, and what `Any` absorbs, are left out.                       *)
(***************************************************************************)
EXTENDS Integers, SequencesExt

CONSTANTS Ann,             \* the annotations
          NoAnn,
          Reading,         \* what each annotation reads as
          RootAnns,        \* those a validator is built from
          MaxSchemaDepth,  \* levels a schema may nest
          MaxSchemaNodes,  \* nodes a schema may span, definitions included
          MaxDefinitions,  \* recursive definitions a schema may hold
          MaxBuilds,       \* bound: validators built on the thread, one after another
          MaxNested        \* bound: builds begun inside a build, at once

Kinds == {"scalar", "form", "join", "alias", "newtype", "class", "validator", "refused"}

ASSUME AnnsRead == /\ NoAnn \notin Ann /\ RootAnns \subseteq Ann
                   /\ Reading \in [Ann -> [kind : Kinds, name : STRING, parts : Seq(Ann),
                                           whole : Nat, runs : Ann \cup {NoAnn}]]
ASSUME PassesOn == \A a \in Ann :
    /\ Reading[a].kind \in {"alias", "newtype"} => Len(Reading[a].parts) = 1
    /\ Reading[a].runs # NoAnn => Reading[a].kind \in {"alias", "class"}
    /\ Reading[a].kind = "validator" => Reading[a].whole > 0
    /\ Reading[a].kind \in {"scalar", "validator", "refused"} => Reading[a].parts = <<>>
\* An alias and a class are told by their address, and what each is applied to.
ASSUME NamesAreTheirs == \A a, b \in Ann :
    Reading[a].kind = Reading[b].kind /\ Reading[a].kind \in {"alias", "class"}
        /\ Reading[a].name = Reading[b].name => a = b
ASSUME AnnsAreCounted == IsFiniteSet(Ann)
ASSUME BuildBounds == {MaxSchemaDepth, MaxSchemaNodes, MaxDefinitions, MaxBuilds, MaxNested} \subseteq Nat

VARIABLES
    stack,     \* the open builds and descents, innermost last
    ret,       \* the result just returned to the top frame
    depth,     \* Build.depth
    descents,  \* Build.descents
    held,      \* Build.held
    aliases,   \* OPEN_ALIASES
    classes,   \* OPEN_CLASSES
    defs,      \* the definitions of the build under way
    tokens,    \* NEXT_SELF_TOKEN
    begun,     \* how many validators were asked for, up to MaxBuilds
    last       \* the build that ended last, for the properties

counts == <<depth, descents, held>>
open   == <<aliases, classes>>
vars   == <<stack, ret, depth, descents, held, aliases, classes, defs, tokens, begun, last>>

-----------------------------------------------------------------------------
(* Schemas.                                                                *)

Node == [name : STRING, self : Nat, ref : Nat, level : Nat, guarded : BOOLEAN]
Term == Seq(Node)

Leaf(name)  == <<[name |-> name, self |-> 0, ref |-> 0, level |-> 0, guarded |-> FALSE]>>
Self(token) == <<[name |-> "", self |-> token, ref |-> 0, level |-> 0, guarded |-> FALSE]>>
Ref(ix)     == <<[name |-> "", self |-> 0, ref |-> ix, level |-> 0, guarded |-> FALSE]>>
Whole(name, n) == [i \in 1 .. n |-> [name |-> name, self |-> 0, ref |-> 0,
                                     level |-> i - 1, guarded |-> i > 1]]

\* A schema as the part of a constructor, and the parts of one: a node at the first
\* level begins a part, any other is of the part before it.
Under(t, guards) == [i \in DOMAIN t |-> [t[i] EXCEPT !.level = @ + 1, !.guarded = @ \/ guards]]
Raised(node)     == [node EXCEPT !.level = @ - 1]
Parts(t) ==
    LET upto[n \in 1 .. Len(t)] ==
          IF n = 1 THEN <<>>
          ELSE LET parts == upto[n - 1]
               IN  IF t[n].level = 1 THEN Append(parts, <<Raised(t[n])>>)
                   ELSE [parts EXCEPT ![Len(parts)] = Append(@, Raised(t[n]))]
    IN  upto[Len(t)]

\* Schema::union: flattened, an equal member dropped, a member alone itself.
Members(t) == IF t[1].name = "|" THEN Parts(t) ELSE <<t>>
Distinct(s) ==
    LET kept[n \in 0 .. Len(s)] ==
          IF n = 0 THEN <<>>
          ELSE IF Contains(kept[n - 1], s[n]) THEN kept[n - 1] ELSE Append(kept[n - 1], s[n])
    IN  kept[Len(s)]
Union(parts) ==
    LET members == Distinct(FlattenSeq([i \in DOMAIN parts |-> Members(parts[i])]))
    IN  IF Len(members) = 1 THEN members[1]
        ELSE Leaf("|") \o FlattenSeq([i \in DOMAIN members |-> Under(members[i], FALSE)])

Built(a, parts) ==
    IF Reading[a].kind = "join" THEN Union(parts)
    ELSE Leaf(Reading[a].name) \o FlattenSeq([i \in DOMAIN parts |-> Under(parts[i], TRUE)])

\* resolve_self, and renumbered for one index.
Resolved(t, token, ix) ==
    [i \in DOMAIN t |-> IF t[i].self = token THEN [t[i] EXCEPT !.self = 0, !.ref = ix] ELSE t[i]]
Renumbered(t, from, to) ==
    [i \in DOMAIN t |-> IF t[i].ref = from THEN [t[i] EXCEPT !.ref = to] ELSE t[i]]

\* Mutant of ResolvedAll: the index is taken as if the body were in the table.
ResolvedPast(ds, token, ix) == [d \in DOMAIN ds |-> Resolved(ds[d], token, ix + 1)]
ResolvedAll(ds, token, ix)  == [d \in DOMAIN ds |-> Resolved(ds[d], token, ix)]

Refs(t)     == {t[i].ref : i \in DOMAIN t} \ {0}
Bare(t)     == {t[i].ref : i \in {j \in DOMAIN t : ~t[j].guarded}} \ {0}

\* What `from` reaches, where each definition d names those in names[d].
Closure(from, names) ==
    LET reach[n \in Nat] ==
          IF n = 0 THEN from
          ELSE LET met == reach[n - 1] IN met \cup UNION {names[d] : d \in met \cap DOMAIN names}
    IN  reach[Cardinality(DOMAIN names)]

\* Mutant of Unguarded: the body is read without the definitions it names.
UnguardedInBody(ix, body, ds) == ix \in Bare(body)
Unguarded(ix, body, ds)       == ix \in Closure(Bare(body), [d \in DOMAIN ds |-> Bare(ds[d])])

-----------------------------------------------------------------------------
(* Frames and results.                                                     *)

None   == [tag |-> "none", term |-> <<>>, why |-> ""]
Ok(t)  == [tag |-> "ok", term |-> t, why |-> ""]
Err(w) == [tag |-> "error", term |-> <<>>, why |-> w]

Empty == [depth |-> 0, descents |-> 0, held |-> 0, aliases |-> <<>>, classes |-> <<>>, defs |-> <<>>]
Start(a) == [ann |-> a, pc |-> "start", before |-> 0, walks |-> FALSE, parts |-> <<>>, token |-> 0,
             saved |-> Empty]
Root(a)  == [Start(a) EXCEPT !.pc = "root", !.saved =
                [depth |-> depth, descents |-> descents, held |-> held,
                 aliases |-> aliases, classes |-> classes, defs |-> defs]]

MaxBuildDepth == MaxSchemaDepth + 1

Top       == stack[Len(stack)]
TopReads  == Reading[Top.ann]
Calling   == stack # <<>> /\ ret = None
At(pc)    == Calling /\ Top.pc = pc
Back(pc)  == stack # <<>> /\ ret # None /\ Top.pc = pc
Pop       == SubSeq(stack, 1, Len(stack) - 1)
Become(f) == stack' = [stack EXCEPT ![Len(stack)] = f]
Call(f, frames) == stack' = [stack EXCEPT ![Len(stack)] = f] \o frames /\ ret' = None

\* What a finished descent leaves held: its nodes where it walked its result,
\* one where nothing was built below it, and what its parts left otherwise.
\* Mutant of Held: a descent that passes its one part through counts itself.
HeldAndOne(r, now) == IF Top.walks /\ r.tag = "ok" THEN Top.before + Len(r.term) ELSE now + 1
Held(r, now) == IF Top.walks /\ r.tag = "ok" THEN Top.before + Len(r.term)
                ELSE IF now = Top.before THEN now + 1
                ELSE now

\* A descent ends with r, `now` nodes held (BuildGuard::drop).
Leave(r, now) ==
    /\ stack' = Pop /\ ret' = r
    /\ depth' = depth - 1
    /\ descents' = IF depth = 1 THEN 0 ELSE descents
    /\ held' = IF depth = 1 THEN 0 ELSE Held(r, now)

-----------------------------------------------------------------------------
(* A descent begins.                                                       *)

\* Past as many descents as the node bound, a result is counted by a walk.
Walks == descents >= MaxSchemaNodes

\* BuildGuard::enter, which refuses a descent past either bound and takes it
\* off the depth again.
Enter ==
    /\ At("start")
    /\ descents' = descents + 1 /\ UNCHANGED held
    /\ \/ depth >= MaxBuildDepth /\ stack' = Pop /\ ret' = Err("deep") /\ UNCHANGED depth
       \/ /\ depth < MaxBuildDepth /\ held > MaxSchemaNodes
          /\ stack' = Pop /\ ret' = Err("large") /\ UNCHANGED depth
       \/ /\ depth < MaxBuildDepth /\ held <= MaxSchemaNodes
          /\ depth' = depth + 1
          /\ Become([Top EXCEPT !.pc = "read", !.before = held, !.walks = Walks])
          /\ UNCHANGED ret
    /\ UNCHANGED <<open, defs, tokens, begun, last>>

ReadScalar ==
    /\ At("read") /\ TopReads.kind = "scalar"
    /\ Leave(Ok(Leaf(TopReads.name)), held)
    /\ UNCHANGED <<open, defs, tokens, begun, last>>

\* A compiled validator composes in, every node of it held (hold_whole).
ReadValidator ==
    /\ At("read") /\ TopReads.kind = "validator"
    /\ Leave(Ok(Whole(TopReads.name, TopReads.whole)), held + TopReads.whole)
    /\ UNCHANGED <<open, defs, tokens, begun, last>>

\* A form with no reading here, a forward reference, code that raised.
ReadRefused ==
    /\ At("read") /\ TopReads.kind = "refused"
    /\ Leave(Err("refused"), held)
    /\ UNCHANGED <<open, defs, tokens, begun, last>>

ReadParts ==
    /\ At("read") /\ TopReads.kind \in {"form", "join", "newtype"}
    /\ Become([Top EXCEPT !.pc = "parts"])
    /\ UNCHANGED <<ret, counts, open, defs, tokens, begun, last>>

-----------------------------------------------------------------------------
(* The parts of a form, a union, a NewType or a class, one after another.  *)

\* Mutant of ClassesLeft: a class refused below stays open.
ClassesOpen == IF TopReads.kind = "class" /\ ret.tag # "error" THEN Front(classes) ELSE classes

\* ClassScope::drop.
ClassesLeft == IF TopReads.kind = "class" THEN Front(classes) ELSE classes

BuildPart ==
    /\ At("parts") /\ Len(Top.parts) < Len(TopReads.parts)
    /\ Call(Top, <<Start(TopReads.parts[Len(Top.parts) + 1])>>)
    /\ UNCHANGED <<counts, open, defs, tokens, begun, last>>

PartReturn ==
    /\ Back("parts")
    /\ \/ /\ ret.tag = "ok"
          /\ Become([Top EXCEPT !.parts = Append(@, ret.term)]) /\ ret' = None
          /\ UNCHANGED <<counts, classes>>
       \/ /\ ret.tag = "error"
          /\ classes' = ClassesLeft
          /\ Leave(ret, held)
    /\ UNCHANGED <<aliases, defs, tokens, begun, last>>

PartsBuilt ==
    /\ At("parts") /\ Len(Top.parts) = Len(TopReads.parts)
    /\ Leave(Ok(IF TopReads.kind = "newtype" THEN Top.parts[1] ELSE Built(Top.ann, Top.parts)), held)
    /\ classes' = ClassesLeft
    /\ UNCHANGED <<aliases, defs, tokens, begun, last>>

-----------------------------------------------------------------------------
(* Classes.                                                                *)

IsOpenClass(name) == \E i \in DOMAIN classes : classes[i] = name

\* ClassScope::enter: a class reached again while its fields are built is refused.
EnterClass ==
    /\ At("read") /\ TopReads.kind = "class"
    /\ \/ /\ IsOpenClass(TopReads.name)
          /\ Leave(Err("class"), held) /\ UNCHANGED classes
       \/ /\ ~IsOpenClass(TopReads.name)
          /\ classes' = Append(classes, TopReads.name)
          /\ Become([Top EXCEPT !.pc = IF TopReads.runs = NoAnn THEN "parts" ELSE "scoped"])
          /\ UNCHANGED <<ret, counts>>
    /\ UNCHANGED <<aliases, defs, tokens, begun, last>>

-----------------------------------------------------------------------------
(* Code an annotation runs as it is read: a class's hints are evaluated    *)
(* with the class open, an alias's value before the alias is.  It may      *)
(* construct a validator, a build of its own.                              *)

NestedBuilds == Cardinality({i \in DOMAIN stack : stack[i].pc = "root"}) - 1
Evaluates == \/ At("scoped")
             \/ At("read") /\ TopReads.kind = "alias" /\ TopReads.runs # NoAnn

\* Mutant of ScopeTaken: a build begun inside another goes on from its depth.
ScopeKept == /\ UNCHANGED <<depth, open>>
             /\ descents' = 0 /\ held' = 0 /\ defs' = <<>>

\* RootScope::enter: the thread's state is set aside for the inner build.
ScopeTaken == /\ depth' = 0 /\ descents' = 0 /\ held' = 0
              /\ aliases' = <<>> /\ classes' = <<>> /\ defs' = <<>>

Evaluate ==
    /\ Evaluates
    /\ \/ /\ NestedBuilds < MaxNested
          /\ Call([Top EXCEPT !.pc = "evaluating"], <<Root(TopReads.runs), Start(TopReads.runs)>>)
          /\ ScopeTaken
       \/ /\ NestedBuilds >= MaxNested
          /\ Become([Top EXCEPT !.pc = IF TopReads.kind = "class" THEN "parts" ELSE "evaluated"])
          /\ UNCHANGED <<ret, counts, open, defs>>
    /\ UNCHANGED <<tokens, begun, last>>

\* The code that built a validator handles the error it met or passes it on.
Evaluated ==
    /\ Back("evaluating")
    /\ \/ /\ Become([Top EXCEPT !.pc = IF TopReads.kind = "class" THEN "parts" ELSE "evaluated"])
          /\ ret' = None
          /\ UNCHANGED <<counts, classes>>
       \/ /\ ret.tag = "error"
          /\ classes' = ClassesLeft
          /\ Leave(Err("refused"), held)
    /\ UNCHANGED <<aliases, defs, tokens, begun, last>>

-----------------------------------------------------------------------------
(* Aliases (tie_alias).                                                    *)

AliasRead == \/ At("evaluated")
             \/ At("read") /\ TopReads.kind = "alias" /\ TopReads.runs = NoAnn

OpenAt(name) == {i \in DOMAIN aliases : aliases[i].name = name}

\* An alias met inside its own body is the back edge: its token stands for it.
AliasAgain ==
    /\ AliasRead /\ OpenAt(TopReads.name) # {}
    /\ LET i == CHOOSE j \in OpenAt(TopReads.name) : \A k \in OpenAt(TopReads.name) : j <= k
       IN  /\ aliases' = [aliases EXCEPT ![i].used = TRUE]
           /\ Leave(Ok(Self(aliases[i].token)), held)
    /\ UNCHANGED <<classes, defs, tokens, begun, last>>

OpenTheAlias ==
    /\ AliasRead /\ OpenAt(TopReads.name) = {}
    /\ tokens' = tokens + 1
    /\ aliases' = Append(aliases, [name |-> TopReads.name, token |-> tokens + 1, used |-> FALSE])
    /\ Call([Top EXCEPT !.pc = "body", !.token = tokens + 1], <<Start(TopReads.parts[1])>>)
    /\ UNCHANGED <<counts, classes, defs, begun, last>>

\* Mutant of HeldAlready: two bodies are compared without their references.
HeldByShape(body, at, ds) ==
    {d \in DOMAIN ds : [i \in DOMAIN ds[d] |-> ds[d][i].name] = [i \in DOMAIN body |-> body[i].name]}

\* The definition of ds that `body`, about to be added at `at`, is.
HeldAlready(body, at, ds) == {d \in DOMAIN ds : ds[d] = Renumbered(body, at, d)}

\* Mutant of AliasesLeft: an alias whose body was refused stays open.
AliasesOpen == IF ret.tag = "error" THEN aliases ELSE Front(aliases)
AliasesLeft == Front(aliases)

\* The alias closes whatever its body came to. One that named itself becomes a
\* definition, unless it is not contractive, or is one the table holds.
BodyReturn ==
    /\ Back("body")
    /\ aliases' = AliasesLeft
    /\ LET at    == Len(defs) + 1
           token == aliases[Len(aliases)].token
           body  == Resolved(ret.term, token, at)
           ds    == ResolvedAll(defs, token, at)
           same  == HeldAlready(body, at, ds)
       IN  \/ /\ ret.tag = "error" \/ ~aliases[Len(aliases)].used
              /\ Leave(ret, held) /\ UNCHANGED defs
           \/ /\ ret.tag = "ok" /\ aliases[Len(aliases)].used
              /\ \/ /\ Unguarded(at, body, ds)
                    /\ Leave(Err("bare"), held) /\ defs' = ds
                 \/ /\ ~Unguarded(at, body, ds) /\ same # {}
                    /\ Leave(Ok(Ref(CHOOSE d \in same : \A e \in same : d <= e)), held) /\ defs' = ds
                 \/ /\ ~Unguarded(at, body, ds) /\ same = {}
                    /\ Leave(Ok(Ref(at)), held) /\ defs' = Append(ds, body)
    /\ UNCHANGED <<classes, tokens, begun, last>>

-----------------------------------------------------------------------------
(* A build from the API: build_root, then Validator::checked.              *)

Begin ==
    /\ stack = <<>> /\ begun < MaxBuilds
    /\ begun' = begun + 1
    /\ \E a \in RootAnns : stack' = <<Root(a), Start(a)>>
    /\ ret' = None
    /\ ScopeTaken
    /\ UNCHANGED <<tokens, last>>

Levels(t)      == {t[i].level + 1 : i \in DOMAIN t}
Deep(t)        == \E n \in Levels(t) : n > MaxSchemaDepth
Nodes(t, ds)   == Len(t) + SumFunction([d \in DOMAIN ds |-> Len(ds[d])])
Escapes(t)     == \E i \in DOMAIN t : t[i].self # 0
Kept(t, ds)    == Closure(Refs(t), [d \in DOMAIN ds |-> Refs(ds[d])]) \cap DOMAIN ds

\* Validator::checked, over the definitions the schema reaches (pruned).
Checked(t, ds) ==
    LET keep == [d \in Kept(t, ds) |-> ds[d]]
    IN  IF Deep(t) \/ \E d \in DOMAIN keep : Deep(keep[d]) THEN Err("deep")
        ELSE IF Cardinality(DOMAIN keep) > MaxDefinitions THEN Err("definitions")
        ELSE IF Nodes(t, keep) > MaxSchemaNodes THEN Err("large")
        ELSE IF Escapes(t) \/ \E d \in DOMAIN keep : Escapes(keep[d]) THEN Err("unresolved")
        ELSE Ok(t)

\* The build ends, and the thread is handed back what it found (RootScope::drop).
RootReturn ==
    /\ Back("root")
    /\ LET r == IF ret.tag = "ok" THEN Checked(ret.term, defs) ELSE ret
       IN  /\ last' = [ann |-> Top.ann, result |-> r, defs |-> defs]
           /\ ret' = r
    /\ stack' = Pop
    /\ depth' = Top.saved.depth /\ descents' = Top.saved.descents /\ held' = Top.saved.held
    /\ aliases' = Top.saved.aliases /\ classes' = Top.saved.classes /\ defs' = Top.saved.defs
    /\ UNCHANGED <<tokens, begun>>

Init ==
    /\ stack = <<>> /\ ret = None
    /\ depth = 0 /\ descents = 0 /\ held = 0
    /\ aliases = <<>> /\ classes = <<>> /\ defs = <<>>
    /\ tokens = 0 /\ begun = 0
    /\ last = [ann |-> NoAnn, result |-> None, defs |-> <<>>]

Step ==
    \/ Enter \/ ReadScalar \/ ReadValidator \/ ReadRefused \/ ReadParts
    \/ BuildPart \/ PartReturn \/ PartsBuilt
    \/ EnterClass \/ Evaluate \/ Evaluated
    \/ AliasAgain \/ OpenTheAlias \/ BodyReturn \/ RootReturn

Next == Begin \/ Step

Spec == Init /\ [][Next]_vars /\ WF_vars(Step)

-----------------------------------------------------------------------------
(* Properties.                                                             *)

\* What the first n frames ought to have left on the thread: what those of the last of
\* their builds are in, each descent, alias and class in the order it was begun.
Nothing == [depth |-> 0, aliases |-> <<>>, classes |-> <<>>]
InClass(f) == Reading[f.ann].kind = "class" /\ f.pc \in {"scoped", "evaluating", "parts"}
With(left, f) ==
    [depth   |-> IF f.pc = "start" THEN left.depth ELSE left.depth + 1,
     aliases |-> IF f.pc = "body" THEN Append(left.aliases, <<Reading[f.ann].name, f.token>>)
                 ELSE left.aliases,
     classes |-> IF InClass(f) THEN Append(left.classes, Reading[f.ann].name) ELSE left.classes]

Left[n \in 0 .. Len(stack)] ==
    IF n = 0 \/ stack[n].pc = "root" THEN Nothing ELSE With(Left[n - 1], stack[n])

Tags(as) == [k \in DOMAIN as |-> <<as[k].name, as[k].token>>]

LeftBy(n, d, as, cs) == Left[n] = [depth |-> d, aliases |-> Tags(as), classes |-> cs]

\* Whatever returned early, the depth is the descents open and the aliases and
\* classes open are those whose bodies and fields are being built, in this build
\* and in each build it began inside; nothing is left once the build is over.
ScopesMatch ==
    /\ LeftBy(Len(stack), depth, aliases, classes)
    /\ \A i \in DOMAIN stack : stack[i].pc = "root" =>
          LeftBy(i - 1, stack[i].saved.depth, stack[i].saved.aliases, stack[i].saved.classes)
    /\ depth = 0 => held = 0 /\ descents = 0
    /\ stack = <<>> => defs = <<>>
=============================================================================
