# valgebra in TLA+

valgebra reads a Python type annotation as a *schema*, a set of Python values, and
answers three kinds of question about it: does a value belong to the set (the
*walk*), is one set below another (*is_subtype*), and is a set empty. It is a
Rust library (`valgebra-core`: terms, rewrites and decisions) and an extension
module (`valgebra-py`: the frontend that reads annotations, the walk, the pool of
Python objects the terms name). This directory models the parts whose
correctness rests on the order of things: what is open when a call returns
early, what is kept and read back later, what happens between two steps.

Contents: [components](#the-system-and-its-parts), [modules](#modules),
[the walk](#the-walk), [the frontend](#the-frontend),
[pattern programs](#pattern-programs), [what a validator keeps](#what-a-validator-keeps),
[recursive definitions and equality](#recursive-definitions-and-equality),
[blocks found again](#blocks-found-again), [emptiness](#the-emptiness-decision), [the relation](#the-relation), [findings](#findings), [proofs](#proofs),
[what is left out](#what-is-not-modelled), [plan](#plan).

## The system and its parts

Paths are below `src/crates/`; `py` is `valgebra-py/src`, `core` is
`valgebra-core/src`.

| component | state it keeps | operations | what makes it correct |
|---|---|---|---|
| **walk, deciding and settling** `py/check/walk.rs`, `ctx.rs`, `memo.rs` | levels open, the trail of (definition, value) pairs, the stop cell, the fatal signal, the moves seen, the memo (armed or not, what it kept, how many entries) | `member` and one check per node kind; `enter_ref`, `arm`, `keep_decided`, `keep_settled` | every answer is sound and, where no bound was met, complete; a stop never outlives what it stopped; every return leaves the books as it found them; what is kept is true wherever it is read |
| walk, sequences, scalars `py/check/walk/sequence.rs`, `scalar.rs` | none of their own | scan with its two length tests; leaf reads that may run user code | a list that moves is never admitted for what it never was |
| walk, records `py/check/walk/record.rs` | the place a deciding pass stopped | deciding pass, resumed explaining pass | both passes agree, or the dict moved |
| walk, explaining `py/check/walk.rs`, `violation.rs` | the explained table of the memo | explain a union, choose the branch | what is explained is what was decided |
| **pattern programs and the index** `py/check/index.rs` | the shared table of weak programs, its prune length, its lock; a schema's allowance | look up, compile, store, prune, charge | a refusal is of the schema, whoever else holds its patterns; pruning is paid for |
| **frontend** `py/build.rs`, `build/*.rs` | on the thread: depth, descents, nodes held, aliases open, classes open, next token; in a build: definitions | `build_schema` and every early return | a schema denotes its annotation; a refusal has its cause; nothing stays on the thread |
| **what a validator keeps** `py/validator.rs` | once-cells for the index, the pool's keys, the hash | ask for one, from any thread | one value is kept and told to all; nobody waits for a thread that waits for them |
| **recursive definitions** `py/lib.rs`, `validator.rs`, `build.rs` | on the thread: the markers of the builders running | `recursive`, compose, check | a validator reads as it was written; a placeholder serves no longer than its call |
| **equality** `py/equality.rs` | the renaming of definitions grown by a comparison | compare, hash | what a failed branch paired is taken back; equal is one schema up to numbering |
| oracle `py/oracle.rs` | tables per query, the fatal signal | leaf relations asked of Python | a signal met is raised, and nothing decided beside it kept |
| **terms, rewrites** `core/ir.rs`, `ir/transform.rs` | none | normalising constructors, prune, resolve | a rewrite keeps the set |
| **tables that find blocks again** `core/ir/intern.rs`, `descr/regular.rs`, `descr/budget.rs` | per thread: slots that name nodes, memos of word tables with the bytes they hold, a lowering's allowance | intern a node; compile, complement, join word sets | a handle stands for what was asked for; what is kept of an address is true of what is there now |
| **subtype decision** `core/decision.rs`, `decision/*.rs` | the trail of pairs assumed, budget, depth, readings, the record of the root's goals | goals, second asking, equivalence | a yes is never given on an assumption that failed |
| **emptiness** `core/decision/emptiness.rs` | hypotheses open, verdicts kept | emptiness of a node | a verdict is kept only where it rests on nothing open |
| set representation `core/descr/*.rs` | the thread's lowering budget | lowering, unions, complements, intervals, automata | the operations are those of sets |
| readers, rendering, codes, workload, Python package | none | formatting, parsing, accessors | no state: not modelled |

How they meet. The frontend builds a schema; `Validator::checked` holds it to the
bounds; the first check builds the index once (programs, plans). A check runs the
walk, which calls user code (predicates, `==`), which may call anything again. A
decision runs over terms, asks the oracle about objects, and the oracle may run
user code. What is shared: per thread, the frontend's counters and the
decisions' allowances; per process, the program table; between threads, on builds
without the global lock, every list and dict a walk reads.

What is hard: user code runs in the middle of all of it; nested calls share the
thread's state; results are kept and answered with later, elsewhere, with other
bounds; most errors return early through many frames; signals must unwind
everything. `PROJECT.json` lists each such place under `hazards`.

## Modules

| module | models | lines |
|---|---|---|
| `MemoPlan` | which definitions the memo remembers and which nodes share work (`MemoPlan::of`, `shares`) | constants, pure |
| `Walk` (EXTENDS `MemoPlan`) | the walk as a stack machine, one action per step of `member` | the core |
| `WalkMeaning` (EXTENDS `Walk`) | what a schema denotes, and the walk's promises stated against it | recursive functions of the node, of rounds, of levels left |
| `MCWalk` | instances | |
| `WalkProofs` | theorems about `Walk`: its types and levels, its books, its signals and what its memo keeps | |
| `MeaningProofs` | theorems about `WalkMeaning`: the fixpoint is one, and the answers are sound | |
| `Build` | the frontend's recursion as a stack machine | |
| `Refusals` (EXTENDS `Build`) | when a refusal is due, read from the annotation's graph | |
| `BuildMeaning` (EXTENDS `Refusals`) | what an annotation denotes, and how large it is | TLC only: recursive |
| `MCBuild` | instances | |
| `BuildProofs` | theorems about `Build` and `Refusals`: what it leaves on the thread, and what it refuses for | |
| `Programs`, `MCPrograms` | the table of pattern programs, between threads | |
| `SumProofs` | induction over numbers, and what sums over finite sets are | lemmas, for `BuildProofs`, `ProgramsProofs`, `SharingProofs` and `MeaningProofs` |
| `ProgramsProofs` | theorems about `Programs` | |
| `KeptOnce` | what is promised of a value computed on first use: the abstract specification | |
| `Cells`, `MCCells` | the once-cells of a validator, between threads, with the interpreter's pauses; implements `KeptOnce` | |
| `CellsProofs` | theorems about `Cells`, the refinement among them | |
| `Rewrites` | terms that name definitions: their order, the joining constructors, renumbering, tying, pruning | TLC only: recursive |
| `Pairing` (EXTENDS `Rewrites`) | the comparison of two schemas, the digest, where a table's definitions are found in another | TLC only: recursive |
| `Composing` (EXTENDS `Pairing`) | a form over validators compiled into one table of definitions | TLC only: recursive |
| `Fixpoints` | threads that make validators of validators: `recursive`, compiling, checking | what it reads of schemas are constants |
| `FixpointsMeaning` (EXTENDS `Fixpoints`, `Composing`), `MCFixpoints` | what a term as written and a schema as built denote, and the promises; instances | |
| `FixpointsProofs` | a theorem about `Fixpoints`: whose markers what is made carries | |
| `Construction` | what making schemas promises, tables or none: the abstract specification | |
| `Sharing` | blocks, the slots and memos that find them again, and the handles that keep them | |
| `SharingMeaning`, `MCSharing` | the trees handles stand for; implements `Construction`; instances | |
| `SharingProofs` | theorems about `Sharing` and its tables, and about the trees, the refinement among them | |
| `Schemas` | schemas as terms, their constructors, and what is read off a term without a decision | TLC only: recursive |
| `Emptiness` (EXTENDS `Schemas`) | the emptiness recursion with its hypotheses, kept verdicts, budget and second asking | TLC only: recursive |
| `Questions` (EXTENDS `Emptiness`) | the questions of one thread in turn, and what the thread keeps between them | |
| `Values` (EXTENDS `Schemas`) | the values a term holds, read with no procedure | TLC only: recursive |
| `QuestionsMeaning`, `MCQuestions` | what an answer must mean, and the promises; instances | |
| `Goals` (EXTENDS `Emptiness`) | the relation: rules, trail, bounds, the readings past the rules, the split of records | TLC only: recursive |
| `Relations` (EXTENDS `Goals`) | the relations of one thread in turn, and what the thread keeps between them | |
| `RelationsMeaning`, `MCGoals` | what an answer must mean, and the promises; instances | |

A function of the code that calls itself is a frame; a call pushes one, a return
pops it and leaves its answer in `ret`. So everything that may happen between two
calls is a step between two states, and an early return that forgets something
shows as a variable the frames do not account for.

## The walk

**State.** `stack` (frames: node, value, mode, where the frame stands, what it must
restore), `ret`, and `Ctx`'s own: `depth` (levels open), `trail`, `stopped` (the stop
cell), `fatal`, `moves`, and the memo: `memo` (armed, how many entered), `decided` and
`settled` (its two tables). `heap` holds what each list contains, and `writes` bounds
the writes to it.

**Values.** A value is an address; a list is a sequence of addresses, so a list may
hold itself. A leaf admits a set of values. A *literal* compares by `==`, a *pred*
calls the predicate: both run user code, which may be interrupted (`kills`); a
predicate may also raise (`raises`). A *seq* node with a tail is `list[T]`, without
one a list of fixed shape.

**Actions.** `Unwind` (a fatal signal is set: every frame returns), `TooDeep` (no level left),
the leaves, `OpenSeq` / `SeqElement` / `SeqEnd` / `SeqReturn` and the two ways a scan
meets a list that moved, `OpenUnion` / `UnionScalar` / `UnionBranch` / `UnionReturn` /
`UnionEnd`, the same for a meet, `OpenNot` / `NotInner` /
`NotReturn`, and `OpenRef` / `RefFound` / `RefRefused` / `RefEnter` /
`RefReturn` for a reference, where the memo is read and written. `Write` changes a
list at any moment. On a free-threaded build that is another thread; on a build
with the global lock it can happen only where the walk runs Python code. The
model allows it everywhere, so it has every behaviour of both builds.

**Modes.** *fast* is what `is_valid` asks; *settle* is the inner walk of a complement, which
answers yes where it stopped and leaves a code in the stop cell, so that the
complement, turning it round, refuses. The explaining modes are in the plan.

**What it promises** (`WalkMeaning`). The meaning of a schema is a least fixpoint over
a heap. `Meaning` is the three-valued answer with the bounds taken into account:
yes, no, or undecided because a bound was met.

- `Sound`: a value admitted is in the set, and one a complement's inner walk refuses is
  outside it, through nested complements, bounds, loops and the memo. Proved, and with it that a walk which ends with no
  stop in the cell is exact.
- `Complete`: where the bounds leave the answer decided, the walk gives it, whatever
  the memo kept on the way.
- `Balanced`: at every state the level count, the trail and the memo's arming are
  exactly what the open frames hold. It has three conjuncts; a forgotten restore on any
  path breaks one. Checked where the bounds are met, and proved of every instance, signals included.
- `SettledStopsKnown`: a stop kept by a settling walk is in the table a settling walk
  asks. Proved.
- `FatalUnwinds` (of steps): once a signal is set, no step opens a level, enters a definition or keeps anything in the memo.
  A list found moved on the way out is still counted, as in the code. Proved.
- `AdmissionHeldOnce`: under writes, a value admitted was in the set at some moment
  of the walk (history variable `held`).
- `WalkEnds` (liveness): the walk ends, lists that hold each other included.

| run | instance | bounds |
|---|---|---|
| `walk_bounds` | lists nested past both bounds; generated unions and meets over two mutually recursive definitions, roots that read one value three times (this is what arms the memo) | `MaxWalkDepth` 8, `MaxRecursionDepth` 2 |
| `walk_stops` | predicates that raise or are interrupted, comparisons that are interrupted, inside every node kind and remembered definitions, over lists that hold one another; a list that moves after the signal; one write to a list at any moment, under roots that do not arm the memo | 10, 3, `MaxWrites` 1 |
| `walk_moved` | see [findings](#findings) | 10, 3, `MaxWrites` 1 |

Why the bounds are enough. The real bounds are hundreds; what matters is
that a walk meets either of them first, and meets it inside each node kind, with the
memo armed and not: 8 levels over 2 unfoldings does so for the values given,
three levels of lists.
One write is enough for the property it is about: the value is in the set
before or after it. Schemas are not symmetric in their nodes, so no symmetry is used.

`WalkEnds` assumes weak fairness of `Step` (`WF(Step /\ History)` where the history
variables are carried): the walk is the thread's own loop, and each of its steps is
enabled until taken. Nothing is assumed of `Write`.

`walk_stops` writes under roots that leave the memo unarmed because with it armed
the property fails: that is the finding `walk_moved`.

Deadlock is not checked in the walk and the frontend: both end.

## The frontend

**State.** What `build.rs` keeps on the thread: `depth`, `descents`, `held`, `aliases`
(`OPEN_ALIASES`), `classes` (`OPEN_CLASSES`), `tokens` (`NEXT_SELF_TOKEN`); `defs`, the
definitions of the build under way; `stack` and `ret`; `begun`, and `last`, the build
that ended last, which only the properties read.

**Annotations and schemas.** An annotation has a kind (scalar, a form with parts,
a joining form, alias, NewType, class, validator, refused) and parts; a graph of
them may have loops, as recursive aliases do. A schema is its nodes in preorder with their
levels, so counts and depths are the code's. `Union` flattens and drops a member held
already; it does not sort and has no `Any`. Renaming a reference or a placeholder (`Renumbered`, `Resolved`) leaves the
members of a union where they are, where the code sorts them again and drops one that has become equal to another: no annotation of the
instances has a union two members of which differ by the name that is changed.

**Actions.** `Enter` is `BuildGuard::enter`;
`ReadScalar`, `ReadValidator`, `ReadRefused`, `ReadParts`, `BuildPart`, `PartReturn`,
`PartsBuilt` read one annotation; `EnterClass` opens a class; `Evaluate` is reading an alias's
value or a class's hints, which may run the user's code, which may begin a build inside
the build (`Evaluated` restores the scope, `ClassesOpen`...); `AliasAgain`, `OpenTheAlias`
and `BodyReturn` tie aliases to definitions; `RootReturn` is what
`build_validator` does with the result. Reading an alias may run code every time here;
the interpreter caches some of it, so the model has those behaviours and more.

**What it promises.**

- `ScopesMatch`: at every state the thread's depth and the aliases and classes open
  are those of the frames of the build under way, whatever failed below. `Left` reads off the frames, from the
  outermost in, what each should have left of the thread. Proved.
- `ReadsAsWritten`: the schema, read through its definitions, denotes what the
  annotation, read through its aliases, does (compared to `MeaningDepth` levels).
- `RefusedForCause`: each refusal has the cause it names, from the annotation's graph
  alone: an alias that reaches itself bare, a class that names itself, ... Proved of every graph of annotations, unless the step of
  finding 3 is taken.
- `TableIsWhole`: where a descent ends with a schema, what a definition names is in the table. It holds in `build`. In general it
  does not: finding 3. Proved: the step of finding 3 is the only one that breaks it.
- `DeepIsDeep`, `LargeIsLarge`: a refusal for depth or size is of a schema past the
  bound. Both hold in `build` for the annotations a bound is usually met
  with. `DeepIsDeep` would fail for a long
  chain of NewTypes, a schema of one level: each is a descent that builds no node, where the
  doc of `MAX_BUILD_DEPTH` says each builds one. The instances hold none. `LargeIsLarge` would fail where a
  recursive alias is named in several places, since each place counts it again; in the
  instances those stay below the bound.
- `NamesWhatItHolds`: a finished schema names no definition past its table. It is violated, in `build_dropped`:
  finding 3. Proved where the step of finding 3 is not taken.

| run | instance | bounds |
|---|---|---|
| `build` | mutually recursive aliases, met twice; classes of themselves; refusals below an open alias or class; annotations at, one below and one past each bound, one that holds itself; code run by an annotation that builds, two deep | depth 7, nodes 25, definitions 4 (never met), builds 2, nested 2 |
| `build_dropped` | three aliases, two of which write one set and the third names both | depth 12, nodes 60, builds 1: no bound is met before the finding |

The second build on the thread is of the first's family (aliases, or schemas at a bound); it is there for what the first may leave behind,
nesting two deep, for what the inner of two may restore. `MeaningDepth` 4 reads every loop
of the instances at least twice.

## Pattern programs

A client is a thread that builds a validator from a list of patterns, keeps it, and
drops it. `byText` is the table, whose entries are weak: a program lives while a client
holds it. The lock covers one lookup or one store, so each is one step, and a text is
compiled between the two. The lock may be poisoned at any time; the code carries on
without the table. Program numbers are used again only when dead and not in the
table.

- `RefusalIsOfTheSchema`: whether a schema is refused, and for what, depends on the
  schema alone: not on which programs others have made or dropped. Proved.
- `UpkeepIsPaid`: pruning never rereads more entries than stores have paid for
  since (`credit`), so the table costs each store a constant. Proved.

That a text is compiled only where no validator holds it is not so: two threads may
compile one text at once, the second store replaces the first entry, and when its holders
go the text is compiled again while the first program lives. The code says as much of a
text no validator holds, and nothing but work is lost, so no property states it.

`programs`: 2 clients, 4 texts, one invalid, and schemas that fit the allowance, exceed
it by a shared and by an unshared program; deadlock is checked. `credit` is counted up to `CreditCap`, as
many as the table can have entries. No fairness is assumed: a client may stop anywhere.

## What a validator keeps

The index of a validator, the keys of its constants and its hash are computed by whoever asks
first. `Cells` has the threads' steps between asking and being told; what Python
and PyO3 do is modelled from how `validator.rs` uses them: the interpreter's lock, or a free-threaded
interpreter whose collector stops the world (`threading`, `world`, `attached`), and the lock of the
interned strings, which a thread waits for detached (`names`).

**State.** `wants` is each thread's askings, the innermost first, each with its cell and what it was told;
`at` says where the innermost one is. `kept` and `builder` are a cell's value and the thread inside its
`OnceLock`.

**Actions.** `Ask`, `Read`, `Return`; for the index and the keys `GoToLock` (detach), `Enter` or `Woken`,
`AttachToBuild`, `Intern` / `Park` / `Unpark` / `AttachToIntern`, `KeepBuilt`; for the hash `Hash`,
`KeepHash` and `Raise`, with any asking in between, since a constant's `__hash__` is user code: it may ask for
the same hash. `Yield`, `Resume`, `StopTheWorld`... are the interpreter's. Where a thread runs its own
bytecode (`idle`) or a `__hash__` (`hashing`) it may hand over or be stopped; between,
it runs Rust and is not.

**What it promises.**

- `OneValueEach`: `Cells` implements `KeptOnce`: a cell gets one value, kept by telling it, and everybody is told
  that one, though two computings of a hash may come to two digests. `kept` and `wants` map to themselves.
- `AskingEnds` (liveness): whoever asks is answered. A thread waiting *attached* for the builder, as a plain
  `get_or_init` does, deadlocks with a builder waiting for the names or the world; that is the mutant.

Fairness. Strong for what a thread does unless it waits (`Proceed`), for getting the interpreter back and for giving
way: the interpreter's lock hands over on request, and the locks wake their waiters. Strong for the end of a
`__hash__` at each depth: a `__hash__` ends. Weak for the collector and the
other threads' interning. Nothing makes anybody ask.

`cells`: two threads beside `Others`, who intern and collect but ask for nothing; two cells at once, of two kinds or of
two validators; `MaxNested` 2, so a hash asks for itself or another inside. A deadlock needs one waiter,
one builder and one who holds what the builder needs; that is what the instance has.

## Recursive definitions and equality

A validator is a schema and a table of definitions that its references number. `recursive(builder)` hands the builder a
placeholder that carries a fresh *marker*; what the builder returns is compiled, tied to its own name and checked.
Composing two validators finds the second's definitions in the first's table or appends them;
checking drops what nothing reaches and refuses what is too deep, too large or still
carries a marker nobody is building. Equality pairs definitions as it meets them.

**State** (`Fixpoints`). `made` is the validators there are, shared by the threads; `calls` each thread's calls of
`recursive`; `open` the thread's markers (`OPEN_DEFINITIONS`); `tokens` the markers there have been, of the process.
Each validator carries the term it was *written* as, which only the properties read. What is read of a schema is constants of the
module: compiling a form over arguments (`Read`), dropping what nothing reaches (`Prune`), putting a reference for a marker (`Resolve`), whether a
definition meets itself outside every structure (`Unguarded`), the depth, nodes and markers of a tree (`Measure`). The runs give them `Compiled`, `Pruned`, `ResolveSelf`, `OccursUnguardedUnder` and `MeasureOf`
of `Composing` and `Rewrites`, so they check the functions as the code has them; the threads are as they are whatever these return.

**Actions.** `Make` (a combinator, an operator or an annotation, through `Compiles` and `Checked`), `Call`,
`Return` (the builder returns; its definition is no longer open), `Finish` (what it returned is read, tied and
checked), `Raise` in either half.

**What it promises** (`FixpointsMeaning`).

- `MarkersAreOfRunning` (of steps, stated in `Fixpoints` and proved): a step makes no validator with the marker of a definition that the thread
  whose step it is is not building, however calls nest and raise, and whoever was given the placeholder: another thread with its own definition open too.
- `RefusedForCause`: a making is refused for its placeholder only where what was written has a marker of no builder that the
  thread refused runs (`refused.by`), and for its body only where it meets its own variable outside every structure.
- `ReadsAsWritten`: what is made admits what was written, whatever table its definitions were composed into, shared with,
  renumbered in and dropped from; and every name stands for a definition that is reached and contractive.
- `EqualIsSame`, `SameIsEqual`: equality is equality up to a permutation of the definitions; the converse where no two
  definitions of one table are one (pairing is injective, so twins are told from a single).
- `EqualHashAlike`: equal validators hash alike.

`ReadsAsWritten` reads the terms that denote a set (`Proper`): a join that meets its variable bare and folds to a bound
is read as the bound alone.

`fixpoints` runs five kinds of program: two threads that pass placeholders about, within calls and past them; two threads that each have a definition open
and pair their own placeholder with the other's; one that nests two calls, over pairs or over joins; pairs of finished fixpoints of two names each, composed; and pairs
of finished fixpoints that hold scalars and lists at the levels where they unfold, so that a value tells any two of their definitions apart and a reference renumbered to another definition changes what
is admitted. The pairs of references alone, which denote the empty set, are there for what is told by shape: which definitions are dropped. `MaxSchemaDepth` 4,
`MaxDefinitions` 4 and `MaxSchemaNodes` 26 are met by some. The comparison's own bounds (40 levels, 400 steps) are above what
these schemas take. Values are the scalars, pairs of scalars, and lists nested to `Height` 2, read with free markers under two `Environments`: in the last kind of program these tell
a body from every other of the two tables. No pooled constants, records or refinements: two scalars stand for every leaf, a list and
a pair for every structure. Deadlock is not checked: programs end.

## Blocks found again

Schemas and word tables are shared by handle, and tables of the thread find them again:
nodes by what they hold (`core/ir/intern.rs`), compiled patterns by their text, word
tables by their language, products by the *addresses* of the two tables they are of
(`core/descr/regular.rs`). A slot of the first kind names a block without keeping what is in
it; the other three keep what they name, up to a number of bytes, and then start over.
The hazard is an address: a block dropped is written again by somebody else, and what
was said of the address before must not be believed of it now.

**State** (`Sharing`). `memory` is what each block holds. `held` is the program's handles, which any thread
may let go; `sets` a thread's handles of word tables. `calls` is the interning a thread is in, since
between the handle taken of a slot's block and the comparison another thread may drop
the last other handle. `slots`, `compiled`, `handles`, `products` and `weights` are the
tables, `left` what a lowering may spend on them (`budget.rs`). What a block is worth keeping for is
`Live`: what the handles reach. `Arc`, `Weak` and the allocator are external: an address is
given out again when nothing is in the block and no slot names it.

**Actions.** `Ask`, `Probe`, `Hit`, `Differs`, `Miss` are one call of `intern::node`; `Drop` lets a handle
go. `Compile`, `Complement` and `Product` are the operations of a word set, each through its memo, `LetGo`
drops a set and `Lower` begins a lowering with its allowance. Every step ends by settling memory: what no handle reaches
any more is gone in the same step.

**What it promises.**

- `HandsWhatWasAsked`: `Sharing` implements `Construction`, in which there are no blocks: a
  variable holds the tree it was given until it is given another or let go. A variable of `Construction` means a
  sequence of no tree or of one, and a thread asks for none or one. The tree a handle stands
  for is read level by level from the blocks (`Trees`), as many levels as there are blocks.
- `BuiltTwiceIsOne`: where no two nodes share a slot and one thread runs, two equal schemas, both held, are one
  block, which is what a comparison of handles stands on.
- `DroppedOnTheSpot`: nothing lives for being named by a slot.
- `KeptProductsAreTrue`: a product kept is of the two tables that are at its addresses now.
- `MemosWeighWhatTheyHold`: each memo's count is the weight of what it holds, through every starting over.
- `AnswersAndChargesAlike`: what a product answers and charges does not depend on what was asked before.

All six are proved of any threads, addresses, labels, languages and bounds.

`sharing` has three addresses, so each is written again and again, and three programs: two threads
that let go of one another's nodes in slots that collide; one thread whose nodes have
each a slot; one thread that makes nodes and word tables in the same memory. `Kept` 3 and `Work` 2 are met: memos start over and products are refused. The weight of a table
stands for its bytes and for the units it is charged. Addresses are alike,
so they are permuted (`SYMMETRY`); the abstract specification has none, so its steps
are the same under a permutation. No fairness; deadlock is not checked, since a thread that finds
no address left waits for one, which the program it models does not.

## The emptiness decision

Whether a schema holds no value is decided by a recursion over its term
(`core/decision/emptiness.rs`), under *hypotheses* where the term is recursive: a
reference met again while it is being resolved is read as empty, and so is a meet
met again while it is being distributed. Verdicts are kept and read back, steps are
bounded, a question stopped at a bound is asked once more with a larger allowance,
and deciding a class may run Python code that asks a question inside the question.
The hazard is one: a verdict that rests on a hypothesis must not outlive it, and an
answer that rests on a bound must not be taken for one about the term.

**State.** `Emptiness` carries one record, `cx`, through a reading: the budget's
steps and levels (`left`, `depth`, and `owner`, which stands for the budget's
address), the context's `visiting` and query `number`, and what the thread keeps,
`open` (`OPEN_MEETS`), `again` (`MET_AGAIN`), `verdicts` and `spared` (`VERDICTS`, `SPARED`),
`met` (`BOUNDS_MET`), `numbers` (`QUERIES`), `allowance` (`RESPELLING_NOW`). Three more fields only
record, for the properties. A verdict is kept and read back as `held_verdict` does: the memo is gone around under a goal assumed or a
definition being resolved (`UnderAHypothesis`; the first is met in `goals` only), and what is read under an open meet, or in a query that narrows (`ReadsUnder`), is kept only
if it met nothing again, and an `Unknown` not at all. A reading takes a record and answers a verdict, regions
and the record after it, so the order in which the code's calls change that state is
kept, early stops included.

**Fragment.** Scalar atoms (three of them, two alike and one with an overlap), a
class, a refinement by callbacks, a closed record, a reference and the connectives.
These are what the hypotheses are about; the nodes left out (sequences, sets,
attribute records, record clauses, constants, order bounds) add rules that read their
parts and open no hypothesis. What the set representation, the relation and the
bindings would answer is a parameter, `Outside`, and a class's `leaf_subtype` may
ask a question of its own, `AsksInside`. The relation is asked through `Decide`, which
declines here; `goals` asks emptiness with it.

**Actions** (`Questions`): `IsEmpty` asks a question at a root; `BeginQuery`, `Beside`
and `EndQuery` are a relation's query, whose rules ask whether two terms share a
value, one pair after another under one budget and one number. A question is one
action: within a thread nothing runs between its steps but what Python asks inside,
which is part of it.

**What it promises** (`QuestionsMeaning`). `CanHold` and `CanMiss` read a term with no
procedure: each occurrence of a callback may answer as it likes, so a value may do
both.

- `AnswersAreTrue`: what is answered, at a root, in a query or to Python in the middle
  of either, is true of the term.
- `KeptVerdictsAreTrue`: so is every verdict kept, also where it was read with a meet open.
- `TheMemoTakesNoAnswer`: a pair decided with the memo forgotten is decided alike with it.
- `MoreStepsAnswerAlike`: a reading no bound stopped answers alike with more steps.
- `HypothesesEndIt`: with steps enough no question meets a bound: the hypotheses alone
  end the recursion.

`emptiness` asks each of some 1,000 terms (every meet and union of two of 27 parts, the
meets also below a required field), every sequence of two out of nine pairs inside a
query, and two queries with a root question between them. Its definitions unfold through
a guard that narrows to the very meet being decided, take turns, have no finite
value, or make Python ask about them again. `DecisionBudget` 190 and allowances of
20 and 60 are chosen so that some questions end inside, some are asked twice
(the second asking decides none that the first left), some spend everything; `ReadingsHeld` 4 so that the table fills and is emptied in the middle of a
query; `MaxDistributedTerms` 4 is the code's. `MaxInside` 1 bounds the questions inside
one another, and `Height` 5 the values looked at, which is above what refutes any term of
the instance. The levels of these questions stay below `MaxDecisionDepth` 20, so
a level refused is exercised only by the mutant that forgets the hypotheses.
A constructor sorts its members by the order of the variants; terms of one variant are in
an order of TLC's that depends on them alone. Deadlock is not checked: a caller stops asking. No fairness is assumed.

## The relation

Whether one schema is below another (`core/decision.rs`, `decision/records.rs`) is a
recursion over *goals*, pairs of terms. A goal that unfolds a reference is decided
under the hypothesis of itself: met again below, it holds. This is coinduction, and it is sound
only where the goal is met again past a constructor. What the rules leave undecided the root
reads in other ways, some of which take up what the rules had found of single members. The
hazards are of three kinds: an answer that rests on a hypothesis and outlives it, a record
of one goal read as another's, and a bound taken for an answer.

**State.** `Goals` extends `Emptiness`: one record, `cx`, goes through both, since they share
the budget and ask one another. The fields the relation adds are `trail` (`Cx::assumed`),
`held` (`HELD`, which members of a root's union or meet were placed or refuted), `readings` (`READINGS`),
`asked` and `narrowing` (`ASKED_NARROWED`, `NARROWING`), `leaves` and `whole` (a query that reads its leaves by the
sets). `crossed` and `unguarded` only record, for `GoalsAreGuarded`, whether a constructor lies between a hypothesis
and the goal that takes it.

**Rules.** `Goal` is `is_subtype_rec`; `SubtypeByRules` spends a step and looks at regions and the
trail; `ShapeReadings` names, for the first shape the two sides have, the readings `subtype_by_shape` chains
with `or_else`, and `FirstAnswer` asks them in turn, each on the state the one before it left.
`Phi` is the split of a record across a union of records, slot by slot. The readings past the rules
(`WholeReadings`, and `AgainReadings` for a second asking) are those of `decided_by_sets`.
Two recursions that ask one another through `Decide` would be one knot that TLC
analyses forever; `Decide` is therefore a constant, to which `MCGoals` gives `Decision`. An instance of
`Questions` gives it one that declines.

**Actions** (`Relations`): `IsSubtype`, `IsEquivalent`, `IsEmpty`, each a whole query; the thread's
tables are what the next one finds.

**What it promises** (`RelationsMeaning`, against `Values`, where a callback answers one
value alike wherever it occurs).

- `RelationsAreTrue`: a yes is of a pair whose values are included, a no of one with a value
  outside, also for what Python was told in the middle of a query.
- `KeptAnswersAreTrue`: the root's record, the terms read empty, the narrowed meets and the
  verdicts are facts of the terms.
- `NothingIsLeftOpen`: between questions no goal is assumed, no meet open, no definition being
  resolved, no level taken, and the allowance is a first asking's.
- `GoalsAreGuarded`: a goal met on the trail is met past a constructor.
- `MoreStepsDecideAlike`: what the rules decide, and what they decline with no bound met, they
  decide alike with a longer budget.

`goals` asks every inclusion among 27 terms, of each term below ten sides of several members and of each
side below both, and every `x, y, x` of seven questions that leave something behind. Its
definitions are below one another only by coinduction (`Tree` below `Grove`, `Even` and
`Chain` equivalent), unfold through a guard, or have no finite value; deciding the class makes
Python ask an emptiness and an inclusion. Four chains are asked of one another as well: below their first field a meet is read with the goal above it assumed, and what it answers there
it would not answer elsewhere (`Ended` below `Unended`), so keeping it, as the mutant of `UnderAHypothesis` does, is seen in what is kept. The other half of what the memo looks at, whether the query
narrows (`ReadsUnder`), decides no answer: what it leaves out is an `Unknown`, which is read again. No property tells whether it is looked at. `DecisionBudget` 60 and 12 levels are met by some and not by most;
`Longer` is 2000. `MembersHeld` 3 (64 in the code), so that one side of four is past what a record holds;
`ReadingsHeld` makes the tables start over; `LeafReading` 4 is the steps of a
goal read by the sets (64 in the code). `Height` 3 is above what tells any two terms apart. `Outside` answers for the
set representation exactly on terms with no reference and no callback, and declines on the others. Deadlock is not checked: a caller
stops asking. No fairness is assumed.

The narrowed meets a query keeps are keyed by the members, what was left and the supertype; the code keys them by the members'
address and keeps a list per supertype, which is the same while the members live, as the table's own handle makes them.

## Findings

Each run named here checks one property that a comment or doc of the code states, and
TLC finds it violated.

1. `walk_moved`: a settling walk that refuses *because its list moved* is kept as a
   plain refusal. A later complement over the same definition and value takes it as an
   answer, sees no move during its own (memoised) inner walk, and admits a value that was in
   the definition throughout. This is an answer that was true at no moment.
2. `fixpoints_unnamed`: a body whose annotation `Union` folded to the top is tied to a
  definition, because the marker stands in a definition the fold left behind and nothing
  reaches; `lib.rs:93` says such a body is itself. The validator admits what it should, and
  `==` tells it from the top made any other way.
3. `build_dropped`: an alias is left out of the table of definitions because its body is one the
  table holds, and the one it is taken for may be an alias tied *inside* it. Another inner definition has
  by then been given the index this one would have had, and keeps a reference past the table.
  `build.rs:374` argues that an inner fixpoint naming this one is never what is dropped, which is true, and not
  that it stays right; `walk.rs:1765` says no user input reaches such a reference. The
  annotation is `X` of `X = int | tuple[E, X]`, `D = int | tuple[E, D]`, `E = int | tuple[X, E, D]`.

Two smaller ones, which no run shows. The rooms the deciding table keeps for one pair may
come to cover one another, which `memo.rs:318` says they do not, since a settling walk keeps
its stop whether or not a kept room covers it. And a refusal met at a value inside itself is kept with its room alone, so
it answers a walk elsewhere on the loop that, made, would admit, where `memo.rs:25` says such a walk refuses
too. `Sound` holds in both: what is answered is the least fixpoint's.

## Proofs

Every theorem below holds for all values of the constants that meet the assumptions the modules name, whatever
the size of the instance. The assumptions are of three kinds: *shapes* (references name definitions, the kids
of a node are nodes, annotations' parts are annotations), *bounds are naturals*, and *finiteness* where something is counted
(`TextsAreCounted`: finitely many patterns and clients; `MemoryIsFinite`: finitely many addresses; `WalksAreFinite`: finitely many values and definitions; `NodesAreTrees`: finitely many nodes, none below itself, since a loop in a schema goes by a definition). `NobodyHasNoBlock`,
`NoneIsNoValue`, `NoNodeIsNoNode`, `GoneIsNoBlock` say that a marker of absence is no value, and `ProgramsAreRun` that a
program is run by threads there are; `PlaceholdersAreMarked`, that a placeholder carries its own marker and no other. TLC evaluates all of them on the instances.

| module | theorem | states |
|---|---|---|
| `WalkProofs` | `WalkTypeOK`, `WalkLevelsOpen` | `TypeOK`; the levels counted as open are those frames hold open |
| | `WalkBalanced` | `Balanced` |
| | `WalkUnwinds` | `FatalUnwinds` |
| | `WalkMemoAgrees` | `SettledStopsKnown` |
| `MeaningProofs` | `AnswersAreSound` | `Sound` |
| | `UnstoppedIsExact` | a walk that ends with no stop in the cell answers what the schema denotes |
| `CellsProofs` | `TypesHold`, `PromiseKept` | `TypeOK`; `Cells` implements `KeptOnce` (`OneValueEach`) |
| `ProgramsProofs` | `UpkeepPaid`, `RefusedForItself` | `UpkeepIsPaid`; `RefusalIsOfTheSchema` |
| `BuildProofs` | `ScopesLeftAsFound` | `ScopesMatch` |
| | `TablesStayWhole` | `TableIsWhole` and `NamesWhatItHolds`, unless a step finds `DropsWhatIsNamed` |
| | `RefusedForACause` | `RefusedForCause`, unless a step finds `DropsWhatIsNamed` |
| `SharingProofs` | `BlocksSound` | `Sound`, the inductive invariant of the blocks and tables |
| | `DropsOnTheSpot`, `ProductsTrue`, `AnswersAreAlike`, `MemosWeigh` | `DroppedOnTheSpot`, `KeptProductsAreTrue`, `AnswersAndChargesAlike`, `MemosWeighWhatTheyHold` |
| | `HandsThemBack` | `Sharing` implements `Construction` (`HandsWhatWasAsked`) |
| | `OneNodeBuiltTwice` | `BuiltTwiceIsOne` |
| `FixpointsProofs` | `MarkersHold` | `MarkersAreOfRunning` |

**The walk.** A call that has not returned is a frame at its start (no level taken) or one that took a
level; only the top frame may be at its start, and only a frame below the top may be
waiting. That shape is what `TypeOK` lacks: `Inv == StackOK /\ RestOK` adds it, and one lemma per action
shows the step preserves it; the lemmas about `Push`, `Pop` and replacing the top frame do
the work once. For the trail, `Books == TrailIsPath /\ ArmBooks`: the trail is the path of
the frames that are *inside* a definition, in order, so a push or a pop of such a frame
is a push or pop of the trail. For the memo, what a frame must restore is
what was armed when it called (`ArmingWaits`): the frames that armed it form a chain from the
outermost, which was unarmed, to the current value.

`FatalUnwinds` is of steps, but not of any state: it needs to know that no frame is at a place from which it would call
while the signal is set. `Unwinding` says that: with a signal set either an answer is on its way to a waiting frame, or the frame
at its start is about to be unwound. For `SettledStopsKnown`, `MemoBooks` adds what the steps between have in hand (`Waiting`): a frame waits
for the answer of what it called, and the stop it will keep is in the cell.

**What the walk answers.** The meaning has two recursions. A node is read from those below it (`Eval`), which `NodesAreTrees` makes a function on nodes
by induction over how many are below. References are read from what is decided, and a round decides more (`Round`); a round keeps what was decided
(`RoundGrows`: Kleene's connectives are monotone in what is decided), so each round that is not the last decides one pair more, and as many rounds as there are pairs reach the
fixpoint (`FixpointIs`). The proof uses only that one more round changes nothing (`FixpointTells`).

For the walk, `Right` says of one call when its reply must be the meaning's: if it is not the reply its mode has for a stop, or if there
is no stop in the cell. That is not inductive alone, since the cell is shared: a frame reads the cell after
its members, and complements, settling unions and kept references put it aside and back. `Clear` says of each frame whether the cell, seen from it, is
empty: where the frames above it that put a cell aside found it so. `HasRead` is what a frame has from the members it is past, in either case
(a fast scan goes on past what is there, a settling one past what is there unless it stopped, a settling union past what is not, whatever it stopped at), and
`Links` that each frame above is the call the one below waits for. Every step is then an opening, a call, a going on or a
return, and each of these has a lemma (`OpensRight`, `CallsRight`, `BecomesRight`, `ClosesRight`) that asks only for the top frame's own part and that the cell is no
clearer below than it was. The memo is `Truthful`: an entry that is an answer is the fixpoint's, also while a signal unwinds the walk. Writes
end the claim (`writes = 0`), and so does a signal.

**Pattern programs.** `Paid` relates three counters: the table has no more entries than its prune length, and what the stores have paid
covers reading it by then, two for each entry it has yet to take; pruning sets the length anew from what is alive. For refusals,
`AllReckoned` says of each client, wherever it is between looking up, compiling, storing and being charged, that what it has been charged is the
weight of the texts it has read, and that a program it found weighs what compiling it would. Sums over sets are sums in any order; `SumProofs` proves that once, with the
induction over naturals it takes, stated of a *set* of numbers, since the library's is stated of a predicate.

**The frontend.** What the thread has open is a function of the frames, and each frame saved part of it when it began. The
theorem's invariant (`ScopesInv`) says that *some* assignment of what was left at each depth of the stack fits every frame (`Thread`): the
base of a build is what its caller had, each frame adds its own alias or class, and what a nested build saved is what its caller would
find. An early return pops one frame, and fits because what the frame added is what the step takes away. `Left` is then that assignment, by induction over the stack.

For refusals the graph of annotations and the terms built from it have to be told of one another while aliases are open. `Fine(t, b, Q, T, ds)` says that the
schema `t` stands for the annotation `b` where the aliases of `Q` are open, each with its placeholder: `t` meets a placeholder outside every constructor,
itself or through the definitions it names, exactly where `b` names that alias so (`Meets`); the placeholders it names, and those in the definitions it reaches, are of `T`, those given out (`Sealed`);
and nothing `b` reaches without going through an open alias is endless or not contractive (`Tame`). `Keeping` is the
invariant (`Building` of the variables): what each frame holds of its parts, and a schema on its way up, is `Fine` for the aliases open there, a refusal on its way up has its cause in
what was called for, and the table names only itself. So an alias is found unguarded by the code exactly where its annotation is not contractive, and once its definition is tied a reference to it stands for it
(`RefFine`, `TyingTells`). What is already held stays `Fine` as the table changes, since a definition with no placeholder of the alias that
closes is not touched (`Grew`, `FineStays`). `Closure` and the sequences schemas are made of are functions on numbers, so what the proof needs of them is shown once (`ClosureIs`, `FlattenRange`, `PartsHold`).
Annotations are finitely many (`AnnsAreCounted`), and an alias or a class is told by its name (`NamesAreTheirs`), as it is in the code by its address.

The one step that breaks this is tying an alias whose definition the table is thought to hold (the third of the [findings](#findings)): definitions renamed to the index it would have had are left naming
what is not there, and the next definition that comes to that index is not the one they meant. `DropsWhatIsNamed` (`Refusals`) is the state that step is taken from: an alias is about to be closed, its body is a definition the table
holds, and some definition of the table names its placeholder. Both theorems suppose that no state of the behaviour is one, and nothing else of the table: `TablesStayWhole` then says that no other step leaves a definition
naming what is not there, whatever is tied, refused, found held and dropped, and in whatever build. No state of `build` is one, and `build_dropped` reaches one. A refusal may leave the table
so without harm, as it is on its way out of the build, so the invariant asks nothing of the table then (`Spoiled`).

**Blocks.** `Sound` has four parts: what is in memory is what the handles reach (`Live`), and every handle, in a variable, a call in progress, a word
set or a memo, is of a block that is there and of its kind, so no key of a memo can be an address written again. Every step ends by settling memory. The lemmas about that are proved once
(`SettlesSoundly`, `WellWhereAlike`), and each action has only to say which handles it adds. The other theorems of `SharingProofs` follow from it: a product kept names its two tables by
*handles*, so they were not dropped, so what was true when it was kept still is.

**Trees.** For the refinement the tree of a block must not change while a handle reaches it. The levels of `Trees` are shown to exist and to be alike on two memories
that agree on a closed set of addresses; that reading as many levels as there are blocks is enough needs that no block is in itself (`Grounded`): then
a block is made of strictly more blocks than each of its parts is, and the levels stop at that number. `WellGrounded` is invariant because a step lays at most one block, over blocks that are
there, and then drops (`Moves`). Each action of `Sharing` then gives a variable the tree asked for, lets one go, or stutters.
`BuiltTwiceIsOne` needs one more invariant, `Once`: where slots do not collide and one thread runs, a slot names the one block with its node, if there is one, and what a handle reaches is named. Two
blocks with one tree are then one, by induction over the number of blocks they are made of.

**Cells.** A step of one thread leaves the others' askings where they were, so one lemma says what it is to stand still and one
per kind of step (moving, being told, ending, asking) what the thread that takes it keeps. The invariant `Inv` adds to the types
that a builder is alone at its cell and the cell is still empty, that only a hash has askings inside it and has no value while
they last, and that what an asking holds is what is kept. From it each step keeps a value by telling it, tells what is kept, returns, raises or stutters.

**Recursive definitions.** A thread's markers are a stack that is pushed when a builder is called and popped when it returns or raises, while the call itself lasts until
what was returned is read: the two stacks are of different heights, and what a return pops is right only if the innermost call is the one the last marker is for. `Paired(X, cs, os)` says that the markers
are, in order, those of the calls whose builders run: a map from the places of one to those of the other that grows and misses none. There is a lemma for each way the two change (`CallPaired`, `ReadPaired`, `RaisePaired`,
`ReturnedPaired`); `Nesting` has it of every thread, and then what `checked` finds open is what the thread's builders define. It takes no property of how schemas
are read, only that a placeholder carries its own marker (`PlaceholdersAreMarked`) and that programs are run by threads there are (`ProgramsAreOfThreads`).

**What stays with TLC.** `Complete` of the walk: in general it is not so, since a refusal kept at a loop answers a walk that would admit ([findings](#findings)), and the run shows it
where no schema of the instance does that. `AdmissionHeldOnce`, which the first of the [findings](#findings) breaks in general: a refusal
because a list moved is kept as a plain one. `DeepIsDeep` and `LargeIsLarge`, which instances outside the run break ([above](#the-frontend)), and `TableIsWhole`, which the third of the findings breaks.
`ReadsAsWritten` of the frontend, stated with recursive operators (a module that declares one loses the SMT backend). Everything about `Emptiness`, `Goals`, `Rewrites` and `Pairing`, which
are recursive themselves, and the modules on them: the promises of `FixpointsMeaning` among these. `WalkEnds` and `AskingEnds`, which are liveness under
fairness, out of the prover's reach.

## What is not modelled

- In the walk: the explaining mode, records and mappings, tuples, sets and frozensets, JSON
  input, the fast paths that take a snapshot of a list of scalars, tagged unions and
  literal unions (plans that choose a branch without reading the others). A leaf's own
  reading (bounds, lengths, patterns) is one step.
- In the frontend: which Python object reads as which node (data), the order of union
  members, `Any`, and generic substitution beyond what it does to the recursion. A class is one
  node.
- In the index: the read-only tables.
- In the validator: accessors, pickling, what Python's operators forward to. In equality: pooled constants, which are compared
  by slot and then by value, records, refinements and sets.
- In the emptiness decision: the nodes outside the fragment above, and what `Outside` stands for.
- In the relation: the readings of constants, lengths, sequences, collections, attribute records, open records and
  tagged unions, which have no term of the fragment to read, and what the bindings keep of a query.
- The rewrites that open and close records and those over pooled constants; the set representation: in the plan.
- Formatting, codes, rendering, accessors, benchmarks, the Python package: no state.

## Plan

Ordered by how much of the program's correctness rests on it.

1. *Done.* `MemoPlan`, `Walk`, `WalkMeaning`; type invariant, level count and balance proved.
2. *Done.* `Build`, `BuildMeaning`; `Programs`; `Schemas`, `Emptiness`, `Questions`; `Cells` with its refinement, proved;
   `Rewrites`, `Pairing`, `Composing`, `Fixpoints`; `Sharing` with its refinement.
3. *Done.* `Goals`, `Relations`, `RelationsMeaning`. Left: sequences, and records with clauses, in `Schemas` and both deciders.
4. `WalkExplain` (EXTENDS `Walk`): the explained table, `explain_union`, the stop met
   again; `Records`: two passes over a dict that moves.
5. Pure algorithms against reference definitions: `Intervals`, `Integers`, `Automata`
   and the product tables, the `Lines` of a descriptor and the lowering budget.
6. Theorems. *Done*: every property of `Walk`, `Build`, `Programs`, `Cells` and `Sharing` that is stated without a recursive operator, both
   refinements among them, and `Sound` of `WalkMeaning`. `RefusedForCause` and `TableIsWhole` too, unless the step of finding 3 is taken, and `MarkersAreOfRunning` of `Fixpoints`. Left: the frontend's meaning as recursive functions of levels, as `WalkMeaning` and
   `SharingMeaning` are, and `ReadsAsWritten` from it.

Runs planned for 5: every pair of sets over at most 5 points.
