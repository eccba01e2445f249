------------------------------ MODULE Sharing ------------------------------
(***************************************************************************)
(* Blocks shared by handle, and the tables of a thread that find them      *)
(* again by what they hold or by where they are.                           *)
(*                                                                         *)
(*   slots  ir/intern.rs: a node is written in a block, and a slot of a    *)
(*          fixed table names the block last made with that hash.  The     *)
(*          slot keeps the block, not the node in it: a node is dropped    *)
(*          with its last handle, by whichever thread lets that go.        *)
(*   compiled, handles, products  descr/regular.rs: the tables of string   *)
(*          languages by their text, by their language, and by the         *)
(*          addresses of the two a product is of.  These hold the tables   *)
(*          they name, up to a number of bytes, and then start over.       *)
(*                                                                         *)
(* The blocks are the allocator's, which gives an address out again once   *)
(* nothing is in it and no slot names it: Arc and Weak, which are the      *)
(* standard library's, are modelled by the handles there are.              *)
(***************************************************************************)
EXTENDS Integers, Sequences, FiniteSets, FiniteSetsExt

CONSTANTS Thread, Address,
          Var,      \* where the program keeps schemas, for any thread
          Register, \* where a thread keeps languages
          Label,    \* what a node says besides its parts, each [kind, spelling]
          Arity,    \* how many parts a label takes
          Text,     \* the patterns compiled
          Reads,    \* the language a text denotes, or Refused
          Word,     \* the words a language may hold
          Bytes,    \* what the table of a language weighs
          Fits,     \* whether it has few enough states
          Kept,     \* COMPILED_BYTES
          Work,     \* what a lowering may spend on tables
          Programs, \* what is run, each [threads, vars, labels, exact, texts, registers]
          Nobody, Gone, Refused

Language == SUBSET Word

ASSUME SharingBounds ==
    /\ Kept \in Nat /\ Work \in Nat
    /\ Arity \in [Label -> Nat] /\ Bytes \in [Language -> Nat] /\ Fits \in [Language -> BOOLEAN]
    /\ Reads \in [Text -> Language \cup {Refused}]
ASSUME NobodyHasNoBlock == Nobody \notin Address /\ Refused \notin Address
ASSUME MemoryIsFinite == IsFiniteSet(Address)

\* What a block may hold: a node, or the table of a language.
Labels == Label \cup [language : Language]
Blocks == [label : Labels, parts : Seq(Address)]

ASSUME GoneIsNoBlock == Gone \notin Blocks
ASSUME ProgramsAreRun ==
    Programs \subseteq [threads : SUBSET Thread, vars : SUBSET Var, labels : SUBSET Label, exact : BOOLEAN,
                        texts : SUBSET Text, registers : SUBSET Register]

VARIABLES
    program,
    memory,   \* what each block holds; Gone before anything is and after it is dropped
    held,     \* the node each variable holds a handle of
    calls,    \* the interning each thread is in
    slots,    \* the slots each thread has filled
    sets,     \* the table each register of a thread holds a handle of
    compiled, handles, products,
    weights,  \* the bytes each of the three counts itself as holding
    left,     \* what the thread's lowering may still spend
    last      \* the product a step answered, which only the properties read

nodes  == <<held, calls, slots>>
memos  == <<compiled, handles, products, weights>>
tables == <<sets, memos, left>>
vars   == <<program, memory, nodes, tables, last>>

Idle == [at |-> "idle", into |-> Nobody, node |-> Gone, found |-> Nobody]
NoProduct == [of |-> <<>>, union |-> FALSE, given |-> 0, then |-> 0, answer |-> {}]
Node(l, ps)  == [label |-> l, parts |-> ps]
Table(words) == [label |-> [language |-> words], parts |-> <<>>]
LanguageAt(a) == memory[a].label.language

-----------------------------------------------------------------------------
(* The blocks.                                                             *)

Parts(value) == IF value = Gone THEN {} ELSE {value.parts[i] : i \in DOMAIN value.parts}

\* What is reached from the handles in roots through the handles in blocks.
Live(mem, roots) ==
    LET closed == {S \in SUBSET Address : roots \subseteq S /\ \A a \in S : Parts(mem[a]) \subseteq S}
    IN  Address \ UNION {Address \ S : S \in closed}

HandlesIn(f) == {f[i] : i \in DOMAIN f} \ {Nobody}

CallHolds(t) == Parts(calls[t].node) \cup ({calls[t].found} \ {Nobody})

Named(t) == {e.block : e \in slots[t]}

\* A defect: a product is kept under the addresses of its tables, and the tables are not.
ProductHoldsBuilt(e) == {e.built} \ {Refused}

ProductHolds(e) == e.of \cup ({e.built} \ {Refused})

MemoHolds(t) ==
    handles[t] \cup ({e.table : e \in compiled[t]} \ {Refused})
      \cup UNION {ProductHolds(e) : e \in products[t]}

\* A defect: the slots hold the nodes they name.
MemoHoldsSlots(t) == MemoHolds(t) \cup Named(t)

TableHolds(t) == MemoHolds(t)

Roots == HandlesIn(held) \cup UNION {CallHolds(t) \cup HandlesIn(sets[t]) \cup TableHolds(t) : t \in Thread}

\* The blocks after a step: mem, less what no handle reaches any more.
Settles(mem) ==
    \E live \in {Live(mem, Roots')} :
      memory' = [a \in Address |-> IF a \in live THEN mem[a] ELSE Gone]

\* Where a new block may be.
Unused == {a \in Address : memory[a] = Gone /\ \A t \in Thread : a \notin Named(t)}

-----------------------------------------------------------------------------
(* Interning.                                                              *)

\* The hash reads what the sameness test reads, or the little of it that two nodes share.
SlotOf(node) == IF program.exact THEN node ELSE Gone

\* A defect: nodes of one set are one node, the spelling unread.
SameSet(value, node) == value.label.kind = node.label.kind /\ value.parts = node.parts

SameNode(value, node) == value = node

\* A schema is made by giving its fields handles of its parts, and a handle of it asked for.
Ask(t, x, l) ==
    /\ calls[t] = Idle
    /\ \E of \in [1 .. Arity[l] -> {y \in program.vars : held[y] # Nobody}] :
         calls' = [calls EXCEPT ![t] =
                     [at |-> "probing", into |-> x, node |-> Node(l, [i \in DOMAIN of |-> held[of[i]]]),
                      found |-> Nobody]]
    /\ UNCHANGED <<program, memory, held, slots, tables>> /\ last' = NoProduct

InSlot(t, node) == {e.block : e \in {s \in slots[t] : s.slot = SlotOf(node)}}

Alive(t, node) == {a \in InSlot(t, node) : memory[a] # Gone}

\* Table::hit, up to the handle it takes, where the block still holds a node.
Probe(t) ==
    /\ calls[t].at = "probing"
    /\ \E a \in Alive(t, calls[t].node) :
         calls' = [calls EXCEPT ![t].at = "comparing", ![t].found = a]
    /\ UNCHANGED <<program, memory, held, slots, tables>> /\ last' = NoProduct

\* The handle is kept where the program asked for it, over what was there.
Hands(t, a) ==
    /\ held' = [held EXCEPT ![calls[t].into] = a]
    /\ calls' = [calls EXCEPT ![t] = Idle]

Hit(t) ==
    /\ calls[t].at = "comparing" /\ SameNode(memory[calls[t].found], calls[t].node)
    /\ Hands(t, calls[t].found)
    /\ UNCHANGED <<program, slots, tables>> /\ last' = NoProduct
    /\ Settles(memory)

Differs(t) ==
    /\ calls[t].at = "comparing" /\ ~SameNode(memory[calls[t].found], calls[t].node)
    /\ calls' = [calls EXCEPT ![t].at = "missed", ![t].found = Nobody]
    /\ UNCHANGED <<program, held, slots, tables>> /\ last' = NoProduct
    /\ Settles(memory)

\* A defect: a slot that was ever filled is left as it is.
PutOnce(entries, entry) ==
    IF \E e \in entries : e.slot = entry.slot THEN entries ELSE entries \cup {entry}

\* Table::put.
Put(entries, entry) == {e \in entries : e.slot # entry.slot} \cup {entry}

Miss(t) ==
    /\ \/ calls[t].at = "missed"
       \/ calls[t].at = "probing" /\ Alive(t, calls[t].node) = {}
    /\ \E a \in Unused :
         /\ slots' = [slots EXCEPT ![t] = Put(@, [slot |-> SlotOf(calls[t].node), block |-> a])]
         /\ Hands(t, a)
         /\ UNCHANGED <<program, tables>> /\ last' = NoProduct
         /\ Settles([memory EXCEPT ![a] = calls[t].node])

\* Any thread lets go of a handle.
Drop(x) ==
    /\ held[x] # Nobody
    /\ held' = [held EXCEPT ![x] = Nobody]
    /\ UNCHANGED <<program, calls, slots, tables>> /\ last' = NoProduct
    /\ Settles(memory)

-----------------------------------------------------------------------------
(* Languages.                                                              *)

\* A defect: a table started over goes on counting what it held.
StartedOverCounting(t, memo, weight) == weights[t][memo] + weight

\* What a table counts itself as holding once it keeps weight more, having started over
\* where that would pass the bound.
StartsOver(t, memo, weight) == weights[t][memo] + weight > Kept
NowHolds(t, memo, weight) == (IF StartsOver(t, memo, weight) THEN 0 ELSE weights[t][memo]) + weight

\* Compiled::keep, Handles::keep and Products::keep: the entries of table after keeping entry.
Keeping(t, memo, entries, entry, weight) ==
    IF weight > Kept THEN entries
    ELSE (IF StartsOver(t, memo, weight) THEN {} ELSE entries) \cup {entry}

Counting(t, memo, weight) ==
    IF weight > Kept THEN UNCHANGED weights
    ELSE weights' = [weights EXCEPT ![t][memo] = NowHolds(t, memo, weight)]

BytesAt(mem, a) == IF a = Refused THEN 0 ELSE Bytes[mem[a].label.language]

Holds(t, r, a) == sets' = [sets EXCEPT ![t][r] = IF a = Refused THEN Nobody ELSE a]

\* RegularSet::memoized: a text weighs one byte, and a text refused is kept as refused.
CompiledAgain(t, r, text) ==
    \E e \in compiled[t] :
      /\ e.text = text
      /\ Holds(t, r, e.table)
      /\ UNCHANGED <<program, nodes, memos, left>> /\ last' = NoProduct
      /\ Settles(memory)

KeepCompiled(t, r, text, a, mem) ==
    LET weight == 1 + BytesAt(mem, a) IN
    /\ compiled' = [compiled EXCEPT ![t] = Keeping(t, "compiled", @, [text |-> text, table |-> a], weight)]
    /\ Counting(t, "compiled", weight)
    /\ Holds(t, r, a)
    /\ UNCHANGED <<program, nodes, handles, products, left>> /\ last' = NoProduct
    /\ Settles(mem)

CompiledAnew(t, r, text) ==
    /\ \A e \in compiled[t] : e.text # text
    /\ IF Reads[text] = Refused THEN KeepCompiled(t, r, text, Refused, memory)
       ELSE \E a \in Unused : KeepCompiled(t, r, text, a, [memory EXCEPT ![a] = Table(Reads[text])])

Compile(t, r, text) == CompiledAgain(t, r, text) \/ CompiledAnew(t, r, text)

\* Handles::of: the handle the thread gave the language, or a new one.
HandleAgain(t, r, words) ==
    \E a \in handles[t] :
      /\ LanguageAt(a) = words
      /\ Holds(t, r, a)
      /\ UNCHANGED <<program, nodes, memos, left>> /\ last' = NoProduct
      /\ Settles(memory)

HandleAnew(t, r, words) ==
    /\ \A a \in handles[t] : LanguageAt(a) # words
    /\ \E a \in Unused :
         /\ handles' = [handles EXCEPT ![t] = Keeping(t, "handles", @, a, Bytes[words])]
         /\ Counting(t, "handles", Bytes[words])
         /\ Holds(t, r, a)
         /\ UNCHANGED <<program, nodes, compiled, products, left>> /\ last' = NoProduct
         /\ Settles([memory EXCEPT ![a] = Table(words)])

\* A complement is built afresh at each ask.
Complement(t, r, s) ==
    LET words == Word \ LanguageAt(sets[t][s]) IN
    sets[t][s] # Nobody /\ (HandleAgain(t, r, words) \/ HandleAnew(t, r, words))

Joined(union, one, two) == IF union THEN one \cup two ELSE one \cap two

\* A defect: a product found again is not charged.
ChargedIfBuilt(t, words, found) == IF found THEN 0 ELSE Bytes[words]

Charged(t, words, found) == Bytes[words]

\* budget::spend_on_a_table: a charge past what is left spends it.
Rest(t, price) == IF price <= left[t] THEN left[t] - price ELSE 0

\* What Products::of answers with the product a, found or built: its table is charged
\* either way, and one that cannot be paid for is refused and spends what was left.
Answers(t, r, s, union, a, mem, found) ==
    LET price == IF a = Refused THEN 0 ELSE Charged(t, mem[a].label.language, found)
        paid  == a # Refused /\ price <= left[t]
    IN  /\ left' = [left EXCEPT ![t] = Rest(t, price)]
        /\ Holds(t, r, IF paid THEN a ELSE Refused)
        /\ last' = [of |-> <<LanguageAt(sets[t][r]), LanguageAt(sets[t][s])>>, union |-> union,
                    given |-> left[t], then |-> left'[t],
                    answer |-> IF paid THEN {mem[a].label.language} ELSE {}]

Pair(t, r, s) == {sets[t][r], sets[t][s]}

ProductAgain(t, r, s, union) ==
    \E e \in products[t] :
      /\ e.of = Pair(t, r, s) /\ e.union = union
      /\ Answers(t, r, s, union, e.built, memory, TRUE)
      /\ UNCHANGED <<program, nodes, memos>>
      /\ Settles(memory)

\* What is kept weighs its two tables and what they built.
ProductWeight(t, r, s, a, mem) ==
    BytesAt(mem, sets[t][r]) + BytesAt(mem, sets[t][s]) + BytesAt(mem, a)

KeepProduct(t, r, s, union, a, mem) ==
    LET weight == ProductWeight(t, r, s, a, mem)
        entry  == [of |-> Pair(t, r, s), union |-> union, built |-> a]
    IN  /\ products' = [products EXCEPT ![t] = Keeping(t, "products", @, entry, weight)]
        /\ Counting(t, "products", weight)
        /\ Answers(t, r, s, union, a, mem, FALSE)
        /\ UNCHANGED <<program, nodes, compiled, handles>>
        /\ Settles(mem)

ProductAnew(t, r, s, union) ==
    LET words == Joined(union, LanguageAt(sets[t][r]), LanguageAt(sets[t][s])) IN
    /\ \A e \in products[t] : e.of # Pair(t, r, s) \/ e.union # union
    /\ IF ~Fits[words] THEN KeepProduct(t, r, s, union, Refused, memory)
       ELSE \E a \in Unused : KeepProduct(t, r, s, union, a, [memory EXCEPT ![a] = Table(words)])

\* Products::of, the answer kept over the first of the two.
Product(t, r, s, union) ==
    /\ sets[t][r] # Nobody /\ sets[t][s] # Nobody
    /\ ProductAgain(t, r, s, union) \/ ProductAnew(t, r, s, union)

LetGo(t, r) ==
    /\ sets[t][r] # Nobody
    /\ Holds(t, r, Refused)
    /\ UNCHANGED <<program, nodes, memos, left>> /\ last' = NoProduct
    /\ Settles(memory)

\* A lowering begins, with its allowance.
Lower(t) ==
    /\ left[t] # Work /\ left' = [left EXCEPT ![t] = Work]
    /\ UNCHANGED <<program, memory, nodes, sets, memos>> /\ last' = NoProduct

-----------------------------------------------------------------------------

Init ==
    /\ program \in Programs
    /\ memory = [a \in Address |-> Gone]
    /\ held = [x \in Var |-> Nobody]
    /\ calls = [t \in Thread |-> Idle]
    /\ slots = [t \in Thread |-> {}]
    /\ sets = [t \in Thread |-> [r \in Register |-> Nobody]]
    /\ compiled = [t \in Thread |-> {}] /\ handles = [t \in Thread |-> {}]
    /\ products = [t \in Thread |-> {}]
    /\ weights = [t \in Thread |-> [memo \in {"compiled", "handles", "products"} |-> 0]]
    /\ left = [t \in Thread |-> 0]
    /\ last = NoProduct

Intern(t) ==
    \/ \E x \in program.vars, l \in program.labels : Ask(t, x, l)
    \/ Probe(t) \/ Hit(t) \/ Differs(t) \/ Miss(t)

Relate(t) ==
    \/ \E r \in program.registers, text \in program.texts : Compile(t, r, text)
    \/ \E r, s \in program.registers : Complement(t, r, s)
    \/ \E r, s \in program.registers, union \in BOOLEAN : Product(t, r, s, union)
    \/ \E r \in program.registers : LetGo(t, r)
    \/ Lower(t)

Next ==
    \/ \E t \in program.threads : Intern(t) \/ (program.registers # {} /\ Relate(t))
    \/ \E x \in program.vars : Drop(x)

Spec == Init /\ [][Next]_vars

-----------------------------------------------------------------------------
(* Properties.                                                             *)

\* A block holds a node for as long as a handle of it is held, or a table that a memo
\* was given, and not a step longer: a validator dropped takes its children with it on the spot,
\* whatever slots name them (intern.rs: the table of weak handles).
DroppedOnTheSpot ==
    LET given == {a \in Address : \E t \in Thread :
                    \/ a \in handles[t] \/ \E e \in compiled[t] : a = e.table
                    \/ \E e \in products[t] : a \in e.of \/ a = e.built}
        used  == HandlesIn(held) \cup UNION {CallHolds(t) \cup HandlesIn(sets[t]) : t \in Thread}
    IN  {a \in Address : memory[a] # Gone} = Live(memory, used \cup given)

\* A product kept is the product of the tables that are at its two addresses now, whatever was
\* let go, started over and written elsewhere since (regular.rs: Products, Product::_tables).
KeptProductsAreTrue ==
    \A t \in Thread : \A e \in products[t] : \E one, two \in e.of :
      /\ e.of = {one, two} /\ memory[one] # Gone /\ memory[two] # Gone
      /\ LET words == Joined(e.union, LanguageAt(one), LanguageAt(two)) IN
           IF e.built = Refused THEN ~Fits[words] ELSE LanguageAt(e.built) = words

\* Each memo counts exactly what it holds, and holds no more than the bound, through every
\* starting over (regular.rs: COMPILED_BYTES, and the keep of Compiled, Handles and Products).
MemosWeighWhatTheyHold ==
    LET weight(a)    == BytesAt(memory, a)
        ofText(e)    == 1 + weight(e.table)
        ofProduct(e) == weight(e.built)
                          + MapThenSumSet(weight, e.of) * (IF Cardinality(e.of) = 1 THEN 2 ELSE 1)
    IN  \A t \in Thread :
          /\ weights[t].compiled = MapThenSumSet(ofText, compiled[t])
          /\ weights[t].handles  = MapThenSumSet(weight, handles[t])
          /\ weights[t].products = MapThenSumSet(ofProduct, products[t])
          /\ \A memo \in DOMAIN weights[t] : weights[t][memo] <= Kept

\* A product's answer and what it takes of the allowance are functions of the two languages
\* and the allowance, and of nothing the thread asked before (regular.rs: Products::of).
AnswersAndChargesAlike ==
    last # NoProduct =>
      LET words == Joined(last.union, last.of[1], last.of[2])
          rest  == last.given - Bytes[words]
      IN  IF ~Fits[words] THEN last.answer = {} /\ last.then = last.given
          ELSE /\ last.then = (IF rest < 0 THEN 0 ELSE rest)
               /\ last.answer = (IF rest < 0 THEN {} ELSE {words})
=============================================================================
