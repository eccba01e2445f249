---------------------------- MODULE SharingProofs ----------------------------
(***************************************************************************)
(* Blocks shared by handle, for any threads, blocks, labels, languages and *)
(* bounds: what is reachable is what is held, what a memo kept is true of  *)
(* the blocks as they are, and a handle stands for the schema it was asked *)
(* for, however blocks are shared, dropped and written again.              *)
(***************************************************************************)
EXTENDS SharingMeaning, SumProofs

-----------------------------------------------------------------------------
(* What is reached from some handles.                                      *)

Occupied(mem) == {a \in Address : mem[a] # Gone}
Memories      == [Address -> Blocks \cup {Gone}]

LEMMA LiveIsLeast ==
    ASSUME NEW mem \in Memories, NEW roots \in SUBSET Address
    PROVE  LET live == Live(mem, roots)
           IN  /\ live \in SUBSET Address /\ roots \in SUBSET live
               /\ \A a \in live : Parts(mem[a]) \in SUBSET live
               /\ \A S \in SUBSET Address :
                     roots \in SUBSET S /\ (\A a \in S : Parts(mem[a]) \in SUBSET S) => live \in SUBSET S
  <1> DEFINE Closed(S) == roots \subseteq S /\ \A a \in S : Parts(mem[a]) \subseteq S
             closed == {S \in SUBSET Address : Closed(S)}
             live == Live(mem, roots)
  <1>1. live = Address \ UNION {Address \ S : S \in closed}
    BY DEF Live
  <1>2. \A a : a \in live <=> a \in Address /\ \A S \in closed : a \in S
    BY <1>1
  <1>3. \A a \in Address : Parts(mem[a]) \in SUBSET Address
    BY GoneIsNoBlock DEF Parts, Memories, Blocks
  <1> HIDE DEF live
  <1>4. live \in SUBSET Address /\ roots \in SUBSET live
    BY <1>2
  <1>5. ASSUME NEW a \in live, NEW b \in Parts(mem[a]) PROVE b \in live
    BY <1>2, <1>3, <1>5
  <1>6. ASSUME NEW S \in SUBSET Address, roots \in SUBSET S, \A a \in S : Parts(mem[a]) \in SUBSET S
        PROVE  live \in SUBSET S
    <2>1. S \in closed
      BY <1>6
    <2>2. QED BY <1>2, <2>1
  <1>7. QED BY <1>4, <1>5, <1>6 DEF live

(* Blocks no handle reaches are dropped, and those that stay are reached   *)
(* as they were.                                                           *)
LEMMA SettledBlocks ==
    ASSUME NEW mem \in Memories, NEW R \in SUBSET Occupied(mem),
           \A a \in Occupied(mem) : Parts(mem[a]) \in SUBSET Occupied(mem),
           NEW after, after = [a \in Address |-> IF a \in Live(mem, R) THEN mem[a] ELSE Gone]
    PROVE  /\ after \in Memories
           /\ \A a \in R : after[a] = mem[a]
           /\ Occupied(after) = Live(after, R)
  <1> DEFINE L == Live(mem, R)
             M == Live(after, R)
  <1>1. R \in SUBSET Address /\ Occupied(mem) \in SUBSET Address
    BY DEF Occupied
  <1>2. /\ L \in SUBSET Address /\ R \in SUBSET L
        /\ \A a \in L : Parts(mem[a]) \in SUBSET L
        /\ \A S \in SUBSET Address :
              R \in SUBSET S /\ (\A a \in S : Parts(mem[a]) \in SUBSET S) => L \in SUBSET S
    BY <1>1, LiveIsLeast
  <1>3. L \in SUBSET Occupied(mem)
    BY <1>1, <1>2
  <1>4. after \in Memories /\ (\A a \in L : after[a] = mem[a]) /\ \A a \in Address \ L : after[a] = Gone
    BY <1>2 DEF Memories
  <1>5. /\ M \in SUBSET Address /\ R \in SUBSET M
        /\ \A a \in M : Parts(after[a]) \in SUBSET M
        /\ \A S \in SUBSET Address :
              R \in SUBSET S /\ (\A a \in S : Parts(after[a]) \in SUBSET S) => M \in SUBSET S
    BY <1>1, <1>4, LiveIsLeast
  <1>6. Occupied(after) = L
    BY <1>2, <1>3, <1>4 DEF Occupied
  <1> HIDE DEF L, M
  <1>7. M \in SUBSET L
    BY <1>2, <1>4, <1>5
  <1>8. L \in SUBSET M
    BY <1>2, <1>4, <1>5, <1>7
  <1>9. QED BY <1>2, <1>4, <1>6, <1>7, <1>8 DEF M
-----------------------------------------------------------------------------
(* What is held is there: whatever a thread holds a handle of, in the hand *)
(* or in a memo, is a block of the kind it is held as, and a product kept  *)
(* is of the two tables it names.  These are said of any memory, so that   *)
(* they can be said of the one a step writes before it drops anything.     *)

Tables           == {Table(words) : words \in Language}
BlockAt(a, mem)  == a \in Address /\ mem[a] \in Blocks
TableAt(a, mem)  == a \in Address /\ mem[a] \in Tables
Words(a, mem)    == mem[a].label.language
Handles          == Address \cup {Nobody}

HeldWell(hd, mem) ==
    /\ hd \in [Var -> Handles]
    /\ \A x \in Var : hd[x] = Nobody \/ BlockAt(hd[x], mem)

CallWell(call, mem) ==
    /\ call.at # "idle" => call.node \in Blocks /\ call.into \in Var
    /\ call.node # Gone => call.node \in Blocks /\ \A a \in Parts(call.node) : BlockAt(a, mem)
    /\ call.found # Nobody <=> call.at = "comparing"
    /\ call.found # Nobody => BlockAt(call.found, mem)

Calls == [at : {"idle", "probing", "comparing", "missed"}, into : Var \cup {Nobody}, node : Blocks \cup {Gone}, found : Handles]

CallsWell(cl, mem) ==
    /\ cl \in [Thread -> Calls]
    /\ \A t \in Thread : CallWell(cl[t], mem)

SetsWell(st, mem) ==
    /\ st \in [Thread -> [Register -> Handles]]
    /\ \A t \in Thread, r \in Register : st[t][r] = Nobody \/ TableAt(st[t][r], mem)

TextWell(e, mem) == e.table = Refused \/ TableAt(e.table, mem)

CompiledWell(cm, mem) ==
    /\ cm \in [Thread -> SUBSET [text : Text, table : Address \cup {Refused}]]
    /\ \A t \in Thread : \A e \in cm[t] : TextWell(e, mem)

HandlesWell(hn, mem) ==
    /\ hn \in [Thread -> SUBSET Address]
    /\ \A t \in Thread : \A a \in hn[t] : TableAt(a, mem)

ProductWell(e, mem) ==
    \E one, two \in Address :
      /\ e.of = {one, two} /\ TableAt(one, mem) /\ TableAt(two, mem)
      /\ LET words == Joined(e.union, Words(one, mem), Words(two, mem)) IN
           IF e.built = Refused THEN ~Fits[words]
           ELSE Fits[words] /\ TableAt(e.built, mem) /\ Words(e.built, mem) = words

Built == [of : SUBSET Address, union : BOOLEAN, built : Address \cup {Refused}]

ProductsWell(pd, mem) ==
    /\ pd \in [Thread -> SUBSET Built]
    /\ \A t \in Thread : \A e \in pd[t] : ProductWell(e, mem)

Well(hd, cl, st, cm, hn, pd, mem) ==
    /\ HeldWell(hd, mem) /\ CallsWell(cl, mem) /\ SetsWell(st, mem)
    /\ CompiledWell(cm, mem) /\ HandlesWell(hn, mem) /\ ProductsWell(pd, mem)

SlotsWell(sl) ==
    /\ sl = [t \in Thread |-> sl[t]]
    /\ \A t \in Thread : \A e \in sl[t] : e.block \in Address

Sound ==
    /\ program \in Programs /\ SlotsWell(slots)
    /\ memory \in Memories
    /\ Well(held, calls, sets, compiled, handles, products, memory)
    /\ Occupied(memory) = Live(memory, Roots)
-----------------------------------------------------------------------------
(* The handles there are, as a function of what holds them.                *)

RootsFrom(hd, cl, st, cm, hn, pd) ==
    HandlesIn(hd)
      \cup UNION {(Parts(cl[t].node) \cup ({cl[t].found} \ {Nobody})) \cup HandlesIn(st[t])
                    \cup (hn[t] \cup ({e.table : e \in cm[t]} \ {Refused})
                           \cup UNION {ProductHolds(e) : e \in pd[t]}) : t \in Thread}

InTheHand(a, hd, cl, st) ==
    \/ \E x \in Var : a = hd[x] /\ a # Nobody
    \/ \E t \in Thread : \/ a \in Parts(cl[t].node)
                         \/ a = cl[t].found /\ a # Nobody
                         \/ \E r \in Register : a = st[t][r] /\ a # Nobody

InAMemo(a, cm, hn, pd) ==
    \E t \in Thread : \/ a \in hn[t]
                      \/ \E e \in cm[t] : a = e.table /\ a # Refused
                      \/ \E e \in pd[t] : a \in e.of \/ (a = e.built /\ a # Refused)

LEMMA RootsAre ==
    /\ Roots = RootsFrom(held, calls, sets, compiled, handles, products)
    /\ Roots' = RootsFrom(held', calls', sets', compiled', handles', products')
  BY DEF Roots, RootsFrom, CallHolds, TableHolds, MemoHolds

(* A handle there is is in some hand or in some memo.                      *)
LEMMA RootsSay ==
    ASSUME NEW mem, NEW hd, NEW cl, NEW st, NEW cm, NEW hn, NEW pd,
           Well(hd, cl, st, cm, hn, pd, mem), NEW a
    PROVE  a \in RootsFrom(hd, cl, st, cm, hn, pd)
             <=> InTheHand(a, hd, cl, st) \/ InAMemo(a, cm, hn, pd)
  <1>1. /\ DOMAIN hd = Var
        /\ \A t \in Thread : DOMAIN st[t] = Register
    BY DEF Well, HeldWell, SetsWell
  <1>2. a \in HandlesIn(hd) <=> \E x \in Var : a = hd[x] /\ a # Nobody
    BY <1>1 DEF HandlesIn
  <1>3. \A t \in Thread : a \in HandlesIn(st[t]) <=> \E r \in Register : a = st[t][r] /\ a # Nobody
    BY <1>1 DEF HandlesIn
  <1>4. \A t \in Thread : a \in UNION {ProductHolds(e) : e \in pd[t]}
                            <=> \E e \in pd[t] : a \in e.of \/ (a = e.built /\ a # Refused)
    BY DEF ProductHolds
  <1>5. \A t \in Thread : a \in {e.table : e \in cm[t]} \ {Refused}
                            <=> \E e \in cm[t] : a = e.table /\ a # Refused
    OBVIOUS
  <1> DEFINE Part(t) == (Parts(cl[t].node) \cup ({cl[t].found} \ {Nobody})) \cup HandlesIn(st[t])
                          \cup (hn[t] \cup ({e.table : e \in cm[t]} \ {Refused})
                                 \cup UNION {ProductHolds(e) : e \in pd[t]})
  <1>6. a \in RootsFrom(hd, cl, st, cm, hn, pd) <=> a \in HandlesIn(hd) \/ \E t \in Thread : a \in Part(t)
    <2> HIDE DEF Part
    <2>1. RootsFrom(hd, cl, st, cm, hn, pd) = HandlesIn(hd) \cup UNION {Part(t) : t \in Thread}
      BY DEF RootsFrom, Part
    <2>2. QED BY <2>1
  <1>7. ASSUME NEW t \in Thread
        PROVE  a \in Part(t) <=>
                 \/ a \in Parts(cl[t].node)
                 \/ a = cl[t].found /\ a # Nobody
                 \/ \E r \in Register : a = st[t][r] /\ a # Nobody
                 \/ a \in hn[t]
                 \/ \E e \in cm[t] : a = e.table /\ a # Refused
                 \/ \E e \in pd[t] : a \in e.of \/ (a = e.built /\ a # Refused)
    BY <1>3, <1>4, <1>5
  <1> HIDE DEF Part
  <1>8. QED BY <1>2, <1>6, <1>7, Zenon DEF InTheHand, InAMemo

LEMMA TablesAreBlocks == \A words \in Language : Table(words) \in Blocks /\ Parts(Table(words)) = {}
  <1> SUFFICES ASSUME NEW words \in Language
               PROVE  Table(words) \in Blocks /\ Parts(Table(words)) = {}
    OBVIOUS
  <1>1. [language |-> words] \in Labels
    BY DEF Labels
  <1>2. <<>> \in Seq(Address)
    OBVIOUS
  <1>3. Table(words) \in Blocks
    BY <1>1, <1>2 DEF Table, Blocks
  <1>4. Table(words) # Gone /\ DOMAIN Table(words).parts = {}
    BY <1>3, GoneIsNoBlock DEF Table
  <1>5. QED BY <1>3, <1>4 DEF Parts

(* What is held is there, so no handle is of a block that was dropped.     *)
LEMMA RootsOccupied ==
    ASSUME NEW mem, NEW hd, NEW cl, NEW st, NEW cm, NEW hn, NEW pd,
           Well(hd, cl, st, cm, hn, pd, mem)
    PROVE  RootsFrom(hd, cl, st, cm, hn, pd) \in SUBSET Occupied(mem)
  <1>1. Gone \notin Tables
    BY GoneIsNoBlock, TablesAreBlocks DEF Tables
  <1>2. \A a : BlockAt(a, mem) \/ TableAt(a, mem) => a \in Occupied(mem)
    BY <1>1, GoneIsNoBlock DEF BlockAt, TableAt, Occupied
  <1>3. \A a : InTheHand(a, hd, cl, st) => a \in Occupied(mem)
    <2> SUFFICES ASSUME NEW a, InTheHand(a, hd, cl, st) PROVE a \in Occupied(mem)
      OBVIOUS
    <2>1. CASE \E x \in Var : a = hd[x] /\ a # Nobody
      BY <1>2, <2>1 DEF Well, HeldWell
    <2>2. ASSUME NEW t \in Thread, a \in Parts(cl[t].node) PROVE a \in Occupied(mem)
      <3>1. cl[t].node # Gone
        BY <2>2 DEF Parts
      <3>2. QED BY <1>2, <2>2, <3>1 DEF Well, CallsWell, CallWell
    <2>3. ASSUME NEW t \in Thread, a = cl[t].found, a # Nobody PROVE a \in Occupied(mem)
      BY <1>2, <2>3 DEF Well, CallsWell, CallWell
    <2>4. ASSUME NEW t \in Thread, NEW r \in Register, a = st[t][r], a # Nobody PROVE a \in Occupied(mem)
      BY <1>2, <2>4 DEF Well, SetsWell
    <2>5. QED BY <2>1, <2>2, <2>3, <2>4 DEF InTheHand
  <1>4. \A a : InAMemo(a, cm, hn, pd) => a \in Occupied(mem)
    <2> SUFFICES ASSUME NEW a, NEW t \in Thread,
                        \/ a \in hn[t]
                        \/ \E e \in cm[t] : a = e.table /\ a # Refused
                        \/ \E e \in pd[t] : a \in e.of \/ (a = e.built /\ a # Refused)
                 PROVE  a \in Occupied(mem)
      BY DEF InAMemo
    <2>1. CASE a \in hn[t]
      BY <1>2, <2>1 DEF Well, HandlesWell
    <2>2. CASE \E e \in cm[t] : a = e.table /\ a # Refused
      BY <1>2, <2>2 DEF Well, CompiledWell, TextWell
    <2>3. ASSUME NEW e \in pd[t], a \in e.of \/ (a = e.built /\ a # Refused) PROVE a \in Occupied(mem)
      BY <1>2, <2>3 DEF Well, ProductsWell, ProductWell
    <2>4. QED BY <2>1, <2>2, <2>3
  <1>5. QED BY <1>3, <1>4, RootsSay

(* Memories that agree on every handle there is hold what is held alike.   *)
LEMMA WellWhereAlike ==
    ASSUME NEW mem, NEW now, NEW hd, NEW cl, NEW st, NEW cm, NEW hn, NEW pd,
           Well(hd, cl, st, cm, hn, pd, mem),
           \A a \in RootsFrom(hd, cl, st, cm, hn, pd) : now[a] = mem[a]
    PROVE  Well(hd, cl, st, cm, hn, pd, now)
  <1>1. \A a : InTheHand(a, hd, cl, st) \/ InAMemo(a, cm, hn, pd) => now[a] = mem[a]
    BY RootsSay
  <1>2. \A a : now[a] = mem[a] => /\ BlockAt(a, mem) => BlockAt(a, now)
                                  /\ TableAt(a, mem) => TableAt(a, now)
                                  /\ Words(a, now) = Words(a, mem)
    BY DEF BlockAt, TableAt, Words
  <1>3. \A a : /\ InTheHand(a, hd, cl, st) /\ BlockAt(a, mem) => BlockAt(a, now)
               /\ InTheHand(a, hd, cl, st) /\ TableAt(a, mem) => TableAt(a, now)
    BY <1>1, <1>2
  <1>4. \A a : InAMemo(a, cm, hn, pd) => /\ TableAt(a, mem) => TableAt(a, now)
                                         /\ Words(a, now) = Words(a, mem)
    BY <1>1, <1>2
  <1>5. HeldWell(hd, now)
    <2>1. \A x \in Var : hd[x] # Nobody => InTheHand(hd[x], hd, cl, st)
      BY DEF InTheHand
    <2>2. QED BY <1>3, <2>1 DEF Well, HeldWell
  <1>6. CallsWell(cl, now)
    <2> SUFFICES ASSUME NEW t \in Thread PROVE CallWell(cl[t], now)
      BY DEF Well, CallsWell
    <2>1. CallWell(cl[t], mem)
      BY DEF Well, CallsWell
    <2>2. /\ \A a \in Parts(cl[t].node) : InTheHand(a, hd, cl, st)
          /\ cl[t].found # Nobody => InTheHand(cl[t].found, hd, cl, st)
      BY DEF InTheHand
    <2>3. QED BY <1>3, <2>1, <2>2 DEF CallWell
  <1>7. SetsWell(st, now)
    <2>1. \A t \in Thread, r \in Register : st[t][r] # Nobody => InTheHand(st[t][r], hd, cl, st)
      BY DEF InTheHand
    <2>2. QED BY <1>3, <2>1 DEF Well, SetsWell
  <1>8. CompiledWell(cm, now)
    <2> SUFFICES ASSUME NEW t \in Thread, NEW e \in cm[t] PROVE TextWell(e, now)
      BY DEF Well, CompiledWell
    <2>1. TextWell(e, mem)
      BY DEF Well, CompiledWell
    <2>2. e.table # Refused => InAMemo(e.table, cm, hn, pd)
      BY DEF InAMemo
    <2>3. QED BY <1>4, <2>1, <2>2 DEF TextWell
  <1>9. HandlesWell(hn, now)
    <2>1. \A t \in Thread : \A a \in hn[t] : InAMemo(a, cm, hn, pd)
      BY DEF InAMemo
    <2>2. QED BY <1>4, <2>1 DEF Well, HandlesWell
  <1>10. ProductsWell(pd, now)
    <2> SUFFICES ASSUME NEW t \in Thread, NEW e \in pd[t] PROVE ProductWell(e, now)
      BY DEF Well, ProductsWell
    <2>1. ProductWell(e, mem)
      BY DEF Well, ProductsWell
    <2>2. PICK one, two \in Address :
             /\ e.of = {one, two} /\ TableAt(one, mem) /\ TableAt(two, mem)
             /\ LET words == Joined(e.union, Words(one, mem), Words(two, mem)) IN
                  IF e.built = Refused THEN ~Fits[words]
                  ELSE Fits[words] /\ TableAt(e.built, mem) /\ Words(e.built, mem) = words
      BY <2>1 DEF ProductWell
    <2>3. /\ InAMemo(one, cm, hn, pd) /\ InAMemo(two, cm, hn, pd)
          /\ e.built # Refused => InAMemo(e.built, cm, hn, pd)
      BY <2>2 DEF InAMemo
    <2>4. /\ TableAt(one, now) /\ TableAt(two, now)
          /\ Words(one, now) = Words(one, mem) /\ Words(two, now) = Words(two, mem)
          /\ e.built # Refused => /\ TableAt(e.built, mem) => TableAt(e.built, now)
                                  /\ Words(e.built, now) = Words(e.built, mem)
      BY <1>4, <2>2, <2>3
    <2>5. QED BY <2>2, <2>4 DEF ProductWell
  <1>11. QED BY <1>5, <1>6, <1>7, <1>8, <1>9, <1>10 DEF Well

(* What a step writes leaves what is held as it was, and nothing in it is   *)
(* of a block that is not there.                                           *)
Writes(mem, now) ==
    /\ now \in Memories
    /\ \A a \in Occupied(mem) : now[a] = mem[a]
    /\ \A a \in Occupied(now) : Parts(now[a]) \in SUBSET Occupied(now)

LEMMA WellWhenWritten ==
    ASSUME NEW mem, NEW now, Writes(mem, now),
           NEW hd, NEW cl, NEW st, NEW cm, NEW hn, NEW pd,
           Well(hd, cl, st, cm, hn, pd, mem)
    PROVE  Well(hd, cl, st, cm, hn, pd, now)
  BY RootsOccupied, WellWhereAlike DEF Writes

(* Nothing is written by a step that only hands handles about.             *)
LEMMA NothingWritten ==
    ASSUME NEW mem \in Memories, NEW R \in SUBSET Address, Occupied(mem) = Live(mem, R)
    PROVE  Writes(mem, mem)
  BY LiveIsLeast DEF Writes

LEMMA BlockWritten ==
    ASSUME NEW mem, Writes(mem, mem), NEW a \in Address, mem[a] = Gone,
           NEW block \in Blocks, \A b \in Parts(block) : BlockAt(b, mem)
    PROVE  /\ Writes(mem, [mem EXCEPT ![a] = block])
           /\ BlockAt(a, [mem EXCEPT ![a] = block])
           /\ [mem EXCEPT ![a] = block][a] = block
  <1> DEFINE now == [mem EXCEPT ![a] = block]
  <1>1. now \in Memories /\ now[a] = block /\ \A b \in Address \ {a} : now[b] = mem[b]
    BY DEF Writes, Memories
  <1> HIDE DEF now
  <1>2. block # Gone
    BY GoneIsNoBlock
  <1>3. Occupied(now) = Occupied(mem) \cup {a} /\ a \notin Occupied(mem)
    BY <1>1, <1>2 DEF Occupied
  <1>4. \A b \in Occupied(mem) : now[b] = mem[b]
    BY <1>1, <1>3 DEF Occupied
  <1>5. \A b \in Parts(block) : b \in Occupied(mem)
    BY GoneIsNoBlock DEF BlockAt, Occupied
  <1>6. \A b \in Occupied(now) : Parts(now[b]) \in SUBSET Occupied(now)
    BY <1>1, <1>3, <1>4, <1>5 DEF Writes
  <1>7. QED BY <1>1, <1>4, <1>6 DEF Writes, BlockAt, now

(* A step that settles leaves what is reachable, and what is held well.    *)
LEMMA SettlesSoundly ==
    ASSUME program' \in Programs, SlotsWell(slots'),
           NEW mem, Writes(mem, mem),
           Well(held', calls', sets', compiled', handles', products', mem),
           Settles(mem)
    PROVE  Sound'
  <1> DEFINE R == RootsFrom(held', calls', sets', compiled', handles', products')
  <1>1. Roots' = R
    BY RootsAre
  <1>2. R \in SUBSET Occupied(mem)
    BY RootsOccupied
  <1> HIDE DEF R
  <1>3. memory' = [a \in Address |-> IF a \in Live(mem, R) THEN mem[a] ELSE Gone]
    BY <1>1 DEF Settles
  <1>4. mem \in Memories /\ \A a \in Occupied(mem) : Parts(mem[a]) \in SUBSET Occupied(mem)
    BY DEF Writes
  <1>5. memory' \in Memories /\ (\A a \in R : memory'[a] = mem[a]) /\ Occupied(memory') = Live(memory', R)
    BY <1>2, <1>3, <1>4, SettledBlocks
  <1>6. Well(held', calls', sets', compiled', handles', products', memory')
    BY <1>5, WellWhereAlike DEF R
  <1>7. QED BY <1>1, <1>5, <1>6 DEF Sound

(* Taking one more handle of what is reached reaches nothing more.         *)
LEMMA MoreHandles ==
    ASSUME NEW mem \in Memories, NEW R, NEW more \in SUBSET Occupied(mem), R \in SUBSET more,
           Occupied(mem) = Live(mem, R)
    PROVE  Occupied(mem) = Live(mem, more)
  <1>1. Occupied(mem) \in SUBSET Address /\ R \in SUBSET Address /\ more \in SUBSET Address
    BY DEF Occupied
  <1> DEFINE L == Live(mem, R)
             M == Live(mem, more)
  <1>2. /\ \A a \in L : Parts(mem[a]) \in SUBSET L
        /\ \A S \in SUBSET Address :
              R \in SUBSET S /\ (\A a \in S : Parts(mem[a]) \in SUBSET S) => L \in SUBSET S
    BY <1>1, LiveIsLeast
  <1>3. /\ M \in SUBSET Address /\ more \in SUBSET M
        /\ \A a \in M : Parts(mem[a]) \in SUBSET M
        /\ \A S \in SUBSET Address :
              more \in SUBSET S /\ (\A a \in S : Parts(mem[a]) \in SUBSET S) => M \in SUBSET S
    BY <1>1, LiveIsLeast
  <1> HIDE DEF L, M
  <1>4. Occupied(mem) = L
    BY DEF L
  <1>5. L \in SUBSET M
    <2>1. R \in SUBSET M
      BY <1>3
    <2>2. QED BY <1>2, <1>3, <2>1
  <1>6. M \in SUBSET L
    <2>1. L \in SUBSET Address /\ more \in SUBSET L
      BY <1>1, <1>4
    <2>2. QED BY <1>2, <1>3, <2>1
  <1>7. QED BY <1>4, <1>5, <1>6 DEF M

LEMMA HandsOnlySoundly ==
    ASSUME Sound, UNCHANGED <<program, memory, slots>>,
           Well(held', calls', sets', compiled', handles', products', memory),
           \A a : InTheHand(a, held, calls, sets) \/ InAMemo(a, compiled, handles, products)
                    => InTheHand(a, held', calls', sets') \/ InAMemo(a, compiled', handles', products')
    PROVE  Sound'
  <1> DEFINE R    == RootsFrom(held, calls, sets, compiled, handles, products)
             more == RootsFrom(held', calls', sets', compiled', handles', products')
  <1>1. Roots = R /\ Roots' = more
    BY RootsAre
  <1>2. R \in SUBSET more
    BY RootsSay DEF Sound
  <1>3. more \in SUBSET Occupied(memory)
    BY RootsOccupied
  <1> HIDE DEF R, more
  <1>4. memory \in Memories /\ Occupied(memory) = Live(memory, R)
    BY <1>1 DEF Sound
  <1>5. Occupied(memory) = Live(memory, more)
    BY <1>2, <1>3, <1>4, MoreHandles
  <1>6. QED BY <1>1, <1>4, <1>5 DEF Sound

-----------------------------------------------------------------------------
(* Interning.                                                              *)

LEMMA SoundWrites == Sound => Writes(memory, memory)
  <1> SUFFICES ASSUME Sound PROVE Writes(memory, memory)
    OBVIOUS
  <1> DEFINE R == RootsFrom(held, calls, sets, compiled, handles, products)
  <1>1. memory \in Memories /\ Occupied(memory) = Live(memory, Roots) /\ Roots = R
    BY RootsAre DEF Sound
  <1>2. R \in SUBSET Occupied(memory)
    BY RootsOccupied DEF Sound
  <1>3. Roots \in SUBSET Address
    BY <1>1, <1>2 DEF Occupied
  <1>4. QED BY <1>1, <1>3, NothingWritten

(* One call is another, and the others are as they were.                   *)
LEMMA CallsAre ==
    ASSUME NEW cl, NEW mem, CallsWell(cl, mem), NEW t \in Thread,
           NEW call \in Calls, CallWell(call, mem)
    PROVE  CallsWell([cl EXCEPT ![t] = call], mem)
  BY DEF CallsWell

LEMMA AskSound ==
    ASSUME Sound, NEW t \in Thread, NEW x \in Var, NEW l \in Label, Ask(t, x, l)
    PROVE  Sound'
  <1>1. PICK of \in [1 .. Arity[l] -> {y \in program.vars : held[y] # Nobody}] :
          calls' = [calls EXCEPT ![t] =
                     [at |-> "probing", into |-> x, node |-> Node(l, [i \in DOMAIN of |-> held[of[i]]]),
                      found |-> Nobody]]
    BY DEF Ask
  <1> DEFINE ps   == [i \in DOMAIN of |-> held[of[i]]]
             node == Node(l, ps)
             call == [at |-> "probing", into |-> x, node |-> node, found |-> Nobody]
  <1>2. program.vars \in SUBSET Var
    BY ProgramsAreRun DEF Sound
  <1>3. HeldWell(held, memory) /\ CallsWell(calls, memory)
    BY DEF Sound, Well
  <1>4. \A i \in 1 .. Arity[l] : BlockAt(ps[i], memory)
    BY <1>2, <1>3 DEF HeldWell
  <1>5. ps \in Seq(Address) /\ DOMAIN ps = 1 .. Arity[l]
    <2>1. Arity[l] \in Nat
      BY SharingBounds
    <2>2. DOMAIN of = 1 .. Arity[l] /\ \A i \in 1 .. Arity[l] : ps[i] \in Address
      BY <1>4 DEF BlockAt
    <2>3. ps \in [1 .. Arity[l] -> Address]
      BY <2>2
    <2> HIDE DEF ps
    <2>4. QED BY <2>1, <2>3
  <1> HIDE DEF ps
  <1>6. node \in Blocks /\ Parts(node) = {ps[i] : i \in 1 .. Arity[l]}
    <2>1. node \in Blocks
      BY <1>5 DEF Node, Blocks, Labels
    <2>2. node # Gone /\ node.parts = ps
      BY <2>1, GoneIsNoBlock DEF Node
    <2>3. QED BY <1>5, <2>1, <2>2 DEF Parts
  <1> HIDE DEF node
  <1>7. call \in Calls /\ CallWell(call, memory)
    <2>1. call \in Calls
      BY <1>6 DEF Calls, Handles
    <2>2. /\ call.at = "probing" /\ call.into = x /\ call.node = node /\ call.found = Nobody
          /\ \A a \in Parts(node) : BlockAt(a, memory)
      BY <1>4, <1>6
    <2> HIDE DEF call
    <2>3. QED BY <1>6, <2>1, <2>2 DEF CallWell
  <1>8. calls' = [calls EXCEPT ![t] = call]
    BY <1>1 DEF node, ps
  <1> HIDE DEF call
  <1>9. CallsWell(calls', memory)
    BY <1>3, <1>7, <1>8, CallsAre
  <1>10. Well(held', calls', sets', compiled', handles', products', memory)
    BY <1>9 DEF Ask, tables, memos, Sound, Well
  <1>11. ASSUME NEW a, InTheHand(a, held, calls, sets) PROVE InTheHand(a, held', calls', sets')
    <2>1. Parts(calls[t].node) = {} /\ calls[t].found = Nobody
      BY DEF Ask, Idle, Parts
    <2>2. \A u \in Thread : u # t => calls'[u] = calls[u]
      BY <1>3, <1>8 DEF CallsWell
    <2>3. held' = held /\ sets' = sets
      BY DEF Ask, tables
    <2>4. QED BY <1>11, <2>1, <2>2, <2>3, Zenon DEF InTheHand
  <1>12. QED BY <1>10, <1>11, HandsOnlySoundly DEF Ask, tables, memos

(* A call that goes on is of the same node, with another block found.      *)
GoesOn(cl, t, at, found) == [cl EXCEPT ![t].at = at, ![t].found = found]

LEMMA CallsGoOn ==
    ASSUME NEW cl, NEW mem, CallsWell(cl, mem), NEW t \in Thread, cl[t].at # "idle",
           NEW at, NEW found, at \in {"probing", "comparing", "missed"}, found \in Handles,
           found # Nobody <=> at = "comparing", found # Nobody => BlockAt(found, mem),
           NEW now, now = GoesOn(cl, t, at, found)
    PROVE  /\ CallsWell(now, mem)
           /\ now[t].node = cl[t].node /\ now[t].found = found
           /\ \A u \in Thread : u # t => now[u] = cl[u]
  <1> DEFINE call == [cl[t] EXCEPT !.at = at, !.found = found]
  <1>1. cl[t] \in Calls /\ CallWell(cl[t], mem) /\ cl \in [Thread -> Calls]
    BY DEF CallsWell
  <1>2. call \in Calls /\ call.at = at /\ call.found = found
        /\ call.node = cl[t].node /\ call.into = cl[t].into
    BY <1>1 DEF Calls
  <1>3. now = [cl EXCEPT ![t] = call]
    BY <1>1 DEF Calls, GoesOn
  <1> HIDE DEF call
  <1>4. CallWell(call, mem)
    BY <1>1, <1>2 DEF CallWell
  <1>5. CallsWell(now, mem)
    <2>1. call \in Calls
      BY <1>2
    <2>2. CallsWell([cl EXCEPT ![t] = call], mem)
      BY <1>4, <2>1, CallsAre
    <2>3. QED BY <1>3, <2>2
  <1>6. now[t] = call /\ \A u \in Thread : u # t => now[u] = cl[u]
    BY <1>1, <1>3
  <1>7. QED BY <1>2, <1>5, <1>6

LEMMA CallsEnd ==
    ASSUME NEW cl, NEW mem, CallsWell(cl, mem), NEW t \in Thread
    PROVE  CallsWell([cl EXCEPT ![t] = Idle], mem)
  <1>1. Idle \in Calls
    BY DEF Calls, Idle, Handles
  <1>2. Idle.at = "idle" /\ Idle.node = Gone /\ Idle.found = Nobody
    BY DEF Idle
  <1>3. CallWell(Idle, mem)
    BY <1>2 DEF CallWell
  <1>4. QED BY <1>1, <1>3, CallsAre

LEMMA ProbeSound == ASSUME Sound, NEW t \in Thread, Probe(t) PROVE Sound'
  <1>1. PICK a \in Alive(t, calls[t].node) :
          calls' = GoesOn(calls, t, "comparing", a)
    BY DEF Probe, GoesOn
  <1>2. a \in Address /\ memory[a] \in Blocks
    BY <1>1 DEF Sound, SlotsWell, Alive, InSlot, Memories
  <1>3. BlockAt(a, memory) /\ a \in Handles /\ a # Nobody
    BY <1>2, NobodyHasNoBlock DEF BlockAt, Handles
  <1>4. CallsWell(calls, memory) /\ calls[t].at = "probing"
    BY DEF Probe, Sound, Well
  <1>5. /\ CallsWell(calls', memory)
        /\ calls'[t].node = calls[t].node
        /\ \A u \in Thread : u # t => calls'[u] = calls[u]
    BY <1>1, <1>3, <1>4, CallsGoOn
  <1>6. calls[t].found = Nobody
    BY <1>4 DEF CallsWell, CallWell
  <1>7. Well(held', calls', sets', compiled', handles', products', memory)
    BY <1>5 DEF Probe, tables, memos, Sound, Well
  <1>8. ASSUME NEW b, InTheHand(b, held, calls, sets) PROVE InTheHand(b, held', calls', sets')
    <2>1. held' = held /\ sets' = sets
      BY DEF Probe, tables
    <2>2. QED BY <1>5, <1>6, <1>8, <2>1, Zenon DEF InTheHand
  <1>9. QED BY <1>7, <1>8, HandsOnlySoundly DEF Probe, tables, memos

LEMMA HitSound == ASSUME Sound, NEW t \in Thread, Hit(t) PROVE Sound'
  <1>1. CallsWell(calls, memory) /\ HeldWell(held, memory) /\ calls[t].at = "comparing"
    BY DEF Hit, Sound, Well
  <1>2. BlockAt(calls[t].found, memory) /\ calls[t].into \in Var /\ calls[t].found \in Handles
    BY <1>1 DEF CallsWell, CallWell, BlockAt, Handles
  <1>3. HeldWell(held', memory)
    BY <1>1, <1>2 DEF Hit, Hands, HeldWell
  <1>4. CallsWell(calls', memory)
    BY <1>1, CallsEnd DEF Hit, Hands
  <1>5. Well(held', calls', sets', compiled', handles', products', memory)
    BY <1>3, <1>4 DEF Hit, tables, memos, Sound, Well
  <1>6. QED BY <1>5, SoundWrites, SettlesSoundly DEF Hit, Sound

LEMMA DiffersSound == ASSUME Sound, NEW t \in Thread, Differs(t) PROVE Sound'
  <1>1. CallsWell(calls, memory) /\ calls[t].at = "comparing"
    BY DEF Differs, Sound, Well
  <1>2. calls' = GoesOn(calls, t, "missed", Nobody) /\ Nobody \in Handles
    BY DEF Differs, Handles, GoesOn
  <1>3. CallsWell(calls', memory)
    BY <1>1, <1>2, CallsGoOn
  <1>4. Well(held', calls', sets', compiled', handles', products', memory)
    BY <1>3 DEF Differs, tables, memos, Sound, Well
  <1>5. QED BY <1>4, SoundWrites, SettlesSoundly DEF Differs, Sound

LEMMA DropSound == ASSUME Sound, NEW x \in Var, Drop(x) PROVE Sound'
  <1>1. HeldWell(held', memory)
    BY DEF Drop, Sound, Well, HeldWell, Handles
  <1>2. Well(held', calls', sets', compiled', handles', products', memory)
    BY <1>1 DEF Drop, tables, memos, Sound, Well
  <1>3. QED BY <1>2, SoundWrites, SettlesSoundly DEF Drop, Sound

LEMMA MissSound == ASSUME Sound, NEW t \in Thread, Miss(t) PROVE Sound'
  <1> DEFINE node  == calls[t].node
             entry(a) == [slot |-> SlotOf(node), block |-> a]
             now(a)   == [memory EXCEPT ![a] = node]
  <1>1. PICK a \in Unused :
          /\ slots' = [slots EXCEPT ![t] = Put(@, entry(a))]
          /\ Hands(t, a)
          /\ Settles(now(a))
    BY DEF Miss
  <1>2. CallsWell(calls, memory) /\ HeldWell(held, memory) /\ calls[t].at # "idle"
    BY DEF Miss, Sound, Well
  <1>3. /\ node \in Blocks /\ node # Gone /\ calls[t].into \in Var
        /\ \A b \in Parts(node) : BlockAt(b, memory)
    BY <1>2, GoneIsNoBlock DEF CallsWell, CallWell
  <1>4. a \in Address /\ memory[a] = Gone
    BY DEF Unused
  <1> HIDE DEF node
  <1>5. Writes(memory, now(a)) /\ BlockAt(a, now(a))
    BY <1>3, <1>4, SoundWrites, BlockWritten
  <1>6. Hands(t, a) /\ Settles(now(a))
    BY <1>1
  <1> HIDE DEF now
  <1>7. Well(held, calls, sets, compiled, handles, products, now(a))
    BY <1>5, WellWhenWritten DEF Sound
  <1>8. HeldWell(held', now(a))
    BY <1>3, <1>4, <1>5, <1>6, <1>7 DEF Hands, Well, HeldWell, Handles
  <1>9. CallsWell(calls', now(a))
    BY <1>6, <1>7, CallsEnd DEF Hands, Well
  <1>10. Well(held', calls', sets', compiled', handles', products', now(a))
    BY <1>7, <1>8, <1>9 DEF Miss, tables, memos, Well
  <1>11. SlotsWell(slots')
    BY <1>1, <1>4 DEF Sound, SlotsWell, Put
  <1>12. Writes(now(a), now(a))
    BY <1>5 DEF Writes
  <1>13. QED BY <1>6, <1>10, <1>11, <1>12, SettlesSoundly DEF Miss, Sound

-----------------------------------------------------------------------------
(* Languages.                                                              *)

LEMMA TableWords ==
    ASSUME NEW mem, NEW a, TableAt(a, mem)
    PROVE  Words(a, mem) \in Language /\ mem[a] = Table(Words(a, mem))
  BY DEF TableAt, Tables, Table, Words

LEMMA TableWritten ==
    ASSUME Sound, NEW a \in Unused, NEW words \in Language, NEW mem, mem = [memory EXCEPT ![a] = Table(words)]
    PROVE  Writes(memory, mem) /\ TableAt(a, mem) /\ Words(a, mem) = words
  <1>1. a \in Address /\ memory[a] = Gone
    BY DEF Unused
  <1>2. Table(words) \in Blocks /\ \A b \in Parts(Table(words)) : BlockAt(b, memory)
    BY TablesAreBlocks
  <1>3. Writes(memory, mem) /\ mem[a] = Table(words)
    BY <1>1, <1>2, SoundWrites, BlockWritten
  <1>4. Words(a, mem) = words
    BY <1>3 DEF Words, Table
  <1>5. QED BY <1>1, <1>3, <1>4 DEF TableAt, Tables

(* A register takes a table, or nothing.                                   *)
LEMMA SetsHold ==
    ASSUME NEW mem, SetsWell(sets, mem), NEW t \in Thread, NEW r \in Register,
           NEW a, a = Refused \/ TableAt(a, mem), Holds(t, r, a)
    PROVE  SetsWell(sets', mem)
  <1> DEFINE b == IF a = Refused THEN Nobody ELSE a
  <1>1. b \in Handles /\ (b = Nobody \/ TableAt(b, mem))
    BY DEF Handles, TableAt
  <1>2. sets' = [sets EXCEPT ![t][r] = b] /\ sets \in [Thread -> [Register -> Handles]]
    BY DEF Holds, SetsWell
  <1> HIDE DEF b
  <1>3. sets' \in [Thread -> [Register -> Handles]]
    BY <1>1, <1>2
  <1>4. sets'[t][r] = b /\ \A u \in Thread, s \in Register : u # t \/ s # r => sets'[u][s] = sets[u][s]
    BY <1>2
  <1>5. QED BY <1>1, <1>3, <1>4 DEF SetsWell

(* A memo keeps what it held and what it is given, or starts over with it, *)
(* or keeps what it held.                                                  *)
LEMMA KeepsNoOther ==
    ASSUME NEW t, NEW memo, NEW entries, NEW entry, NEW weight
    PROVE  Keeping(t, memo, entries, entry, weight) \in SUBSET (entries \cup {entry})
  BY DEF Keeping

(* A step of the memos that settles.                                       *)
LEMMA MemosSettle ==
    ASSUME Sound, UNCHANGED <<program, nodes>>,
           NEW mem, Writes(memory, mem), Settles(mem),
           SetsWell(sets', mem), CompiledWell(compiled', mem),
           HandlesWell(handles', mem), ProductsWell(products', mem)
    PROVE  Sound'
  <1>1. Well(held, calls, sets, compiled, handles, products, mem)
    BY WellWhenWritten DEF Sound
  <1>2. Well(held', calls', sets', compiled', handles', products', mem)
    BY <1>1 DEF Well, nodes
  <1>3. Writes(mem, mem)
    BY DEF Writes
  <1>4. QED BY <1>2, <1>3, SettlesSoundly DEF Sound, nodes

LEMMA WellSoFar ==
    ASSUME Sound, NEW mem, Writes(memory, mem)
    PROVE  /\ SetsWell(sets, mem) /\ CompiledWell(compiled, mem)
           /\ HandlesWell(handles, mem) /\ ProductsWell(products, mem)
  BY WellWhenWritten DEF Sound, Well

LEMMA CompiledSound ==
    ASSUME Sound, NEW t \in Thread, NEW r \in Register, NEW text \in Text, Compile(t, r, text)
    PROVE  Sound'
  <1>1. CASE CompiledAgain(t, r, text)
    <2>1. PICK e \in compiled[t] : Holds(t, r, e.table)
      BY <1>1 DEF CompiledAgain
    <2>2. Writes(memory, memory)
      BY SoundWrites
    <2>3. e.table = Refused \/ TableAt(e.table, memory)
      BY DEF Sound, Well, CompiledWell, TextWell
    <2>4. SetsWell(sets', memory)
      BY <2>1, <2>2, <2>3, SetsHold, WellSoFar
    <2>5. QED BY <1>1, <2>2, <2>4, WellSoFar, MemosSettle DEF CompiledAgain, memos
  <1>2. ASSUME NEW a, NEW mem, Writes(memory, mem), a = Refused \/ TableAt(a, mem),
               KeepCompiled(t, r, text, a, mem)
        PROVE  Sound'
    <2> DEFINE entry  == [text |-> text, table |-> a]
               weight == 1 + BytesAt(mem, a)
               kept   == Keeping(t, "compiled", compiled[t], entry, weight)
    <2>1. /\ compiled' = [compiled EXCEPT ![t] = kept]
          /\ Holds(t, r, a) /\ Settles(mem)
          /\ UNCHANGED <<program, nodes, handles, products>>
      BY <1>2 DEF KeepCompiled
    <2>2. kept \in SUBSET (compiled[t] \cup {entry})
      BY KeepsNoOther
    <2>3. entry \in [text : Text, table : Address \cup {Refused}] /\ TextWell(entry, mem)
      BY <1>2 DEF TextWell, TableAt
    <2> HIDE DEF kept, entry
    <2>4. CompiledWell(compiled', mem)
      <3>1. CompiledWell(compiled, mem)
        BY <1>2, WellSoFar
      <3>2. kept \in SUBSET [text : Text, table : Address \cup {Refused}] /\ \A e \in kept : TextWell(e, mem)
        BY <2>2, <2>3, <3>1 DEF CompiledWell
      <3>3. QED BY <2>1, <3>1, <3>2 DEF CompiledWell
    <2>5. SetsWell(sets', mem)
      BY <1>2, <2>1, SetsHold, WellSoFar
    <2>6. QED BY <1>2, <2>1, <2>4, <2>5, WellSoFar, MemosSettle
  <1>3. CASE CompiledAnew(t, r, text)
    <2>1. CASE Reads[text] = Refused
      BY <1>2, <1>3, <2>1, SoundWrites DEF CompiledAnew
    <2>2. CASE Reads[text] # Refused
      <3>1. PICK a \in Unused : KeepCompiled(t, r, text, a, [memory EXCEPT ![a] = Table(Reads[text])])
        BY <1>3, <2>2 DEF CompiledAnew
      <3>2. Reads[text] \in Language
        BY <2>2, SharingBounds
      <3>3. QED BY <1>2, <3>1, <3>2, TableWritten
    <2>3. QED BY <2>1, <2>2
  <1>4. QED BY <1>1, <1>3 DEF Compile

LEMMA HandledSound ==
    ASSUME Sound, NEW t \in Thread, NEW r \in Register, NEW words \in Language,
           HandleAgain(t, r, words) \/ HandleAnew(t, r, words)
    PROVE  Sound'
  <1>1. CASE HandleAgain(t, r, words)
    <2>1. PICK a \in handles[t] : Holds(t, r, a)
      BY <1>1 DEF HandleAgain
    <2>2. Writes(memory, memory)
      BY SoundWrites
    <2>3. TableAt(a, memory)
      BY DEF Sound, Well, HandlesWell
    <2>4. SetsWell(sets', memory)
      BY <2>1, <2>2, <2>3, SetsHold, WellSoFar
    <2>5. QED BY <1>1, <2>2, <2>4, WellSoFar, MemosSettle DEF HandleAgain, memos
  <1>2. CASE HandleAnew(t, r, words)
    <2>1. PICK a \in Unused :
            /\ handles' = [handles EXCEPT ![t] = Keeping(t, "handles", @, a, Bytes[words])]
            /\ Holds(t, r, a)
            /\ Settles([memory EXCEPT ![a] = Table(words)])
      BY <1>2 DEF HandleAnew
    <2> DEFINE mem  == [memory EXCEPT ![a] = Table(words)]
               kept == Keeping(t, "handles", handles[t], a, Bytes[words])
    <2>2. Writes(memory, mem) /\ TableAt(a, mem)
      BY TableWritten
    <2>3. handles' = [handles EXCEPT ![t] = kept] /\ Settles(mem)
      BY <2>1
    <2>4. kept \in SUBSET (handles[t] \cup {a})
      BY KeepsNoOther
    <2> HIDE DEF mem, kept
    <2>5. HandlesWell(handles', mem)
      <3>1. HandlesWell(handles, mem) /\ a \in Address
        BY <2>2, WellSoFar DEF TableAt
      <3>2. kept \in SUBSET Address /\ \A b \in kept : TableAt(b, mem)
        BY <2>2, <2>4, <3>1 DEF HandlesWell
      <3>3. QED BY <2>3, <3>1, <3>2 DEF HandlesWell
    <2>6. SetsWell(sets', mem)
      BY <2>1, <2>2, SetsHold, WellSoFar
    <2>7. UNCHANGED <<program, nodes, compiled, products>>
      BY <1>2 DEF HandleAnew
    <2>8. QED BY <2>2, <2>3, <2>5, <2>6, <2>7, WellSoFar, MemosSettle
  <1>3. QED BY <1>1, <1>2

LEMMA ComplementSound ==
    ASSUME Sound, NEW t \in Thread, NEW r \in Register, NEW s \in Register, Complement(t, r, s)
    PROVE  Sound'
  <1>1. Word \ LanguageAt(sets[t][s]) \in Language
    BY DEF Language
  <1>2. QED BY <1>1, HandledSound DEF Complement

LEMMA LetGoSound ==
    ASSUME Sound, NEW t \in Thread, NEW r \in Register, LetGo(t, r)
    PROVE  Sound'
  <1>1. Writes(memory, memory)
    BY SoundWrites
  <1>2. SetsWell(sets', memory)
    BY <1>1, SetsHold, WellSoFar DEF LetGo
  <1>3. QED BY <1>1, <1>2, WellSoFar, MemosSettle DEF LetGo, memos

LEMMA LowerSound == ASSUME Sound, NEW t \in Thread, Lower(t) PROVE Sound'
  <1>1. UNCHANGED <<program, memory, slots, held, calls, sets, compiled, handles, products>>
    BY DEF Lower, nodes, memos
  <1>2. QED BY <1>1, HandsOnlySoundly DEF Sound

(* The product of two tables: which of them is first is not kept.          *)
Makes(a, union, one, two, mem) ==
    LET words == Joined(union, Words(one, mem), Words(two, mem)) IN
    IF a = Refused THEN ~Fits[words]
    ELSE Fits[words] /\ TableAt(a, mem) /\ Words(a, mem) = words

LEMMA EitherWay ==
    ASSUME NEW mem, NEW a, NEW union, NEW one, NEW two
    PROVE  Makes(a, union, one, two, mem) <=> Makes(a, union, two, one, mem)
  <1>1. Joined(union, Words(one, mem), Words(two, mem)) = Joined(union, Words(two, mem), Words(one, mem))
    BY DEF Joined
  <1>2. QED BY <1>1 DEF Makes

LEMMA ProductMakes ==
    ASSUME NEW mem, NEW e, ProductWell(e, mem), NEW one, NEW two, e.of = {one, two}
    PROVE  Makes(e.built, e.union, one, two, mem)
  <1>1. PICK a, b \in Address : e.of = {a, b} /\ Makes(e.built, e.union, a, b, mem)
    BY DEF ProductWell, Makes
  <1>2. (one = a /\ two = b) \/ (one = b /\ two = a)
    BY <1>1
  <1>3. QED BY <1>1, <1>2, EitherWay

(* What the two tables of a product are, in what the step writes too.      *)
LEMMA Pairs ==
    ASSUME Sound, NEW t \in Thread, NEW r \in Register, NEW s \in Register,
           sets[t][r] # Nobody, sets[t][s] # Nobody, NEW mem, Writes(memory, mem)
    PROVE  /\ TableAt(sets[t][r], mem) /\ Words(sets[t][r], mem) = LanguageAt(sets[t][r])
           /\ TableAt(sets[t][s], mem) /\ Words(sets[t][s], mem) = LanguageAt(sets[t][s])
  <1>1. ASSUME NEW q \in Register, sets[t][q] # Nobody
        PROVE  TableAt(sets[t][q], mem) /\ Words(sets[t][q], mem) = LanguageAt(sets[t][q])
    <2>1. TableAt(sets[t][q], memory) /\ TableAt(sets[t][q], mem)
      BY <1>1, SoundWrites, WellSoFar DEF SetsWell
    <2>2. Gone \notin Tables
      BY GoneIsNoBlock, TablesAreBlocks DEF Tables
    <2>3. mem[sets[t][q]] = memory[sets[t][q]]
      BY <2>1, <2>2 DEF Writes, Occupied, TableAt
    <2>4. QED BY <2>1, <2>3 DEF Words, LanguageAt
  <1>2. QED BY <1>1

LEMMA ProductKept ==
    ASSUME Sound, NEW t \in Thread, NEW r \in Register, NEW s \in Register, NEW union \in BOOLEAN,
           sets[t][r] # Nobody, sets[t][s] # Nobody,
           NEW a, NEW mem, Writes(memory, mem),
           Makes(a, union, sets[t][r], sets[t][s], mem),
           KeepProduct(t, r, s, union, a, mem)
    PROVE  Sound'
  <1> DEFINE entry  == [of |-> Pair(t, r, s), union |-> union, built |-> a]
             kept   == Keeping(t, "products", products[t], entry, ProductWeight(t, r, s, a, mem))
  <1>1. /\ products' = [products EXCEPT ![t] = kept]
        /\ Answers(t, r, s, union, a, mem, FALSE) /\ Settles(mem)
        /\ UNCHANGED <<program, nodes, compiled, handles>>
    BY DEF KeepProduct
  <1>2. kept \in SUBSET (products[t] \cup {entry})
    BY KeepsNoOther
  <1>3. TableAt(sets[t][r], mem) /\ TableAt(sets[t][s], mem) /\ (a = Refused \/ TableAt(a, mem))
    BY Pairs DEF Makes
  <1>4. entry \in Built
    BY <1>3 DEF Built, Pair, TableAt
  <1>5. ProductWell(entry, mem)
    <2>1. /\ entry.of = {sets[t][r], sets[t][s]} /\ entry.union = union /\ entry.built = a
          /\ sets[t][r] \in Address /\ sets[t][s] \in Address
      BY <1>3 DEF Pair, TableAt
    <2> HIDE DEF entry
    <2>2. QED BY <1>3, <2>1 DEF Makes, ProductWell
  <1> HIDE DEF kept, entry
  <1>6. ProductsWell(products', mem)
    <2>1. ProductsWell(products, mem)
      BY WellSoFar
    <2>2. kept \in SUBSET Built /\ \A e \in kept : ProductWell(e, mem)
      BY <1>2, <1>4, <1>5, <2>1 DEF ProductsWell
    <2>3. QED BY <1>1, <2>1, <2>2 DEF ProductsWell
  <1>7. PICK b : (b = Refused \/ TableAt(b, mem)) /\ Holds(t, r, b)
    BY <1>1, <1>3 DEF Answers
  <1>8. SetsWell(sets', mem)
    BY <1>7, SetsHold, WellSoFar
  <1>9. QED BY <1>1, <1>6, <1>8, WellSoFar, MemosSettle

(* What a product answers, found or built, is what the two tables make.    *)
Finds(t, r, s, union, a, mem) ==
    /\ Answers(t, r, s, union, a, mem, TRUE)
    /\ UNCHANGED <<program, nodes, memos>>
    /\ mem = memory /\ Settles(mem)

Builds(t, r, s, union, a, mem) ==
    /\ KeepProduct(t, r, s, union, a, mem)
    /\ \A e \in products[t] : e.of # Pair(t, r, s) \/ e.union # union

LEMMA ProductCases ==
    ASSUME Sound, NEW t \in Thread, NEW r \in Register, NEW s \in Register, NEW union \in BOOLEAN,
           Product(t, r, s, union)
    PROVE  \E a, mem :
              /\ Writes(memory, mem) /\ Makes(a, union, sets[t][r], sets[t][s], mem)
              /\ Finds(t, r, s, union, a, mem) \/ Builds(t, r, s, union, a, mem)
  <1> DEFINE words == Joined(union, LanguageAt(sets[t][r]), LanguageAt(sets[t][s]))
             Case(a, mem) == /\ Writes(memory, mem) /\ Makes(a, union, sets[t][r], sets[t][s], mem)
                             /\ Finds(t, r, s, union, a, mem) \/ Builds(t, r, s, union, a, mem)
  <1>1. sets[t][r] # Nobody /\ sets[t][s] # Nobody /\ Writes(memory, memory)
    BY SoundWrites DEF Product
  <1>2. words \in Language
    BY <1>1, Pairs, TableWords DEF Joined, Language
  <1>3. ASSUME NEW e \in products[t], e.of = Pair(t, r, s), e.union = union,
               Answers(t, r, s, union, e.built, memory, TRUE),
               UNCHANGED <<program, nodes, memos>>, Settles(memory)
        PROVE  Case(e.built, memory)
    <2>1. Makes(e.built, union, sets[t][r], sets[t][s], memory)
      BY <1>3, ProductMakes DEF Pair, Sound, Well, ProductsWell
    <2>2. QED BY <1>1, <1>3, <2>1 DEF Finds
  <1>4. CASE ProductAgain(t, r, s, union)
    <2>1. PICK e \in products[t] :
            /\ e.of = Pair(t, r, s) /\ e.union = union
            /\ Answers(t, r, s, union, e.built, memory, TRUE)
            /\ UNCHANGED <<program, nodes, memos>>
            /\ Settles(memory)
      BY <1>4 DEF ProductAgain
    <2>2. Case(e.built, memory)
      BY <1>3, <2>1
    <2>3. QED BY <2>2
  <1>5. CASE ProductAnew(t, r, s, union)
    <2>1. \A e \in products[t] : e.of # Pair(t, r, s) \/ e.union # union
      BY <1>5 DEF ProductAnew
    <2>2. CASE ~Fits[words]
      <3>1. Makes(Refused, union, sets[t][r], sets[t][s], memory)
        BY <1>1, <2>2, Pairs DEF Makes
      <3>2. KeepProduct(t, r, s, union, Refused, memory)
        BY <1>5, <2>2 DEF ProductAnew
      <3>3. Case(Refused, memory)
        BY <1>1, <2>1, <3>1, <3>2 DEF Builds
      <3>4. QED BY <3>3
    <2>3. CASE Fits[words]
      <3>1. PICK a \in Unused : KeepProduct(t, r, s, union, a, [memory EXCEPT ![a] = Table(words)])
        BY <1>5, <2>3 DEF ProductAnew
      <3> DEFINE mem == [memory EXCEPT ![a] = Table(words)]
      <3> HIDE DEF words
      <3>2. Writes(memory, mem) /\ TableAt(a, mem) /\ Words(a, mem) = words
        BY <1>2, TableWritten
      <3> HIDE DEF mem
      <3>3. words = Joined(union, Words(sets[t][r], mem), Words(sets[t][s], mem))
        BY <1>1, <3>2, Pairs DEF words
      <3>4. a # Refused
        BY NobodyHasNoBlock DEF Unused
      <3>5. Makes(a, union, sets[t][r], sets[t][s], mem)
        BY <2>3, <3>2, <3>3, <3>4 DEF Makes
      <3>6. KeepProduct(t, r, s, union, a, mem)
        BY <3>1 DEF mem
      <3>7. Case(a, mem)
        BY <2>1, <3>2, <3>5, <3>6 DEF Builds
      <3>8. QED BY <3>7
    <2>4. QED BY <2>2, <2>3
  <1>6. QED BY <1>4, <1>5 DEF Product

LEMMA ProductSound ==
    ASSUME Sound, NEW t \in Thread, NEW r \in Register, NEW s \in Register, NEW union \in BOOLEAN,
           Product(t, r, s, union)
    PROVE  Sound'
  <1>1. sets[t][r] # Nobody /\ sets[t][s] # Nobody
    BY DEF Product
  <1>2. PICK a, mem :
          /\ Writes(memory, mem) /\ Makes(a, union, sets[t][r], sets[t][s], mem)
          /\ Finds(t, r, s, union, a, mem) \/ Builds(t, r, s, union, a, mem)
    BY ProductCases
  <1>3. CASE Finds(t, r, s, union, a, mem)
    <2>1. PICK b : (b = Refused \/ TableAt(b, mem)) /\ Holds(t, r, b)
      BY <1>2, <1>3 DEF Finds, Answers, Makes
    <2>2. SetsWell(sets', mem)
      BY <1>2, <2>1, SetsHold, WellSoFar
    <2>3. QED BY <1>2, <1>3, <2>2, WellSoFar, MemosSettle DEF Finds, memos
  <1>4. CASE Builds(t, r, s, union, a, mem)
    BY <1>1, <1>2, <1>4, ProductKept DEF Builds
  <1>5. QED BY <1>2, <1>3, <1>4

-----------------------------------------------------------------------------
(* The theorems.                                                           *)

LEMMA InitSound == Init => Sound
  <1> SUFFICES ASSUME Init PROVE Sound
    OBVIOUS
  <1>1. Well(held, calls, sets, compiled, handles, products, memory)
    <2>1. HeldWell(held, memory)
      BY DEF Init, HeldWell, Handles
    <2>2. CallsWell(calls, memory)
      <3>1. Idle \in Calls
        BY DEF Calls, Idle, Handles
      <3>2. Idle.at = "idle" /\ Idle.node = Gone /\ Idle.found = Nobody
        BY DEF Idle
      <3>3. CallWell(Idle, memory)
        BY <3>2 DEF CallWell
      <3>4. calls \in [Thread -> Calls] /\ \A t \in Thread : calls[t] = Idle
        BY <3>1 DEF Init
      <3>5. QED BY <3>3, <3>4 DEF CallsWell
    <2>3. SetsWell(sets, memory)
      BY DEF Init, SetsWell, Handles
    <2>4. CompiledWell(compiled, memory) /\ HandlesWell(handles, memory) /\ ProductsWell(products, memory)
      BY DEF Init, CompiledWell, HandlesWell, ProductsWell
    <2>5. QED BY <2>1, <2>2, <2>3, <2>4 DEF Well
  <1>2. memory \in Memories /\ Occupied(memory) = {}
    BY DEF Init, Memories, Occupied
  <1>3. Roots = {}
    <2>1. RootsFrom(held, calls, sets, compiled, handles, products) \in SUBSET Occupied(memory)
      BY <1>1, RootsOccupied
    <2>2. QED BY <1>2, <2>1, RootsAre
  <1>4. Live(memory, Roots) = {}
    <2> DEFINE L == Live(memory, {})
    <2>1. /\ L \in SUBSET Address
          /\ \A S \in SUBSET Address :
                {} \in SUBSET S /\ (\A a \in S : Parts(memory[a]) \in SUBSET S) => L \in SUBSET S
      BY <1>2, LiveIsLeast
    <2> HIDE DEF L
    <2>2. L \in SUBSET {}
      BY <2>1
    <2>3. QED BY <1>3, <2>2 DEF L
  <1>5. QED BY <1>1, <1>2, <1>4 DEF Init, Sound, SlotsWell

LEMMA NextSound == Sound /\ [Next]_vars => Sound'
  <1> SUFFICES ASSUME Sound, [Next]_vars PROVE Sound'
    OBVIOUS
  <1>1. /\ program.threads \in SUBSET Thread /\ program.vars \in SUBSET Var
        /\ program.labels \in SUBSET Label /\ program.texts \in SUBSET Text
        /\ program.registers \in SUBSET Register
    BY ProgramsAreRun DEF Sound
  <1>2. ASSUME NEW t \in program.threads, Intern(t) PROVE Sound'
    <2>1. ASSUME NEW x \in program.vars, NEW l \in program.labels, Ask(t, x, l) PROVE Sound'
      BY <1>1, <2>1, AskSound
    <2>2. QED BY <1>1, <1>2, <2>1, ProbeSound, HitSound, DiffersSound, MissSound DEF Intern
  <1>3. ASSUME NEW t \in program.threads, Relate(t) PROVE Sound'
    <2>1. ASSUME NEW r \in program.registers, NEW text \in program.texts, Compile(t, r, text) PROVE Sound'
      BY <1>1, <2>1, CompiledSound
    <2>2. ASSUME NEW r \in program.registers, NEW s \in program.registers, Complement(t, r, s) PROVE Sound'
      BY <1>1, <2>2, ComplementSound
    <2>3. ASSUME NEW r \in program.registers, NEW s \in program.registers, NEW union \in BOOLEAN,
                 Product(t, r, s, union)
          PROVE  Sound'
      BY <1>1, <2>3, ProductSound
    <2>4. ASSUME NEW r \in program.registers, LetGo(t, r) PROVE Sound'
      BY <1>1, <2>4, LetGoSound
    <2>5. QED BY <1>1, <1>3, <2>1, <2>2, <2>3, <2>4, LowerSound DEF Relate
  <1>4. ASSUME NEW x \in program.vars, Drop(x) PROVE Sound'
    BY <1>1, <1>4, DropSound
  <1>5. CASE UNCHANGED vars
    <2>1. UNCHANGED <<program, memory, slots, held, calls, sets, compiled, handles, products>>
      BY <1>5 DEF vars, nodes, tables, memos
    <2>2. QED BY <2>1, HandsOnlySoundly DEF Sound
  <1>6. QED BY <1>2, <1>3, <1>4, <1>5 DEF Next

THEOREM BlocksSound == Spec => []Sound
  <1>1. Init => Sound
    BY InitSound
  <1>2. Sound /\ [Next]_vars => Sound'
    BY NextSound
  <1>3. QED BY <1>1, <1>2, PTL DEF Spec

(* What is there is what is reached, and what is in a memo or in a hand is  *)
(* what is counted as a handle.                                            *)
LEMMA SoundDrops == Sound => DroppedOnTheSpot
  <1> SUFFICES ASSUME Sound PROVE DroppedOnTheSpot
    OBVIOUS
  <1> DEFINE given == {a \in Address : \E t \in Thread :
                        \/ a \in handles[t] \/ \E e \in compiled[t] : a = e.table
                        \/ \E e \in products[t] : a \in e.of \/ a = e.built}
             used  == HandlesIn(held) \cup UNION {CallHolds(t) \cup HandlesIn(sets[t]) : t \in Thread}
             R     == RootsFrom(held, calls, sets, compiled, handles, products)
  <1>1. \A a : a \in R <=> InTheHand(a, held, calls, sets) \/ InAMemo(a, compiled, handles, products)
    BY RootsSay DEF Sound
  <1>2. R \in SUBSET Address
    <2>1. R \in SUBSET Occupied(memory)
      BY RootsOccupied DEF Sound
    <2>2. QED BY <2>1 DEF Occupied
  <1>3. \A a : a \in given <=> InAMemo(a, compiled, handles, products)
    <2>1. \A a : InAMemo(a, compiled, handles, products) => a \in Address
      BY <1>1, <1>2
    <2>2. \A a \in Address : a # Refused
      BY NobodyHasNoBlock
    <2>3. QED BY <2>1, <2>2, Zenon DEF InAMemo
  <1>4. \A a : a \in used <=> InTheHand(a, held, calls, sets)
    <2>1. /\ DOMAIN held = Var
          /\ \A t \in Thread : DOMAIN sets[t] = Register
      BY DEF Sound, Well, HeldWell, SetsWell
    <2>2. ASSUME NEW a PROVE a \in used <=> InTheHand(a, held, calls, sets)
      <3>1. a \in HandlesIn(held) <=> \E x \in Var : a = held[x] /\ a # Nobody
        BY <2>1 DEF HandlesIn
      <3>2. \A t \in Thread : a \in HandlesIn(sets[t]) <=> \E r \in Register : a = sets[t][r] /\ a # Nobody
        BY <2>1 DEF HandlesIn
      <3>3. \A t \in Thread : a \in CallHolds(t)
                                <=> a \in Parts(calls[t].node) \/ (a = calls[t].found /\ a # Nobody)
        BY DEF CallHolds
      <3>4. a \in used <=> a \in HandlesIn(held) \/ \E t \in Thread : a \in CallHolds(t) \/ a \in HandlesIn(sets[t])
        OBVIOUS
      <3>5. QED BY <3>1, <3>2, <3>3, <3>4, Zenon DEF InTheHand
    <2>3. QED BY <2>2
  <1> HIDE DEF given, used, R
  <1>5. used \cup given = R
    BY <1>1, <1>3, <1>4
  <1>6. Occupied(memory) = Live(memory, used \cup given)
    BY <1>5, RootsAre DEF R, Sound
  <1>7. QED BY <1>6 DEF DroppedOnTheSpot, Occupied, used, given

(* A block holds something for as long as a handle of it is held or kept,   *)
(* and not a step longer, whatever slots name it.                          *)
THEOREM DropsOnTheSpot == Spec => []DroppedOnTheSpot
  BY BlocksSound, SoundDrops, PTL

LEMMA SoundProducts == Sound => KeptProductsAreTrue
  <1> SUFFICES ASSUME Sound, NEW t \in Thread, NEW e \in products[t]
               PROVE  \E one, two \in e.of :
                        /\ e.of = {one, two} /\ memory[one] # Gone /\ memory[two] # Gone
                        /\ LET words == Joined(e.union, LanguageAt(one), LanguageAt(two)) IN
                             IF e.built = Refused THEN ~Fits[words] ELSE LanguageAt(e.built) = words
    BY DEF KeptProductsAreTrue
  <1>1. ProductWell(e, memory)
    BY DEF Sound, Well, ProductsWell
  <1>2. \A a : Words(a, memory) = LanguageAt(a)
    BY DEF Words, LanguageAt
  <1>3. \A a : TableAt(a, memory) => memory[a] # Gone
    BY GoneIsNoBlock, TablesAreBlocks DEF TableAt, Tables
  <1>4. QED BY <1>1, <1>2, <1>3 DEF ProductWell

(* A product kept is of the tables at its two addresses, whatever was let   *)
(* go and written elsewhere since.                                         *)
THEOREM ProductsTrue == Spec => []KeptProductsAreTrue
  BY BlocksSound, SoundProducts, PTL

-----------------------------------------------------------------------------
(* A product is answered and charged for alike, found or built.            *)

Alike == left \in [Thread -> Nat] /\ AnswersAndChargesAlike

LEMMA AnswersAlike ==
    ASSUME Sound, Alike, NEW t \in Thread, NEW r \in Register, NEW s \in Register, NEW union \in BOOLEAN,
           sets[t][r] # Nobody, sets[t][s] # Nobody,
           NEW a, NEW mem, Writes(memory, mem), NEW found,
           Makes(a, union, sets[t][r], sets[t][s], mem),
           Answers(t, r, s, union, a, mem, found)
    PROVE  Alike'
  <1> DEFINE one   == LanguageAt(sets[t][r])
             two   == LanguageAt(sets[t][s])
             words == Joined(union, one, two)
             price == IF a = Refused THEN 0 ELSE Charged(t, mem[a].label.language, found)
             paid  == a # Refused /\ price <= left[t]
  <1>1. /\ left' = [left EXCEPT ![t] = Rest(t, price)]
        /\ last' = [of |-> <<one, two>>, union |-> union, given |-> left[t], then |-> left'[t],
                    answer |-> IF paid THEN {mem[a].label.language} ELSE {}]
    BY DEF Answers
  <1>2. /\ words \in Language /\ Bytes[words] \in Nat /\ left[t] \in Nat
        /\ IF a = Refused THEN ~Fits[words] ELSE Fits[words] /\ mem[a].label.language = words
    <2>1. /\ TableAt(sets[t][r], mem) /\ Words(sets[t][r], mem) = one
          /\ TableAt(sets[t][s], mem) /\ Words(sets[t][s], mem) = two
      BY Pairs
    <2>2. one \in Language /\ two \in Language
      BY <2>1, TableWords
    <2>3. words \in Language
      BY <2>2 DEF Joined, Language
    <2>4. QED BY <2>1, <2>3, SharingBounds DEF Alike, Makes, Words
  <1> HIDE DEF one, two, words
  <1>3. /\ a = Refused => price = 0
        /\ a # Refused => price = Bytes[words] /\ mem[a].label.language = words
    BY <1>2 DEF Charged
  <1> HIDE DEF price
  <1>4. price \in Nat
    BY <1>2, <1>3
  <1>5. Rest(t, price) \in Nat
    BY <1>2, <1>4 DEF Rest
  <1>6. left' \in [Thread -> Nat] /\ left'[t] = Rest(t, price)
    BY <1>1, <1>5 DEF Alike
  <1>7. /\ last'.of[1] = one /\ last'.of[2] = two /\ last'.union = union
        /\ last'.given = left[t] /\ last'.then = Rest(t, price)
        /\ last'.answer = IF paid THEN {mem[a].label.language} ELSE {}
    BY <1>1, <1>6
  <1>8. LET rest == left[t] - Bytes[words]
        IN  IF ~Fits[words] THEN (IF paid THEN {mem[a].label.language} ELSE {}) = {} /\ Rest(t, price) = left[t]
            ELSE /\ Rest(t, price) = (IF rest < 0 THEN 0 ELSE rest)
                 /\ (IF paid THEN {mem[a].label.language} ELSE {}) = (IF rest < 0 THEN {} ELSE {words})
    <2>1. CASE a = Refused
      BY <1>2, <1>3, <2>1 DEF Rest
    <2>2. CASE a # Refused
      <3>1. /\ price = Bytes[words] /\ mem[a].label.language = words /\ Fits[words]
            /\ paid <=> price <= left[t]
        BY <1>2, <1>3, <2>2
      <3>2. (left[t] - price < 0) <=> ~(price <= left[t])
        BY <1>2, <1>4
      <3> HIDE DEF paid
      <3>3. Rest(t, price) = IF left[t] - price < 0 THEN 0 ELSE left[t] - price
        BY <3>2 DEF Rest
      <3>4. (IF paid THEN {mem[a].label.language} ELSE {}) = (IF left[t] - price < 0 THEN {} ELSE {words})
        BY <3>1, <3>2
      <3>5. QED BY <3>1, <3>3, <3>4
    <2>3. QED BY <2>1, <2>2
  <1>9. Joined(last'.union, last'.of[1], last'.of[2]) = words
    BY <1>7 DEF words
  <1> HIDE DEF paid
  <1>10. AnswersAndChargesAlike'
    BY <1>7, <1>8, <1>9 DEF AnswersAndChargesAlike
  <1>11. QED BY <1>6, <1>10 DEF Alike

(* A step that answers no product.                                         *)
LEMMA NoAnswerAlike ==
    ASSUME Alike, left' \in [Thread -> Nat], last' = NoProduct \/ last' = last
    PROVE  Alike'
  BY DEF Alike, AnswersAndChargesAlike

LEMMA InitAlike == Init => Alike
  BY DEF Init, Alike, AnswersAndChargesAlike

LEMMA NextAlike == Sound /\ Alike /\ [Next]_vars => Alike'
  <1> SUFFICES ASSUME Sound, Alike, [Next]_vars PROVE Alike'
    OBVIOUS
  <1>1. /\ program.threads \in SUBSET Thread /\ program.texts \in SUBSET Text
        /\ program.registers \in SUBSET Register
    BY ProgramsAreRun DEF Sound
  <1>2. ASSUME left' = left, last' = NoProduct \/ last' = last PROVE Alike'
    BY <1>2, NoAnswerAlike DEF Alike
  <1>3. ASSUME NEW t \in program.threads, Intern(t) PROVE Alike'
    BY <1>2, <1>3 DEF Intern, Ask, Probe, Hit, Differs, Miss, tables
  <1>4. ASSUME NEW t \in program.threads, Relate(t) PROVE Alike'
    <2>1. ASSUME NEW r \in program.registers, NEW text \in program.texts, Compile(t, r, text) PROVE Alike'
      BY <1>2, <2>1 DEF Compile, CompiledAgain, CompiledAnew, KeepCompiled
    <2>2. ASSUME NEW r \in program.registers, NEW s \in program.registers, Complement(t, r, s) PROVE Alike'
      BY <1>2, <2>2 DEF Complement, HandleAgain, HandleAnew
    <2>3. ASSUME NEW r \in program.registers, NEW s \in program.registers, NEW union \in BOOLEAN,
                 Product(t, r, s, union)
          PROVE  Alike'
      <3>1. /\ t \in Thread /\ r \in Register /\ s \in Register
            /\ sets[t][r] # Nobody /\ sets[t][s] # Nobody
        BY <1>1, <2>3 DEF Product
      <3>2. PICK a, mem :
              /\ Writes(memory, mem) /\ Makes(a, union, sets[t][r], sets[t][s], mem)
              /\ Finds(t, r, s, union, a, mem) \/ Builds(t, r, s, union, a, mem)
        BY <2>3, <3>1, ProductCases
      <3>3. PICK found : Answers(t, r, s, union, a, mem, found)
        BY <3>2 DEF Finds, Builds, KeepProduct
      <3>4. QED BY <3>1, <3>2, <3>3, AnswersAlike
    <2>4. ASSUME NEW r \in program.registers, LetGo(t, r) PROVE Alike'
      BY <1>2, <2>4 DEF LetGo
    <2>5. CASE Lower(t)
      <3>1. left' \in [Thread -> Nat]
        BY <2>5, SharingBounds DEF Lower, Alike
      <3>2. QED BY <2>5, <3>1, NoAnswerAlike DEF Lower
    <2>6. QED BY <1>4, <2>1, <2>2, <2>3, <2>4, <2>5 DEF Relate
  <1>5. ASSUME NEW x \in program.vars, Drop(x) PROVE Alike'
    BY <1>2, <1>5 DEF Drop, tables
  <1>6. CASE UNCHANGED vars
    BY <1>2, <1>6 DEF vars, tables
  <1>7. QED BY <1>3, <1>4, <1>5, <1>6 DEF Next

(* What a product answers and takes of the allowance is of the two          *)
(* languages and the allowance, and of nothing asked before.               *)
THEOREM AnswersAreAlike == Spec => []AnswersAndChargesAlike
  <1>1. Init => Alike
    BY InitAlike
  <1>2. Sound /\ Alike /\ [Next]_vars => Alike'
    BY NextAlike
  <1>3. Alike => AnswersAndChargesAlike
    BY DEF Alike
  <1>4. QED BY <1>1, <1>2, <1>3, BlocksSound, PTL DEF Spec

-----------------------------------------------------------------------------
(* What the memos count is what they hold.                                 *)

Memo == {"compiled", "handles", "products"}

BlockWeights(mem, S) == [a \in S |-> BytesAt(mem, a)]
TextWeights(mem, S)  == [e \in S |-> 1 + BytesAt(mem, e.table)]
PairWeight(mem, of)  == Total(BlockWeights(mem, of), of) * (IF Cardinality(of) = 1 THEN 2 ELSE 1)
BuiltWeights(mem, S) == [e \in S |-> BytesAt(mem, e.built) + PairWeight(mem, e.of)]

LEMMA BlocksAdd ==
    ASSUME NEW mem, NEW S, IsFiniteSet(S), Weighs(BlockWeights(mem, S), S)
    PROVE  MapThenSumSet(LAMBDA a : BytesAt(mem, a), S) = Total(BlockWeights(mem, S), S)
  <1> DEFINE w    == BlockWeights(mem, S)
             iter == CHOOSE f : f = [s \in SUBSET S |->
                       IF s = {} THEN 0 ELSE BytesAt(mem, Pick(s)) + f[s \ {Pick(s)}]]
  <1>1. MapThenSumSet(LAMBDA a : BytesAt(mem, a), S) = iter[S]
    BY DEF MapThenSumSet, MapThenFoldSet, Pick
  <1>2. \A s \in SUBSET S : s # {} => w[Pick(s)] = BytesAt(mem, Pick(s))
    BY DEF Pick, BlockWeights
  <1> HIDE DEF w
  <1>3. \A f : SumsOf(f, w, S) <=> f = [s \in SUBSET S |->
                 IF s = {} THEN 0 ELSE BytesAt(mem, Pick(s)) + f[s \ {Pick(s)}]]
    <2> SUFFICES ASSUME NEW f
                 PROVE  [s \in SUBSET S |-> Adds(w, f, s)] = [s \in SUBSET S |->
                          IF s = {} THEN 0 ELSE BytesAt(mem, Pick(s)) + f[s \ {Pick(s)}]]
      BY DEF SumsOf
    <2>1. \A s \in SUBSET S : Adds(w, f, s) = IF s = {} THEN 0 ELSE BytesAt(mem, Pick(s)) + f[s \ {Pick(s)}]
      BY <1>2 DEF Adds
    <2>2. QED BY <2>1
  <1>4. SumsOf(iter, w, S)
    BY <1>3, SumsExist DEF w
  <1> HIDE DEF iter
  <1>5. PICK g : Total(w, S) = g[S] /\ SumsOf(g, w, S)
    BY TotalIsASum DEF w
  <1>6. iter[S] = g[S]
    <2>1. S \in SUBSET S /\ Weighs(w, S)
      BY DEF w
    <2>2. QED BY <1>4, <1>5, <2>1, OneSum
  <1>7. QED BY <1>1, <1>5, <1>6 DEF w

LEMMA TextsAdd ==
    ASSUME NEW mem, NEW S, IsFiniteSet(S), Weighs(TextWeights(mem, S), S)
    PROVE  MapThenSumSet(LAMBDA e : 1 + BytesAt(mem, e.table), S) = Total(TextWeights(mem, S), S)
  <1> DEFINE w    == TextWeights(mem, S)
             iter == CHOOSE f : f = [s \in SUBSET S |->
                       IF s = {} THEN 0 ELSE (1 + BytesAt(mem, Pick(s).table)) + f[s \ {Pick(s)}]]
  <1>1. MapThenSumSet(LAMBDA e : 1 + BytesAt(mem, e.table), S) = iter[S]
    BY DEF MapThenSumSet, MapThenFoldSet, Pick
  <1>2. \A s \in SUBSET S : s # {} => w[Pick(s)] = 1 + BytesAt(mem, Pick(s).table)
    BY DEF Pick, TextWeights
  <1> HIDE DEF w
  <1>3. \A f : SumsOf(f, w, S) <=> f = [s \in SUBSET S |->
                 IF s = {} THEN 0 ELSE (1 + BytesAt(mem, Pick(s).table)) + f[s \ {Pick(s)}]]
    <2> SUFFICES ASSUME NEW f
                 PROVE  [s \in SUBSET S |-> Adds(w, f, s)] = [s \in SUBSET S |->
                          IF s = {} THEN 0 ELSE (1 + BytesAt(mem, Pick(s).table)) + f[s \ {Pick(s)}]]
      BY DEF SumsOf
    <2>1. \A s \in SUBSET S :
             Adds(w, f, s) = IF s = {} THEN 0 ELSE (1 + BytesAt(mem, Pick(s).table)) + f[s \ {Pick(s)}]
      BY <1>2 DEF Adds
    <2>2. QED BY <2>1
  <1>4. SumsOf(iter, w, S)
    BY <1>3, SumsExist DEF w
  <1> HIDE DEF iter
  <1>5. PICK g : Total(w, S) = g[S] /\ SumsOf(g, w, S)
    BY TotalIsASum DEF w
  <1>6. iter[S] = g[S]
    <2>1. S \in SUBSET S /\ Weighs(w, S)
      BY DEF w
    <2>2. QED BY <1>4, <1>5, <2>1, OneSum
  <1>7. QED BY <1>1, <1>5, <1>6 DEF w

LEMMA BytesCount ==
    ASSUME NEW mem, NEW a, a = Refused \/ TableAt(a, mem)
    PROVE  BytesAt(mem, a) \in Nat
  BY TableWords, SharingBounds DEF BytesAt, Words

(* A product weighs each of its two tables, and one that is of a table and  *)
(* itself weighs that twice.                                               *)
LEMMA PairWeighs ==
    ASSUME NEW mem, NEW one, NEW two, TableAt(one, mem), TableAt(two, mem)
    PROVE  /\ IsFiniteSet({one, two}) /\ Weighs(BlockWeights(mem, {one, two}), {one, two})
           /\ PairWeight(mem, {one, two}) = BytesAt(mem, one) + BytesAt(mem, two)
  <1> DEFINE S == {one, two}
             w == BlockWeights(mem, S)
  <1>1. BytesAt(mem, one) \in Nat /\ BytesAt(mem, two) \in Nat
    BY BytesCount
  <1>2. w[one] = BytesAt(mem, one) /\ w[two] = BytesAt(mem, two) /\ Weighs(w, S)
    BY <1>1 DEF BlockWeights, Weighs
  <1>3. IsFiniteSet(S) /\ IsFiniteSet({one}) /\ IsFiniteSet({})
    BY FS_EmptySet, FS_Singleton, FS_AddElement
  <1>4. PairWeight(mem, S) = Total(w, S) * (IF Cardinality(S) = 1 THEN 2 ELSE 1)
    BY DEF PairWeight
  <1> HIDE DEF w
  <1>5. Total(w, {one}) = w[one]
    <2>1. Weighs(w, {} \cup {one}) /\ one \notin {} /\ {} \cup {one} = {one}
      BY <1>2 DEF Weighs
    <2>2. Total(w, {}) = 0
      BY TotalOfNone
    <2>3. Total(w, {} \cup {one}) = w[one] + Total(w, {})
      BY <1>3, <2>1, TotalOfOneMore
    <2>4. QED BY <1>1, <1>2, <2>1, <2>2, <2>3
  <1>6. CASE one = two
    <2>1. S = {one} /\ Cardinality(S) = 1
      BY <1>6, FS_Singleton
    <2>2. Total(w, S) = BytesAt(mem, one)
      BY <1>2, <1>5, <2>1
    <2>3. PairWeight(mem, S) = BytesAt(mem, one) * 2
      BY <1>4, <2>1, <2>2
    <2>4. QED BY <1>1, <1>2, <1>3, <1>6, <2>3 DEF w
  <1>7. CASE one # two
    <2>1. Cardinality(S) # 1
      <3>1. \A x : S # {x}
        BY <1>7
      <3>2. QED BY <1>3, <3>1, FS_Singleton
    <2>2. Total(w, S) = w[two] + w[one]
      <3>1. {one} \cup {two} = S /\ two \notin {one}
        BY <1>7
      <3>2. Total(w, {one} \cup {two}) = w[two] + Total(w, {one})
        BY <1>2, <1>3, <3>1, TotalOfOneMore
      <3>3. QED BY <1>5, <3>1, <3>2
    <2>3. PairWeight(mem, S) = (BytesAt(mem, two) + BytesAt(mem, one)) * 1
      BY <1>2, <1>4, <2>1, <2>2
    <2>4. QED BY <1>1, <1>2, <1>3, <2>3 DEF w
  <1>8. QED BY <1>6, <1>7

LEMMA BuiltCount ==
    ASSUME NEW mem, NEW e, ProductWell(e, mem)
    PROVE  /\ IsFiniteSet(e.of) /\ Weighs(BlockWeights(mem, e.of), e.of)
           /\ BytesAt(mem, e.built) + PairWeight(mem, e.of) \in Nat
  <1>1. PICK one, two \in Address :
          e.of = {one, two} /\ TableAt(one, mem) /\ TableAt(two, mem)
          /\ (e.built = Refused \/ TableAt(e.built, mem))
    BY DEF ProductWell
  <1>2. BytesAt(mem, one) \in Nat /\ BytesAt(mem, two) \in Nat /\ BytesAt(mem, e.built) \in Nat
    BY <1>1, BytesCount
  <1>3. QED BY <1>1, <1>2, PairWeighs

LEMMA BuiltAdd ==
    ASSUME NEW mem, NEW S, IsFiniteSet(S), \A e \in S : ProductWell(e, mem)
    PROVE  MapThenSumSet(LAMBDA e : BytesAt(mem, e.built)
                                      + MapThenSumSet(LAMBDA a : BytesAt(mem, a), e.of)
                                          * (IF Cardinality(e.of) = 1 THEN 2 ELSE 1), S)
             = Total(BuiltWeights(mem, S), S)
  <1> DEFINE w     == BuiltWeights(mem, S)
             of(e) == BytesAt(mem, e.built) + MapThenSumSet(LAMBDA a : BytesAt(mem, a), e.of)
                                                * (IF Cardinality(e.of) = 1 THEN 2 ELSE 1)
             iter  == CHOOSE f : f = [s \in SUBSET S |->
                        IF s = {} THEN 0 ELSE of(Pick(s)) + f[s \ {Pick(s)}]]
  <1>1. MapThenSumSet(LAMBDA e : of(e), S) = iter[S]
    BY DEF MapThenSumSet, MapThenFoldSet, Pick
  <1>2. \A e \in S : w[e] = of(e) /\ w[e] \in Nat
    <2> SUFFICES ASSUME NEW e \in S PROVE w[e] = of(e) /\ w[e] \in Nat
      OBVIOUS
    <2>1. MapThenSumSet(LAMBDA a : BytesAt(mem, a), e.of) = Total(BlockWeights(mem, e.of), e.of)
      BY BuiltCount, BlocksAdd
    <2>2. w[e] = BytesAt(mem, e.built) + PairWeight(mem, e.of)
      BY DEF BuiltWeights
    <2>3. w[e] = of(e)
      BY <2>1, <2>2 DEF PairWeight
    <2>4. QED BY <2>2, <2>3, BuiltCount
  <1>3. \A s \in SUBSET S : s # {} => w[Pick(s)] = of(Pick(s))
    BY <1>2 DEF Pick
  <1> HIDE DEF w, of
  <1>4. Weighs(w, S)
    BY <1>2 DEF Weighs
  <1>5. \A f : SumsOf(f, w, S) <=> f = [s \in SUBSET S |->
                 IF s = {} THEN 0 ELSE of(Pick(s)) + f[s \ {Pick(s)}]]
    <2> SUFFICES ASSUME NEW f
                 PROVE  [s \in SUBSET S |-> Adds(w, f, s)] = [s \in SUBSET S |->
                          IF s = {} THEN 0 ELSE of(Pick(s)) + f[s \ {Pick(s)}]]
      BY DEF SumsOf
    <2>1. \A s \in SUBSET S : Adds(w, f, s) = IF s = {} THEN 0 ELSE of(Pick(s)) + f[s \ {Pick(s)}]
      BY <1>3 DEF Adds
    <2>2. QED BY <2>1
  <1>6. SumsOf(iter, w, S)
    BY <1>4, <1>5, SumsExist
  <1> HIDE DEF iter
  <1>7. PICK g : Total(w, S) = g[S] /\ SumsOf(g, w, S)
    BY <1>4, TotalIsASum
  <1>8. iter[S] = g[S]
    <2>1. S \in SUBSET S
      OBVIOUS
    <2>2. QED BY <1>4, <1>6, <1>7, <2>1, OneSum
  <1>9. QED BY <1>1, <1>7, <1>8 DEF w, of

(* A memo that counts what it holds, and no more than the bound, goes on    *)
(* doing so when it keeps one thing more, starts over, or keeps nothing.   *)
NowCounts(t, memo, weight) == IF weight > Kept THEN weights[t][memo] ELSE NowHolds(t, memo, weight)

MayKeep(t, memo, S, entry, w) ==
    /\ IsFiniteSet(S) /\ entry \notin S /\ Weighs(w, S \cup {entry})
    /\ weights[t][memo] = Total(w, S) /\ weights[t][memo] <= Kept

HasKept(S, entry, w, K, n) ==
    /\ IsFiniteSet(K) /\ K \in SUBSET (S \cup {entry})
    /\ n = Total(w, K) /\ n \in Nat /\ n <= Kept

LEMMA KeptWeighs ==
    ASSUME NEW t, NEW memo, NEW S, NEW entry, NEW w, MayKeep(t, memo, S, entry, w)
    PROVE  HasKept(S, entry, w, Keeping(t, memo, S, entry, w[entry]), NowCounts(t, memo, w[entry]))
  <1> DEFINE weight == w[entry]
             K == Keeping(t, memo, S, entry, weight)
             n == NowCounts(t, memo, weight)
  <1>1. /\ Kept \in Nat /\ weight \in Nat
        /\ Total(w, S) \in Nat /\ Total(w, S \cup {entry}) = w[entry] + Total(w, S)
    BY TotalOfOneMore, SharingBounds DEF Weighs, MayKeep
  <1> HIDE DEF weight
  <1>2. CASE weight > Kept
    <2>1. K = S /\ n = weights[t][memo]
      BY <1>2 DEF Keeping, NowCounts
    <2> HIDE DEF K, n
    <2>2. HasKept(S, entry, w, K, n)
      BY <1>1, <2>1 DEF HasKept, MayKeep
    <2>3. QED BY <2>2 DEF K, n, weight
  <1>3. CASE ~(weight > Kept) /\ StartsOver(t, memo, weight)
    <2>1. K = {} \cup {entry} /\ n = 0 + weight
      BY <1>3 DEF Keeping, NowCounts, NowHolds
    <2>2. Total(w, {}) = 0 /\ IsFiniteSet({}) /\ Weighs(w, {} \cup {entry}) /\ entry \notin {}
      BY TotalOfNone, FS_EmptySet DEF Weighs, MayKeep
    <2>3. Total(w, {} \cup {entry}) = w[entry] + 0 /\ IsFiniteSet({} \cup {entry})
      BY <2>2, TotalOfOneMore, FS_AddElement
    <2>4. QED BY <1>1, <1>3, <2>1, <2>3 DEF HasKept, weight
  <1>4. CASE ~(weight > Kept) /\ ~StartsOver(t, memo, weight)
    <2>1. K = S \cup {entry} /\ n = weights[t][memo] + weight /\ ~(weights[t][memo] + weight > Kept)
      BY <1>4 DEF Keeping, NowCounts, NowHolds, StartsOver
    <2>2. IsFiniteSet(S \cup {entry})
      BY FS_AddElement DEF MayKeep
    <2>3. QED BY <1>1, <2>1, <2>2 DEF HasKept, MayKeep, weight
  <1>5. QED BY <1>2, <1>3, <1>4 DEF HasKept

LEMMA Counts ==
    ASSUME weights \in [Thread -> [Memo -> Nat]], NEW t \in Thread, NEW memo \in Memo, NEW weight,
           Counting(t, memo, weight),
           NEW n \in Nat, n = NowCounts(t, memo, weight)
    PROVE  /\ weights' \in [Thread -> [Memo -> Nat]] /\ weights'[t][memo] = n
           /\ \A u \in Thread, m \in Memo : u # t \/ m # memo => weights'[u][m] = weights[u][m]
  <1>1. CASE weight > Kept
    BY <1>1 DEF Counting, NowCounts
  <1>2. CASE ~(weight > Kept)
    <2>1. weights' = [weights EXCEPT ![t][memo] = n]
      BY <1>2 DEF Counting, NowCounts
    <2>2. QED BY <2>1
  <1>3. QED BY <1>1, <1>2

TextsCounted(n, S, mem)  == IsFiniteSet(S) /\ n = Total(TextWeights(mem, S), S) /\ n <= Kept
BlocksCounted(n, S, mem) == IsFiniteSet(S) /\ n = Total(BlockWeights(mem, S), S) /\ n <= Kept
BuiltCounted(n, S, mem)  == IsFiniteSet(S) /\ n = Total(BuiltWeights(mem, S), S) /\ n <= Kept

Counted(wt, cm, hn, pd, mem) ==
    /\ wt \in [Thread -> [Memo -> Nat]]
    /\ \A t \in Thread : /\ TextsCounted(wt[t]["compiled"], cm[t], mem)
                         /\ BlocksCounted(wt[t]["handles"], hn[t], mem)
                         /\ BuiltCounted(wt[t]["products"], pd[t], mem)

AllCounted == Counted(weights, compiled, handles, products, memory)

(* Memories that agree on what the memos hold weigh it alike.              *)
LEMMA CountedWhereAlike ==
    ASSUME NEW mem, NEW now, NEW wt, NEW cm, NEW hn, NEW pd, Counted(wt, cm, hn, pd, mem),
           \A a : InAMemo(a, cm, hn, pd) => now[a] = mem[a]
    PROVE  Counted(wt, cm, hn, pd, now)
  <1>1. \A a : a = Refused \/ now[a] = mem[a] => BytesAt(now, a) = BytesAt(mem, a)
    BY DEF BytesAt
  <1>2. ASSUME NEW t \in Thread PROVE TextWeights(now, cm[t]) = TextWeights(mem, cm[t])
    <2>1. \A e \in cm[t] : BytesAt(now, e.table) = BytesAt(mem, e.table)
      BY <1>1 DEF InAMemo
    <2>2. QED BY <2>1 DEF TextWeights
  <1>3. ASSUME NEW t \in Thread PROVE BlockWeights(now, hn[t]) = BlockWeights(mem, hn[t])
    <2>1. \A a \in hn[t] : BytesAt(now, a) = BytesAt(mem, a)
      BY <1>1 DEF InAMemo
    <2>2. QED BY <2>1 DEF BlockWeights
  <1>4. ASSUME NEW t \in Thread PROVE BuiltWeights(now, pd[t]) = BuiltWeights(mem, pd[t])
    <2>1. ASSUME NEW e \in pd[t]
          PROVE  BytesAt(now, e.built) = BytesAt(mem, e.built) /\ PairWeight(now, e.of) = PairWeight(mem, e.of)
      <3>1. \A a \in e.of : BytesAt(now, a) = BytesAt(mem, a)
        BY <1>1 DEF InAMemo
      <3>2. BlockWeights(now, e.of) = BlockWeights(mem, e.of)
        BY <3>1 DEF BlockWeights
      <3>3. BytesAt(now, e.built) = BytesAt(mem, e.built)
        BY <1>1 DEF InAMemo
      <3>4. QED BY <3>2, <3>3 DEF PairWeight
    <2>2. QED BY <2>1 DEF BuiltWeights
  <1>5. QED BY <1>2, <1>3, <1>4 DEF Counted, TextsCounted, BlocksCounted, BuiltCounted

(* What a step writes leaves what was counted as it was, and what it drops  *)
(* is not counted.                                                         *)
LEMMA CountedWhenWritten ==
    ASSUME Sound, AllCounted, NEW mem, Writes(memory, mem)
    PROVE  Counted(weights, compiled, handles, products, mem)
  <1>1. \A a : InAMemo(a, compiled, handles, products) => a \in Occupied(memory)
    BY RootsSay, RootsOccupied DEF Sound
  <1>2. \A a : InAMemo(a, compiled, handles, products) => mem[a] = memory[a]
    BY <1>1 DEF Writes
  <1>3. QED BY <1>2, CountedWhereAlike DEF AllCounted

LEMMA CountedWhenSettled ==
    ASSUME Sound', NEW mem, Writes(memory, mem), Settles(mem),
           Counted(weights', compiled', handles', products', mem)
    PROVE  AllCounted'
  <1> DEFINE R == RootsFrom(held', calls', sets', compiled', handles', products')
  <1>1. Roots' = R
    BY RootsAre
  <1>2. Well(held', calls', sets', compiled', handles', products', memory')
    BY DEF Sound
  <1>3. R \in SUBSET Occupied(memory')
    BY <1>2, RootsOccupied
  <1>4. \A a : InAMemo(a, compiled', handles', products') => a \in R
    BY <1>2, RootsSay
  <1> HIDE DEF R
  <1>5. memory' = [a \in Address |-> IF a \in Live(mem, R) THEN mem[a] ELSE Gone]
    BY <1>1 DEF Settles
  <1>6. R \in SUBSET Address
    BY <1>3 DEF Occupied
  <1>7. R \in SUBSET Live(mem, R)
    BY <1>6, LiveIsLeast DEF Writes
  <1>8. \A a \in R : memory'[a] = mem[a]
    BY <1>5, <1>6, <1>7
  <1>9. Counted(weights', compiled', handles', products', memory')
    BY <1>4, <1>8, CountedWhereAlike
  <1>10. QED BY <1>9 DEF AllCounted

(* A step that leaves the memos as they are.                               *)
LEMMA CountedUntouched ==
    ASSUME Sound, Sound', AllCounted, UNCHANGED memos,
           NEW mem, Writes(memory, mem), Settles(mem)
    PROVE  AllCounted'
  <1>1. Counted(weights', compiled', handles', products', mem)
    BY CountedWhenWritten DEF memos
  <1>2. QED BY <1>1, CountedWhenSettled

LEMMA CompiledCounted ==
    ASSUME Sound, Sound', AllCounted, NEW t \in Thread, NEW r \in Register, NEW text \in Text,
           \A e \in compiled[t] : e.text # text,
           NEW a, NEW mem, Writes(memory, mem), a = Refused \/ TableAt(a, mem),
           KeepCompiled(t, r, text, a, mem)
    PROVE  AllCounted'
  <1> DEFINE S      == compiled[t]
             entry  == [text |-> text, table |-> a]
             weight == 1 + BytesAt(mem, a)
             K      == Keeping(t, "compiled", S, entry, weight)
             n      == NowCounts(t, "compiled", weight)
             w      == TextWeights(mem, S \cup {entry})
  <1>1. /\ compiled' = [compiled EXCEPT ![t] = K] /\ Counting(t, "compiled", weight)
        /\ UNCHANGED <<handles, products>> /\ Settles(mem)
    BY DEF KeepCompiled
  <1>2. Counted(weights, compiled, handles, products, mem)
    BY CountedWhenWritten
  <1>3. entry \notin S /\ entry.table = a
    OBVIOUS
  <1>4. \A e \in S \cup {entry} : 1 + BytesAt(mem, e.table) \in Nat
    <2>1. \A e \in S \cup {entry} : e.table = Refused \/ TableAt(e.table, mem)
      BY WellSoFar DEF CompiledWell, TextWell
    <2>2. QED BY <2>1, BytesCount
  <1>5. Weighs(w, S \cup {entry}) /\ w[entry] = weight /\ \A e \in S : w[e] = TextWeights(mem, S)[e]
    BY <1>3, <1>4 DEF TextWeights, Weighs
  <1>6. compiled \in [Thread -> SUBSET [text : Text, table : Address \cup {Refused}]]
    BY WellSoFar DEF CompiledWell
  <1> HIDE DEF entry
  <1>7. IsFiniteSet(S) /\ weights[t]["compiled"] = Total(w, S) /\ weights[t]["compiled"] <= Kept
    <2>1. TextsCounted(weights[t]["compiled"], S, mem)
      BY <1>2 DEF Counted
    <2>2. Weighs(TextWeights(mem, S), S)
      BY <1>5 DEF Weighs
    <2> HIDE DEF w
    <2>3. Total(w, S) = Total(TextWeights(mem, S), S)
      BY <1>5, <2>1, <2>2, TotalAlike DEF TextsCounted
    <2>4. QED BY <2>1, <2>3 DEF TextsCounted
  <1>8. IsFiniteSet(K) /\ K \in SUBSET (S \cup {entry}) /\ n = Total(w, K) /\ n \in Nat /\ n <= Kept
    <2>1. /\ K = Keeping(t, "compiled", S, entry, w[entry])
          /\ n = NowCounts(t, "compiled", w[entry])
      BY <1>5
    <2> HIDE DEF K, n, w, weight, S
    <2>2. MayKeep(t, "compiled", S, entry, w)
      BY <1>3, <1>5, <1>7 DEF MayKeep
    <2>3. HasKept(S, entry, w, K, n)
      BY <2>1, <2>2, KeptWeighs
    <2>4. QED BY <2>3 DEF HasKept
  <1>9. TextsCounted(n, K, mem)
    <2>1. \A e \in K : TextWeights(mem, K)[e] = w[e]
      BY <1>8 DEF TextWeights
    <2>2. Weighs(w, K)
      BY <1>5, <1>8 DEF Weighs
    <2> HIDE DEF w, K, n
    <2>3. Total(TextWeights(mem, K), K) = Total(w, K)
      BY <1>8, <2>1, <2>2, TotalAlike
    <2>4. QED BY <1>8, <2>3 DEF TextsCounted
  <1>10. /\ weights' \in [Thread -> [Memo -> Nat]] /\ weights'[t]["compiled"] = n
         /\ \A u \in Thread, m \in Memo : u # t \/ m # "compiled" => weights'[u][m] = weights[u][m]
    <2> HIDE DEF weight
    <2>1. weights \in [Thread -> [Memo -> Nat]] /\ "compiled" \in Memo
      BY <1>2 DEF Counted, Memo
    <2>2. QED BY <1>1, <1>8, <2>1, Counts
  <1> HIDE DEF K, n
  <1>11. compiled'[t] = K /\ \A u \in Thread : u # t => compiled'[u] = compiled[u]
    BY <1>1, <1>6
  <1>12. Counted(weights', compiled', handles', products', mem)
    <2>1. "handles" \in Memo /\ "products" \in Memo /\ "compiled" \in Memo
      BY DEF Memo
    <2>2. \A u \in Thread : TextsCounted(weights'[u]["compiled"], compiled'[u], mem)
      BY <1>2, <1>9, <1>10, <1>11, <2>1 DEF Counted
    <2>3. \A u \in Thread : /\ weights'[u]["handles"] = weights[u]["handles"]
                            /\ weights'[u]["products"] = weights[u]["products"]
      BY <1>10, <2>1
    <2>4. QED BY <1>1, <1>2, <1>10, <2>2, <2>3 DEF Counted
  <1>13. QED BY <1>1, <1>12, CountedWhenSettled

LEMMA HandledCounted ==
    ASSUME Sound, Sound', AllCounted, NEW t \in Thread, NEW r \in Register, NEW words \in Language,
           HandleAnew(t, r, words)
    PROVE  AllCounted'
  <1>0. PICK a \in Unused :
          /\ handles' = [handles EXCEPT ![t] = Keeping(t, "handles", @, a, Bytes[words])]
          /\ Counting(t, "handles", Bytes[words])
          /\ UNCHANGED <<program, nodes, compiled, products, left>>
          /\ Settles([memory EXCEPT ![a] = Table(words)])
    BY DEF HandleAnew
  <1> DEFINE mem    == [memory EXCEPT ![a] = Table(words)]
             S      == handles[t]
             weight == Bytes[words]
             K      == Keeping(t, "handles", S, a, weight)
             n      == NowCounts(t, "handles", weight)
             w      == BlockWeights(mem, S \cup {a})
  <1>1. /\ handles' = [handles EXCEPT ![t] = K] /\ Counting(t, "handles", weight)
        /\ UNCHANGED <<compiled, products>> /\ Settles(mem)
        /\ Writes(memory, mem) /\ TableAt(a, mem) /\ Words(a, mem) = words
    BY <1>0, TableWritten
  <1> HIDE DEF mem
  <1>2. Counted(weights, compiled, handles, products, mem)
    BY <1>1, CountedWhenWritten
  <1>3. a \notin S /\ BytesAt(mem, a) = weight
    <2>1. memory[a] = Gone /\ a # Refused
      BY NobodyHasNoBlock DEF Unused
    <2>2. \A b \in S : memory[b] \in Tables
      BY SoundWrites, WellSoFar DEF HandlesWell, TableAt
    <2>3. Gone \notin Tables
      BY GoneIsNoBlock, TablesAreBlocks DEF Tables
    <2>4. QED BY <1>1, <2>1, <2>2, <2>3 DEF BytesAt, Words
  <1>4. \A e \in S \cup {a} : BytesAt(mem, e) \in Nat
    <2>1. \A e \in S \cup {a} : TableAt(e, mem)
      BY <1>1, WellSoFar DEF HandlesWell
    <2>2. QED BY <2>1, BytesCount
  <1>5. Weighs(w, S \cup {a}) /\ w[a] = weight /\ \A e \in S : w[e] = BlockWeights(mem, S)[e]
    BY <1>3, <1>4 DEF BlockWeights, Weighs
  <1>6. handles \in [Thread -> SUBSET Address]
    BY <1>1, WellSoFar DEF HandlesWell
  <1>7. IsFiniteSet(S) /\ weights[t]["handles"] = Total(w, S) /\ weights[t]["handles"] <= Kept
    <2>1. BlocksCounted(weights[t]["handles"], S, mem)
      BY <1>2 DEF Counted
    <2>2. Weighs(BlockWeights(mem, S), S)
      BY <1>5 DEF Weighs
    <2> HIDE DEF w
    <2>3. Total(w, S) = Total(BlockWeights(mem, S), S)
      BY <1>5, <2>1, <2>2, TotalAlike DEF BlocksCounted
    <2>4. QED BY <2>1, <2>3 DEF BlocksCounted
  <1>8. IsFiniteSet(K) /\ K \in SUBSET (S \cup {a}) /\ n = Total(w, K) /\ n \in Nat /\ n <= Kept
    <2>1. /\ K = Keeping(t, "handles", S, a, w[a])
          /\ n = NowCounts(t, "handles", w[a])
      BY <1>5
    <2> HIDE DEF K, n, w, weight, S
    <2>2. MayKeep(t, "handles", S, a, w)
      BY <1>3, <1>5, <1>7 DEF MayKeep
    <2>3. HasKept(S, a, w, K, n)
      BY <2>1, <2>2, KeptWeighs
    <2>4. QED BY <2>3 DEF HasKept
  <1>9. BlocksCounted(n, K, mem)
    <2>1. \A e \in K : BlockWeights(mem, K)[e] = w[e]
      BY <1>8 DEF BlockWeights
    <2>2. Weighs(w, K)
      BY <1>5, <1>8 DEF Weighs
    <2> HIDE DEF w, K, n
    <2>3. Total(BlockWeights(mem, K), K) = Total(w, K)
      BY <1>8, <2>1, <2>2, TotalAlike
    <2>4. QED BY <1>8, <2>3 DEF BlocksCounted
  <1>10. /\ weights' \in [Thread -> [Memo -> Nat]] /\ weights'[t]["handles"] = n
         /\ \A u \in Thread, m \in Memo : u # t \/ m # "handles" => weights'[u][m] = weights[u][m]
    <2> HIDE DEF weight
    <2>1. weights \in [Thread -> [Memo -> Nat]] /\ "handles" \in Memo
      BY <1>2 DEF Counted, Memo
    <2>2. QED BY <1>1, <1>8, <2>1, Counts
  <1> HIDE DEF K, n
  <1>11. handles'[t] = K /\ \A u \in Thread : u # t => handles'[u] = handles[u]
    BY <1>1, <1>6
  <1>12. Counted(weights', compiled', handles', products', mem)
    <2>1. "handles" \in Memo /\ "products" \in Memo /\ "compiled" \in Memo
      BY DEF Memo
    <2>2. \A u \in Thread : BlocksCounted(weights'[u]["handles"], handles'[u], mem)
      BY <1>2, <1>9, <1>10, <1>11, <2>1 DEF Counted
    <2>3. \A u \in Thread : /\ weights'[u]["compiled"] = weights[u]["compiled"]
                            /\ weights'[u]["products"] = weights[u]["products"]
      BY <1>10, <2>1
    <2>4. QED BY <1>1, <1>2, <1>10, <2>2, <2>3 DEF Counted
  <1>13. QED BY <1>1, <1>12, CountedWhenSettled

LEMMA BuiltIsCounted ==
    ASSUME Sound, Sound', AllCounted,
           NEW t \in Thread, NEW r \in Register, NEW s \in Register, NEW union \in BOOLEAN,
           sets[t][r] # Nobody, sets[t][s] # Nobody,
           NEW a, NEW mem, Writes(memory, mem), Makes(a, union, sets[t][r], sets[t][s], mem),
           Builds(t, r, s, union, a, mem)
    PROVE  AllCounted'
  <1> DEFINE S      == products[t]
             entry  == [of |-> Pair(t, r, s), union |-> union, built |-> a]
             weight == ProductWeight(t, r, s, a, mem)
             K      == Keeping(t, "products", S, entry, weight)
             n      == NowCounts(t, "products", weight)
             w      == BuiltWeights(mem, S \cup {entry})
  <1>1. /\ products' = [products EXCEPT ![t] = K] /\ Counting(t, "products", weight)
        /\ UNCHANGED <<compiled, handles>> /\ Settles(mem)
        /\ \A e \in S : e.of # Pair(t, r, s) \/ e.union # union
    BY DEF Builds, KeepProduct
  <1>2. Counted(weights, compiled, handles, products, mem)
    BY CountedWhenWritten
  <1>3. /\ entry \notin S /\ ProductWell(entry, mem)
        /\ BytesAt(mem, entry.built) + PairWeight(mem, entry.of) = weight
    <2>1. entry.of = {sets[t][r], sets[t][s]} /\ entry.union = union /\ entry.built = a
      BY DEF Pair
    <2>2. /\ TableAt(sets[t][r], mem) /\ TableAt(sets[t][s], mem)
          /\ sets[t][r] \in Address /\ sets[t][s] \in Address
          /\ a = Refused \/ TableAt(a, mem)
      BY Pairs DEF TableAt, Makes
    <2>3. entry \notin S
      BY <1>1
    <2> HIDE DEF entry, weight
    <2>4. ProductWell(entry, mem)
      BY <2>1, <2>2 DEF ProductWell, Makes
    <2>5. PairWeight(mem, entry.of) = BytesAt(mem, sets[t][r]) + BytesAt(mem, sets[t][s])
      BY <2>1, <2>2, PairWeighs
    <2>6. /\ BytesAt(mem, sets[t][r]) \in Nat /\ BytesAt(mem, sets[t][s]) \in Nat /\ BytesAt(mem, a) \in Nat
      BY <2>2, BytesCount
    <2>7. QED BY <2>1, <2>3, <2>4, <2>5, <2>6 DEF ProductWeight, weight
  <1>4. \A e \in S \cup {entry} : BytesAt(mem, e.built) + PairWeight(mem, e.of) \in Nat
    <2>1. \A e \in S \cup {entry} : ProductWell(e, mem)
      BY <1>3, WellSoFar DEF ProductsWell
    <2>2. QED BY <2>1, BuiltCount
  <1>5. Weighs(w, S \cup {entry}) /\ w[entry] = weight /\ \A e \in S : w[e] = BuiltWeights(mem, S)[e]
    BY <1>3, <1>4 DEF BuiltWeights, Weighs
  <1>6. products \in [Thread -> SUBSET Built]
    BY WellSoFar DEF ProductsWell
  <1> HIDE DEF entry
  <1>7. IsFiniteSet(S) /\ weights[t]["products"] = Total(w, S) /\ weights[t]["products"] <= Kept
    <2>1. BuiltCounted(weights[t]["products"], S, mem)
      BY <1>2 DEF Counted
    <2>2. Weighs(BuiltWeights(mem, S), S)
      BY <1>5 DEF Weighs
    <2> HIDE DEF w
    <2>3. Total(w, S) = Total(BuiltWeights(mem, S), S)
      BY <1>5, <2>1, <2>2, TotalAlike DEF BuiltCounted
    <2>4. QED BY <2>1, <2>3 DEF BuiltCounted
  <1>8. IsFiniteSet(K) /\ K \in SUBSET (S \cup {entry}) /\ n = Total(w, K) /\ n \in Nat /\ n <= Kept
    <2>1. /\ K = Keeping(t, "products", S, entry, w[entry])
          /\ n = NowCounts(t, "products", w[entry])
      BY <1>5
    <2> HIDE DEF K, n, w, weight, S
    <2>2. MayKeep(t, "products", S, entry, w)
      BY <1>3, <1>5, <1>7 DEF MayKeep
    <2>3. HasKept(S, entry, w, K, n)
      BY <2>1, <2>2, KeptWeighs
    <2>4. QED BY <2>3 DEF HasKept
  <1>9. BuiltCounted(n, K, mem)
    <2>1. \A e \in K : BuiltWeights(mem, K)[e] = w[e]
      BY <1>8 DEF BuiltWeights
    <2>2. Weighs(w, K)
      BY <1>5, <1>8 DEF Weighs
    <2> HIDE DEF w, K, n
    <2>3. Total(BuiltWeights(mem, K), K) = Total(w, K)
      BY <1>8, <2>1, <2>2, TotalAlike
    <2>4. QED BY <1>8, <2>3 DEF BuiltCounted
  <1>10. /\ weights' \in [Thread -> [Memo -> Nat]] /\ weights'[t]["products"] = n
         /\ \A u \in Thread, m \in Memo : u # t \/ m # "products" => weights'[u][m] = weights[u][m]
    <2> HIDE DEF weight
    <2>1. weights \in [Thread -> [Memo -> Nat]] /\ "products" \in Memo
      BY <1>2 DEF Counted, Memo
    <2>2. QED BY <1>1, <1>8, <2>1, Counts
  <1> HIDE DEF K, n
  <1>11. products'[t] = K /\ \A u \in Thread : u # t => products'[u] = products[u]
    BY <1>1, <1>6
  <1>12. Counted(weights', compiled', handles', products', mem)
    <2>1. "handles" \in Memo /\ "products" \in Memo /\ "compiled" \in Memo
      BY DEF Memo
    <2>2. \A u \in Thread : BuiltCounted(weights'[u]["products"], products'[u], mem)
      BY <1>2, <1>9, <1>10, <1>11, <2>1 DEF Counted
    <2>3. \A u \in Thread : /\ weights'[u]["handles"] = weights[u]["handles"]
                            /\ weights'[u]["compiled"] = weights[u]["compiled"]
      BY <1>10, <2>1
    <2>4. QED BY <1>1, <1>2, <1>10, <2>2, <2>3 DEF Counted
  <1>13. QED BY <1>1, <1>12, CountedWhenSettled

LEMMA InitCounted == Init => AllCounted
  <1> SUFFICES ASSUME Init PROVE AllCounted
    OBVIOUS
  <1>1. weights = [t \in Thread |-> [memo \in Memo |-> 0]]
    BY DEF Init, Memo
  <1>2. IsFiniteSet({}) /\ \A w : Total(w, {}) = 0
    BY TotalOfNone, FS_EmptySet
  <1>3. \A t \in Thread : compiled[t] = {} /\ handles[t] = {} /\ products[t] = {}
    BY DEF Init
  <1>4. TextsCounted(0, {}, memory) /\ BlocksCounted(0, {}, memory) /\ BuiltCounted(0, {}, memory)
    BY <1>2, SharingBounds DEF TextsCounted, BlocksCounted, BuiltCounted
  <1>5. \A t \in Thread, memo \in Memo : weights[t][memo] = 0
    BY <1>1
  <1>6. "compiled" \in Memo /\ "handles" \in Memo /\ "products" \in Memo
    BY DEF Memo
  <1>7. QED BY <1>1, <1>3, <1>4, <1>5, <1>6 DEF AllCounted, Counted

LEMMA NextCounted == Sound /\ Sound' /\ AllCounted /\ [Next]_vars => AllCounted'
  <1> SUFFICES ASSUME Sound, Sound', AllCounted, [Next]_vars PROVE AllCounted'
    OBVIOUS
  <1>1. /\ program.threads \in SUBSET Thread /\ program.texts \in SUBSET Text
        /\ program.registers \in SUBSET Register
    BY ProgramsAreRun DEF Sound
  <1>2. ASSUME UNCHANGED <<memory, memos>> PROVE AllCounted'
    BY <1>2 DEF AllCounted, memos
  <1>3. ASSUME UNCHANGED memos, Settles(memory) PROVE AllCounted'
    BY <1>3, SoundWrites, CountedUntouched
  <1>4. ASSUME NEW t \in program.threads, Intern(t) PROVE AllCounted'
    <2>1. ASSUME NEW x \in program.vars, NEW l \in program.labels, Ask(t, x, l) PROVE AllCounted'
      BY <1>2, <2>1 DEF Ask, tables
    <2>2. CASE Probe(t)
      BY <1>2, <2>2 DEF Probe, tables
    <2>3. CASE Hit(t) \/ Differs(t)
      BY <1>3, <2>3 DEF Hit, Differs, tables
    <2>4. CASE Miss(t)
      <3> DEFINE node == calls[t].node
      <3>1. PICK a \in Unused : Settles([memory EXCEPT ![a] = node]) /\ UNCHANGED tables
        BY <2>4 DEF Miss
      <3>2. CallWell(calls[t], memory) /\ calls[t].at # "idle"
        BY <1>1, <2>4 DEF Miss, Sound, Well, CallsWell
      <3>3. node \in Blocks /\ \A b \in Parts(node) : BlockAt(b, memory)
        BY <3>2, GoneIsNoBlock DEF CallWell
      <3>4. a \in Address /\ memory[a] = Gone
        BY DEF Unused
      <3> HIDE DEF node
      <3>5. Writes(memory, [memory EXCEPT ![a] = node])
        BY <3>3, <3>4, SoundWrites, BlockWritten
      <3>6. QED BY <3>1, <3>5, CountedUntouched DEF tables
    <2>5. QED BY <1>4, <2>1, <2>2, <2>3, <2>4 DEF Intern
  <1>5. ASSUME NEW t \in program.threads, Relate(t) PROVE AllCounted'
    <2>1. ASSUME NEW r \in program.registers, NEW text \in program.texts, Compile(t, r, text)
          PROVE  AllCounted'
      <3>1. CASE CompiledAgain(t, r, text)
        BY <1>3, <3>1 DEF CompiledAgain
      <3>2. CASE CompiledAnew(t, r, text)
        <4>1. t \in Thread /\ r \in Register /\ text \in Text /\ \A e \in compiled[t] : e.text # text
          BY <1>1, <3>2 DEF CompiledAnew
        <4>2. CASE Reads[text] = Refused
          <5>1. KeepCompiled(t, r, text, Refused, memory)
            BY <3>2, <4>2 DEF CompiledAnew
          <5>2. QED BY <4>1, <5>1, SoundWrites, CompiledCounted
        <4>3. CASE Reads[text] # Refused
          <5>1. PICK a \in Unused : KeepCompiled(t, r, text, a, [memory EXCEPT ![a] = Table(Reads[text])])
            BY <3>2, <4>3 DEF CompiledAnew
          <5>2. Reads[text] \in Language
            BY <4>1, <4>3, SharingBounds
          <5> DEFINE mem == [memory EXCEPT ![a] = Table(Reads[text])]
          <5>3. Writes(memory, mem) /\ TableAt(a, mem)
            BY <5>2, TableWritten
          <5>4. KeepCompiled(t, r, text, a, mem)
            BY <5>1
          <5> HIDE DEF mem
          <5>5. QED BY <4>1, <5>3, <5>4, CompiledCounted
        <4>4. QED BY <4>2, <4>3
      <3>3. QED BY <2>1, <3>1, <3>2 DEF Compile
    <2>2. ASSUME NEW r \in program.registers, NEW s \in program.registers, Complement(t, r, s)
          PROVE  AllCounted'
      <3> DEFINE words == Word \ LanguageAt(sets[t][s])
      <3>1. words \in Language
        BY DEF Language
      <3>2. HandleAgain(t, r, words) \/ HandleAnew(t, r, words)
        BY <2>2 DEF Complement
      <3> HIDE DEF words
      <3>3. CASE HandleAgain(t, r, words)
        BY <1>3, <3>3 DEF HandleAgain
      <3>4. CASE HandleAnew(t, r, words)
        BY <1>1, <3>1, <3>4, HandledCounted
      <3>5. QED BY <3>2, <3>3, <3>4
    <2>3. ASSUME NEW r \in program.registers, NEW s \in program.registers, NEW union \in BOOLEAN,
                 Product(t, r, s, union)
          PROVE  AllCounted'
      <3>1. /\ t \in Thread /\ r \in Register /\ s \in Register
            /\ sets[t][r] # Nobody /\ sets[t][s] # Nobody
        BY <1>1, <2>3 DEF Product
      <3>2. PICK a, mem :
              /\ Writes(memory, mem) /\ Makes(a, union, sets[t][r], sets[t][s], mem)
              /\ Finds(t, r, s, union, a, mem) \/ Builds(t, r, s, union, a, mem)
        BY <2>3, <3>1, ProductCases
      <3>3. CASE Finds(t, r, s, union, a, mem)
        BY <3>2, <3>3, CountedUntouched DEF Finds
      <3>4. CASE Builds(t, r, s, union, a, mem)
        BY <3>1, <3>2, <3>4, BuiltIsCounted
      <3>5. QED BY <3>2, <3>3, <3>4
    <2>4. ASSUME NEW r \in program.registers, LetGo(t, r) PROVE AllCounted'
      BY <1>3, <2>4 DEF LetGo
    <2>5. CASE Lower(t)
      BY <1>2, <2>5 DEF Lower
    <2>6. QED BY <1>5, <2>1, <2>2, <2>3, <2>4, <2>5 DEF Relate
  <1>6. ASSUME NEW x \in program.vars, Drop(x) PROVE AllCounted'
    BY <1>3, <1>6 DEF Drop, tables
  <1>7. CASE UNCHANGED vars
    BY <1>2, <1>7 DEF vars, tables
  <1>8. QED BY <1>4, <1>5, <1>6, <1>7 DEF Next

LEMMA CountedWeighs == Sound /\ AllCounted => MemosWeighWhatTheyHold
  <1> SUFFICES ASSUME Sound, AllCounted PROVE MemosWeighWhatTheyHold
    OBVIOUS
  <1>1. /\ CompiledWell(compiled, memory) /\ HandlesWell(handles, memory) /\ ProductsWell(products, memory)
        /\ Counted(weights, compiled, handles, products, memory)
    BY DEF Sound, Well, AllCounted
  <1>2. ASSUME NEW t \in Thread
        PROVE  /\ weights[t].compiled = MapThenSumSet(LAMBDA e : 1 + BytesAt(memory, e.table), compiled[t])
               /\ weights[t].handles = MapThenSumSet(LAMBDA a : BytesAt(memory, a), handles[t])
               /\ weights[t].products =
                    MapThenSumSet(LAMBDA e : BytesAt(memory, e.built)
                                               + MapThenSumSet(LAMBDA a : BytesAt(memory, a), e.of)
                                                   * (IF Cardinality(e.of) = 1 THEN 2 ELSE 1), products[t])
               /\ \A memo \in DOMAIN weights[t] : weights[t][memo] <= Kept
    <2>1. /\ TextsCounted(weights[t]["compiled"], compiled[t], memory)
          /\ BlocksCounted(weights[t]["handles"], handles[t], memory)
          /\ BuiltCounted(weights[t]["products"], products[t], memory)
          /\ DOMAIN weights[t] = Memo
      BY <1>1 DEF Counted
    <2>2. Weighs(TextWeights(memory, compiled[t]), compiled[t])
      <3>1. \A e \in compiled[t] : BytesAt(memory, e.table) \in Nat
        BY <1>1, BytesCount DEF CompiledWell, TextWell
      <3>2. QED BY <3>1 DEF Weighs, TextWeights
    <2>3. Weighs(BlockWeights(memory, handles[t]), handles[t])
      <3>1. \A a \in handles[t] : BytesAt(memory, a) \in Nat
        BY <1>1, BytesCount DEF HandlesWell
      <3>2. QED BY <3>1 DEF Weighs, BlockWeights
    <2>4. \A e \in products[t] : ProductWell(e, memory)
      BY <1>1 DEF ProductsWell
    <2>5. weights[t].compiled = MapThenSumSet(LAMBDA e : 1 + BytesAt(memory, e.table), compiled[t])
      BY <2>1, <2>2, TextsAdd DEF TextsCounted
    <2>6. weights[t].handles = MapThenSumSet(LAMBDA a : BytesAt(memory, a), handles[t])
      BY <2>1, <2>3, BlocksAdd DEF BlocksCounted
    <2>7. weights[t].products =
            MapThenSumSet(LAMBDA e : BytesAt(memory, e.built)
                                       + MapThenSumSet(LAMBDA a : BytesAt(memory, a), e.of)
                                           * (IF Cardinality(e.of) = 1 THEN 2 ELSE 1), products[t])
      BY <2>1, <2>4, BuiltAdd DEF BuiltCounted
    <2>8. \A memo \in DOMAIN weights[t] : weights[t][memo] <= Kept
      BY <2>1 DEF TextsCounted, BlocksCounted, BuiltCounted, Memo
    <2>9. QED BY <2>5, <2>6, <2>7, <2>8
  <1>3. QED BY <1>2 DEF MemosWeighWhatTheyHold

(* Each memo counts exactly the bytes of what it holds, and no more than    *)
(* the bound, through every starting over.                                 *)
THEOREM MemosWeigh == Spec => []MemosWeighWhatTheyHold
  <1>1. Init => AllCounted
    BY InitCounted
  <1>2. Sound /\ Sound' /\ AllCounted /\ [Next]_vars => AllCounted'
    BY NextCounted
  <1>3. Sound /\ AllCounted => MemosWeighWhatTheyHold
    BY CountedWeighs
  <1>4. QED BY <1>1, <1>2, <1>3, BlocksSound, PTL DEF Spec


-----------------------------------------------------------------------------
(* The levels of the trees, for a memory.                                  *)

Levels == Cardinality(Address)

LevelsOf(f, mem, n) ==
    f = [k \in 0 .. n |-> IF k = 0 THEN [a \in Address |-> Cut] ELSE Grown(mem, f[k - 1])]

LEMMA LevelsExist == ASSUME NEW mem, NEW n \in Nat PROVE \E f : LevelsOf(f, mem, n)
  <1> DEFINE T == {m \in Nat : \E f : LevelsOf(f, mem, m)}
             Z == [a \in Address |-> Cut]
  <1>1. 0 \in T
    <2> DEFINE f == [k \in 0 .. 0 |-> Z]
    <2>1. \A k \in 0 .. 0 : k = 0
      OBVIOUS
    <2>2. f = [k \in 0 .. 0 |-> IF k = 0 THEN Z ELSE Grown(mem, f[k - 1])]
      BY <2>1
    <2>3. QED BY <2>2 DEF LevelsOf
  <1>2. ASSUME NEW m \in T PROVE m + 1 \in T
    <2>1. PICK f : f = [k \in 0 .. m |-> IF k = 0 THEN Z ELSE Grown(mem, f[k - 1])]
      BY <1>2 DEF LevelsOf
    <2> DEFINE g == [k \in 0 .. m + 1 |-> IF k = m + 1 THEN Grown(mem, f[m]) ELSE f[k]]
    <2>2. m \in Nat
      OBVIOUS
    <2>3. ASSUME NEW k \in 0 .. m + 1
          PROVE  g[k] = IF k = 0 THEN Z ELSE Grown(mem, g[k - 1])
      <3>1. CASE k = m + 1
        BY <2>2, <3>1
      <3>2. CASE k # m + 1
        <4>1. k \in 0 .. m /\ g[k] = f[k]
          BY <2>2, <3>2
        <4>2. k # 0 => k - 1 \in 0 .. m /\ k - 1 # m + 1
          BY <2>2, <4>1
        <4>3. k # 0 => g[k - 1] = f[k - 1]
          BY <2>2, <4>2
        <4> HIDE DEF g, Z
        <4>4. f[k] = IF k = 0 THEN Z ELSE Grown(mem, f[k - 1])
          BY <2>1, <4>1
        <4>5. QED BY <4>1, <4>3, <4>4
      <3>3. QED BY <3>1, <3>2
    <2>4. g = [k \in 0 .. m + 1 |-> g[k]]
      OBVIOUS
    <2> HIDE DEF g
    <2>5. [k \in 0 .. m + 1 |-> g[k]] = [k \in 0 .. m + 1 |-> IF k = 0 THEN Z ELSE Grown(mem, g[k - 1])]
      BY <2>3
    <2>6. LevelsOf(g, mem, m + 1)
      BY <2>4, <2>5 DEF LevelsOf
    <2>7. QED BY <2>2, <2>6
  <1> HIDE DEF T
  <1>3. T = Nat
    BY <1>1, <1>2, EveryNumber DEF T
  <1>4. QED BY <1>3 DEF T

(* Each level is grown from the one below.                                 *)
LEMMA TreesGrow ==
    ASSUME NEW mem
    PROVE  /\ Levels \in Nat
           /\ Trees(mem)[0] = [a \in Address |-> Cut]
           /\ \A n \in 0 .. Levels : n # 0 => Trees(mem)[n] = Grown(mem, Trees(mem)[n - 1])
  <1>1. Levels \in Nat
    BY MemoryIsFinite, FS_CardinalityType DEF Levels
  <1>2. Trees(mem) = CHOOSE f : LevelsOf(f, mem, Levels)
    BY DEF Trees, LevelsOf, Levels
  <1>3. LevelsOf(Trees(mem), mem, Levels)
    BY <1>1, <1>2, LevelsExist
  <1> DEFINE f == Trees(mem)
             Z == [a \in Address |-> Cut]
  <1>4. f = [k \in 0 .. Levels |-> IF k = 0 THEN Z ELSE Grown(mem, f[k - 1])]
    BY <1>3 DEF LevelsOf
  <1> HIDE DEF f, Z, Levels
  <1>5. /\ f[0] = Z
        /\ \A n \in 0 .. Levels : n # 0 => f[n] = Grown(mem, f[n - 1])
    BY <1>1, <1>4
  <1>6. QED BY <1>1, <1>5 DEF f, Z, Levels

(* Where two memories agree on blocks and all they are made of, the trees   *)
(* there are the same.                                                     *)
AgreeOn(mem, now, S) ==
    /\ S \in SUBSET Address
    /\ \A a \in S : mem[a] # Gone /\ now[a] = mem[a] /\ Parts(mem[a]) \in SUBSET S

LEMMA TreesAlike ==
    ASSUME NEW mem, NEW now, NEW S, AgreeOn(mem, now, S)
    PROVE  \A n \in 0 .. Levels : \A a \in S : Trees(now)[n][a] = Trees(mem)[n][a]
  <1> DEFINE Same(n) == \A a \in S : Trees(now)[n][a] = Trees(mem)[n][a]
             T == {n \in Nat : n \in 0 .. Levels => Same(n)}
  <1>1. Levels \in Nat /\ \A a \in S : a \in Address
    BY TreesGrow DEF AgreeOn
  <1>2. 0 \in T
    BY <1>1, TreesGrow
  <1>3. ASSUME NEW m \in T PROVE m + 1 \in T
    <2> SUFFICES ASSUME m + 1 \in 0 .. Levels, NEW a \in S PROVE Trees(now)[m + 1][a] = Trees(mem)[m + 1][a]
      OBVIOUS
    <2>1. m \in 0 .. Levels /\ (m + 1) - 1 = m /\ m + 1 # 0
      BY <1>1
    <2>2. Same(m)
      BY <1>3, <2>1
    <2>3. /\ Trees(mem)[m + 1] = Grown(mem, Trees(mem)[m])
          /\ Trees(now)[m + 1] = Grown(now, Trees(now)[m])
      BY <2>1, TreesGrow
    <2> DEFINE one == Trees(mem)[m]
               two == Trees(now)[m]
               ps  == mem[a].parts
    <2>4. mem[a] # Gone /\ now[a] = mem[a] /\ a \in Address
      BY <1>1 DEF AgreeOn
    <2>5. \A i \in DOMAIN ps : ps[i] \in S
      BY <2>4 DEF AgreeOn, Parts
    <2>6. \A i \in DOMAIN ps : two[ps[i]] = one[ps[i]]
      BY <2>2, <2>5
    <2>7. /\ Grown(mem, one)[a] = [label |-> mem[a].label, parts |-> [i \in DOMAIN ps |-> one[ps[i]]]]
          /\ Grown(now, two)[a] = [label |-> mem[a].label, parts |-> [i \in DOMAIN ps |-> two[ps[i]]]]
      <3>1. Grown(mem, one)[a] = [label |-> mem[a].label, parts |-> [i \in DOMAIN ps |-> one[ps[i]]]]
        BY <2>4 DEF Grown
      <3>2. Grown(now, two)[a] =
              [label |-> now[a].label, parts |-> [i \in DOMAIN now[a].parts |-> two[now[a].parts[i]]]]
        BY <2>4 DEF Grown
      <3>3. QED BY <2>4, <3>1, <3>2
    <2> HIDE DEF one, two, ps
    <2>8. [i \in DOMAIN ps |-> one[ps[i]]] = [i \in DOMAIN ps |-> two[ps[i]]]
      BY <2>6
    <2>9. QED BY <2>3, <2>7, <2>8 DEF one, two
  <1> HIDE DEF T
  <1>4. T = Nat
    BY <1>2, <1>3, EveryNumber DEF T
  <1>5. QED BY <1>1, <1>4 DEF T

LEMMA TreeAlike ==
    ASSUME NEW mem, NEW now, NEW S, AgreeOn(mem, now, S), NEW a \in S
    PROVE  TreeAt(now, a) = TreeAt(mem, a)
  <1>1. Levels \in 0 .. Levels
    BY TreesGrow
  <1>2. QED BY <1>1, TreesAlike DEF TreeAt, Levels

-----------------------------------------------------------------------------
(* No block is in itself, so that a tree has no more levels than there are *)
(* blocks, and the tree of a block is grown from the trees of its parts.   *)

Below(mem, a) == Live(mem, Parts(mem[a]))
Grounded(mem) == \A a \in Occupied(mem) : a \notin Below(mem, a)

\* What is there is made of what is there.
Standing(mem) == mem \in Memories /\ \A a \in Occupied(mem) : Parts(mem[a]) \in SUBSET Occupied(mem)

LEMMA PartsOccupied ==
    ASSUME NEW mem, Standing(mem), NEW a \in Occupied(mem)
    PROVE  /\ a \in Address /\ mem[a] \in Blocks /\ mem[a] # Gone
           /\ \A i \in DOMAIN mem[a].parts :
                mem[a].parts[i] \in Parts(mem[a]) /\ mem[a].parts[i] \in Occupied(mem)
  BY DEF Standing, Occupied, Memories, Parts

(* A part is made of less than the block it is in, by one block at least.  *)
Rank(mem, a) == Cardinality(Below(mem, a))

LEMMA RanksFall ==
    ASSUME NEW mem, Standing(mem), Grounded(mem), NEW a \in Occupied(mem)
    PROVE  /\ Rank(mem, a) \in Nat /\ Rank(mem, a) < Levels
           /\ \A b \in Parts(mem[a]) : b \in Occupied(mem) /\ Rank(mem, b) < Rank(mem, a)
  <1>1. mem \in Memories /\ Parts(mem[a]) \in SUBSET Occupied(mem) /\ Occupied(mem) \in SUBSET Address
    BY DEF Standing, Occupied
  <1> DEFINE A == Below(mem, a)
  <1>2. /\ A \in SUBSET Address /\ Parts(mem[a]) \in SUBSET A
        /\ \A b \in A : Parts(mem[b]) \in SUBSET A
    <2>1. Parts(mem[a]) \in SUBSET Address
      BY <1>1
    <2>2. QED BY <1>1, <2>1, LiveIsLeast DEF Below
  <1>3. a \notin A /\ a \in Address
    BY <1>1 DEF Grounded
  <1> HIDE DEF A
  <1>4. Cardinality(A) \in Nat /\ Cardinality(A) < Levels
    <2>1. A # Address /\ IsFiniteSet(A)
      BY <1>2, <1>3, MemoryIsFinite, FS_Subset
    <2>2. QED BY <1>2, <2>1, MemoryIsFinite, FS_Subset, FS_CardinalityType DEF Levels
  <1>5. ASSUME NEW b \in Parts(mem[a]) PROVE b \in Occupied(mem) /\ Cardinality(Below(mem, b)) < Cardinality(A)
    <2> DEFINE B == Below(mem, b)
    <2>1. b \in Occupied(mem) /\ b \in A /\ Parts(mem[b]) \in SUBSET A /\ Parts(mem[b]) \in SUBSET Address
      BY <1>1, <1>2 DEF Standing
    <2>2. B \in SUBSET A
      BY <1>1, <1>2, <2>1, LiveIsLeast DEF Below
    <2>3. b \notin B
      BY <2>1 DEF Grounded
    <2> HIDE DEF B
    <2>4. IsFiniteSet(A) /\ B # A
      BY <1>2, <2>1, <2>3, MemoryIsFinite, FS_Subset
    <2>5. Cardinality(B) < Cardinality(A)
      BY <2>2, <2>4, FS_Subset, FS_CardinalityType
    <2>6. QED BY <2>1, <2>5 DEF B
  <1>6. QED BY <1>4, <1>5 DEF Rank, A

(* Past its rank, the tree of a block grows no more.                       *)
LEMMA TreesStop ==
    ASSUME NEW mem, Standing(mem), Grounded(mem)
    PROVE  \A n \in 0 .. Levels : n # 0 =>
             \A a \in Occupied(mem) : Rank(mem, a) < n - 1 => Trees(mem)[n][a] = Trees(mem)[n - 1][a]
  <1> DEFINE Stops(n) == \A a \in Occupied(mem) :
                            Rank(mem, a) < n => Trees(mem)[n + 1][a] = Trees(mem)[n][a]
             T == {n \in Nat : n + 1 \in 0 .. Levels => Stops(n)}
  <1>1. Levels \in Nat
    BY TreesGrow
  <1>2. 0 \in T
    BY RanksFall
  <1>3. ASSUME NEW m \in T PROVE m + 1 \in T
    <2> SUFFICES ASSUME (m + 1) + 1 \in 0 .. Levels, NEW a \in Occupied(mem), Rank(mem, a) < m + 1
                 PROVE  Trees(mem)[(m + 1) + 1][a] = Trees(mem)[m + 1][a]
      OBVIOUS
    <2>1. m + 1 \in 0 .. Levels /\ (m + 1) - 1 = m /\ m + 1 # 0
          /\ ((m + 1) + 1) - 1 = m + 1 /\ (m + 1) + 1 # 0
      BY <1>1
    <2>2. Stops(m)
      BY <1>3, <2>1
    <2> DEFINE one == Trees(mem)[m]
               two == Trees(mem)[m + 1]
               ps  == mem[a].parts
    <2>3. Trees(mem)[m + 1] = Grown(mem, one) /\ Trees(mem)[(m + 1) + 1] = Grown(mem, two)
      BY <2>1, TreesGrow
    <2>4. a \in Address /\ mem[a] # Gone /\ \A i \in DOMAIN ps : ps[i] \in Parts(mem[a])
      BY PartsOccupied
    <2>5. ASSUME NEW i \in DOMAIN ps PROVE two[ps[i]] = one[ps[i]]
      <3>1. ps[i] \in Occupied(mem) /\ Rank(mem, ps[i]) < Rank(mem, a) /\ Rank(mem, ps[i]) \in Nat
            /\ Rank(mem, a) \in Nat
        BY <2>4, RanksFall
      <3>2. Rank(mem, ps[i]) < m
        BY <3>1
      <3>3. QED BY <2>2, <3>1, <3>2
    <2>6. /\ Grown(mem, one)[a] = [label |-> mem[a].label, parts |-> [i \in DOMAIN ps |-> one[ps[i]]]]
          /\ Grown(mem, two)[a] = [label |-> mem[a].label, parts |-> [i \in DOMAIN ps |-> two[ps[i]]]]
      BY <2>4 DEF Grown
    <2> HIDE DEF one, two, ps
    <2>7. [i \in DOMAIN ps |-> one[ps[i]]] = [i \in DOMAIN ps |-> two[ps[i]]]
      BY <2>5
    <2>8. QED BY <2>3, <2>6, <2>7 DEF two
  <1> HIDE DEF T
  <1>4. T = Nat
    BY <1>2, <1>3, EveryNumber DEF T
  <1>5. ASSUME NEW n \in 0 .. Levels, n # 0, NEW a \in Occupied(mem), Rank(mem, a) < n - 1
        PROVE  Trees(mem)[n][a] = Trees(mem)[n - 1][a]
    <2>1. n - 1 \in Nat /\ (n - 1) + 1 = n
      BY <1>1, <1>5
    <2>2. n - 1 \in T
      BY <1>4, <2>1
    <2>3. QED BY <1>5, <2>1, <2>2 DEF T
  <1>6. QED BY <1>5

Grows(mem, value) ==
    [label |-> value.label, parts |-> [i \in DOMAIN value.parts |-> TreeAt(mem, value.parts[i])]]

LEMMA TreeGrows ==
    ASSUME NEW mem, Standing(mem), Grounded(mem), NEW a \in Occupied(mem)
    PROVE  TreeAt(mem, a) = Grows(mem, mem[a])
  <1> DEFINE top == Trees(mem)[Levels]
             low == Trees(mem)[Levels - 1]
             ps  == mem[a].parts
  <1>1. Levels \in Nat /\ Rank(mem, a) \in Nat /\ Rank(mem, a) < Levels
    BY TreesGrow, RanksFall
  <1>2. Levels \in 0 .. Levels /\ Levels # 0
    BY <1>1
  <1>3. top = Grown(mem, low)
    BY <1>2, TreesGrow
  <1>4. a \in Address /\ mem[a] # Gone /\ \A i \in DOMAIN ps : ps[i] \in Parts(mem[a])
    BY PartsOccupied
  <1>5. ASSUME NEW i \in DOMAIN ps PROVE top[ps[i]] = low[ps[i]]
    <2>1. ps[i] \in Occupied(mem) /\ Rank(mem, ps[i]) < Rank(mem, a) /\ Rank(mem, ps[i]) \in Nat
      BY <1>4, RanksFall
    <2>2. Rank(mem, ps[i]) < Levels - 1
      BY <1>1, <2>1
    <2>3. QED BY <1>2, <2>1, <2>2, TreesStop
  <1>6. Grown(mem, low)[a] = [label |-> mem[a].label, parts |-> [i \in DOMAIN ps |-> low[ps[i]]]]
    BY <1>4 DEF Grown
  <1> HIDE DEF top, low, ps
  <1>7. [i \in DOMAIN ps |-> low[ps[i]]] = [i \in DOMAIN ps |-> top[ps[i]]]
    BY <1>5
  <1>8. top[a] = [label |-> mem[a].label, parts |-> [i \in DOMAIN ps |-> top[ps[i]]]]
    BY <1>3, <1>6, <1>7
  <1>9. QED BY <1>8 DEF TreeAt, Grows, top, ps, Levels

-----------------------------------------------------------------------------
(* A step writes one block at most, over blocks that are there, and drops  *)
(* what nothing reaches: what stands stays grounded, and the trees of what *)
(* was there and still is are as they were.                                *)

Lays(mem, mid) ==
    /\ Writes(mem, mid)
    /\ \A a \in Occupied(mid) : Parts(mid[a]) \in SUBSET Occupied(mem)

Moves(mem, now) ==
    \E mid : /\ Lays(mem, mid)
             /\ \A a \in Address : now[a] = mid[a] \/ now[a] = Gone

LEMMA LiveAlike ==
    ASSUME NEW mem \in Memories, NEW now \in Memories, NEW S, AgreeOn(mem, now, S), NEW R \in SUBSET S
    PROVE  Live(now, R) = Live(mem, R)
  <1> DEFINE L == Live(mem, R)
             M == Live(now, R)
  <1>1. S \in SUBSET Address /\ R \in SUBSET Address
    BY DEF AgreeOn
  <1>2. /\ L \in SUBSET Address /\ R \in SUBSET L
        /\ \A a \in L : Parts(mem[a]) \in SUBSET L
        /\ \A Z \in SUBSET Address :
              R \in SUBSET Z /\ (\A a \in Z : Parts(mem[a]) \in SUBSET Z) => L \in SUBSET Z
    BY <1>1, LiveIsLeast
  <1>3. /\ M \in SUBSET Address /\ R \in SUBSET M
        /\ \A a \in M : Parts(now[a]) \in SUBSET M
        /\ \A Z \in SUBSET Address :
              R \in SUBSET Z /\ (\A a \in Z : Parts(now[a]) \in SUBSET Z) => M \in SUBSET Z
    BY <1>1, LiveIsLeast
  <1> HIDE DEF L, M
  <1>4. \A a \in S : now[a] = mem[a] /\ Parts(mem[a]) \in SUBSET S
    BY DEF AgreeOn
  <1>5. L \in SUBSET S
    BY <1>1, <1>2, <1>4
  <1>6. M \in SUBSET L
    BY <1>2, <1>3, <1>4, <1>5
  <1>7. L \in SUBSET M
    BY <1>2, <1>3, <1>4, <1>5, <1>6
  <1>8. QED BY <1>6, <1>7 DEF L, M

LEMMA GroundedAlike ==
    ASSUME NEW mem \in Memories, NEW now \in Memories, NEW S, AgreeOn(mem, now, S), Grounded(mem), NEW a \in S
    PROVE  a \notin Below(now, a)
  <1>1. a \in Occupied(mem) /\ now[a] = mem[a] /\ Parts(mem[a]) \in SUBSET S
    BY DEF AgreeOn, Occupied
  <1>2. QED BY <1>1, LiveAlike DEF Below, Grounded

LEMMA GroundedWhenLaid ==
    ASSUME NEW mem, NEW mid, Standing(mem), Grounded(mem), Lays(mem, mid)
    PROVE  Standing(mid) /\ Grounded(mid)
  <1> DEFINE S == Occupied(mem)
  <1>1. mem \in Memories /\ mid \in Memories /\ Standing(mid)
    BY DEF Standing, Lays, Writes
  <1>2. AgreeOn(mem, mid, S)
    BY DEF AgreeOn, Standing, Lays, Writes, Occupied
  <1>3. ASSUME NEW a \in Occupied(mid), a \notin S PROVE a \notin Below(mid, a)
    <2>1. Parts(mid[a]) \in SUBSET S /\ S \in SUBSET Address
      BY DEF Lays, Occupied
    <2>2. \A b \in S : Parts(mid[b]) \in SUBSET S
      BY <1>2 DEF AgreeOn
    <2>3. Live(mid, Parts(mid[a])) \in SUBSET S
      BY <1>1, <2>1, <2>2, LiveIsLeast
    <2>4. QED BY <1>3, <2>3 DEF Below
  <1>4. \A a \in S : a \notin Below(mid, a)
    BY <1>1, <1>2, GroundedAlike
  <1>5. QED BY <1>1, <1>3, <1>4 DEF Grounded

LEMMA GroundedWhenMoved ==
    ASSUME NEW mem, NEW now, Standing(mem), Grounded(mem), Standing(now), Moves(mem, now)
    PROVE  Grounded(now)
  <1>1. PICK mid : /\ Lays(mem, mid)
                   /\ \A a \in Address : now[a] = mid[a] \/ now[a] = Gone
    BY DEF Moves
  <1>2. Standing(mid) /\ Grounded(mid)
    BY <1>1, GroundedWhenLaid
  <1>3. AgreeOn(mid, now, Occupied(now))
    BY <1>1 DEF AgreeOn, Standing, Occupied
  <1>4. mid \in Memories /\ now \in Memories
    BY <1>2 DEF Standing
  <1>5. QED BY <1>2, <1>3, <1>4, GroundedAlike DEF Grounded

LEMMA TreesKept ==
    ASSUME NEW mem, NEW now, Standing(mem), Standing(now), Moves(mem, now),
           NEW a \in Occupied(mem), a \in Occupied(now)
    PROVE  TreeAt(now, a) = TreeAt(mem, a)
  <1> DEFINE S == Occupied(mem) \cap Occupied(now)
  <1>1. PICK mid : /\ Lays(mem, mid)
                   /\ \A b \in Address : now[b] = mid[b] \/ now[b] = Gone
    BY DEF Moves
  <1>2. \A b \in S : b \in Address /\ mem[b] # Gone /\ now[b] = mem[b]
    BY <1>1 DEF Lays, Writes, Occupied
  <1>3. AgreeOn(mem, now, S)
    BY <1>2 DEF AgreeOn, Standing
  <1>4. QED BY <1>3, TreeAlike

-----------------------------------------------------------------------------
(* Every step of the blocks is such a step.                                *)

LEMMA SoundStands == Sound => Standing(memory) /\ Lays(memory, memory)
  BY SoundWrites DEF Writes, Standing, Lays

LEMMA SettlesMoves ==
    ASSUME NEW mid, Lays(memory, mid), Settles(mid)
    PROVE  Moves(memory, memory')
  <1>1. PICK live : memory' = [a \in Address |-> IF a \in live THEN mid[a] ELSE Gone]
    BY DEF Settles
  <1>2. \A a \in Address : memory'[a] = mid[a] \/ memory'[a] = Gone
    BY <1>1
  <1>3. QED BY <1>2 DEF Moves

LEMMA StaysMoves == ASSUME Sound, UNCHANGED memory PROVE Moves(memory, memory')
  BY SoundStands DEF Moves

LEMMA BlockLaid ==
    ASSUME Sound, NEW a \in Unused, NEW block \in Blocks, \A b \in Parts(block) : BlockAt(b, memory)
    PROVE  Lays(memory, [memory EXCEPT ![a] = block])
  <1> DEFINE mid == [memory EXCEPT ![a] = block]
  <1>1. a \in Address /\ memory[a] = Gone
    BY DEF Unused
  <1>2. Writes(memory, mid)
    BY <1>1, SoundWrites, BlockWritten
  <1>3. mid[a] = block /\ \A b \in Address : b # a => mid[b] = memory[b]
    BY <1>1 DEF Sound, Memories
  <1> HIDE DEF mid
  <1>4. \A b \in Parts(block) : b \in Occupied(memory)
    BY GoneIsNoBlock DEF BlockAt, Occupied
  <1>5. Standing(memory)
    BY SoundStands
  <1>6. ASSUME NEW b \in Occupied(mid) PROVE Parts(mid[b]) \in SUBSET Occupied(memory)
    <2>1. CASE b = a
      BY <1>3, <1>4, <2>1
    <2>2. CASE b # a
      BY <1>3, <1>5, <1>6, <2>2 DEF Occupied, Standing
    <2>3. QED BY <2>1, <2>2
  <1>7. QED BY <1>2, <1>6 DEF Lays, mid

LEMMA TableLaid ==
    ASSUME Sound, NEW a \in Unused, NEW words \in Language
    PROVE  Lays(memory, [memory EXCEPT ![a] = Table(words)])
  BY BlockLaid, TablesAreBlocks

LEMMA InternMoves == ASSUME Sound, NEW t \in Thread, Intern(t) PROVE Moves(memory, memory')
  <1>1. ASSUME NEW x, NEW l, Ask(t, x, l) PROVE Moves(memory, memory')
    BY <1>1, StaysMoves DEF Ask
  <1>2. CASE Probe(t)
    BY <1>2, StaysMoves DEF Probe
  <1>3. CASE Hit(t) \/ Differs(t)
    BY <1>3, SoundStands, SettlesMoves DEF Hit, Differs
  <1>4. CASE Miss(t)
    <2> DEFINE node == calls[t].node
    <2>1. PICK a \in Unused : Settles([memory EXCEPT ![a] = node])
      BY <1>4 DEF Miss
    <2>2. CallWell(calls[t], memory) /\ calls[t].at # "idle"
      BY <1>4 DEF Miss, Sound, Well, CallsWell
    <2>3. node \in Blocks /\ \A b \in Parts(node) : BlockAt(b, memory)
      BY <2>2, GoneIsNoBlock DEF CallWell
    <2> HIDE DEF node
    <2>4. QED BY <2>1, <2>3, BlockLaid, SettlesMoves
  <1>5. QED BY <1>1, <1>2, <1>3, <1>4 DEF Intern

(* A step of the languages writes the table of one, or nothing.            *)
WritesTable ==
    \/ UNCHANGED memory
    \/ Settles(memory)
    \/ \E a \in Unused, words \in Language : Settles([memory EXCEPT ![a] = Table(words)])

LEMMA RelateWrites ==
    ASSUME Sound, NEW t \in Thread, program.registers \in SUBSET Register, program.texts \in SUBSET Text,
           Relate(t)
    PROVE  WritesTable
  <1>1. Settles(memory) => WritesTable
    BY DEF WritesTable
  <1>2. ASSUME NEW a \in Unused, NEW words \in Language, Settles([memory EXCEPT ![a] = Table(words)])
        PROVE  WritesTable
    BY <1>2 DEF WritesTable
  <1>3. ASSUME NEW r \in Register, NEW text \in Text, Compile(t, r, text) PROVE WritesTable
    <2>1. CASE CompiledAgain(t, r, text)
      BY <1>1, <2>1 DEF CompiledAgain
    <2>2. CASE CompiledAnew(t, r, text)
      <3>1. CASE Reads[text] = Refused
        BY <1>1, <2>2, <3>1 DEF CompiledAnew, KeepCompiled
      <3>2. CASE Reads[text] # Refused
        <4>1. Reads[text] \in Language
          BY <3>2, SharingBounds
        <4>2. PICK a \in Unused : Settles([memory EXCEPT ![a] = Table(Reads[text])])
          BY <2>2, <3>2 DEF CompiledAnew, KeepCompiled
        <4>3. QED BY <1>2, <4>1, <4>2
      <3>3. QED BY <3>1, <3>2
    <2>3. QED BY <1>3, <2>1, <2>2 DEF Compile
  <1>4. ASSUME NEW r \in Register, NEW s \in Register, Complement(t, r, s) PROVE WritesTable
    <2> DEFINE words == Word \ LanguageAt(sets[t][s])
    <2>1. words \in Language
      BY DEF Language
    <2>2. HandleAgain(t, r, words) \/ HandleAnew(t, r, words)
      BY <1>4 DEF Complement
    <2> HIDE DEF words
    <2>3. HandleAgain(t, r, words) => Settles(memory)
      BY DEF HandleAgain
    <2>4. HandleAnew(t, r, words) => \E a \in Unused : Settles([memory EXCEPT ![a] = Table(words)])
      BY DEF HandleAnew
    <2>5. QED BY <1>1, <1>2, <2>1, <2>2, <2>3, <2>4
  <1>5. ASSUME NEW r \in Register, NEW s \in Register, NEW union \in BOOLEAN, Product(t, r, s, union)
        PROVE  WritesTable
    <2> DEFINE words == Joined(union, LanguageAt(sets[t][r]), LanguageAt(sets[t][s]))
    <2>1. sets[t][r] # Nobody /\ sets[t][s] # Nobody
      BY <1>5 DEF Product
    <2>2. words \in Language
      BY <2>1, SoundWrites, Pairs, TableWords DEF Joined, Language
    <2>3. ProductAgain(t, r, s, union) => Settles(memory)
      BY DEF ProductAgain
    <2>4. ProductAnew(t, r, s, union) =>
            Settles(memory) \/ \E a \in Unused : Settles([memory EXCEPT ![a] = Table(words)])
      BY DEF ProductAnew, KeepProduct
    <2> HIDE DEF words
    <2>5. QED BY <1>1, <1>2, <1>5, <2>2, <2>3, <2>4 DEF Product
  <1>6. ASSUME NEW r \in Register, LetGo(t, r) PROVE WritesTable
    BY <1>1, <1>6 DEF LetGo
  <1>7. CASE Lower(t)
    BY <1>7 DEF Lower, WritesTable
  <1>8. QED BY <1>3, <1>4, <1>5, <1>6, <1>7 DEF Relate

LEMMA RelateMoves == ASSUME Sound, WritesTable PROVE Moves(memory, memory')
  <1>1. CASE UNCHANGED memory
    BY <1>1, StaysMoves
  <1>2. CASE Settles(memory)
    BY <1>2, SoundStands, SettlesMoves
  <1>3. ASSUME NEW a \in Unused, NEW words \in Language, Settles([memory EXCEPT ![a] = Table(words)])
        PROVE  Moves(memory, memory')
    BY <1>3, TableLaid, SettlesMoves
  <1>4. QED BY <1>1, <1>2, <1>3 DEF WritesTable

LEMMA NextMoves == Sound /\ [Next]_vars => Moves(memory, memory')
  <1> SUFFICES ASSUME Sound, [Next]_vars PROVE Moves(memory, memory')
    OBVIOUS
  <1>1. /\ program.threads \in SUBSET Thread /\ program.texts \in SUBSET Text
        /\ program.registers \in SUBSET Register
    BY ProgramsAreRun DEF Sound
  <1>2. ASSUME NEW t \in program.threads, Intern(t) \/ Relate(t) PROVE Moves(memory, memory')
    BY <1>1, <1>2, InternMoves, RelateWrites, RelateMoves
  <1>3. ASSUME NEW x, Drop(x) PROVE Moves(memory, memory')
    BY <1>3, SoundStands, SettlesMoves DEF Drop
  <1>4. CASE UNCHANGED vars
    BY <1>4, StaysMoves DEF vars
  <1>5. QED BY <1>2, <1>3, <1>4 DEF Next

-----------------------------------------------------------------------------
(* Interning implements what is promised: a call asks for a tree, and the  *)
(* step that ends it answers with a handle of that tree, found or made.    *)

Rests(cl)    == \A t \in Thread : cl[t].at = "idle" => cl[t] = Idle
WellGrounded == Sound /\ Grounded(memory) /\ Rests(calls)

LEMMA BlockThere ==
    ASSUME NEW a, NEW mem, BlockAt(a, mem)
    PROVE  a \in Occupied(mem) /\ a # Nobody
  BY GoneIsNoBlock, NobodyHasNoBlock DEF BlockAt, Occupied

LEMMA GrowsAlike ==
    ASSUME NEW mem, NEW now, Standing(mem), Standing(now), Moves(mem, now),
           NEW value \in Blocks, \A a \in Parts(value) : BlockAt(a, mem) /\ BlockAt(a, now)
    PROVE  Grows(now, value) = Grows(mem, value)
  <1> DEFINE ps == value.parts
  <1>1. \A i \in DOMAIN ps : ps[i] \in Parts(value)
    BY GoneIsNoBlock DEF Parts
  <1>2. \A i \in DOMAIN ps : TreeAt(now, ps[i]) = TreeAt(mem, ps[i])
    BY <1>1, BlockThere, TreesKept
  <1> HIDE DEF ps
  <1>3. [i \in DOMAIN ps |-> TreeAt(now, ps[i])] = [i \in DOMAIN ps |-> TreeAt(mem, ps[i])]
    BY <1>2
  <1>4. QED BY <1>3 DEF Grows, ps

(* A variable whose handle stays holds the tree it held.                   *)
LEMMA HandleMeans ==
    ASSUME NEW mem, NEW now, Standing(mem), Standing(now), Moves(mem, now),
           NEW hd, NEW hd2, HeldWell(hd, mem), HeldWell(hd2, now), NEW x \in Var, hd2[x] = hd[x]
    PROVE  TreesAt(now, hd2)[x] = TreesAt(mem, hd)[x]
  <1>1. CASE hd[x] = Nobody
    BY <1>1 DEF TreesAt
  <1>2. CASE hd[x] # Nobody
    <2>1. hd[x] \in Occupied(mem) /\ hd[x] \in Occupied(now)
      BY <1>2, BlockThere DEF HeldWell
    <2>2. TreeAt(now, hd[x]) = TreeAt(mem, hd[x])
      BY <2>1, TreesKept
    <2>3. QED BY <1>2, <2>2 DEF TreesAt
  <1>3. QED BY <1>1, <1>2

(* A call that goes on, or is not stepped, asks for the tree it asked for. *)
LEMMA CallMeans ==
    ASSUME NEW mem, NEW now, Standing(mem), Standing(now), Moves(mem, now),
           NEW call, NEW call2, CallWell(call, mem), CallWell(call2, now),
           call2.into = call.into, call2.node = call.node,
           (call = Idle /\ call2 = Idle) \/ (call.at # "idle" /\ call2.at # "idle")
    PROVE  Making(now, call2) = Making(mem, call)
  <1>1. CASE call = Idle /\ call2 = Idle
    BY <1>1 DEF Making
  <1>2. CASE call.at # "idle" /\ call2.at # "idle"
    <2>1. call # Idle /\ call2 # Idle
      BY <1>2 DEF Idle
    <2>2. call.node \in Blocks
          /\ \A a \in Parts(call.node) : BlockAt(a, mem) /\ BlockAt(a, now)
      BY <1>2, GoneIsNoBlock DEF CallWell
    <2>3. Grows(now, call.node) = Grows(mem, call.node)
      BY <2>2, GrowsAlike
    <2>4. QED BY <2>1, <2>3 DEF Making, Grows
  <1>3. QED BY <1>1, <1>2

(* What a step leaves of the two, for the variables and the calls it does  *)
(* not touch.                                                              *)
Stands(hd, cl, mem) == Standing(mem) /\ HeldWell(hd, mem) /\ CallsWell(cl, mem)

AsksAt(mem, cl) == [t \in Thread |-> Making(mem, cl[t])]

Keeps(hd, hd2, cl, cl2, mem, now) ==
    /\ \A x \in Var : hd2[x] = hd[x] => TreesAt(now, hd2)[x] = TreesAt(mem, hd)[x]
    /\ \A t \in Thread : cl2[t] = cl[t] => AsksAt(now, cl2)[t] = AsksAt(mem, cl)[t]

Passes(hd, hd2, cl, cl2, mem, now) ==
    Stands(hd, cl, mem) /\ Stands(hd2, cl2, now) /\ Moves(mem, now) /\ Rests(cl)

LEMMA StepsKeep ==
    ASSUME NEW mem, NEW now, NEW hd, NEW hd2, NEW cl, NEW cl2, Passes(hd, hd2, cl, cl2, mem, now)
    PROVE  Keeps(hd, hd2, cl, cl2, mem, now)
  <1>1. ASSUME NEW x \in Var, hd2[x] = hd[x] PROVE TreesAt(now, hd2)[x] = TreesAt(mem, hd)[x]
    BY <1>1, HandleMeans DEF Passes, Stands
  <1>2. ASSUME NEW t \in Thread, cl2[t] = cl[t] PROVE AsksAt(now, cl2)[t] = AsksAt(mem, cl)[t]
    <2>1. CallWell(cl[t], mem) /\ CallWell(cl2[t], now) /\ (cl[t].at = "idle" => cl[t] = Idle)
      BY DEF Passes, Stands, CallsWell, Rests
    <2>2. Standing(mem) /\ Standing(now) /\ Moves(mem, now)
      BY DEF Passes, Stands
    <2> DEFINE call == cl[t]
    <2>3. /\ cl2[t] = call /\ CallWell(call, mem) /\ CallWell(call, now)
          /\ call = Idle \/ call.at # "idle"
      BY <1>2, <2>1
    <2> HIDE DEF call
    <2>4. Making(now, call) = Making(mem, call)
      BY <2>2, <2>3, CallMeans
    <2>5. QED BY <2>3, <2>4 DEF AsksAt, call
  <1>3. QED BY <1>1, <1>2 DEF Keeps

(* Those that touch neither are a stutter.                                 *)
LEMMA NothingChanges ==
    ASSUME NEW mem, NEW now, NEW hd, NEW cl, Stands(hd, cl, mem), Stands(hd, cl, now), Moves(mem, now), Rests(cl)
    PROVE  TreesAt(now, hd) = TreesAt(mem, hd) /\ AsksAt(now, cl) = AsksAt(mem, cl)
  <1>1. /\ \A x \in Var : TreesAt(now, hd)[x] = TreesAt(mem, hd)[x]
        /\ \A t \in Thread : AsksAt(now, cl)[t] = AsksAt(mem, cl)[t]
    BY StepsKeep DEF Keeps, Passes
  <1>2. /\ TreesAt(now, hd) = [x \in Var |-> TreesAt(now, hd)[x]]
        /\ TreesAt(mem, hd) = [x \in Var |-> TreesAt(mem, hd)[x]]
        /\ AsksAt(now, cl) = [t \in Thread |-> AsksAt(now, cl)[t]]
        /\ AsksAt(mem, cl) = [t \in Thread |-> AsksAt(mem, cl)[t]]
    BY DEF TreesAt, AsksAt
  <1>3. QED BY <1>1, <1>2

Becomes(g, f, x, value) == g = [f EXCEPT ![x] = value]

(* A variable takes the handle a call ends with, or lets go of its own.    *)
LEMMA VariableTakes ==
    ASSUME NEW mem, NEW now, NEW hd, NEW hd2, NEW cl, NEW cl2,
           Passes(hd, hd2, cl, cl2, mem, now),
           NEW x \in Var, NEW a, Becomes(hd2, hd, x, a)
    PROVE  Becomes(TreesAt(now, hd2), TreesAt(mem, hd), x, IF a = Nobody THEN <<>> ELSE <<TreeAt(now, a)>>)
  <1> DEFINE one == TreesAt(mem, hd)
             two == TreesAt(now, hd2)
             z   == IF a = Nobody THEN <<>> ELSE <<TreeAt(now, a)>>
  <1>1. hd \in [Var -> Handles]
    BY DEF Passes, Stands, HeldWell
  <1>2. hd2[x] = a /\ \A y \in Var : y # x => hd2[y] = hd[y]
    BY <1>1 DEF Becomes
  <1>3. two[x] = z
    BY <1>2 DEF TreesAt
  <1>4. \A y \in Var : y # x => two[y] = one[y]
    <2>1. Keeps(hd, hd2, cl, cl2, mem, now)
      BY StepsKeep
    <2>2. QED BY <1>2, <2>1 DEF Keeps
  <1>5. one = [y \in Var |-> one[y]] /\ two = [y \in Var |-> two[y]]
    BY DEF TreesAt
  <1> HIDE DEF one, two, z
  <1>6. two = [one EXCEPT ![x] = z]
    BY <1>3, <1>4, <1>5
  <1>7. QED BY <1>6 DEF Becomes, one, two, z

(* A call begins, ends or goes on.                                         *)
LEMMA CallTakes ==
    ASSUME NEW mem, NEW now, NEW hd, NEW hd2, NEW cl, NEW cl2,
           Passes(hd, hd2, cl, cl2, mem, now),
           NEW t \in Thread, NEW call, Becomes(cl2, cl, t, call)
    PROVE  Becomes(AsksAt(now, cl2), AsksAt(mem, cl), t, Making(now, call))
  <1> DEFINE one == AsksAt(mem, cl)
             two == AsksAt(now, cl2)
             z   == Making(now, call)
  <1>1. cl \in [Thread -> Calls]
    BY DEF Passes, Stands, CallsWell
  <1>2. cl2[t] = call /\ \A u \in Thread : u # t => cl2[u] = cl[u]
    BY <1>1 DEF Becomes
  <1>3. two[t] = z
    BY <1>2 DEF AsksAt
  <1>4. \A u \in Thread : u # t => two[u] = one[u]
    <2>1. Keeps(hd, hd2, cl, cl2, mem, now)
      BY StepsKeep
    <2>2. QED BY <1>2, <2>1 DEF Keeps
  <1>5. one = [u \in Thread |-> one[u]] /\ two = [u \in Thread |-> two[u]]
    BY DEF AsksAt
  <1> HIDE DEF one, two, z
  <1>6. two = [one EXCEPT ![t] = z]
    BY <1>3, <1>4, <1>5
  <1>7. QED BY <1>6 DEF Becomes, one, two, z

LEMMA MeansAre ==
    /\ Means = TreesAt(memory, held) /\ Means' = TreesAt(memory', held')
    /\ Asks = AsksAt(memory, calls) /\ Asks' = AsksAt(memory', calls')
  BY DEF Means, Asks, AsksAt

LEMMA WellStands ==
    ASSUME WellGrounded, Sound', Moves(memory, memory')
    PROVE  /\ Passes(held, held', calls, calls', memory, memory')
           /\ Stands(held, calls, memory) /\ Stands(held', calls', memory') /\ Rests(calls)
           /\ Standing(memory) /\ Standing(memory') /\ Grounded(memory) /\ Grounded(memory')
  <1>1. Standing(memory) /\ Grounded(memory) /\ Rests(calls) /\ Sound
    BY SoundStands DEF WellGrounded
  <1>2. Standing(memory')
    <2>1. (Sound => Standing(memory))'
      BY SoundStands, PTL
    <2>2. QED BY <2>1
  <1>3. Grounded(memory')
    BY <1>1, <1>2, GroundedWhenMoved
  <1>4. QED BY <1>1, <1>2, <1>3 DEF Passes, Stands, Sound, Well

(* The same of the state: what the two are after a step that gives a       *)
(* variable a handle, or begins, ends or goes on with a call.              *)
LEMMA MeansTake ==
    ASSUME WellGrounded, Sound', Moves(memory, memory'),
           NEW x \in Var, NEW a, held' = [held EXCEPT ![x] = a]
    PROVE  Becomes(Means', Means, x, IF a = Nobody THEN <<>> ELSE <<TreeAt(memory', a)>>)
  <1>1. Passes(held, held', calls, calls', memory, memory') /\ Becomes(held', held, x, a)
    BY WellStands DEF Becomes
  <1>2. Becomes(TreesAt(memory', held'), TreesAt(memory, held), x,
                IF a = Nobody THEN <<>> ELSE <<TreeAt(memory', a)>>)
    BY <1>1, VariableTakes
  <1>3. QED BY <1>2, MeansAre

LEMMA AsksTake ==
    ASSUME WellGrounded, Sound', Moves(memory, memory'),
           NEW t \in Thread, NEW call, calls' = [calls EXCEPT ![t] = call]
    PROVE  Becomes(Asks', Asks, t, Making(memory', call))
  <1>1. Passes(held, held', calls, calls', memory, memory') /\ Becomes(calls', calls, t, call)
    BY WellStands DEF Becomes
  <1>2. Becomes(AsksAt(memory', calls'), AsksAt(memory, calls), t, Making(memory', call))
    BY <1>1, CallTakes
  <1>3. QED BY <1>2, MeansAre

LEMMA InitPromises == Init => Promise!Init
  <1> SUFFICES ASSUME Init PROVE Promise!Init
    OBVIOUS
  <1>1. Means = [x \in Var |-> <<>>]
    BY DEF Init, Means, TreesAt
  <1>2. Asks = [t \in Thread |-> <<>>]
    BY DEF Init, Asks, Making
  <1>3. QED BY <1>1, <1>2 DEF Promise!Init

LEMMA AskPromised ==
    ASSUME WellGrounded, Sound', Moves(memory, memory'),
           NEW t \in Thread, NEW x \in Var, NEW l \in Label, Ask(t, x, l)
    PROVE  Promise!Ask(t, x, l)
  <1>1. PICK of \in [1 .. Arity[l] -> {y \in program.vars : held[y] # Nobody}] :
          calls' = [calls EXCEPT ![t] =
                     [at |-> "probing", into |-> x, node |-> Node(l, [i \in DOMAIN of |-> held[of[i]]]),
                      found |-> Nobody]]
    BY DEF Ask
  <1> DEFINE ps   == [i \in DOMAIN of |-> held[of[i]]]
             call == [at |-> "probing", into |-> x, node |-> Node(l, ps), found |-> Nobody]
             tree == [label |-> l, parts |-> [i \in DOMAIN of |-> Means[of[i]][1]]]
  <1>2. program.vars \in SUBSET Var
    BY ProgramsAreRun DEF WellGrounded, Sound
  <1>3. \A y \in Var : held[y] # Nobody => Means[y] # <<>> /\ Means[y][1] = TreeAt(memory, held[y])
    BY DEF Means, TreesAt
  <1>4. of \in [1 .. Arity[l] -> {y \in Var : Means[y] # <<>>}]
    BY <1>2, <1>3
  <1>5. \A i \in DOMAIN of : of[i] \in Var /\ held[of[i]] # Nobody
    BY <1>2
  <1>6. Making(memory', call) = <<[into |-> x, tree |-> tree]>>
    <2>1. memory' = memory
      BY DEF Ask
    <2>2. call # Idle /\ call.into = x /\ call.node.label = l /\ call.node.parts = ps
      BY DEF Idle, Node
    <2>3. DOMAIN ps = DOMAIN of
          /\ \A i \in DOMAIN of : ps[i] = held[of[i]]
      OBVIOUS
    <2> HIDE DEF ps, call
    <2>4. [i \in DOMAIN ps |-> TreeAt(memory, ps[i])] = [i \in DOMAIN of |-> Means[of[i]][1]]
      BY <1>3, <1>5, <2>3
    <2>5. QED BY <2>1, <2>2, <2>4 DEF Making
  <1>7. calls' = [calls EXCEPT ![t] = call]
    BY <1>1
  <1> HIDE DEF call, tree, ps
  <1>8. Asks' = [Asks EXCEPT ![t] = <<[into |-> x, tree |-> tree]>>]
    BY <1>6, <1>7, AsksTake DEF Becomes
  <1>9. Asks[t] = <<>>
    BY DEF Ask, Asks, Making
  <1>10. Means' = Means
    BY DEF Ask, Means
  <1>11. QED BY <1>4, <1>8, <1>9, <1>10 DEF Promise!Ask, tree

(* A call that is not over asks for a tree still.                          *)
LEMMA CallAsks ==
    ASSUME Sound, NEW t \in Thread, calls[t].at # "idle"
    PROVE  /\ calls[t] # Idle /\ calls[t].into \in Var /\ calls[t].node \in Blocks
           /\ \A a \in Parts(calls[t].node) : BlockAt(a, memory)
           /\ Asks[t] = <<[into |-> calls[t].into, tree |-> Grows(memory, calls[t].node)]>>
  <1>1. CallWell(calls[t], memory) /\ calls[t] # Idle
    BY DEF Sound, Well, CallsWell, Idle
  <1>2. calls[t].into \in Var /\ calls[t].node \in Blocks
        /\ \A a \in Parts(calls[t].node) : BlockAt(a, memory)
    BY <1>1, GoneIsNoBlock DEF CallWell
  <1>3. Asks[t] = Making(memory, calls[t])
    BY DEF Asks
  <1>4. QED BY <1>1, <1>2, <1>3 DEF Making, Grows

(* A call answered: its variable has the tree asked for.                   *)
LEMMA HandsPromised ==
    ASSUME WellGrounded, Sound', Moves(memory, memory'),
           NEW t \in Thread, calls[t].at # "idle",
           NEW a \in Address, Hands(t, a), memory'[a] = calls[t].node
    PROVE  Promise!Answer(t)
  <1> DEFINE x    == calls[t].into
             node == calls[t].node
             tree == Grows(memory, node)
  <1>1. x \in Var /\ node \in Blocks /\ (\A b \in Parts(node) : BlockAt(b, memory))
        /\ Asks[t] = <<[into |-> x, tree |-> tree]>>
    BY CallAsks DEF WellGrounded
  <1>2. a \in Occupied(memory') /\ a # Nobody
    BY <1>1, GoneIsNoBlock, NobodyHasNoBlock DEF Occupied
  <1>3. TreeAt(memory', a) = Grows(memory', node)
    BY <1>2, WellStands, TreeGrows
  <1>4. \A b \in Parts(node) : BlockAt(b, memory')
    <2>1. Parts(node) \in SUBSET Occupied(memory')
      BY <1>2, WellStands DEF Standing
    <2>2. QED BY <2>1, WellStands DEF Standing, Occupied, Memories, BlockAt
  <1>5. Grows(memory', node) = tree
    BY <1>1, <1>4, WellStands, GrowsAlike
  <1>6. held' = [held EXCEPT ![x] = a] /\ calls' = [calls EXCEPT ![t] = Idle]
    BY DEF Hands
  <1> HIDE DEF x, node, tree
  <1>7. Means' = [Means EXCEPT ![x] = <<tree>>]
    <2>1. Becomes(Means', Means, x, IF a = Nobody THEN <<>> ELSE <<TreeAt(memory', a)>>)
      BY <1>1, <1>6, MeansTake
    <2>2. TreeAt(memory', a) = tree
      BY <1>3, <1>5
    <2>3. Becomes(Means', Means, x, <<tree>>)
      BY <1>2, <2>1, <2>2
    <2>4. QED BY <2>3 DEF Becomes
  <1>8. Asks' = [Asks EXCEPT ![t] = <<>>]
    <2>1. Making(memory', Idle) = <<>>
      BY DEF Making
    <2>2. QED BY <1>6, <2>1, AsksTake DEF Becomes
  <1>9. Asks[t] # <<>> /\ Asks[t][1].into = x /\ Asks[t][1].tree = tree
    BY <1>1
  <1>10. QED BY <1>7, <1>8, <1>9 DEF Promise!Answer

LEMMA HitPromised ==
    ASSUME WellGrounded, Sound', Moves(memory, memory'), NEW t \in Thread, Hit(t)
    PROVE  Promise!Answer(t)
  <1> DEFINE a == calls[t].found
  <1>1. calls[t].at = "comparing" /\ memory[a] = calls[t].node /\ Hands(t, a)
    BY DEF Hit, SameNode
  <1>2. BlockAt(a, memory) /\ a \in Address /\ a # Nobody /\ calls[t].into \in Var
        /\ held \in [Var -> Handles]
    BY <1>1, CallAsks DEF WellGrounded, Sound, Well, CallsWell, CallWell, BlockAt, HeldWell
  <1>3. held'[calls[t].into] = a
    BY <1>1, <1>2 DEF Hands
  <1>4. BlockAt(a, memory')
    BY <1>2, <1>3, WellStands DEF Stands, HeldWell
  <1>5. memory'[a] = memory[a]
    BY <1>2, <1>4, GoneIsNoBlock DEF Moves, Lays, Writes, Occupied, BlockAt
  <1>6. QED BY <1>1, <1>2, <1>5, HandsPromised

LEMMA MissPromised ==
    ASSUME WellGrounded, Sound', Moves(memory, memory'), NEW t \in Thread, Miss(t)
    PROVE  Promise!Answer(t)
  <1>1. PICK a \in Unused : Hands(t, a) /\ Settles([memory EXCEPT ![a] = calls[t].node])
    BY DEF Miss
  <1>2. a \in Address /\ a # Nobody /\ calls[t].at # "idle" /\ calls[t].into \in Var
        /\ held \in [Var -> Handles] /\ memory \in Memories
    BY NobodyHasNoBlock, CallAsks DEF Miss, Unused, WellGrounded, Sound, Well, HeldWell
  <1>3. held'[calls[t].into] = a
    BY <1>1, <1>2 DEF Hands
  <1>4. BlockAt(a, memory')
    BY <1>2, <1>3, WellStands DEF Stands, HeldWell
  <1>5. memory'[a] = calls[t].node
    BY <1>1, <1>2, <1>4, GoneIsNoBlock DEF Settles, Memories, BlockAt
  <1>6. QED BY <1>1, <1>2, <1>5, HandsPromised

LEMMA DropPromised ==
    ASSUME WellGrounded, Sound', Moves(memory, memory'), NEW x \in Var, Drop(x)
    PROVE  Promise!Drop(x)
  <1>1. Means' = [Means EXCEPT ![x] = <<>>]
    BY MeansTake DEF Drop, Becomes
  <1>2. calls' = calls
    BY DEF Drop
  <1>3. Asks' = Asks
    <2>1. \A t \in Thread : AsksAt(memory', calls')[t] = AsksAt(memory, calls)[t]
      BY <1>2, WellStands, StepsKeep DEF Keeps
    <2>2. QED BY <2>1, MeansAre DEF AsksAt
  <1>4. QED BY <1>1, <1>3 DEF Promise!Drop

(* The rest is a stutter: a block found, compared, or not looked at.       *)
LEMMA GoingOnPromised ==
    ASSUME WellGrounded, Sound', Moves(memory, memory'), held' = held, NEW t \in Thread,
           calls[t].at # "idle", NEW at, at # "idle", NEW found, calls' = GoesOn(calls, t, at, found)
    PROVE  UNCHANGED <<Means, Asks>>
  <1> DEFINE call == [calls[t] EXCEPT !.at = at, !.found = found]
  <1>1. calls \in [Thread -> Calls]
    BY DEF WellGrounded, Sound, Well, CallsWell
  <1>2. calls' = [calls EXCEPT ![t] = call]
        /\ call.at = at /\ call.into = calls[t].into /\ call.node = calls[t].node
    BY <1>1 DEF Calls, GoesOn
  <1> HIDE DEF call
  <1>3. Asks' = [Asks EXCEPT ![t] = Making(memory', call)]
    BY <1>2, AsksTake DEF Becomes
  <1>4. Making(memory', call) = Asks[t]
    <2>1. calls'[t] = call
      BY <1>1, <1>2
    <2>2. CallWell(calls[t], memory) /\ CallWell(call, memory') /\ Standing(memory) /\ Standing(memory')
      BY <2>1, WellStands DEF Stands, CallsWell
    <2>3. call.at # "idle" /\ call.into = calls[t].into /\ call.node = calls[t].node
      BY <1>2
    <2>4. Making(memory', call) = Making(memory, calls[t])
      BY <2>2, <2>3, CallMeans
    <2>5. QED BY <2>4 DEF Asks
  <1>5. Asks' = Asks
    BY <1>3, <1>4 DEF Asks
  <1>6. Means' = Means
    <2>1. \A x \in Var : TreesAt(memory', held')[x] = TreesAt(memory, held)[x]
      BY WellStands, StepsKeep DEF Keeps
    <2>2. QED BY <2>1, MeansAre DEF TreesAt
  <1>7. QED BY <1>5, <1>6

LEMMA OthersPromised ==
    ASSUME WellGrounded, Sound', Moves(memory, memory'), held' = held, calls' = calls
    PROVE  UNCHANGED <<Means, Asks>>
  <1>1. Stands(held, calls, memory') /\ Stands(held, calls, memory) /\ Rests(calls)
    BY WellStands
  <1>2. TreesAt(memory', held) = TreesAt(memory, held) /\ AsksAt(memory', calls) = AsksAt(memory, calls)
    BY <1>1, NothingChanges
  <1>3. QED BY <1>2, MeansAre

(* Languages are made and let go without a word to the nodes.              *)
LEMMA RelateOnly == ASSUME NEW t, Relate(t) PROVE UNCHANGED <<program, nodes>>
  <1>1. ASSUME NEW r, NEW text, Compile(t, r, text) PROVE UNCHANGED <<program, nodes>>
    BY <1>1 DEF Compile, CompiledAgain, CompiledAnew, KeepCompiled
  <1>2. ASSUME NEW r, NEW s, Complement(t, r, s) PROVE UNCHANGED <<program, nodes>>
    <2>1. ASSUME NEW words, HandleAgain(t, r, words) \/ HandleAnew(t, r, words) PROVE UNCHANGED <<program, nodes>>
      BY <2>1 DEF HandleAgain, HandleAnew
    <2>2. QED BY <1>2, <2>1 DEF Complement
  <1>3. ASSUME NEW r, NEW s, NEW union, Product(t, r, s, union) PROVE UNCHANGED <<program, nodes>>
    <2>1. ProductAgain(t, r, s, union) => UNCHANGED <<program, nodes>>
      BY DEF ProductAgain
    <2>2. ASSUME NEW a, NEW mem, KeepProduct(t, r, s, union, a, mem) PROVE UNCHANGED <<program, nodes>>
      BY <2>2 DEF KeepProduct
    <2>3. ProductAnew(t, r, s, union) => UNCHANGED <<program, nodes>>
      BY <2>2 DEF ProductAnew
    <2>4. QED BY <1>3, <2>1, <2>3 DEF Product
  <1>4. ASSUME NEW r, LetGo(t, r) PROVE UNCHANGED <<program, nodes>>
    BY <1>4 DEF LetGo
  <1>5. CASE Lower(t)
    BY <1>5 DEF Lower
  <1>6. QED BY <1>1, <1>2, <1>3, <1>4, <1>5 DEF Relate

LEMMA RestsStep == Sound /\ Rests(calls) /\ [Next]_vars => Rests(calls')
  <1> SUFFICES ASSUME Sound, Rests(calls), [Next]_vars PROVE Rests(calls')
    OBVIOUS
  <1>1. calls \in [Thread -> Calls]
    BY DEF Sound, Well, CallsWell
  <1>2. ASSUME NEW t, NEW call, call.at # "idle" \/ call = Idle, calls' = [calls EXCEPT ![t] = call]
        PROVE  Rests(calls')
    BY <1>1, <1>2 DEF Rests
  <1>3. ASSUME NEW t, NEW x, NEW l, Ask(t, x, l) PROVE Rests(calls')
    <2>1. PICK node : calls' = [calls EXCEPT ![t] = [at |-> "probing", into |-> x, node |-> node,
                                                     found |-> Nobody]]
      BY <1>3 DEF Ask
    <2>2. QED BY <1>2, <2>1
  <1>4. ASSUME NEW t \in Thread, NEW at, at # "idle", NEW found, calls' = GoesOn(calls, t, at, found)
        PROVE  Rests(calls')
    <2> DEFINE call == [calls[t] EXCEPT !.at = at, !.found = found]
    <2>1. calls' = [calls EXCEPT ![t] = call] /\ call.at = at
      BY <1>1, <1>4 DEF Calls, GoesOn
    <2> HIDE DEF call
    <2>2. QED BY <1>2, <1>4, <2>1
  <1>5. ASSUME NEW t \in Thread, Intern(t) PROVE Rests(calls')
    <2>1. CASE Probe(t)
      <3>1. PICK a : calls' = GoesOn(calls, t, "comparing", a)
        BY <2>1 DEF Probe, GoesOn
      <3>2. QED BY <1>4, <3>1
    <2>2. CASE Hit(t) \/ Miss(t)
      BY <1>2, <2>2 DEF Hit, Miss, Hands
    <2>3. CASE Differs(t)
      <3>1. calls' = GoesOn(calls, t, "missed", Nobody)
        BY <2>3 DEF Differs, GoesOn
      <3>2. QED BY <1>4, <3>1
    <2>4. QED BY <1>3, <1>5, <2>1, <2>2, <2>3 DEF Intern
  <1>6. ASSUME NEW t, Relate(t) PROVE calls' = calls
    BY <1>6, RelateOnly DEF nodes
  <1>7. ASSUME NEW x, Drop(x) PROVE calls' = calls
    BY <1>7 DEF Drop
  <1>8. program.threads \in SUBSET Thread
    BY ProgramsAreRun DEF Sound
  <1>9. QED BY <1>5, <1>6, <1>7, <1>8 DEF Next, vars, nodes

LEMMA InitGrounded == Init => WellGrounded
  <1> SUFFICES ASSUME Init PROVE WellGrounded
    OBVIOUS
  <1>1. Occupied(memory) = {}
    BY DEF Init, Occupied
  <1>2. QED BY <1>1, InitSound DEF Init, WellGrounded, Grounded, Rests

LEMMA NextGrounded == WellGrounded /\ [Next]_vars => WellGrounded'
  <1> SUFFICES ASSUME WellGrounded, [Next]_vars PROVE WellGrounded'
    OBVIOUS
  <1>1. Sound' /\ Moves(memory, memory') /\ Rests(calls')
    BY NextSound, NextMoves, RestsStep DEF WellGrounded
  <1>2. Grounded(memory')
    BY <1>1, WellStands
  <1>3. QED BY <1>1, <1>2 DEF WellGrounded, Rests, Grounded

(* A step that makes languages, or drops nothing of a node, changes no     *)
(* tree: it is no step of what is promised.                                *)
LEMMA NextPromised == WellGrounded /\ [Next]_vars => [Promise!Next]_<<Means, Asks>>
  <1> SUFFICES ASSUME WellGrounded, [Next]_vars PROVE [Promise!Next]_<<Means, Asks>>
    OBVIOUS
  <1>1. Sound' /\ Moves(memory, memory')
    BY NextSound, NextMoves DEF WellGrounded
  <1>2. /\ program.threads \in SUBSET Thread /\ program.vars \in SUBSET Var
        /\ program.labels \in SUBSET Label
    BY ProgramsAreRun DEF WellGrounded, Sound
  <1>3. ASSUME NEW t \in Thread, Promise!Answer(t) PROVE Promise!Next
    BY <1>3 DEF Promise!Next
  <1>4. ASSUME NEW t \in program.threads, Intern(t) PROVE [Promise!Next]_<<Means, Asks>>
    <2>1. ASSUME NEW x \in program.vars, NEW l \in program.labels, Ask(t, x, l) PROVE Promise!Next
      <3>1. Promise!Ask(t, x, l)
        BY <1>1, <1>2, <2>1, AskPromised
      <3>2. QED BY <1>2, <3>1 DEF Promise!Next
    <2>2. CASE Hit(t)
      BY <1>1, <1>2, <1>3, <2>2, HitPromised
    <2>3. CASE Miss(t)
      BY <1>1, <1>2, <1>3, <2>3, MissPromised
    <2>4. CASE Probe(t)
      <3>1. PICK a : calls' = GoesOn(calls, t, "comparing", a)
        BY <2>4 DEF Probe, GoesOn
      <3>2. held' = held /\ calls[t].at # "idle"
        BY <2>4 DEF Probe
      <3>3. UNCHANGED <<Means, Asks>>
        BY <1>1, <1>2, <3>1, <3>2, GoingOnPromised
      <3>4. QED BY <3>3
    <2>5. CASE Differs(t)
      <3>1. calls' = GoesOn(calls, t, "missed", Nobody)
        BY <2>5 DEF Differs, GoesOn
      <3>2. held' = held /\ calls[t].at # "idle"
        BY <2>5 DEF Differs
      <3>3. UNCHANGED <<Means, Asks>>
        BY <1>1, <1>2, <3>1, <3>2, GoingOnPromised
      <3>4. QED BY <3>3
    <2>6. QED BY <1>4, <2>1, <2>2, <2>3, <2>4, <2>5 DEF Intern
  <1>5. ASSUME NEW t, Relate(t) PROVE [Promise!Next]_<<Means, Asks>>
    <2>1. held' = held /\ calls' = calls
      BY <1>5, RelateOnly DEF nodes
    <2>2. UNCHANGED <<Means, Asks>>
      BY <1>1, <2>1, OthersPromised
    <2>3. QED BY <2>2
  <1>6. ASSUME NEW x \in program.vars, Drop(x) PROVE Promise!Next
    <2>1. Promise!Drop(x)
      BY <1>1, <1>2, <1>6, DropPromised
    <2>2. QED BY <1>2, <2>1 DEF Promise!Next
  <1>7. CASE UNCHANGED vars
    <2>1. held' = held /\ calls' = calls
      BY <1>7 DEF vars, nodes
    <2>2. UNCHANGED <<Means, Asks>>
      BY <1>1, <2>1, OthersPromised
    <2>3. QED BY <2>2
  <1>8. QED BY <1>4, <1>5, <1>6, <1>7 DEF Next

(* No block is in itself, and a call that is over is of nothing.           *)
THEOREM BlocksGrounded == Spec => []WellGrounded
  <1>1. Init => WellGrounded
    BY InitGrounded
  <1>2. WellGrounded /\ [Next]_vars => WellGrounded'
    BY NextGrounded
  <1>3. QED BY <1>1, <1>2, PTL DEF Spec

(* A handle stands for the schema it was asked for as long as it is held,  *)
(* whatever any thread drops and wherever the next block is written.       *)
THEOREM HandsThemBack == Spec => HandsWhatWasAsked
  <1>1. Init => Promise!Init
    BY InitPromises
  <1>2. WellGrounded /\ [Next]_vars => [Promise!Next]_<<Means, Asks>>
    BY NextPromised
  <1>3. QED BY <1>1, <1>2, BlocksGrounded, PTL DEF Spec, HandsWhatWasAsked, Promise!Spec

-----------------------------------------------------------------------------
(* Where no two nodes share a slot, what one thread made is found again:   *)
(* each slot names one block, which holds the node of the slot or nothing, *)
(* and all that a handle reaches is named.                                 *)

Interned(mem, en) == {a \in Address : mem[a] # Gone /\ \E e \in en : e.slot = mem[a] /\ e.block = a}

Names(mem, en) ==
    /\ \A e \in en : e.block \in Address /\ (mem[e.block] = Gone \/ mem[e.block] = e.slot)
    /\ \A e, f \in en : e.slot = f.slot => e = f
    /\ \A a \in Interned(mem, en) : Parts(mem[a]) \in SUBSET Interned(mem, en)

HeldBy(call) == Parts(call.node) \cup ({call.found} \ {Nobody})

Holding(mem, hd, call, en) ==
    /\ Names(mem, en)
    /\ HandlesIn(hd) \in SUBSET Interned(mem, en) /\ HeldBy(call) \in SUBSET Interned(mem, en)
    /\ call.at # "missed" /\ (call.at = "comparing" => mem[call.found] = call.node)

Once ==
    \A t \in Thread : program.exact /\ program.threads = {t} =>
                        Holding(memory, held, calls[t], slots[t])

\* Nothing named is written over.
Spares(mem, now, en) == \A e \in en : now[e.block] = mem[e.block] \/ now[e.block] = Gone

LEMMA NamesKept ==
    ASSUME NEW mem, NEW now, NEW en, Names(mem, en), Standing(now), Spares(mem, now, en)
    PROVE  /\ Names(now, en)
           /\ \A a \in Interned(mem, en) : a \in Occupied(now) => a \in Interned(now, en) /\ now[a] = mem[a]
  <1>1. ASSUME NEW a \in Interned(mem, en), a \in Occupied(now)
        PROVE  a \in Interned(now, en) /\ now[a] = mem[a]
    <2>1. PICK e \in en : e.slot = mem[a] /\ e.block = a
      BY DEF Interned
    <2>2. now[a] # Gone /\ a \in Address
      BY <1>1 DEF Occupied
    <2>3. now[a] = mem[a]
      BY <2>1, <2>2 DEF Spares
    <2>4. QED BY <2>1, <2>2, <2>3 DEF Interned
  <1>2. ASSUME NEW a \in Interned(now, en)
        PROVE  a \in Interned(mem, en) /\ now[a] = mem[a] /\ a \in Occupied(now)
    <2>1. PICK e \in en : e.slot = now[a] /\ e.block = a
      BY DEF Interned
    <2>2. now[a] # Gone /\ a \in Address
      BY DEF Interned
    <2>3. now[a] = mem[a]
      BY <2>1, <2>2 DEF Spares
    <2>4. QED BY <2>1, <2>2, <2>3 DEF Interned, Occupied
  <1>3. ASSUME NEW a \in Interned(now, en), NEW b \in Parts(now[a]) PROVE b \in Interned(now, en)
    <2>1. b \in Interned(mem, en)
      BY <1>2 DEF Names
    <2>2. b \in Occupied(now)
      BY <1>2 DEF Standing
    <2>3. QED BY <1>1, <2>1, <2>2
  <1>4. \A e \in en : e.block \in Address /\ (now[e.block] = Gone \/ now[e.block] = e.slot)
    BY DEF Names, Spares
  <1>5. QED BY <1>1, <1>3, <1>4 DEF Names

(* Naming the block of a node no living block of which is named.           *)
LEMMA NamesPut ==
    ASSUME NEW mem, NEW mid, NEW en, NEW en2, NEW a \in Address, NEW node \in Blocks,
           Names(mem, en), \A e \in en : e.block # a /\ (e.slot = node => mem[e.block] = Gone),
           mid[a] = node, \A b \in Address : b # a => mid[b] = mem[b],
           en2 = Put(en, [slot |-> node, block |-> a]),
           Parts(node) \in SUBSET Interned(mem, en)
    PROVE  Names(mid, en2) /\ Interned(mem, en) \in SUBSET Interned(mid, en2) /\ a \in Interned(mid, en2)
  <1> DEFINE entry == [slot |-> node, block |-> a]
  <1>1. \A e \in en2 : e = entry \/ (e \in en /\ e.slot # node)
    BY DEF Put
  <1>2. entry \in en2 /\ (\A e \in en : e.slot # node => e \in en2) /\ entry.slot = node /\ entry.block = a
    BY DEF Put
  <1> HIDE DEF entry
  <1>3. node # Gone
    BY GoneIsNoBlock
  <1>4. a \in Interned(mid, en2)
    BY <1>2, <1>3 DEF Interned
  <1>5. ASSUME NEW b \in Interned(mem, en) PROVE b \in Interned(mid, en2) /\ mid[b] = mem[b]
    <2>1. PICK e \in en : e.slot = mem[b] /\ e.block = b
      BY DEF Interned
    <2>2. b \in Address /\ mem[b] # Gone /\ b # a /\ e.slot # node
      BY <2>1 DEF Interned
    <2>3. QED BY <1>2, <2>1, <2>2 DEF Interned
  <1>6. ASSUME NEW b \in Interned(mid, en2), b # a PROVE b \in Interned(mem, en)
    <2>1. PICK e \in en2 : e.slot = mid[b] /\ e.block = b
      BY DEF Interned
    <2>2. e \in en /\ b \in Address /\ mid[b] # Gone /\ mid[b] = mem[b]
      BY <1>1, <1>2, <1>6, <2>1 DEF Interned
    <2>3. QED BY <2>1, <2>2 DEF Interned
  <1>7. \A b \in Interned(mid, en2) : Parts(mid[b]) \in SUBSET Interned(mid, en2)
    <2>1. ASSUME NEW b \in Interned(mid, en2), b # a PROVE Parts(mid[b]) \in SUBSET Interned(mid, en2)
      BY <1>5, <1>6, <2>1 DEF Names
    <2>2. Parts(mid[a]) \in SUBSET Interned(mid, en2)
      BY <1>5
    <2>3. QED BY <2>1, <2>2
  <1>8. \A e \in en2 : e.block \in Address /\ (mid[e.block] = Gone \/ mid[e.block] = e.slot)
    BY <1>1, <1>2 DEF Names
  <1>9. \A e, f \in en2 : e.slot = f.slot => e = f
    BY <1>1, <1>2 DEF Names
  <1>10. QED BY <1>4, <1>5, <1>7, <1>8, <1>9 DEF Names

(* What is held is of what was held, whatever else is dropped.             *)
HoldsNoOther(hd, hd2, call, call2, mem, now, en) ==
    /\ HeldWell(hd2, now) /\ CallWell(call2, now)
    /\ HandlesIn(hd2) \in SUBSET (HandlesIn(hd) \cup HeldBy(call))
    /\ HeldBy(call2) \in SUBSET Interned(mem, en)
    /\ call2.at # "missed" /\ (call2.at = "comparing" => mem[call2.found] = call2.node)

LEMMA HeldThere ==
    ASSUME NEW hd, NEW mem, HeldWell(hd, mem)
    PROVE  HandlesIn(hd) \in SUBSET Occupied(mem)
  BY BlockThere DEF HeldWell, HandlesIn

LEMMA CallThere ==
    ASSUME NEW call, NEW mem, CallWell(call, mem)
    PROVE  HeldBy(call) \in SUBSET Occupied(mem)
  <1>1. call.node # Gone => \A a \in Parts(call.node) : a \in Occupied(mem)
    BY BlockThere DEF CallWell
  <1>2. call.node = Gone => Parts(call.node) = {}
    BY DEF Parts
  <1>3. call.found # Nobody => call.found \in Occupied(mem)
    BY BlockThere DEF CallWell
  <1>4. QED BY <1>1, <1>2, <1>3 DEF HeldBy

LEMMA HoldingKept ==
    ASSUME NEW mem, NEW now, NEW hd, NEW hd2, NEW call, NEW call2, NEW en,
           Holding(mem, hd, call, en), Standing(now), Spares(mem, now, en),
           HoldsNoOther(hd, hd2, call, call2, mem, now, en)
    PROVE  Holding(now, hd2, call2, en)
  <1>1. /\ Names(now, en)
        /\ \A a \in Interned(mem, en) : a \in Occupied(now) => a \in Interned(now, en) /\ now[a] = mem[a]
    BY NamesKept DEF Holding
  <1>2. HandlesIn(hd2) \in SUBSET Interned(now, en)
    <2>1. HandlesIn(hd2) \in SUBSET Interned(mem, en)
      BY DEF Holding, HoldsNoOther
    <2>2. HandlesIn(hd2) \in SUBSET Occupied(now)
      BY HeldThere DEF HoldsNoOther
    <2>3. QED BY <1>1, <2>1, <2>2
  <1>3. HeldBy(call2) \in SUBSET Interned(now, en) /\ HeldBy(call2) \in SUBSET Occupied(now)
    <2>1. HeldBy(call2) \in SUBSET Occupied(now)
      BY CallThere DEF HoldsNoOther
    <2>2. QED BY <1>1, <2>1 DEF HoldsNoOther
  <1>4. ASSUME call2.at = "comparing" PROVE now[call2.found] = call2.node
    <2>1. call2.found \in HeldBy(call2)
      BY <1>4 DEF HoldsNoOther, CallWell, HeldBy
    <2>2. now[call2.found] = mem[call2.found]
      BY <1>1, <1>3, <2>1 DEF HoldsNoOther
    <2>3. QED BY <1>4, <2>2 DEF HoldsNoOther
  <1>5. QED BY <1>1, <1>2, <1>3, <1>4 DEF Holding, HoldsNoOther

(* The step of the one thread of a program that shares no slot.            *)
OneThread(t) == program.exact /\ program.threads = {t}

LEMMA SettlesSpares ==
    ASSUME NEW en, \A e \in en : e.block \in Address, NEW mid, Settles(mid),
           \A e \in en : mid[e.block] = memory[e.block]
    PROVE  Spares(memory, memory', en)
  BY DEF Settles, Spares

LEMMA OnceRelated ==
    ASSUME Sound, Sound', Standing(memory'), NEW t \in Thread,
           Holding(memory, held, calls[t], slots[t]), WritesTable, UNCHANGED nodes
    PROVE  Holding(memory', held', calls'[t], slots'[t])
  <1> DEFINE en == slots[t]
             call == calls[t]
  <1>1. \A e \in en : e.block \in Address
    BY DEF Sound, SlotsWell
  <1>2. Spares(memory, memory', en)
    <2>1. CASE UNCHANGED memory
      BY <2>1 DEF Spares
    <2>2. CASE Settles(memory)
      BY <1>1, <2>2, SettlesSpares
    <2>3. ASSUME NEW a \in Unused, NEW words, Settles([memory EXCEPT ![a] = Table(words)])
          PROVE  Spares(memory, memory', en)
      <3>1. a \in Address /\ \A e \in en : e.block # a
        BY DEF Unused, Named
      <3>2. \A e \in en : [memory EXCEPT ![a] = Table(words)][e.block] = memory[e.block]
        BY <1>1, <3>1 DEF Sound, Memories
      <3>3. QED BY <1>1, <2>3, <3>2, SettlesSpares
    <2>4. QED BY <2>1, <2>2, <2>3 DEF WritesTable
  <1>3. held' = held /\ calls'[t] = call /\ slots'[t] = en
    BY DEF nodes
  <1>4. HeldWell(held, memory') /\ CallWell(call, memory')
    BY <1>3 DEF Sound, Well, CallsWell
  <1>5. Holding(memory, held, call, en)
    OBVIOUS
  <1> HIDE DEF en, call
  <1>6. HoldsNoOther(held, held, call, call, memory, memory', en)
    BY <1>4, <1>5 DEF HoldsNoOther, Holding
  <1>7. Holding(memory', held, call, en)
    BY <1>2, <1>5, <1>6, HoldingKept
  <1>8. QED BY <1>3, <1>7

LEMMA OnceDropped ==
    ASSUME Sound, Sound', Standing(memory'), NEW t \in Thread,
           Holding(memory, held, calls[t], slots[t]), NEW x \in Var, Drop(x)
    PROVE  Holding(memory', held', calls'[t], slots'[t])
  <1> DEFINE en == slots[t]
             call == calls[t]
  <1>1. \A e \in en : e.block \in Address
    BY DEF Sound, SlotsWell
  <1>2. Spares(memory, memory', en)
    BY <1>1, SettlesSpares DEF Drop
  <1>3. held' = [held EXCEPT ![x] = Nobody] /\ calls'[t] = call /\ slots'[t] = en
        /\ held \in [Var -> Handles]
    BY DEF Drop, Sound, Well, HeldWell
  <1>4. HeldWell(held', memory') /\ CallWell(call, memory')
    BY <1>3 DEF Sound, Well, CallsWell
  <1>5. HandlesIn(held') \in SUBSET HandlesIn(held)
    BY <1>3 DEF HandlesIn
  <1>6. Holding(memory, held, call, en)
    OBVIOUS
  <1> HIDE DEF en, call
  <1>7. HoldsNoOther(held, held', call, call, memory, memory', en)
    BY <1>4, <1>5, <1>6 DEF HoldsNoOther, Holding
  <1>8. Holding(memory', held', call, en)
    BY <1>2, <1>6, <1>7, HoldingKept
  <1>9. QED BY <1>3, <1>8

LEMMA OnceAsked ==
    ASSUME Sound, Sound', NEW t \in Thread, Holding(memory, held, calls[t], slots[t]),
           NEW x \in Var, NEW l \in Label, Ask(t, x, l)
    PROVE  Holding(memory', held', calls'[t], slots'[t])
  <1>1. PICK of \in [1 .. Arity[l] -> {y \in program.vars : held[y] # Nobody}] :
          calls' = [calls EXCEPT ![t] =
                     [at |-> "probing", into |-> x, node |-> Node(l, [i \in DOMAIN of |-> held[of[i]]]),
                      found |-> Nobody]]
    BY DEF Ask
  <1> DEFINE ps   == [i \in DOMAIN of |-> held[of[i]]]
             call == [at |-> "probing", into |-> x, node |-> Node(l, ps), found |-> Nobody]
  <1>2. program.vars \in SUBSET Var /\ held \in [Var -> Handles]
    BY ProgramsAreRun DEF Sound, Well, HeldWell
  <1>3. calls'[t] = call
    BY <1>1 DEF Sound, Well, CallsWell
  <1>4. \A i \in DOMAIN ps : ps[i] \in HandlesIn(held)
    BY <1>2 DEF HandlesIn
  <1>5. call.at = "probing" /\ call.node.parts = ps /\ call.found = Nobody
    BY DEF Node
  <1> HIDE DEF ps, call
  <1>6. HeldBy(call) \in SUBSET HandlesIn(held)
    BY <1>4, <1>5 DEF HeldBy, Parts
  <1>7. Holding(memory, held, call, slots[t])
    BY <1>5, <1>6 DEF Holding
  <1>8. QED BY <1>3, <1>7 DEF Ask

\* Where a slot is a node's alone, what a probe finds is the node.
LEMMA FoundIsNode ==
    ASSUME NEW t \in Thread, OneThread(t), Names(memory, slots[t]), NEW node, NEW a \in Alive(t, node)
    PROVE  memory[a] = node /\ a \in Interned(memory, slots[t])
  <1>1. PICK e \in slots[t] : e.slot = node /\ e.block = a
    BY DEF Alive, InSlot, SlotOf, OneThread
  <1>2. memory[a] # Gone /\ a \in Address
    BY <1>1 DEF Alive, Names
  <1>3. QED BY <1>1, <1>2 DEF Names, Interned

LEMMA OnceProbed ==
    ASSUME Sound, Sound', NEW t \in Thread, OneThread(t), Holding(memory, held, calls[t], slots[t]), Probe(t)
    PROVE  Holding(memory', held', calls'[t], slots'[t])
  <1>1. PICK a \in Alive(t, calls[t].node) : calls' = GoesOn(calls, t, "comparing", a)
    BY DEF Probe, GoesOn
  <1>2. calls[t] \in Calls /\ calls \in [Thread -> Calls]
    BY DEF Sound, Well, CallsWell
  <1> DEFINE call == calls'[t]
  <1>3. call.at = "comparing" /\ call.found = a /\ call.node = calls[t].node
    BY <1>1, <1>2 DEF GoesOn, Calls
  <1> HIDE DEF call
  <1>4. memory[a] = call.node /\ a \in Interned(memory, slots[t])
    BY <1>3, FoundIsNode DEF Holding
  <1>5. HeldBy(call) \in SUBSET Interned(memory, slots[t])
    BY <1>3, <1>4 DEF Holding, HeldBy
  <1>6. Holding(memory, held, call, slots[t])
    BY <1>3, <1>4, <1>5 DEF Holding
  <1>7. QED BY <1>6 DEF Probe, call

LEMMA IdleHolds == HeldBy(Idle) = {} /\ Idle.at = "idle"
  BY DEF HeldBy, Idle, Parts

\* A variable takes a handle.
LEMMA HandsHandles ==
    ASSUME Sound, NEW t \in Thread, NEW a, Hands(t, a)
    PROVE  HandlesIn(held') \in SUBSET (HandlesIn(held) \cup {a}) /\ calls'[t] = Idle
  <1>1. held \in [Var -> Handles] /\ calls \in [Thread -> Calls]
    BY DEF Sound, Well, HeldWell, CallsWell
  <1>2. QED BY <1>1 DEF Hands, HandlesIn

LEMMA OnceHit ==
    ASSUME Sound, Sound', Standing(memory'), NEW t \in Thread,
           Holding(memory, held, calls[t], slots[t]), Hit(t)
    PROVE  Holding(memory', held', calls'[t], slots'[t])
  <1> DEFINE en == slots[t]
             call == calls[t]
  <1>1. \A e \in en : e.block \in Address
    BY DEF Sound, SlotsWell
  <1>2. Spares(memory, memory', en)
    BY <1>1, SettlesSpares DEF Hit
  <1>3. HandlesIn(held') \in SUBSET (HandlesIn(held) \cup {call.found}) /\ calls'[t] = Idle
        /\ slots'[t] = en
    BY HandsHandles DEF Hit
  <1>4. HeldWell(held', memory') /\ CallWell(Idle, memory')
    BY <1>3 DEF Sound, Well, CallsWell
  <1>5. call.found \in HeldBy(call)
    BY DEF Hit, Sound, Well, CallsWell, CallWell, HeldBy
  <1>6. Holding(memory, held, call, en)
    OBVIOUS
  <1> HIDE DEF en, call
  <1>7. HoldsNoOther(held, held', call, Idle, memory, memory', en)
    BY <1>3, <1>4, <1>5, IdleHolds DEF HoldsNoOther
  <1>8. Holding(memory', held', Idle, en)
    BY <1>2, <1>6, <1>7, HoldingKept
  <1>9. QED BY <1>3, <1>8

LEMMA OnceMissed ==
    ASSUME Sound, Sound', Standing(memory'), NEW t \in Thread, OneThread(t),
           Holding(memory, held, calls[t], slots[t]), Miss(t)
    PROVE  Holding(memory', held', calls'[t], slots'[t])
  <1> DEFINE node == calls[t].node
             en   == slots[t]
             en2  == slots'[t]
  <1>1. Alive(t, node) = {} /\ calls[t].at # "idle"
    BY DEF Miss, Holding
  <1>2. PICK a \in Unused :
          /\ slots' = [slots EXCEPT ![t] = Put(@, [slot |-> SlotOf(node), block |-> a])]
          /\ Hands(t, a)
          /\ Settles([memory EXCEPT ![a] = node])
    BY DEF Miss
  <1> DEFINE mid == [memory EXCEPT ![a] = node]
  <1>3. en2 = Put(en, [slot |-> node, block |-> a])
    BY <1>2 DEF Sound, SlotsWell, SlotOf, OneThread
  <1>4. a \in Address /\ \A e \in en : e.block # a
    BY DEF Unused, Named
  <1>5. mid[a] = node /\ \A b \in Address : b # a => mid[b] = memory[b]
    BY <1>4 DEF Sound, Memories
  <1>6. node \in Blocks /\ Parts(node) \in SUBSET Interned(memory, en)
    BY <1>1, CallAsks DEF Holding, HeldBy
  <1>7. \A e \in en : e.slot = node => memory[e.block] = Gone
    BY <1>1 DEF Alive, InSlot, SlotOf, OneThread
  <1>8. Names(memory, en) /\ HandlesIn(held) \in SUBSET Interned(memory, en)
    BY DEF Holding
  <1>9. Hands(t, a) /\ Settles(mid)
    BY <1>2
  <1>10. \A e \in en2 : e.block \in Address
    BY DEF Sound, SlotsWell
  <1> HIDE DEF node, en, en2, mid
  <1>11. Names(mid, en2) /\ Interned(memory, en) \in SUBSET Interned(mid, en2) /\ a \in Interned(mid, en2)
    BY <1>3, <1>4, <1>5, <1>6, <1>7, <1>8, NamesPut
  <1>12. Spares(mid, memory', en2)
    BY <1>9, <1>10 DEF Settles, Spares
  <1>13. HandlesIn(held') \in SUBSET Interned(mid, en2) /\ calls'[t] = Idle
    BY <1>8, <1>9, <1>11, HandsHandles
  <1>14. HeldWell(held', memory') /\ CallWell(Idle, memory')
    BY <1>13 DEF Sound, Well, CallsWell
  <1>15. Holding(mid, held', Idle, en2)
    BY <1>11, <1>13, IdleHolds DEF Holding
  <1>16. HoldsNoOther(held', held', Idle, Idle, mid, memory', en2)
    BY <1>14, IdleHolds DEF HoldsNoOther
  <1>17. Holding(memory', held', Idle, en2)
    BY <1>12, <1>15, <1>16, HoldingKept
  <1>18. QED BY <1>13, <1>17 DEF en2

LEMMA InitOnce == Init => Once
  <1> SUFFICES ASSUME Init, NEW t \in Thread PROVE Holding(memory, held, calls[t], slots[t])
    BY DEF Once
  <1>1. HandlesIn(held) = {} /\ calls[t] = Idle /\ slots[t] = {}
    BY DEF Init, HandlesIn
  <1>2. Interned(memory, {}) = {} /\ Names(memory, {})
    BY DEF Interned, Names
  <1>3. QED BY <1>1, <1>2, IdleHolds DEF Holding

LEMMA ProgramStays == [Next]_vars => program' = program
  <1>1. ASSUME NEW t, Intern(t) PROVE program' = program
    BY <1>1 DEF Intern, Ask, Probe, Hit, Differs, Miss
  <1>2. ASSUME NEW t, Relate(t) PROVE program' = program
    BY <1>2, RelateOnly
  <1>3. ASSUME NEW x, Drop(x) PROVE program' = program
    BY <1>3 DEF Drop
  <1>4. QED BY <1>1, <1>2, <1>3 DEF Next, vars

LEMMA NextOnce == Sound /\ Once /\ [Next]_vars => Once'
  <1> SUFFICES ASSUME Sound, Once, [Next]_vars, NEW t \in Thread, program'.exact, program'.threads = {t}
               PROVE  Holding(memory', held', calls'[t], slots'[t])
    BY DEF Once
  <1>1. OneThread(t) /\ Holding(memory, held, calls[t], slots[t])
    BY ProgramStays DEF OneThread, Once
  <1>2. /\ program.vars \in SUBSET Var /\ program.labels \in SUBSET Label
        /\ program.texts \in SUBSET Text /\ program.registers \in SUBSET Register
    BY ProgramsAreRun DEF Sound
  <1>3. Sound'
    BY NextSound
  <1>4. Standing(memory')
    <2>1. (Sound => Standing(memory))'
      BY SoundStands, PTL
    <2>2. QED BY <1>3, <2>1
  <1>5. CASE Intern(t)
    <2>1. ASSUME NEW x \in program.vars, NEW l \in program.labels, Ask(t, x, l)
          PROVE  Holding(memory', held', calls'[t], slots'[t])
      BY <1>1, <1>2, <1>3, <2>1, OnceAsked
    <2>2. ~Differs(t)
      BY <1>1 DEF Differs, SameNode, Holding
    <2>3. QED BY <1>1, <1>3, <1>4, <1>5, <2>1, <2>2, OnceProbed, OnceHit, OnceMissed DEF Intern
  <1>6. CASE Relate(t)
    <2>1. WritesTable /\ UNCHANGED nodes
      BY <1>2, <1>6, RelateWrites, RelateOnly
    <2>2. QED BY <1>1, <1>3, <1>4, <2>1, OnceRelated
  <1>7. ASSUME NEW x \in program.vars, Drop(x) PROVE Holding(memory', held', calls'[t], slots'[t])
    BY <1>1, <1>2, <1>3, <1>4, <1>7, OnceDropped
  <1>8. CASE UNCHANGED vars
    BY <1>1, <1>8 DEF vars, nodes
  <1>9. QED BY <1>1, <1>5, <1>6, <1>7, <1>8 DEF Next, OneThread

(* Two named blocks of one tree are one block: their parts are, being of   *)
(* one tree and less high, and a slot names one block.                     *)
LEMMA OneTreeOneBlock ==
    ASSUME NEW mem, NEW en, Standing(mem), Grounded(mem), Names(mem, en)
    PROVE  \A a, b \in Interned(mem, en) : TreeAt(mem, a) = TreeAt(mem, b) => a = b
  <1> DEFINE I == Interned(mem, en)
             Low(n) == \A a, b \in I : Rank(mem, a) < n /\ TreeAt(mem, a) = TreeAt(mem, b) => a = b
             T == {n \in Nat : Low(n)}
  <1>1. I \in SUBSET Occupied(mem)
    BY DEF Interned, Occupied
  <1>2. 0 \in T
    BY <1>1, RanksFall
  <1>3. ASSUME NEW n \in T PROVE n + 1 \in T
    <2> SUFFICES ASSUME NEW a \in I, NEW b \in I, Rank(mem, a) < n + 1, TreeAt(mem, a) = TreeAt(mem, b)
                 PROVE  a = b
      OBVIOUS
    <2> DEFINE ps == mem[a].parts
               qs == mem[b].parts
               us == [i \in DOMAIN ps |-> TreeAt(mem, ps[i])]
               vs == [i \in DOMAIN qs |-> TreeAt(mem, qs[i])]
    <2>1. a \in Occupied(mem) /\ b \in Occupied(mem) /\ mem[a] \in Blocks /\ mem[b] \in Blocks
      BY <1>1, PartsOccupied
    <2>2. TreeAt(mem, a) = Grows(mem, mem[a]) /\ TreeAt(mem, b) = Grows(mem, mem[b])
      BY <2>1, TreeGrows
    <2>3. /\ Grows(mem, mem[a]).label = mem[a].label /\ Grows(mem, mem[a]).parts = us
          /\ Grows(mem, mem[b]).label = mem[b].label /\ Grows(mem, mem[b]).parts = vs
      BY DEF Grows
    <2>4. /\ \A i \in DOMAIN ps : ps[i] \in Parts(mem[a]) /\ ps[i] \in I
          /\ \A i \in DOMAIN qs : qs[i] \in I
      BY <2>1, PartsOccupied DEF Names
    <2> HIDE DEF ps, qs, us, vs, I
    <2>5. mem[a].label = mem[b].label /\ us = vs
      BY <2>2, <2>3
    <2>6. DOMAIN ps = DOMAIN qs /\ \A i \in DOMAIN ps : TreeAt(mem, ps[i]) = TreeAt(mem, qs[i])
      BY <2>5 DEF us, vs
    <2>7. ASSUME NEW i \in DOMAIN ps PROVE ps[i] = qs[i]
      <3>1. Rank(mem, ps[i]) < Rank(mem, a) /\ Rank(mem, ps[i]) \in Nat /\ Rank(mem, a) \in Nat
        BY <2>1, <2>4, RanksFall DEF Occupied
      <3>2. Rank(mem, ps[i]) < n
        BY <3>1
      <3>3. ps[i] \in I /\ qs[i] \in I
        BY <2>4, <2>6
      <3>4. QED BY <1>3, <2>6, <3>2, <3>3 DEF T, Low
    <2>8. ps = qs
      <3>1. ps \in Seq(Address) /\ qs \in Seq(Address)
        BY <2>1 DEF Blocks, ps, qs
      <3>2. QED BY <2>6, <2>7, <3>1
    <2>9. mem[a] = mem[b]
      BY <2>1, <2>5, <2>8 DEF Blocks, ps, qs
    <2>10. QED BY <2>9 DEF I, Interned, Names
  <1> HIDE DEF T
  <1>4. T = Nat
    BY <1>2, <1>3, EveryNumber DEF T
  <1>5. ASSUME NEW a \in I, NEW b \in I, TreeAt(mem, a) = TreeAt(mem, b) PROVE a = b
    <2>1. Levels \in T /\ Rank(mem, a) < Levels
      BY <1>1, <1>4, TreesGrow, RanksFall
    <2>2. QED BY <1>5, <2>1 DEF T
  <1>6. QED BY <1>5

LEMMA OnceIsOne == WellGrounded /\ Once => BuiltTwiceIsOne
  <1> SUFFICES ASSUME WellGrounded, Once, NEW t \in Thread, program.exact, program.threads = {t},
                      NEW a \in HandlesIn(held), NEW b \in HandlesIn(held),
                      TreeAt(memory, a) = TreeAt(memory, b)
               PROVE  a = b
    BY DEF BuiltTwiceIsOne
  <1>1. Names(memory, slots[t]) /\ a \in Interned(memory, slots[t]) /\ b \in Interned(memory, slots[t])
    BY DEF Once, Holding
  <1>2. Standing(memory) /\ Grounded(memory)
    BY SoundStands DEF WellGrounded
  <1>3. QED BY <1>1, <1>2, OneTreeOneBlock

(* Where no two nodes share a slot, two equal schemas one thread made and  *)
(* holds are one block, however deep and whatever was dropped in between.  *)
THEOREM OneNodeBuiltTwice == Spec => []BuiltTwiceIsOne
  <1>1. Init => Once
    BY InitOnce
  <1>2. WellGrounded /\ Once /\ [Next]_vars => Once'
    BY NextOnce DEF WellGrounded
  <1>3. WellGrounded /\ Once => BuiltTwiceIsOne
    BY OnceIsOne
  <1>4. QED BY <1>1, <1>2, <1>3, BlocksGrounded, PTL DEF Spec
=============================================================================
