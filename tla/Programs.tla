----------------------------- MODULE Programs -----------------------------
(***************************************************************************)
(* The pattern programs of the binding (check/index.rs): the table that    *)
(* shares one compiled program between the validators that hold its text,  *)
(* and the allowance the patterns of one schema are compiled within.       *)
(*                                                                         *)
(* A client is a thread that builds a validator, keeps it, and lets it go. *)
(* The lock is held for one lookup or one store, so each is a step; a text *)
(* is compiled between the two, where other clients take steps.  A program *)
(* lives while a client holds it, and the table holds it weakly.           *)
(***************************************************************************)
EXTENDS Integers, FiniteSets, Sequences, SequencesExt, FiniteSetsExt

CONSTANTS Client, Text,
          Invalid,    \* the texts that do not compile
          Memory,     \* what the program of each text keeps
          Allowance,  \* what the programs of one schema may keep
          Schemas     \* the schemas asked for, as the patterns met in them in order

ASSUME TextsWeigh == Invalid \subseteq Text /\ Memory \in [Text -> Nat] /\ Allowance \in Nat
ASSUME TextsAreCounted == IsFiniteSet(Text) /\ IsFiniteSet(Client)
ASSUME SchemasHoldTexts == Schemas \subseteq Seq(Text)

VARIABLES
    at,       \* where each client is
    left,     \* the patterns its schema still has, as compile_patterns_within meets them
    asked,    \* its schema
    room,     \* the allowance left
    holds,    \* the programs it holds, by text
    found,    \* the program it looked up or compiled and has not charged
    byText,   \* the table: a program's number for each text in it
    pruneAt,
    poisoned, \* the lock is poisoned
    credit    \* history: what stores have paid for pruning and pruning has not spent

client == <<at, left, asked, room, holds, found>>
table  == <<byText, pruneAt, poisoned>>
vars   == <<client, table, credit>>

Numbers   == 1 .. 2 * Cardinality(Client) * Cardinality(Text)
None      == 0
NoneHeld  == [t \in Text |-> None]
CreditCap == Cardinality(Text)  \* bound: credit is counted up to here

\* The programs of a text that clients hold, those they have only just made among them.
Live(t) == ({holds[c][t] : c \in Client} \cup {found[c] : c \in {d \in Client : left[d] # <<>> /\ Head(left[d]) = t}})
             \ {None}
Listed  == {t \in Text : byText[t] # None}

Init ==
    /\ at = [c \in Client |-> "idle"] /\ left = [c \in Client |-> <<>>]
    /\ asked = [c \in Client |-> <<>>] /\ room = [c \in Client |-> 0]
    /\ holds = [c \in Client |-> NoneHeld] /\ found = [c \in Client |-> None]
    /\ byText = NoneHeld /\ pruneAt = 0 /\ poisoned = FALSE
    /\ credit = 0

Ask(c) ==
    /\ at[c] = "idle"
    /\ \E s \in Schemas : asked' = [asked EXCEPT ![c] = s] /\ left' = [left EXCEPT ![c] = s]
    /\ at' = [at EXCEPT ![c] = "reading"] /\ room' = [room EXCEPT ![c] = Allowance]
    /\ UNCHANGED <<holds, found, table, credit>>

Reads(c) == at[c] = "reading" /\ left[c] # <<>>

\* A text met twice is one program, charged once.
MetAgain(c) ==
    /\ Reads(c) /\ holds[c][Head(left[c])] # None
    /\ left' = [left EXCEPT ![c] = Tail(@)]
    /\ UNCHANGED <<at, asked, room, holds, found, table, credit>>

\* program: the table is read under the lock, and its program taken if it lives.
Look(c) ==
    /\ Reads(c) /\ holds[c][Head(left[c])] = None
    /\ LET t == Head(left[c])
       IN  IF ~poisoned /\ byText[t] \in Live(t)
           THEN found' = [found EXCEPT ![c] = byText[t]] /\ at' = [at EXCEPT ![c] = "charging"]
           ELSE at' = [at EXCEPT ![c] = "compiling"] /\ UNCHANGED found
    /\ UNCHANGED <<left, asked, room, holds, table, credit>>

\* The schema is refused, and the programs compiled for it go.
Refuse(c) ==
    /\ at' = [at EXCEPT ![c] = "refused"]
    /\ holds' = [holds EXCEPT ![c] = NoneHeld] /\ found' = [found EXCEPT ![c] = None]

Compile(c) ==
    /\ at[c] = "compiling"
    /\ LET t == Head(left[c])
       IN  \/ t \in Invalid /\ Refuse(c)
           \/ /\ t \notin Invalid
              /\ found' = [found EXCEPT ![c] = Min(Numbers \ (Live(t) \cup {byText[t]}))]
              /\ at' = [at EXCEPT ![c] = "storing"]
              /\ UNCHANGED holds
    /\ UNCHANGED <<left, asked, room, table, credit>>

\* Mutant of NextPrune: the next length is the entries left, not twice them.
NextPruneAtOnce(n) == Max({n, 1})
NextPrune(n)       == 2 * Max({n, 1})

\* Programs::hold. The entry of the text is written over, whatever it names.
Store(c) ==
    /\ at[c] = "storing"
    /\ at' = [at EXCEPT ![c] = "charging"]
    /\ LET t     == Head(left[c])
           full  == Cardinality(Listed) >= pruneAt
           alive == {u \in Listed : byText[u] \in Live(u)}
           kept  == IF full THEN [u \in Text |-> IF u \in alive THEN byText[u] ELSE None] ELSE byText
       IN  \/ /\ ~poisoned
              /\ byText' = [kept EXCEPT ![t] = found[c]]
              /\ pruneAt' = IF full THEN NextPrune(Cardinality(alive)) ELSE pruneAt
              /\ credit' = Min({credit + 2 - (IF full THEN Cardinality(Listed) ELSE 0), CreditCap})
           \/ poisoned /\ UNCHANGED <<byText, pruneAt, credit>>
    /\ UNCHANGED <<left, asked, room, holds, found, poisoned>>

\* Mutant of Price: a program another client holds is not charged.
PriceShared(c) ==
    LET t == Head(left[c])
    IN  IF \E d \in Client \ {c} : holds[d][t] = found[c] THEN 0 ELSE Memory[t]
Price(c) == Memory[Head(left[c])]

Affords(c)    == Price(c) <= room[c]

Charge(c) ==
    /\ at[c] = "charging"
    /\ \/ /\ Affords(c)
          /\ room' = [room EXCEPT ![c] = @ - Price(c)]
          /\ holds' = [holds EXCEPT ![c][Head(left[c])] = found[c]]
          /\ found' = [found EXCEPT ![c] = None]
          /\ left' = [left EXCEPT ![c] = Tail(@)]
          /\ at' = [at EXCEPT ![c] = "reading"]
       \/ ~Affords(c) /\ Refuse(c) /\ UNCHANGED <<room, left>>
    /\ UNCHANGED <<asked, table, credit>>

Built(c) ==
    /\ at[c] = "reading" /\ left[c] = <<>>
    /\ at' = [at EXCEPT ![c] = "holding"]
    /\ UNCHANGED <<left, asked, room, holds, found, table, credit>>

\* The validator is collected, or the refusal handled.
LetGo(c) ==
    /\ at[c] \in {"holding", "refused"}
    /\ at' = [at EXCEPT ![c] = "idle"]
    /\ holds' = [holds EXCEPT ![c] = NoneHeld]
    /\ left' = [left EXCEPT ![c] = <<>>] /\ asked' = [asked EXCEPT ![c] = <<>>]
    /\ room' = [room EXCEPT ![c] = 0]
    /\ UNCHANGED <<found, table, credit>>

\* A thread panics with the lock held.
Poison == ~poisoned /\ poisoned' = TRUE /\ UNCHANGED <<client, byText, pruneAt, credit>>

Next ==
    \/ \E c \in Client : \/ Ask(c) \/ MetAgain(c) \/ Look(c) \/ Compile(c) \/ Store(c)
                         \/ Charge(c) \/ Built(c) \/ LetGo(c)
    \/ Poison

Spec == Init /\ [][Next]_vars

-----------------------------------------------------------------------------
(* Properties.                                                             *)

\* Whether a schema compiles, read from it alone: every text it holds compiles,
\* and each of them once is within the allowance.
Compiles(s) == /\ ToSet(s) \cap Invalid = {}
               /\ MapThenSumSet(LAMBDA t : Memory[t], ToSet(s)) <= Allowance

\* What a schema is refused for does not depend on what else is alive, however
\* its programs were shared and whichever thread compiled them.
RefusalIsOfTheSchema ==
    \A c \in Client : /\ at[c] = "holding" => Compiles(asked[c])
                      /\ at[c] = "refused" => ~Compiles(asked[c])

\* The upkeep of the table is constant a program: dropping the entries of programs
\* gone reads no more than two of them for each program stored.
UpkeepIsPaid == credit >= 0
=============================================================================
