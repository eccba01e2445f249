------------------------------- MODULE Cells -------------------------------
(***************************************************************************)
(* The three values a validator computes on first use and keeps            *)
(* (validator.rs): the index its walks read, the keys of its constants,    *)
(* and its hash.  Threads ask for them at once, on an interpreter with a   *)
(* lock or on a free-threaded one whose collector stops the world.         *)
(*                                                                         *)
(*   index, keys  one thread builds, the others wait detached from the     *)
(*          interpreter; building interns strings, under a lock of the     *)
(*          interpreter's that is itself waited for detached               *)
(*   hash   any thread that finds none computes it, which runs the         *)
(*          constants' own __hash__: that may ask of validators again,     *)
(*          come to different digests, or raise                            *)
(***************************************************************************)
EXTENDS Integers, Sequences, FiniteSets

CONSTANTS Thread,
          Cell,      \* the cells asked for, each [kind, of]
          Digest,    \* what a hash may come to
          Programs,  \* the sets of cells a program asks for
          MaxNested, \* bound: how many askings a thread is in at once
          Others,    \* the threads that ask for none: they intern strings and collect
          None

ASSUME CellsAreOfKinds == \A c \in Cell : c.kind \in {"index", "keys", "hash"}
ASSUME ProgramsAskForCells == Programs \subseteq SUBSET Cell
ASSUME NoneIsNoValue == None \notin Thread \cup Digest \cup {Others} /\ Others \notin Thread
ASSUME AtLeastOneAsking == MaxNested \in Nat \ {0}

VARIABLES
    threading, \* which interpreter this is
    program,   \* the cells this program asks for
    world,     \* "running", "stopping" or "stopped"
    attached,  \* the threads attached to the interpreter
    wants,     \* the cells each thread asks for, the innermost first, and what it was told
    at,        \* where the innermost asking is: those around it are at "hashing"
    kept,      \* what each cell holds
    builder,   \* the thread inside a cell's OnceLock
    names      \* who holds the lock of the interned strings

interpreter == <<threading, program, world, names>>
calls == <<wants, at>>
vars  == <<interpreter, attached, calls, kept, builder>>

Value == Thread \cup Digest
Fallible == {c \in Cell : c.kind = "hash"}

\* Where a thread is.  At "hashing" it runs Python code inside an asking.
Places == {"idle", "asked", "detached", "entered", "naming", "parked", "regaining", "named",
           "hashing", "told"}
Asking == [cell : Cell, value : Value \cup {None}]

Top(t)     == wants[t][1]
At(t, p)   == at[t] = p
Lazy(c)    == c.kind \in {"index", "keys"}
Empty(t)   == kept[Top(t).cell] = None
Moves(t, p) == at' = [at EXCEPT ![t] = p] /\ UNCHANGED wants
Holds(t, v) ==
    /\ wants' = [wants EXCEPT ![t][1].value = v]
    /\ at' = [at EXCEPT ![t] = "told"]
\* The innermost asking ends, and the thread is back where it asked.
Ends(t) ==
    /\ wants' = [wants EXCEPT ![t] = Tail(@)]
    /\ at' = [at EXCEPT ![t] = IF Len(wants[t]) = 1 THEN "idle" ELSE "hashing"]

\* Where a thread runs bytecode, and may be made to stop or to hand over the lock.
InPython(t) == At(t, "idle") \/ At(t, "hashing")
CanAttach(t) ==
    /\ t \notin attached /\ world = "running"
    /\ threading = "gil" => attached = {}
Attach(t) == CanAttach(t) /\ attached' = attached \cup {t}
Detach(t) == attached' = attached \ {t}

Init ==
    /\ threading \in {"gil", "free"} /\ program \in Programs
    /\ world = "running"
    /\ attached = {} /\ names = None
    /\ wants = [t \in Thread |-> <<>>] /\ at = [t \in Thread |-> "idle"]
    /\ kept = [c \in Cell |-> None]
    /\ builder = [c \in Cell |-> None]

(***************************************************************************)
(* The interpreter.                                                        *)
(***************************************************************************)

\* Bytecode gives way to a stop, or to another thread waiting for the lock.
Yield(t) ==
    /\ t \in attached /\ InPython(t)
    /\ threading = "free" => world = "stopping"
    /\ Detach(t)
    /\ UNCHANGED <<interpreter, calls, kept, builder>>

Resume(t) ==
    /\ InPython(t) /\ Attach(t)
    /\ UNCHANGED <<interpreter, calls, kept, builder>>

\* A collection elsewhere: the threads detach, it traverses the validators, which reads
\* their indexes and waits for none, and the threads may attach again.
StopTheWorld ==
    /\ threading = "free" /\ world = "running"
    /\ world' = "stopping"
    /\ UNCHANGED <<threading, program, names, attached, calls, kept, builder>>

Stopped ==
    /\ world = "stopping" /\ attached = {}
    /\ world' = "stopped"
    /\ UNCHANGED <<threading, program, names, attached, calls, kept, builder>>

StartTheWorld ==
    /\ world = "stopped"
    /\ world' = "running"
    /\ UNCHANGED <<threading, program, names, attached, calls, kept, builder>>

OthersIntern ==
    /\ threading = "free" /\ world = "running" /\ names = None
    /\ names' = Others
    /\ UNCHANGED <<threading, program, world, attached, calls, kept, builder>>

OthersInterned ==
    /\ names = Others
    /\ names' = None
    /\ UNCHANGED <<threading, program, world, attached, calls, kept, builder>>

(***************************************************************************)
(* Asking.                                                                 *)
(***************************************************************************)

\* A call, from Python code of the thread's own or from a constant's __hash__.
Ask(t, c) ==
    /\ t \in attached /\ InPython(t)
    /\ c \in program /\ Len(wants[t]) < MaxNested
    /\ wants' = [wants EXCEPT ![t] = <<[cell |-> c, value |-> None]>> \o @]
    /\ at' = [at EXCEPT ![t] = "asked"]
    /\ UNCHANGED <<interpreter, attached, kept, builder>>

\* The value is there: get() reads it.
Read(t) ==
    /\ At(t, "asked") /\ ~Empty(t)
    /\ Holds(t, kept[Top(t).cell])
    /\ UNCHANGED <<interpreter, attached, kept, builder>>

Return(t) ==
    /\ At(t, "told") /\ t \in attached
    /\ Ends(t)
    /\ UNCHANGED <<interpreter, attached, kept, builder>>

(***************************************************************************)
(* The index and the keys.                                                 *)
(***************************************************************************)

\* A mutant, the plain get_or_init, and get_or_init_py_attached: detach, and only then go to the OnceLock.
GoToLockAttached(t) ==
    /\ At(t, "asked") /\ Lazy(Top(t).cell) /\ Empty(t)
    /\ IF builder[Top(t).cell] = None
         THEN Moves(t, "naming") /\ builder' = [builder EXCEPT ![Top(t).cell] = t]
         ELSE Moves(t, "detached") /\ UNCHANGED builder
    /\ UNCHANGED <<interpreter, attached, kept>>

GoToLock(t) ==
    /\ At(t, "asked") /\ Lazy(Top(t).cell) /\ Empty(t)
    /\ Moves(t, "detached") /\ Detach(t)
    /\ UNCHANGED <<interpreter, kept, builder>>

Enter(t) ==
    /\ At(t, "detached") /\ Empty(t) /\ builder[Top(t).cell] = None
    /\ builder' = [builder EXCEPT ![Top(t).cell] = t]
    /\ Moves(t, "entered")
    /\ UNCHANGED <<interpreter, attached, kept>>

\* A waiter finds the value built.
Woken(t) ==
    /\ At(t, "detached") /\ ~Empty(t)
    /\ Holds(t, kept[Top(t).cell])
    /\ UNCHANGED <<interpreter, attached, kept, builder>>

\* Before its closure runs, or once it holds the value, the thread attaches again.
AttachToBuild(t) ==
    /\ At(t, "entered") /\ Attach(t)
    /\ Moves(t, "naming")
    /\ UNCHANGED <<interpreter, kept, builder>>

AttachToRead(t) ==
    /\ At(t, "told") /\ Attach(t)
    /\ UNCHANGED <<interpreter, calls, kept, builder>>

\* PyString::intern: the lock of the names is taken, or waited for detached.
Intern(t) ==
    /\ At(t, "naming") /\ names = None
    /\ names' = t /\ Moves(t, "named")
    /\ UNCHANGED <<threading, program, world, attached, kept, builder>>

Park(t) ==
    /\ At(t, "naming") /\ names # None
    /\ Moves(t, "parked") /\ Detach(t)
    /\ UNCHANGED <<interpreter, kept, builder>>

Unpark(t) ==
    /\ At(t, "parked") /\ names = None
    /\ names' = t /\ Moves(t, "regaining")
    /\ UNCHANGED <<threading, program, world, attached, kept, builder>>

AttachToIntern(t) ==
    /\ At(t, "regaining") /\ Attach(t)
    /\ Moves(t, "named")
    /\ UNCHANGED <<interpreter, kept, builder>>

\* The names are interned and the value is whole: the OnceLock keeps it.
KeepBuilt(t) ==
    /\ At(t, "named")
    /\ names' = None
    /\ kept' = [kept EXCEPT ![Top(t).cell] = t]
    /\ builder' = [builder EXCEPT ![Top(t).cell] = None]
    /\ Holds(t, t)
    /\ UNCHANGED <<threading, program, world, attached>>

(***************************************************************************)
(* The hash.                                                               *)
(***************************************************************************)

Hash(t) ==
    /\ At(t, "asked") /\ ~Lazy(Top(t).cell) /\ Empty(t)
    /\ Moves(t, "hashing")
    /\ UNCHANGED <<interpreter, attached, kept, builder>>

\* The constants' hashes came to d, and get_or_init keeps it unless one is kept. (The
\* mutant answers d whatever is kept.)
KeepHashOwn(t, d) ==
    /\ At(t, "hashing") /\ t \in attached
    /\ kept' = [kept EXCEPT ![Top(t).cell] = IF Empty(t) THEN d ELSE @]
    /\ Holds(t, d)
    /\ UNCHANGED <<interpreter, attached, builder>>

KeepHash(t, d) ==
    /\ At(t, "hashing") /\ t \in attached
    /\ kept' = [kept EXCEPT ![Top(t).cell] = IF Empty(t) THEN d ELSE @]
    /\ Holds(t, IF Empty(t) THEN d ELSE kept[Top(t).cell])
    /\ UNCHANGED <<interpreter, attached, builder>>

\* A fatal signal in a constant's __hash__ propagates, and nothing is kept.
Raise(t) ==
    /\ At(t, "hashing") /\ t \in attached
    /\ Ends(t)
    /\ UNCHANGED <<interpreter, attached, kept, builder>>

EndHash(t) == Raise(t) \/ \E d \in Digest : KeepHash(t, d)

\* What a thread does unless it waits for something another thread holds.
Proceed(t) ==
    \/ Read(t) \/ Return(t) \/ Hash(t)
    \/ GoToLock(t) \/ Enter(t) \/ Woken(t) \/ AttachToBuild(t) \/ AttachToRead(t)
    \/ Intern(t) \/ Park(t) \/ Unpark(t) \/ AttachToIntern(t) \/ KeepBuilt(t)

Next ==
    \/ \E t \in Thread : Yield(t) \/ Resume(t) \/ Proceed(t) \/ EndHash(t)
    \/ \E t \in Thread, c \in Cell : Ask(t, c)
    \/ StopTheWorld \/ Stopped \/ StartTheWorld \/ OthersIntern \/ OthersInterned

Spec == Init /\ [][Next]_vars

(***************************************************************************)
(* Fairness: the interpreter's lock and the lock of the names starve       *)
(* nobody who keeps asking for them, bytecode gives way when asked to, a   *)
(* collection and an interning elsewhere end, and so does a constant's     *)
(* __hash__, however deep it is in others and whatever it asks.            *)
(***************************************************************************)
Fairness ==
    /\ \A t \in Thread :
        /\ SF_vars(Proceed(t) \/ Resume(t)) /\ SF_vars(Yield(t))
        /\ \A n \in 1 .. MaxNested : SF_vars(Len(wants[t]) = n /\ EndHash(t))
    /\ WF_vars(Stopped \/ StartTheWorld) /\ WF_vars(OthersInterned)

FairSpec == Spec /\ Fairness

(***************************************************************************)
(* Properties.                                                             *)
(***************************************************************************)

TypeOK ==
    /\ threading \in {"gil", "free"} /\ program \in Programs
    /\ world \in {"running", "stopping", "stopped"}
    /\ attached \subseteq Thread
    /\ wants \in [Thread -> Seq(Asking)] /\ at \in [Thread -> Places]
    /\ kept \in [Cell -> Value \cup {None}]
    /\ builder \in [Cell -> Thread \cup {None}] /\ names \in Thread \cup {Others, None}

Promise == INSTANCE KeptOnce

\* One value is kept for each cell and everybody is told that one, although several threads
\* ask for it at once, a thread may ask for a hash inside its own computing of it, and two
\* computings of a hash may come to two digests (validator.rs: index, pool_keys, __hash__).
OneValueEach == Promise!Spec

\* Whoever asks is answered: a thread waiting for another to build the value holds no thread up
\* that the builder waits for, and the world stops although it waits (validator.rs: index, pool_keys).
AskingEnds == \A t \in Thread : (wants[t] # <<>>) ~> (wants[t] = <<>>)
=============================================================================
