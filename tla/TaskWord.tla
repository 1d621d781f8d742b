----------------------------- MODULE TaskWord ------------------------------
(***************************************************************************)
(* The 64-bit state word of one task slot of the native index              *)
(* (native/atomic_word.cpp): [31-bit version][30-bit trainer][2-bit        *)
(* state], changed by compare-and-swap loops that several AS request       *)
(* threads and the session monitor run at the same time.  A loop loads the *)
(* word, tests it, computes the next word from what it loaded, and swaps;  *)
(* a failed swap, spurious or real, reloads and tests again.  The Python   *)
(* binding's snapshot() reads the word three times, once per field.        *)
(***************************************************************************)
EXTENDS Naturals

CONSTANTS Threads,      \* native threads that call the C API
          Trainers,     \* client tokens
          NoTrainer,    \* the token 0
          VersionMod,   \* number of version values, 2^31 in the code
          MaxWrites     \* bound on the successful swaps of a behaviour

ASSUME NoTrainerAssumption == NoTrainer \notin Trainers
ASSUME VersionModAssumption == VersionMod \in Nat \ {0}
ASSUME MaxWritesAssumption == MaxWrites \in Nat

VARIABLES
    word,     \* the packed word
    call,     \* per thread: the call it is inside, and what its loads observed
    writes,   \* history: number of successful swaps so far
    window,   \* history: the words a running snapshot() could have observed
    granted   \* history: trainers whose claim returned 1 and who lost nothing yet

vars == <<word, call, writes, window, granted>>

EMPTY == "EMPTY"
PENDING == "PENDING"
COMMITTED == "COMMITTED"
TaskState == {EMPTY, PENDING, COMMITTED}
Word == [version : 0 .. VersionMod - 1,
         trainer : Trainers \cup {NoTrainer},
         state : TaskState]

Ops == {"claim", "commit", "release", "reset"}
InitialWord == [version |-> 0, trainer |-> NoTrainer, state |-> EMPTY]

\* A thread is outside the API, about to swap, or between two loads of a
\* snapshot.  seenAt is history: the value of writes at the thread's last load.
Call == [pc : {"idle", "swap", "readTrainer", "readVersion"},
         op : Ops \cup {"none"},
         arg : Trainers \cup {NoTrainer},
         seen : Word,
         seenAt : 0 .. MaxWrites]
Idle == [pc |-> "idle", op |-> "none", arg |-> NoTrainer,
         seen |-> InitialWord, seenAt |-> 0]
Reading(th) == call[th].pc \in {"readTrainer", "readVersion"}

TypeOK ==
    /\ word \in Word
    /\ call \in [Threads -> Call]
    /\ writes \in 0 .. MaxWrites
    /\ window \in [Threads -> SUBSET (TaskState \X (Trainers \cup {NoTrainer}))]
    /\ granted \in SUBSET Trainers

Init ==
    /\ word = InitialWord
    /\ call = [th \in Threads |-> Idle]
    /\ writes = 0
    /\ window = [th \in Threads |-> {}]
    /\ granted = {}

-----------------------------------------------------------------------------

\* Faulty variants of PackNext: the version stays, or outgrows its field.
PackNextUnversioned(w, state, trainer) ==
    [version |-> w.version, trainer |-> trainer, state |-> state]
PackNextUnwrapped(w, state, trainer) ==
    [version |-> w.version + 1, trainer |-> trainer, state |-> state]

\* The version advances on every write and wraps with the field's width.
PackNext(w, state, trainer) ==
    [version |-> (w.version + 1) % VersionMod,
     trainer |-> trainer,
     state |-> state]

\* Faulty variants of LoopGuard: a claim of any word, a transition of any trainer.
LoopGuardClaimAny(o, c, w) ==
    o \in {"commit", "release"} => w.state = PENDING /\ w.trainer = c
LoopGuardAnyTrainer(o, c, w) ==
    CASE o = "claim" -> w.state = EMPTY
      [] o \in {"commit", "release"} -> w.state = PENDING
      [] o = "reset" -> TRUE

\* The while condition of each loop, evaluated on the observed word.
LoopGuard(o, c, w) ==
    CASE o = "claim" -> w.state = EMPTY
      [] o \in {"commit", "release"} -> w.state = PENDING /\ w.trainer = c
      [] o = "reset" -> TRUE

\* The word each loop tries to install.
Desired(o, c, w) ==
    CASE o = "claim" -> PackNext(w, PENDING, c)
      [] o = "commit" -> PackNext(w, COMMITTED, c)
      [] o \in {"release", "reset"} -> PackNext(w, EMPTY, NoTrainer)

\* History only: who holds a training right according to the return values.
GrantsAfter(o, c) ==
    CASE o = "claim" -> granted \cup {c}
      [] o = "commit" -> granted
      [] o = "release" -> granted \ {c}
      [] o = "reset" -> {}

\* A call enters its loop: the first load of the word.
Load(th, o, c) ==
    /\ call[th].pc = "idle"
    /\ call' = [call EXCEPT ![th] = [pc |-> "swap", op |-> o, arg |-> c,
                                     seen |-> word, seenAt |-> writes]]
    /\ UNCHANGED <<word, writes, window, granted>>

MayContinue(th) == LoopGuard(call[th].op, call[th].arg, call[th].seen)

\* The loop condition fails on the observed word: the call returns 0.
GiveUp(th) ==
    /\ call[th].pc = "swap"
    /\ ~MayContinue(th)
    /\ call' = [call EXCEPT ![th] = Idle]
    /\ UNCHANGED <<word, writes, window, granted>>

\* compare_exchange_weak succeeds: the call returns 1.
Swap(th) ==
    /\ call[th].pc = "swap"
    /\ MayContinue(th)
    /\ word = call[th].seen
    /\ writes < MaxWrites
    /\ word' = Desired(call[th].op, call[th].arg, call[th].seen)
    /\ call' = [call EXCEPT ![th] = Idle]
    /\ writes' = writes + 1
    /\ window' = [r \in Threads |->
                    IF Reading(r)
                    THEN window[r] \cup {<<word'.state, word'.trainer>>}
                    ELSE window[r]]
    /\ granted' = GrantsAfter(call[th].op, call[th].arg)

\* compare_exchange_weak fails, because the word changed or spuriously, and
\* leaves the current word in the observed variable.
Reload(th) ==
    /\ call[th].pc = "swap"
    /\ MayContinue(th)
    /\ call' = [call EXCEPT ![th] = [@ EXCEPT !.seen = word, !.seenAt = writes]]
    /\ UNCHANGED <<word, writes, window, granted>>

-----------------------------------------------------------------------------
\* snapshot() of the Python binding: dbt_task_state, dbt_task_trainer and
\* dbt_task_version are three native calls, each with a load of its own.

ReadState(th) ==
    /\ call[th].pc = "idle"
    /\ call' = [call EXCEPT ![th] = [@ EXCEPT !.pc = "readTrainer",
                                            !.seen.state = word.state]]
    /\ window' = [window EXCEPT ![th] = {<<word.state, word.trainer>>}]
    /\ UNCHANGED <<word, writes, granted>>

ReadTrainer(th) ==
    /\ call[th].pc = "readTrainer"
    /\ call' = [call EXCEPT ![th] = [@ EXCEPT !.pc = "readVersion",
                                            !.seen.trainer = word.trainer]]
    /\ UNCHANGED <<word, writes, window, granted>>

\* The third load; the snapshot is returned and its version is used by nobody.
ReadVersion(th) ==
    /\ call[th].pc = "readVersion"
    /\ call' = [call EXCEPT ![th] = Idle]
    /\ window' = [window EXCEPT ![th] = {}]
    /\ UNCHANGED <<word, writes, granted>>

Next ==
    \E th \in Threads :
        \/ \E o \in Ops, c \in Trainers : Load(th, o, c)
        \/ GiveUp(th)
        \/ Swap(th)
        \/ Reload(th)
        \/ ReadState(th)
        \/ ReadTrainer(th)
        \/ ReadVersion(th)

Spec == Init /\ [][Next]_vars

-----------------------------------------------------------------------------
\* Properties

\* Return values agree with the word: at any time at most one trainer has a
\* claim that returned 1 and was neither revoked nor reset, and it is the
\* trainer the word names ("Exactly one competing caller can win").
OneWinner ==
    granted = IF word.state = EMPTY THEN {} ELSE {word.trainer}

\* A swap that is about to succeed acts on the word of its own last load and
\* not on an equal word written since, as long as fewer than VersionMod writes
\* happened in between: what the version field is for.
NoABA ==
    \A th \in Threads :
        (/\ call[th].pc = "swap"
         /\ word = call[th].seen
         /\ writes - call[th].seenAt < VersionMod)
        => call[th].seenAt = writes

\* snapshot() may mix two words, but a snapshot that says PENDING and names a
\* trainer is one the word really held during the call: the AS handlers that
\* compare "PENDING and trainer == sid" decide on a real state.
PendingSnapshotIsReal ==
    \A th \in Threads :
        (/\ call[th].pc = "readVersion"
         /\ call[th].seen.state = PENDING
         /\ call[th].seen.trainer # NoTrainer)
        => <<PENDING, call[th].seen.trainer>> \in window[th]

\* The loops implement the atomic lifecycle of a task.
Lifecycle == INSTANCE TaskLifecycle
             WITH state <- word.state, trainer <- word.trainer
ImplementsLifecycle == Lifecycle!LifecycleSpec
=============================================================================
