-------------------------- MODULE TaskWord_proofs --------------------------
(***************************************************************************)
(* What TaskWord's runs check on a few threads, proved for every set of    *)
(* threads and trainers, every version width and every number of writes.   *)
(***************************************************************************)
EXTENDS TaskWord, TLAPS

\* A task has a trainer exactly when it is not EMPTY.
WordShape ==
    \/ word.state = EMPTY /\ word.trainer = NoTrainer
    \/ word.state # EMPTY /\ word.trainer \in Trainers

\* The version a word has d writes after it was v, for d < VersionMod.
After(v, d) == IF v + d < VersionMod THEN v + d ELSE v + d - VersionMod

\* The version field counts the writes since a thread's last load.
VersionCounts ==
    \A th \in Threads :
        /\ call[th].seenAt <= writes
        /\ call[th].pc = "swap" =>
              LET d == writes - call[th].seenAt IN
              d < VersionMod => word.version = After(call[th].seen.version, d)

\* The current word is in the window of every running snapshot, and so is the
\* PENDING word of any trainer the snapshot can still read.
WindowCovers ==
    \A th \in Threads :
        Reading(th) =>
            /\ <<word.state, word.trainer>> \in window[th]
            /\ (call[th].pc = "readTrainer" /\ call[th].seen.state = PENDING
                /\ word.trainer # NoTrainer)
               => <<PENDING, word.trainer>> \in window[th]

IInv ==
    /\ TypeOK
    /\ WordShape
    /\ OneWinner
    /\ VersionCounts
    /\ WindowCovers
    /\ PendingSnapshotIsReal

-----------------------------------------------------------------------------

\* The successor of a version, without the modulus.
LEMMA NextVersion ==
    ASSUME NEW v \in 0 .. VersionMod - 1
    PROVE  (v + 1) % VersionMod = IF v + 1 = VersionMod THEN 0 ELSE v + 1
<1>1. CASE v + 1 = VersionMod
  BY <1>1, VersionModAssumption
<1>2. CASE v + 1 # VersionMod
  BY <1>2, VersionModAssumption
<1> QED
  BY <1>1, <1>2

\* Every word a loop installs is well formed, and its version is the next one.
LEMMA DesiredWord ==
    ASSUME NEW o \in Ops, NEW c \in Trainers, NEW w \in Word
    PROVE  /\ Desired(o, c, w) \in Word
           /\ Desired(o, c, w).version = (w.version + 1) % VersionMod
           /\ o = "claim" => /\ Desired(o, c, w).state = PENDING
                             /\ Desired(o, c, w).trainer = c
           /\ o = "commit" => /\ Desired(o, c, w).state = COMMITTED
                              /\ Desired(o, c, w).trainer = c
           /\ o \in {"release", "reset"} => /\ Desired(o, c, w).state = EMPTY
                                            /\ Desired(o, c, w).trainer = NoTrainer
<1>1. (w.version + 1) % VersionMod \in 0 .. VersionMod - 1
  BY VersionModAssumption, NextVersion DEF Word
<1> QED
  BY <1>1 DEF Ops, Desired, PackNext, Word, TaskState, EMPTY, PENDING, COMMITTED

-----------------------------------------------------------------------------

LEMMA InitIInv == Init => IInv
BY VersionModAssumption, MaxWritesAssumption
DEF Init, IInv, TypeOK, WordShape, OneWinner, VersionCounts, WindowCovers,
    PendingSnapshotIsReal, Reading, InitialWord, Word, Call, Idle, Ops,
    TaskState, EMPTY, PENDING, COMMITTED

\* Calls that read the word and write nothing but their own observations.
LEMMA ObservingStep ==
    ASSUME IInv, NEW th \in Threads, NEW o \in Ops, NEW c \in Trainers,
           Load(th, o, c) \/ GiveUp(th) \/ Reload(th)
    PROVE  IInv'
<1>1. TypeOK'
  <2>1. CASE Load(th, o, c)
    BY <2>1 DEF IInv, TypeOK, Load, Call
  <2>2. CASE GiveUp(th)
    BY <2>2, MaxWritesAssumption, VersionModAssumption
    DEF IInv, TypeOK, GiveUp, Call, Idle, InitialWord, Word, TaskState
  <2>3. CASE Reload(th)
    <3>1. [call[th] EXCEPT !.seen = word, !.seenAt = writes] \in Call
      BY DEF IInv, TypeOK, Call
    <3> QED
      BY <2>3, <3>1 DEF IInv, TypeOK, Reload
  <2> QED
    BY <2>1, <2>2, <2>3
<1>2. UNCHANGED <<word, writes, window, granted>>
  BY DEF Load, GiveUp, Reload
<1>3. \A r \in Threads : r # th => call'[r] = call[r]
  BY DEF Load, GiveUp, Reload, IInv, TypeOK
<1>4. /\ call'[th].pc = "swap" => call'[th].seen = word /\ call'[th].seenAt = writes
      /\ call'[th].pc \in {"idle", "swap"}
      /\ call'[th].seenAt \in {0, writes}
  <2>1. call \in [Threads -> Call] /\ call[th] \in Call
    BY DEF IInv, TypeOK
  <2>2. CASE Load(th, o, c)
    BY <2>1, <2>2 DEF Load
  <2>3. CASE GiveUp(th)
    BY <2>1, <2>3 DEF GiveUp, Idle
  <2>4. CASE Reload(th)
    BY <2>1, <2>4 DEF Reload, Call
  <2> QED
    BY <2>2, <2>3, <2>4
<1>5. VersionCounts'
  BY <1>1, <1>2, <1>3, <1>4, VersionModAssumption
  DEF IInv, TypeOK, VersionCounts, After, Word, Call
<1>6. WordShape' /\ OneWinner'
  BY <1>2 DEF IInv, WordShape, OneWinner
<1>7. WindowCovers' /\ PendingSnapshotIsReal'
  BY <1>2, <1>3, <1>4 DEF IInv, WindowCovers, PendingSnapshotIsReal, Reading
<1> QED
  BY <1>1, <1>5, <1>6, <1>7 DEF IInv

\* The three loads of snapshot().
LEMMA SnapshotStep ==
    ASSUME IInv, NEW th \in Threads,
           ReadState(th) \/ ReadTrainer(th) \/ ReadVersion(th)
    PROVE  IInv'
<1>1. TypeOK'
  <2>1. CASE ReadState(th)
    <3>1. [call[th] EXCEPT !.pc = "readTrainer", !.seen.state = word.state] \in Call
      BY DEF IInv, TypeOK, Call, Word
    <3>2. {<<word.state, word.trainer>>} \in SUBSET (TaskState \X (Trainers \cup {NoTrainer}))
      BY DEF IInv, TypeOK, Word
    <3> QED
      BY <2>1, <3>1, <3>2 DEF IInv, TypeOK, ReadState
  <2>2. CASE ReadTrainer(th)
    <3>1. [call[th] EXCEPT !.pc = "readVersion", !.seen.trainer = word.trainer] \in Call
      BY DEF IInv, TypeOK, Call, Word
    <3> QED
      BY <2>2, <3>1 DEF IInv, TypeOK, ReadTrainer
  <2>3. CASE ReadVersion(th)
    BY <2>3, MaxWritesAssumption, VersionModAssumption
    DEF IInv, TypeOK, ReadVersion, Call, Idle, InitialWord, Word, TaskState
  <2> QED
    BY <2>1, <2>2, <2>3
<1>2. UNCHANGED <<word, writes, granted>>
  BY DEF ReadState, ReadTrainer, ReadVersion
<1>3. \A r \in Threads : r # th => call'[r] = call[r] /\ window'[r] = window[r]
  BY DEF ReadState, ReadTrainer, ReadVersion, IInv, TypeOK
<1>4. /\ call'[th].pc # "swap"
      /\ call'[th].seenAt \in {call[th].seenAt, 0}
  <2>1. call \in [Threads -> Call] /\ call[th] \in Call
    BY DEF IInv, TypeOK
  <2>2. CASE ReadState(th)
    BY <2>1, <2>2 DEF ReadState, Call
  <2>3. CASE ReadTrainer(th)
    BY <2>1, <2>3 DEF ReadTrainer, Call
  <2>4. CASE ReadVersion(th)
    BY <2>1, <2>4 DEF ReadVersion, Idle
  <2> QED
    BY <2>2, <2>3, <2>4
<1>5. VersionCounts'
  BY <1>1, <1>2, <1>3, <1>4 DEF IInv, TypeOK, VersionCounts, After, Call
<1>6. WordShape' /\ OneWinner'
  BY <1>2 DEF IInv, WordShape, OneWinner
<1>7. WindowCovers' /\ PendingSnapshotIsReal'
  <2>1. CASE ReadState(th)
    <3>1. /\ call'[th].pc = "readTrainer"
          /\ call'[th].seen.state = word.state
          /\ window'[th] = {<<word.state, word.trainer>>}
      BY <2>1 DEF ReadState, IInv, TypeOK, Call, Word
    <3> QED
      BY <1>2, <1>3, <3>1 DEF IInv, WindowCovers, PendingSnapshotIsReal, Reading
  <2>2. CASE ReadTrainer(th)
    <3>1. /\ call[th].pc = "readTrainer"
          /\ call'[th].pc = "readVersion"
          /\ call'[th].seen.state = call[th].seen.state
          /\ call'[th].seen.trainer = word.trainer
          /\ window'[th] = window[th]
      BY <2>2 DEF ReadTrainer, IInv, TypeOK, Call, Word
    <3> QED
      BY <1>2, <1>3, <3>1 DEF IInv, WindowCovers, PendingSnapshotIsReal, Reading
  <2>3. CASE ReadVersion(th)
    <3>1. call'[th].pc = "idle"
      BY <2>3 DEF ReadVersion, IInv, TypeOK, Idle
    <3> QED
      BY <1>2, <1>3, <3>1 DEF IInv, WindowCovers, PendingSnapshotIsReal, Reading
  <2> QED
    BY <2>1, <2>2, <2>3
<1> QED
  BY <1>1, <1>5, <1>6, <1>7 DEF IInv

\* A successful swap.
LEMMA SwapStep ==
    ASSUME IInv, NEW th \in Threads, Swap(th), call[th].op \in Ops, call[th].arg \in Trainers
    PROVE  IInv'
<1> DEFINE o == call[th].op
           c == call[th].arg
<1>1. /\ word' = Desired(o, c, word)
      /\ LoopGuard(o, c, word)
      /\ writes' = writes + 1 /\ writes < MaxWrites
      /\ granted' = GrantsAfter(o, c)
      /\ call' = [call EXCEPT ![th] = Idle]
  BY DEF Swap, MayContinue
<1>2. /\ word' \in Word
      /\ word'.version = (word.version + 1) % VersionMod
      /\ o = "claim" => word'.state = PENDING /\ word'.trainer = c
      /\ o = "commit" => word'.state = COMMITTED /\ word'.trainer = c
      /\ o \in {"release", "reset"} => word'.state = EMPTY /\ word'.trainer = NoTrainer
  BY <1>1, DesiredWord DEF IInv, TypeOK
<1>3. TypeOK'
  <2>1. call' \in [Threads -> Call]
    BY <1>1, MaxWritesAssumption, VersionModAssumption
    DEF IInv, TypeOK, Call, Idle, InitialWord, Word, TaskState
  <2>2. window' \in [Threads -> SUBSET (TaskState \X (Trainers \cup {NoTrainer}))]
    BY <1>2 DEF IInv, TypeOK, Swap, Word
  <2>3. granted' \in SUBSET Trainers
    BY <1>1 DEF IInv, TypeOK, GrantsAfter, Ops
  <2>4. writes' \in 0 .. MaxWrites
    BY <1>1, MaxWritesAssumption DEF IInv, TypeOK
  <2> QED
    BY <1>2, <2>1, <2>2, <2>3, <2>4 DEF TypeOK
<1>4. WordShape'
  BY <1>2 DEF WordShape, Ops, EMPTY, PENDING, COMMITTED
<1>5. OneWinner'
  <2>1. CASE o = "claim"
    <3>1. granted = {}
      BY <1>1, <2>1 DEF LoopGuard, IInv, OneWinner
    <3> QED
      BY <1>1, <1>2, <2>1, <3>1 DEF OneWinner, GrantsAfter, EMPTY, PENDING
  <2>2. CASE o \in {"commit", "release"}
    <3>1. granted = {c}
      BY <1>1, <2>2 DEF LoopGuard, IInv, OneWinner, EMPTY, PENDING
    <3> QED
      BY <1>1, <1>2, <2>2, <3>1 DEF OneWinner, GrantsAfter, EMPTY, PENDING, COMMITTED
  <2>3. CASE o = "reset"
    BY <1>1, <1>2, <2>3 DEF OneWinner, GrantsAfter
  <2> QED
    BY <2>1, <2>2, <2>3 DEF Ops
<1>6. VersionCounts'
  <2>1. word'.version = IF word.version + 1 = VersionMod THEN 0 ELSE word.version + 1
    BY <1>2, NextVersion DEF IInv, TypeOK, Word
  <2> SUFFICES ASSUME NEW r \in Threads
               PROVE  /\ call'[r].seenAt <= writes'
                      /\ call'[r].pc = "swap" =>
                           LET d == writes' - call'[r].seenAt IN
                           d < VersionMod => word'.version = After(call'[r].seen.version, d)
    BY DEF VersionCounts
  <2>2. CASE r = th
    BY <1>1, <2>2 DEF IInv, TypeOK, Idle
  <2>3. CASE r # th
    <3>1. /\ call'[r] = call[r]
          /\ call[r].seenAt \in Nat /\ writes \in Nat
          /\ call[r].seenAt <= writes
          /\ call[r].seen.version \in 0 .. VersionMod - 1
          /\ word.version \in 0 .. VersionMod - 1
      BY <1>1, <2>3 DEF IInv, TypeOK, VersionCounts, Call, Word
    <3>2. ASSUME call[r].pc = "swap", writes - call[r].seenAt < VersionMod
          PROVE  word.version = After(call[r].seen.version, writes - call[r].seenAt)
      BY <3>2 DEF IInv, VersionCounts
    <3> QED
      BY <1>1, <2>1, <3>1, <3>2, VersionModAssumption DEF After
  <2> QED
    BY <2>2, <2>3
<1>7. WindowCovers' /\ PendingSnapshotIsReal'
  <2>1. ASSUME NEW r \in Threads, Reading(r)'
        PROVE  /\ r # th /\ call'[r] = call[r] /\ Reading(r)
               /\ window'[r] = window[r] \cup {<<word'.state, word'.trainer>>}
    BY <1>1, <2>1 DEF Reading, Swap, IInv, TypeOK, Idle
  <2>2. ASSUME NEW r \in Threads, Reading(r)', word'.trainer # NoTrainer,
               word'.state # PENDING
        PROVE  <<PENDING, word'.trainer>> \in window[r]
    <3>1. o = "commit"
      BY <1>2, <2>2 DEF Ops
    <3>2. word.state = PENDING /\ word.trainer = c /\ word'.trainer = c
      BY <1>1, <1>2, <3>1 DEF LoopGuard
    <3> QED
      BY <2>1, <2>2, <3>2 DEF IInv, WindowCovers
  <2>3. WindowCovers'
    BY <2>1, <2>2 DEF WindowCovers
  <2>4. PendingSnapshotIsReal'
    BY <2>1 DEF PendingSnapshotIsReal, IInv, Reading
  <2> QED
    BY <2>3, <2>4
<1> QED
  BY <1>3, <1>4, <1>5, <1>6, <1>7 DEF IInv

-----------------------------------------------------------------------------

\* A thread inside a loop has an operation and a trainer argument.
SwapArguments ==
    \A th \in Threads :
        call[th].pc = "swap" => call[th].op \in Ops /\ call[th].arg \in Trainers

LEMMA SwapArgumentsStep ==
    ASSUME TypeOK, SwapArguments, [Next]_vars
    PROVE  SwapArguments'
<1>1. CASE UNCHANGED vars
  BY <1>1 DEF SwapArguments, vars
<1>2. ASSUME NEW th \in Threads, NEW o \in Ops, NEW c \in Trainers, Load(th, o, c)
      PROVE  SwapArguments'
  BY <1>2 DEF TypeOK, SwapArguments, Load
<1>3. ASSUME NEW th \in Threads, GiveUp(th) \/ Swap(th) \/ ReadVersion(th)
      PROVE  SwapArguments'
  BY <1>3 DEF TypeOK, SwapArguments, GiveUp, Swap, ReadVersion, Idle
<1>4. ASSUME NEW th \in Threads, Reload(th) \/ ReadState(th) \/ ReadTrainer(th)
      PROVE  SwapArguments'
  <2>1. call \in [Threads -> Call] /\ call[th] \in Call
    BY DEF TypeOK
  <2>2. CASE Reload(th)
    BY <2>1, <2>2 DEF SwapArguments, Reload, Call
  <2>3. CASE ReadState(th)
    BY <2>1, <2>3 DEF SwapArguments, ReadState, Call
  <2>4. CASE ReadTrainer(th)
    BY <2>1, <2>4 DEF SwapArguments, ReadTrainer, Call
  <2> QED
    BY <1>4, <2>2, <2>3, <2>4
<1> QED
  BY <1>1, <1>2, <1>3, <1>4 DEF Next

LEMMA NextIInv ==
    ASSUME IInv, SwapArguments, [Next]_vars
    PROVE  IInv'
<1>1. CASE UNCHANGED vars
  BY <1>1 DEF vars, IInv, TypeOK, WordShape, OneWinner, VersionCounts,
              WindowCovers, PendingSnapshotIsReal, Reading
<1>2. ASSUME NEW th \in Threads, NEW o \in Ops, NEW c \in Trainers, Load(th, o, c)
      PROVE  IInv'
  BY <1>2, ObservingStep
<1>3. ASSUME NEW th \in Threads, GiveUp(th) \/ Reload(th)
      PROVE  IInv'
  <2>1. call[th].pc = "swap"
    BY <1>3 DEF GiveUp, Reload
  <2> QED
    BY <1>3, <2>1, ObservingStep DEF SwapArguments
<1>4. ASSUME NEW th \in Threads, Swap(th)
      PROVE  IInv'
  <2>1. call[th].pc = "swap"
    BY <1>4 DEF Swap
  <2> QED
    BY <1>4, <2>1, SwapStep DEF SwapArguments
<1>5. ASSUME NEW th \in Threads, ReadState(th) \/ ReadTrainer(th) \/ ReadVersion(th)
      PROVE  IInv'
  BY <1>5, SnapshotStep
<1> QED
  BY <1>1, <1>2, <1>3, <1>4, <1>5 DEF Next

LEMMA Invariance == Spec => [](IInv /\ SwapArguments)
<1>1. Init => IInv /\ SwapArguments
  BY InitIInv DEF Init, SwapArguments, Idle
<1>2. IInv /\ SwapArguments /\ [Next]_vars => (IInv /\ SwapArguments)'
  BY NextIInv, SwapArgumentsStep DEF IInv
<1> QED
  BY <1>1, <1>2, PTL DEF Spec

\* Every variable keeps its type, for any number of threads and writes.
THEOREM TypeCorrect == Spec => []TypeOK
<1>1. IInv => TypeOK
  BY DEF IInv
<1> QED
  BY <1>1, Invariance, PTL

\* At most one claim is outstanding, and the word names its trainer, however
\* many threads race on the word.
THEOREM OneWinnerHolds == Spec => []OneWinner
<1>1. IInv => OneWinner
  BY DEF IInv
<1> QED
  BY <1>1, Invariance, PTL

\* A swap never succeeds on a word that was written since it was loaded, for
\* every version width and any wrap-around before the load.
THEOREM NoABAHolds == Spec => []NoABA
<1>1. IInv => NoABA
  <2> SUFFICES ASSUME IInv, NEW th \in Threads,
                      call[th].pc = "swap", word = call[th].seen,
                      writes - call[th].seenAt < VersionMod
               PROVE  call[th].seenAt = writes
    BY DEF NoABA
  <2> DEFINE v == word.version
             d == writes - call[th].seenAt
  <2>1. v = IF v + d < VersionMod THEN v + d ELSE v + d - VersionMod
    BY DEF IInv, VersionCounts, After
  <2>2. /\ v \in Nat /\ VersionMod \in Nat
        /\ call[th].seenAt \in Nat /\ writes \in Nat
        /\ call[th].seenAt <= writes
    BY VersionModAssumption, MaxWritesAssumption
    DEF IInv, TypeOK, VersionCounts, Word, Call
  <2>3. d \in Nat /\ d < VersionMod
    BY <2>2
  <2>4. d = 0
    <3> HIDE DEF v, d
    <3> QED
      BY <2>1, <2>2, <2>3
  <2> QED
    BY <2>2, <2>4
<1> QED
  BY <1>1, Invariance, PTL

\* A PENDING snapshot that names a trainer is a word the task really held.
THEOREM PendingSnapshotHolds == Spec => []PendingSnapshotIsReal
<1>1. IInv => PendingSnapshotIsReal
  BY DEF IInv
<1> QED
  BY <1>1, Invariance, PTL

\* The compare-and-swap loops implement the atomic lifecycle: every step is a
\* claim, commit, release or reset of the abstract task, or leaves it alone.
THEOREM Refinement == Spec => ImplementsLifecycle
<1>1. Init => Lifecycle!LifecycleInit
  BY DEF Init, InitialWord, Lifecycle!LifecycleInit, EMPTY, Lifecycle!EMPTY
<1>2. IInv /\ SwapArguments /\ [Next]_vars
      => [Lifecycle!LifecycleNext]_Lifecycle!lifecycleVars
  <2> SUFFICES ASSUME IInv, SwapArguments, [Next]_vars, word' # word
               PROVE  Lifecycle!LifecycleNext
    BY DEF Lifecycle!lifecycleVars
  <2>1. PICK th \in Threads : Swap(th)
    BY DEF Next, vars, Load, GiveUp, Reload, ReadState, ReadTrainer, ReadVersion
  <2> DEFINE o == call[th].op
             c == call[th].arg
  <2>2. /\ o \in Ops /\ c \in Trainers /\ word \in Word
        /\ word' = Desired(o, c, word)
        /\ LoopGuard(o, c, word)
    BY <2>1 DEF Swap, MayContinue, SwapArguments, IInv, TypeOK
  <2> USE DEF EMPTY, PENDING, COMMITTED, Lifecycle!EMPTY, Lifecycle!PENDING,
              Lifecycle!COMMITTED
  <2>3. /\ o = "claim" => word'.state = PENDING /\ word'.trainer = c
        /\ o = "commit" => word'.state = COMMITTED /\ word'.trainer = c
        /\ o \in {"release", "reset"} => word'.state = EMPTY /\ word'.trainer = NoTrainer
    BY <2>2, DesiredWord
  <2>4. CASE o = "claim"
    BY <2>2, <2>3, <2>4 DEF LoopGuard, Lifecycle!Claim, Lifecycle!LifecycleNext
  <2>5. CASE o = "commit"
    BY <2>2, <2>3, <2>5 DEF LoopGuard, Lifecycle!Commit, Lifecycle!LifecycleNext
  <2>6. CASE o = "release"
    BY <2>2, <2>3, <2>6 DEF LoopGuard, Lifecycle!Release, Lifecycle!LifecycleNext
  <2>7. CASE o = "reset"
    BY <2>2, <2>3, <2>7 DEF Lifecycle!Reset, Lifecycle!LifecycleNext
  <2> QED
    BY <2>2, <2>4, <2>5, <2>6, <2>7 DEF Ops
<1> QED
  BY <1>1, <1>2, Invariance, PTL DEF Spec, ImplementsLifecycle, Lifecycle!LifecycleSpec
=============================================================================
