---------------------- MODULE AggregationServer_proofs ----------------------
(***************************************************************************)
(* Proofs about AggregationServer for any set of clients, tasks and        *)
(* request threads.  The inductive invariant IInv adds to the properties a *)
(* Place for every thread: what its kind of request and its position say   *)
(* about its locals, the lock and the sessions.  Each action has a lemma   *)
(* that it preserves IInv; what a step does to a task's word follows from  *)
(* IInv at the end of the module.                                          *)
(***************************************************************************)
EXTENDS AggregationServer, WellFoundedInduction, FiniteSetTheorems, TLAPS

\* Positions inside a loop, the loops of a release and of a dispatch, the
\* positions that hold the lock, and the requests clients send.
Looping == {"flag", "enable", "select", "take", "clear", "claimTry", "claimFinal",
            "reset", "unflag"}
Releasing == {"release", "flag", "enable"}
Dispatching == {"look", "select", "take", "clear"}
Holding == {"commit", "retain", "reset", "unflag"}
ClientKinds == {"heartbeat", "labels", "claim", "finalize"}

\* Where a thread may be, by the kind of its request.
Serves(kind, pc) ==
    \/ kind = "none" /\ pc = "idle"
    \/ kind = "heartbeat" /\ pc \in {"instruct", "answer"} \cup Dispatching
    \/ kind = "expire" /\ pc \in {"sweep"} \cup Releasing
    \/ kind = "labels" /\ pc \in {"sweep", "append"} \cup Releasing
    \/ /\ kind = "claim"
       /\ pc \in {"sweep", "claimLook", "claimTry", "claimFinal", "answer"} \cup Releasing
    \/ kind = "finalize" /\ pc \in {"expire", "sweep", "check", "store", "commit"} \cup Releasing
    \/ kind = "aggregate" /\ pc \in {"fedavg", "retain", "reset", "unflag"}

\* A loop has a task left, a release a SID marked recovery_risk; a dispatch
\* walks tasks its client owns; the lock is held exactly at Holding.
Place(p) ==
    LET r == request[p] IN
    /\ Serves(r.kind, r.pc)
    /\ r.pc \in Looping => r.todo # {}
    /\ r.pc \in Releasing \/ r.kind = "expire" => r.expired # {}
    /\ r.kind \in ClientKinds => r.sid \in Sids
    /\ p = Monitor => r.kind \in {"none", "expire"}
    /\ r.pc \in Holding <=> lock = p
    /\ \A s \in r.expired : session[s].risk
    /\ r.pc \in Dispatching => r.todo \subseteq ClientTasks(r.sid)
    /\ r.pc = "claimTry" => r.sid \in owners[Task(p)]

Places == \A p \in Threads : Place(p)

IInv == TypeOK /\ Places /\ TrainerIsOwner

-----------------------------------------------------------------------------
\* Min is defined of every nonempty set of naturals, finite or not.
LEMMA MinOfNats ==
    ASSUME NEW S \in SUBSET Nat, S # {}
    PROVE  Min(S) \in S
<1> DEFINE Below == {0 .. x : x \in S}
<1>1. Below \subseteq FiniteSubsetsOf(Nat)
  <2> SUFFICES ASSUME NEW x \in S
               PROVE  0 .. x \in FiniteSubsetsOf(Nat)
    OBVIOUS
  <2>1. IsFiniteSet(0 .. x)
    BY FS_Interval
  <2> QED
    BY <2>1 DEF FiniteSubsetsOf
<1>2. PICK b \in Below : \A c \in Below : ~(<<c, b>> \in StrictSubsetOrdering(Nat))
  <2>1. Below # {}
    OBVIOUS
  <2> HIDE DEF Below
  <2> QED
    BY <1>1, <2>1, FS_StrictSubsetOrderingWellFounded, WFMin
<1>3. PICK x \in S : b = 0 .. x
  OBVIOUS
<1>4. ASSUME NEW y \in S, ~(x <= y)
      PROVE  FALSE
  <2>1. /\ 0 .. y \subseteq 0 .. x /\ x \in 0 .. x /\ x \notin 0 .. y
        /\ 0 .. y \in SUBSET Nat /\ 0 .. x \in SUBSET Nat
    BY <1>4
  <2>2. <<0 .. y, 0 .. x>> \in StrictSubsetOrdering(Nat)
    <3>1. \A A, B \in SUBSET Nat : A \subseteq B /\ A # B => <<A, B>> \in StrictSubsetOrdering(Nat)
      BY DEF StrictSubsetOrdering
    <3> QED
      BY <2>1, <3>1
  <2> QED
    BY <1>2, <1>3, <2>2
<1> QED
  BY <1>4 DEF Min

\* The task a loop takes next is one of those left, and a task.
LEMMA NextTodo ==
    ASSUME TypeOK, NEW p \in Threads, Todo(p) # {}
    PROVE  Task(p) \in Todo(p) /\ Task(p) \in Tasks
<1>1. Todo(p) \in SUBSET Tasks
  BY DEF TypeOK, Request, Todo
<1> QED
  BY <1>1, MinOfNats, TasksAssumption DEF Task

\* The same of the SID whose tasks are released next.
LEMMA NextDrop ==
    ASSUME TypeOK, NEW p \in Threads, request[p].expired # {}
    PROVE  Dropped(p) \in request[p].expired /\ Dropped(p) \in Sids
<1>1. request[p].expired \in SUBSET Sids
  BY DEF TypeOK, Request
<1> QED
  BY <1>1, MinOfNats, SidsAssumption DEF Dropped

\* An idle thread has well-typed locals.
LEMMA NoRequestType == NoRequest \in Request
BY BoundsAssumption, FS_CardinalityType, TasksAssumption
DEF Request, NoRequest, NoUpdates, NoUpdate, Update, Rounds, Pcs

\* Only p moves: to pc, with todo, train and expired as its new locals.
Moves(p, pc, todo, train, expired) ==
    /\ request' \in [Threads -> Request]
    /\ \A q \in Threads \ {p} : request'[q] = request[q]
    /\ request'[p].pc = pc
    /\ request'[p].todo = todo
    /\ request'[p].train = train
    /\ request'[p].expired = expired
    /\ request'[p].kind = request[p].kind
    /\ request'[p].sid = request[p].sid
    /\ request'[p].round = request[p].round
    /\ request'[p].tasks = request[p].tasks
    /\ request'[p].averaged = request[p].averaged

\* p is idle again.
Ends(p) ==
    /\ request' \in [Threads -> Request]
    /\ \A q \in Threads \ {p} : request'[q] = request[q]
    /\ request'[p] = NoRequest

\* Done ends the request.
LEMMA DoneEnds ==
    ASSUME TypeOK, NEW p \in Threads, Done(p)
    PROVE  Ends(p)
BY NoRequestType DEF Done, Ends, TypeOK

\* Each form in which the actions assign locals is a move: in general,
LEMMA Assigned ==
    ASSUME TypeOK, NEW p \in Threads, NEW R \in Request,
           request' = [request EXCEPT ![p] = R],
           R.kind = request[p].kind, R.sid = request[p].sid, R.round = request[p].round,
           R.tasks = request[p].tasks, R.averaged = request[p].averaged
    PROVE  Moves(p, R.pc, R.todo, R.train, R.expired)
BY DEF TypeOK, Moves

\* ... a new position,
LEMMA GotoMoves ==
    ASSUME TypeOK, NEW p \in Threads, NEW pc \in Pcs, Goto(p, pc)
    PROVE  Moves(p, pc, Todo(p), request[p].train, request[p].expired)
<1> DEFINE r == request[p]
           R == [r EXCEPT !.pc = pc]
<1>1. r \in Request
  BY DEF TypeOK
<1>2. /\ R \in Request /\ R.pc = pc /\ R.todo = r.todo /\ R.train = r.train /\ R.expired = r.expired
      /\ R.kind = r.kind /\ R.sid = r.sid /\ R.round = r.round
      /\ R.tasks = r.tasks /\ R.averaged = r.averaged
  BY <1>1 DEF Request
<1>3. request' = [request EXCEPT ![p] = R]
  BY DEF Goto
<1> HIDE DEF R
<1> QED
  BY <1>2, <1>3, Assigned DEF Todo

\* ... a new position after the current task,
LEMMA NextTaskMoves ==
    ASSUME TypeOK, NEW p \in Threads, NEW pc \in Pcs, NextTask(p, pc)
    PROVE  Moves(p, pc, Todo(p) \ {Task(p)}, request[p].train, request[p].expired)
<1> DEFINE r == request[p]
           R == [r EXCEPT !.pc = pc, !.todo = @ \ {Task(p)}]
<1>1. r \in Request
  BY DEF TypeOK
<1>2. /\ R \in Request /\ R.pc = pc
      /\ R.todo = r.todo \ {Task(p)} /\ R.train = r.train /\ R.expired = r.expired
      /\ R.kind = r.kind /\ R.sid = r.sid /\ R.round = r.round
      /\ R.tasks = r.tasks /\ R.averaged = r.averaged
  BY <1>1 DEF Request
<1>3. request' = [request EXCEPT ![p] = R]
  BY DEF NextTask
<1> HIDE DEF R
<1> QED
  BY <1>2, <1>3, Assigned DEF Todo

\* ... a position and the tasks of a loop,
LEMMA PcTodo ==
    ASSUME TypeOK, NEW p \in Threads, NEW pc \in Pcs, NEW todo \in SUBSET Tasks,
           request' = [request EXCEPT ![p].pc = pc, ![p].todo = todo]
    PROVE  Moves(p, pc, todo, request[p].train, request[p].expired)
<1> DEFINE r == request[p]
           R == [r EXCEPT !.pc = pc, !.todo = todo]
<1>1. r \in Request
  BY DEF TypeOK
<1>2. /\ R \in Request /\ R.pc = pc /\ R.todo = todo /\ R.train = r.train /\ R.expired = r.expired
      /\ R.kind = r.kind /\ R.sid = r.sid /\ R.round = r.round
      /\ R.tasks = r.tasks /\ R.averaged = r.averaged
  BY <1>1 DEF Request
<1>3. request' = [request EXCEPT ![p] = R]
  OBVIOUS
<1> HIDE DEF R
<1> QED
  BY <1>2, <1>3, Assigned

\* ... a position and the expired SIDs,
LEMMA PcExpired ==
    ASSUME TypeOK, NEW p \in Threads, NEW pc \in Pcs, NEW expired \in SUBSET Sids,
           request' = [request EXCEPT ![p].pc = pc, ![p].expired = expired]
    PROVE  Moves(p, pc, request[p].todo, request[p].train, expired)
<1> DEFINE r == request[p]
           R == [r EXCEPT !.pc = pc, !.expired = expired]
<1>1. r \in Request
  BY DEF TypeOK
<1>2. /\ R \in Request /\ R.pc = pc /\ R.todo = r.todo /\ R.train = r.train /\ R.expired = expired
      /\ R.kind = r.kind /\ R.sid = r.sid /\ R.round = r.round
      /\ R.tasks = r.tasks /\ R.averaged = r.averaged
  BY <1>1 DEF Request
<1>3. request' = [request EXCEPT ![p] = R]
  OBVIOUS
<1> HIDE DEF R
<1> QED
  BY <1>2, <1>3, Assigned

\* ... the answer and the tasks left,
LEMMA TrainTodo ==
    ASSUME TypeOK, NEW p \in Threads, NEW train \in SUBSET Tasks, NEW todo \in SUBSET Tasks,
           request' = [request EXCEPT ![p].train = train, ![p].todo = todo]
    PROVE  Moves(p, request[p].pc, todo, train, request[p].expired)
<1> DEFINE r == request[p]
           R == [r EXCEPT !.train = train, !.todo = todo]
<1>1. r \in Request
  BY DEF TypeOK
<1>2. /\ R \in Request /\ R.pc = r.pc /\ R.todo = todo /\ R.train = train /\ R.expired = r.expired
      /\ R.kind = r.kind /\ R.sid = r.sid /\ R.round = r.round
      /\ R.tasks = r.tasks /\ R.averaged = r.averaged
  BY <1>1 DEF Request
<1>3. request' = [request EXCEPT ![p] = R]
  OBVIOUS
<1> HIDE DEF R
<1> QED
  BY <1>2, <1>3, Assigned

\* ... a position and the answer,
LEMMA PcTrain ==
    ASSUME TypeOK, NEW p \in Threads, NEW pc \in Pcs, NEW train \in SUBSET Tasks,
           request' = [request EXCEPT ![p].pc = pc, ![p].train = train]
    PROVE  Moves(p, pc, request[p].todo, train, request[p].expired)
<1> DEFINE r == request[p]
           R == [r EXCEPT !.pc = pc, !.train = train]
<1>1. r \in Request
  BY DEF TypeOK
<1>2. /\ R \in Request /\ R.pc = pc /\ R.todo = r.todo /\ R.train = train /\ R.expired = r.expired
      /\ R.kind = r.kind /\ R.sid = r.sid /\ R.round = r.round
      /\ R.tasks = r.tasks /\ R.averaged = r.averaged
  BY <1>1 DEF Request
<1>3. request' = [request EXCEPT ![p] = R]
  OBVIOUS
<1> HIDE DEF R
<1> QED
  BY <1>2, <1>3, Assigned

\* ... a position, the answer and the tasks left,
LEMMA PcTrainTodo ==
    ASSUME TypeOK, NEW p \in Threads, NEW pc \in Pcs,
           NEW train \in SUBSET Tasks, NEW todo \in SUBSET Tasks,
           request' = [request EXCEPT ![p].pc = pc, ![p].train = train, ![p].todo = todo]
    PROVE  Moves(p, pc, todo, train, request[p].expired)
<1> DEFINE r == request[p]
           R == [r EXCEPT !.pc = pc, !.train = train, !.todo = todo]
<1>1. r \in Request
  BY DEF TypeOK
<1>2. /\ R \in Request /\ R.pc = pc /\ R.todo = todo /\ R.train = train /\ R.expired = r.expired
      /\ R.kind = r.kind /\ R.sid = r.sid /\ R.round = r.round
      /\ R.tasks = r.tasks /\ R.averaged = r.averaged
  BY <1>1 DEF Request
<1>3. request' = [request EXCEPT ![p] = R]
  OBVIOUS
<1> HIDE DEF R
<1> QED
  BY <1>2, <1>3, Assigned

\* ... and all of these with the mark of a torn answer.
LEMMA PcTodoTrainTorn ==
    ASSUME TypeOK, NEW p \in Threads, NEW pc \in Pcs, NEW todo \in SUBSET Tasks,
           NEW train \in SUBSET Tasks, NEW torn \in BOOLEAN,
           request' = [request EXCEPT ![p].pc = pc, ![p].todo = todo, ![p].train = train,
                                      ![p].torn = torn]
    PROVE  Moves(p, pc, todo, train, request[p].expired)
<1> DEFINE r == request[p]
           R == [r EXCEPT !.pc = pc, !.todo = todo, !.train = train, !.torn = torn]
<1>1. r \in Request
  BY DEF TypeOK
<1>2. /\ R \in Request /\ R.pc = pc /\ R.todo = todo /\ R.train = train /\ R.expired = r.expired
      /\ R.kind = r.kind /\ R.sid = r.sid /\ R.round = r.round
      /\ R.tasks = r.tasks /\ R.averaged = r.averaged
  BY <1>1 DEF Request
<1>3. request' = [request EXCEPT ![p] = R]
  OBVIOUS
<1> HIDE DEF R
<1> QED
  BY <1>2, <1>3, Assigned

RiskStays == \A s \in Sids : session[s].risk => session'[s].risk
OwnersStay == \A t \in Tasks : owners[t] \subseteq owners'[t]

\* A thread that does not move keeps its place.
LEMMA KeepPlace ==
    ASSUME TypeOK, NEW q \in Threads, Place(q), RiskStays, OwnersStay,
           lock' = q <=> lock = q,
           request'[q].kind = request[q].kind, request'[q].pc = request[q].pc,
           request'[q].sid = request[q].sid, request'[q].todo = request[q].todo,
           request'[q].expired = request[q].expired
    PROVE  Place(q)'
<1> DEFINE r == request[q]
<1>1. r.expired \in SUBSET Sids /\ r.todo \in SUBSET Tasks
  BY DEF TypeOK, Request
<1>2. \A s \in r.expired : session'[s].risk
  BY <1>1 DEF Place, RiskStays
<1>3. r.pc \in Dispatching => r.todo \subseteq ClientTasks(r.sid)'
  BY DEF Place, OwnersStay, ClientTasks
<1>4. r.pc = "claimTry" => r.sid \in owners'[Task(q)] /\ Task(q)' = Task(q)
  BY NextTodo DEF Place, OwnersStay, Looping, Todo, Task
<1> QED
  BY <1>2, <1>3, <1>4 DEF Place

\* An idle thread that held no lock has its place.
LEMMA EndPlace ==
    ASSUME NEW p \in Threads, Ends(p), lock' # p
    PROVE  Place(p)'
BY DEF Ends, Place, NoRequest, Serves, Looping, Releasing, Dispatching, Holding, ClientKinds

\* A step of p leaves the other threads where they are.
LEMMA OthersPlaces ==
    ASSUME TypeOK, Places, NEW p \in Threads,
           \A q \in Threads \ {p} : request'[q] = request[q],
           RiskStays, OwnersStay, lock' = lock \/ {lock, lock'} \subseteq {p, Free},
           Place(p)'
    PROVE  Places'
<1> SUFFICES ASSUME NEW q \in Threads, q # p
             PROVE  Place(q)'
  BY DEF Places
<1>1. lock' = q <=> lock = q
  BY ThreadsAssumption DEF Threads
<1> QED
  BY <1>1, KeepPlace DEF Places

\* A step that changes nothing but where p is.
LEMMA OnlyRequest ==
    ASSUME IInv, NEW p \in Threads, request' \in [Threads -> Request],
           \A q \in Threads \ {p} : request'[q] = request[q],
           UNCHANGED <<session, faults, owners, word, previous, recovery, updates, global,
                       roster, active, dispatch, lock, work, started>>,
           Place(p)'
    PROVE  IInv'
<1>1. Places'
  BY OthersPlaces DEF IInv, RiskStays, OwnersStay
<1>2. TypeOK'
  BY DEF IInv, TypeOK
<1>3. TrainerIsOwner'
  BY DEF IInv, TrainerIsOwner
<1> QED
  BY <1>1, <1>2, <1>3 DEF IInv

\* The place p moves to, when no owner or risk is taken back.
LEMMA MovePlace ==
    ASSUME TypeOK, Places, NEW p \in Threads, RiskStays, OwnersStay,
           NEW pc, NEW todo, NEW train, NEW expired, Moves(p, pc, todo, train, expired),
           Serves(request[p].kind, pc),
           pc \in Looping => todo # {},
           pc \in Releasing \/ request[p].kind = "expire" => expired # {},
           pc \in Holding <=> lock' = p,
           expired \subseteq request[p].expired,
           pc \in Dispatching => todo \subseteq ClientTasks(Sid(p)),
           pc = "claimTry" => Min(todo) \in Tasks /\ Sid(p) \in owners[Min(todo)]
    PROVE  Place(p)'
<1> DEFINE r == request[p]
<1>1. Place(p) /\ r.expired \in SUBSET Sids
  BY DEF Places, TypeOK, Request
<1>2. \A s \in expired : session'[s].risk
  BY <1>1 DEF Place, RiskStays
<1>3. pc \in Dispatching => todo \subseteq ClientTasks(r.sid)'
  BY DEF OwnersStay, ClientTasks, Sid, Moves
<1>4. pc = "claimTry" => r.sid \in owners'[Min(todo)]
  BY DEF OwnersStay, Sid
<1> QED
  BY <1>1, <1>2, <1>3, <1>4 DEF Place, Moves, Task, Todo, Sid


\* Who trains or trained a task still owns it.
LEMMA OwnersKept ==
    ASSUME TrainerIsOwner, OwnersStay,
           \A t \in Tasks : {word'[t].trainer, previous'[t]}
                \subseteq {word[t].trainer, previous[t], NoSid} \cup owners'[t]
    PROVE  TrainerIsOwner'
BY DEF TrainerIsOwner, OwnersStay

\* Setting one word, to EMPTY or to an owner, keeps trainers owners.
LEMMA WordSet ==
    ASSUME TypeOK, NEW t \in Tasks, NEW w \in Word, word' = [word EXCEPT ![t] = w]
    PROVE  /\ word' \in [Tasks -> Word]
           /\ \A u \in Tasks : word'[u] = word[u] \/ (u = t /\ word'[u] = w)
BY DEF TypeOK

\* The word of a fresh task has its type.
LEMMA EmptyWordType == EmptyWord \in Word
BY DEF EmptyWord, Word

-----------------------------------------------------------------------------
\* Sessions: expiry and the releases that follow it.

LEMMA SweepStep ==
    ASSUME IInv, NEW p \in Threads, Sweep(p)
    PROVE  IInv'
<1> DEFINE r == request[p]
           T == IF ScanRecovery THEN {t \in Tasks : word[t].trainer = Dropped(p)}
                ELSE ClientTasks(Dropped(p))
<1>1. T \in SUBSET Tasks
  BY DEF ClientTasks
<1>2. request' = [request EXCEPT ![p].pc = "release", ![p].todo = T]
  BY DEF Sweep
<1> HIDE DEF T
<1>3. Moves(p, "release", T, r.train, r.expired)
  BY <1>1, <1>2, PcTodo DEF IInv, Pcs
<1>4. Place(p)'
  <2>1. Place(p) /\ r.pc = "sweep" /\ r.expired # {}
    BY DEF IInv, Places, Sweep, At
  <2> QED
    BY <1>3, <2>1, MovePlace
    DEF IInv, Sweep, Place, Serves, Looping, Releasing, Dispatching, Holding,
        RiskStays, OwnersStay, sessionVars
<1> QED
  BY <1>3, <1>4, OnlyRequest DEF Sweep, Moves, sessionVars, taskVars, roundVars

\* Expiry marks every SID it is going to release.
LEMMA ExpireStep ==
    ASSUME IInv, NEW p \in Threads, Expire(p)
    PROVE  IInv'
<1> DEFINE r == request[p]
<1>1. Overdue \in SUBSET Sids
  BY DEF Overdue
<1>2. Moves(p, "sweep", r.todo, r.train, Overdue)
  BY <1>1, PcExpired DEF IInv, Pcs, Expire
<1>3. /\ session' \in [Sids -> [registered : BOOLEAN, online : BOOLEAN,
                                risk : BOOLEAN, lapsed : BOOLEAN]]
      /\ RiskStays
      /\ \A s \in Overdue : session'[s].risk
  BY <1>1 DEF Expire, MarkOffline, IInv, TypeOK, RiskStays
<1>4. Place(p)'
  <2>1. Place(p) /\ r.pc = "expire"
    BY DEF IInv, Places, Expire, At
  <2> QED
    BY <1>2, <1>3, <2>1
    DEF Expire, Moves, Place, Serves, Looping, Releasing, Dispatching, Holding, ClientKinds
<1>5. Places'
  BY <1>2, <1>3, <1>4, OthersPlaces DEF IInv, Expire, Moves, OwnersStay
<1>6. TypeOK'
  BY <1>2, <1>3 DEF IInv, TypeOK, Expire, Moves, taskVars, roundVars
<1>7. TrainerIsOwner'
  BY DEF IInv, TrainerIsOwner, Expire, taskVars
<1> QED
  BY <1>5, <1>6, <1>7 DEF IInv

\* A release goes on with a SID that is still marked, or ends.
LEMMA NextDroppedPlace ==
    ASSUME IInv, NEW p \in Threads, request[p].pc = "release", NextDropped(p),
           UNCHANGED <<session, owners, lock>>
    PROVE  /\ request' \in [Threads -> Request]
           /\ \A q \in Threads \ {p} : request'[q] = request[q]
           /\ Place(p)'
<1> DEFINE r == request[p]
<1>1. Place(p) /\ r.expired \in SUBSET Sids
  BY DEF IInv, Places, TypeOK, Request
<1>2. CASE r.kind = "expire" /\ r.expired = {Dropped(p)}
  <2>1. Ends(p)
    BY <1>2, DoneEnds DEF NextDropped, IInv
  <2>2. lock' # p
    BY <1>1 DEF Place, Holding
  <2> QED
    BY <2>1, <2>2, EndPlace DEF Ends
<1>3. CASE ~(r.kind = "expire" /\ r.expired = {Dropped(p)})
  <2> DEFINE E == r.expired \ {Dropped(p)}
  <2>1. E \in SUBSET Sids
    BY <1>1
  <2>2. request' = [request EXCEPT ![p].pc = "sweep", ![p].expired = E]
    BY <1>3 DEF NextDropped
  <2>3. r.kind = "expire" => E # {}
    BY <1>1, <1>3, NextDrop DEF Place, IInv
  <2> HIDE DEF E
  <2>4. Moves(p, "sweep", r.todo, r.train, E)
    BY <2>1, <2>2, PcExpired DEF IInv, Pcs
  <2>5. E \subseteq r.expired
    BY DEF E
  <2>6. Place(p)'
    BY <1>1, <2>3, <2>4, <2>5, MovePlace
    DEF IInv, Place, Serves, Looping, Releasing, Dispatching, Holding, RiskStays, OwnersStay
  <2> QED
    BY <2>4, <2>6 DEF Moves
<1> QED
  BY <1>2, <1>3

\* A release empties the word of the dropped trainer only.
LEMMA ReleaseStep ==
    ASSUME IInv, NEW p \in Threads, Release(p)
    PROVE  IInv'
<1> DEFINE r == request[p]
<1>1. Place(p) /\ r.pc = "release" /\ UNCHANGED <<session, owners, lock>>
  BY DEF IInv, Places, Release, At, sessionVars
<1>2. /\ request' \in [Threads -> Request]
      /\ \A q \in Threads \ {p} : request'[q] = request[q]
      /\ Place(p)'
  <2>1. CASE Todo(p) = {}
    BY <1>1, <2>1, NextDroppedPlace DEF Release
  <2>2. CASE Todo(p) # {} /\ OwnPending(Task(p), Dropped(p))
    <3>1. Moves(p, "flag", Todo(p), r.train, r.expired)
      BY <2>2, GotoMoves DEF Release, IInv, Pcs
    <3>2. Place(p)'
      BY <1>1, <2>2, <3>1, MovePlace
      DEF IInv, Place, Serves, Looping, Releasing, Dispatching, Holding, RiskStays, OwnersStay
    <3> QED
      BY <3>1, <3>2 DEF Moves
  <2>3. CASE Todo(p) # {} /\ ~OwnPending(Task(p), Dropped(p))
    <3>1. Moves(p, "release", Todo(p) \ {Task(p)}, r.train, r.expired)
      BY <2>3, NextTaskMoves DEF Release, IInv, Pcs
    <3>2. Place(p)'
      BY <1>1, <3>1, MovePlace
      DEF IInv, Place, Serves, Looping, Releasing, Dispatching, Holding, RiskStays, OwnersStay
    <3> QED
      BY <3>1, <3>2 DEF Moves
  <2> QED
    BY <2>1, <2>2, <2>3
<1>3. Places'
  BY <1>1, <1>2, OthersPlaces DEF IInv, RiskStays, OwnersStay
<1>4. /\ word' \in [Tasks -> Word]
      /\ \A t \in Tasks : word'[t].trainer \in {word[t].trainer, NoSid}
  <2>1. CASE word' = word
    BY <2>1 DEF IInv, TypeOK
  <2>2. CASE Todo(p) # {} /\ word' = [word EXCEPT ![Task(p)] = EmptyWord]
    <3>1. Task(p) \in Tasks /\ EmptyWord \in Word /\ EmptyWord.trainer = NoSid
      BY <2>2, NextTodo, EmptyWordType DEF IInv, EmptyWord
    <3> QED
      BY <2>2, <3>1, WordSet DEF IInv
  <2> QED
    BY <2>1, <2>2 DEF Release
<1>5. TypeOK'
  BY <1>2, <1>4 DEF IInv, TypeOK, Release, sessionVars, roundVars
<1>6. TrainerIsOwner'
  BY <1>4, OwnersKept DEF IInv, Release, OwnersStay
<1> QED
  BY <1>3, <1>5, <1>6 DEF IInv

\* The steps after a release keep the task in the loop.
LEMMA FlagReleasedStep ==
    ASSUME IInv, NEW p \in Threads, FlagReleased(p)
    PROVE  IInv'
<1> DEFINE r == request[p]
<1>1. Place(p) /\ r.pc = "flag" /\ UNCHANGED <<session, owners, lock>>
  BY DEF IInv, Places, FlagReleased, At, sessionVars
<1>2. Moves(p, "enable", Todo(p), r.train, r.expired)
  BY GotoMoves DEF FlagReleased, IInv, Pcs
<1>3. Place(p)'
  BY <1>1, <1>2, MovePlace
  DEF IInv, Place, Serves, Looping, Releasing, Dispatching, Holding, RiskStays, OwnersStay, Todo
<1>4. Places'
  BY <1>1, <1>2, <1>3, OthersPlaces DEF IInv, RiskStays, OwnersStay, Moves
<1>5. TypeOK'
  BY <1>2 DEF IInv, TypeOK, FlagReleased, Moves, sessionVars, roundVars
<1>6. TrainerIsOwner'
  BY OwnersKept DEF IInv, FlagReleased, OwnersStay
<1> QED
  BY <1>4, <1>5, <1>6 DEF IInv

\* The last of them takes the task off the loop.
LEMMA EnableDispatchStep ==
    ASSUME IInv, NEW p \in Threads, EnableDispatch(p)
    PROVE  IInv'
<1> DEFINE r == request[p]
<1>1. Place(p) /\ r.pc = "enable" /\ UNCHANGED <<session, owners, lock, word, previous>>
  BY DEF IInv, Places, EnableDispatch, At, sessionVars, taskVars
<1>2. Moves(p, "release", Todo(p) \ {Task(p)}, r.train, r.expired)
  BY NextTaskMoves DEF EnableDispatch, IInv, Pcs
<1>3. Place(p)'
  BY <1>1, <1>2, MovePlace
  DEF IInv, Place, Serves, Looping, Releasing, Dispatching, Holding, RiskStays, OwnersStay
<1>4. Places'
  BY <1>1, <1>2, <1>3, OthersPlaces DEF IInv, RiskStays, OwnersStay, Moves
<1>5. TypeOK'
  BY <1>2 DEF IInv, TypeOK, EnableDispatch, Moves, sessionVars, taskVars, roundVars
<1>6. TrainerIsOwner'
  BY <1>1, OwnersKept DEF IInv, OwnersStay
<1> QED
  BY <1>4, <1>5, <1>6 DEF IInv

\* An admitted request begins its own loop.
LEMMA AdmitStep ==
    ASSUME IInv, NEW p \in Threads, Admit(p)
    PROVE  IInv'
<1> DEFINE r == request[p]
<1>1. Place(p) /\ r.pc = "sweep" /\ r.expired = {} /\ r.tasks \in SUBSET Tasks
  BY DEF IInv, Places, Admit, At, TypeOK, Request
<1>2. UNCHANGED <<session, owners, lock>>
  BY DEF Admit, sessionVars
<1>3. /\ request' \in [Threads -> Request]
      /\ \A q \in Threads \ {p} : request'[q] = request[q]
      /\ Place(p)'
  <2>1. CASE ~Online(Sid(p))
    <3>1. Ends(p)
      BY <2>1, DoneEnds DEF Admit, IInv
    <3>2. lock' # p
      BY <1>1, <1>2 DEF Place, Holding
    <3> QED
      BY <3>1, <3>2, EndPlace DEF Ends
  <2>2. ASSUME Online(Sid(p)), NEW pc \in {"append", "claimLook"},
               request' = [request EXCEPT ![p].pc = pc, ![p].todo = r.tasks],
               r.kind = IF pc = "append" THEN "labels" ELSE "claim"
        PROVE  Moves(p, pc, r.tasks, r.train, r.expired) /\ Place(p)'
    <3>1. Moves(p, pc, r.tasks, r.train, r.expired)
      BY <1>1, <2>2, PcTodo DEF IInv, Pcs
    <3> QED
      BY <1>1, <1>2, <2>2, <3>1, MovePlace
      DEF IInv, Place, Serves, Looping, Releasing, Dispatching, Holding, RiskStays, OwnersStay
  <2>3. CASE Online(Sid(p)) /\ r.kind = "finalize"
    <3>1. Moves(p, "check", Todo(p), r.train, r.expired)
      BY <2>3, GotoMoves DEF Admit, IInv, Pcs
    <3>2. Place(p)'
      BY <1>1, <1>2, <2>3, <3>1, MovePlace
      DEF IInv, Place, Serves, Looping, Releasing, Dispatching, Holding, RiskStays, OwnersStay
    <3> QED
      BY <3>1, <3>2 DEF Moves
  <2>4. CASE Online(Sid(p)) /\ r.kind = "labels"
    BY <2>2, <2>4 DEF Admit, Moves
  <2>5. CASE Online(Sid(p)) /\ r.kind = "claim"
    BY <2>2, <2>5 DEF Admit, Moves
  <2>6. r.kind \in {"finalize", "labels", "claim"}
    BY <1>1 DEF Place, Serves, Releasing, Dispatching
  <2> QED
    BY <2>1, <2>3, <2>4, <2>5, <2>6
<1> QED
  BY <1>3, OnlyRequest DEF Admit, sessionVars, taskVars, roundVars

-----------------------------------------------------------------------------
\* Heartbeats.

LEMMA InstructStep ==
    ASSUME IInv, NEW p \in Threads, Instruct(p)
    PROVE  IInv'
<1> DEFINE r == request[p]
<1>1. Place(p) /\ r.pc = "instruct" /\ UNCHANGED <<session, owners, lock>>
  BY DEF IInv, Places, Instruct, At, sessionVars
<1>2. /\ request' \in [Threads -> Request]
      /\ \A q \in Threads \ {p} : request'[q] = request[q]
      /\ Place(p)'
  <2>1. CASE dispatch
    <3>1. ClientTasks(Sid(p)) \in SUBSET Tasks
      BY DEF ClientTasks
    <3>2. Moves(p, "look", ClientTasks(Sid(p)), r.train, r.expired)
      BY <2>1, <3>1, PcTodo DEF IInv, Pcs, Instruct
    <3>3. Place(p)'
      BY <1>1, <3>2, MovePlace
      DEF IInv, Place, Serves, Looping, Releasing, Dispatching, Holding, RiskStays, OwnersStay
    <3> QED
      BY <3>2, <3>3 DEF Moves
  <2>2. CASE ~dispatch
    <3>1. Ends(p)
      BY <2>2, DoneEnds DEF Instruct, IInv
    <3>2. lock' # p
      BY <1>1 DEF Place, Holding
    <3> QED
      BY <3>1, <3>2, EndPlace DEF Ends
  <2> QED
    BY <2>1, <2>2
<1> QED
  BY <1>2, OnlyRequest DEF Instruct, sessionVars, taskVars, roundVars

\* A dispatch drops the task or goes on to select its trainer.
LEMMA LookStep ==
    ASSUME IInv, NEW p \in Threads, Look(p)
    PROVE  IInv'
<1> DEFINE r == request[p]
<1>1. /\ Place(p) /\ r.pc = "look" /\ UNCHANGED <<session, owners, lock>>
      /\ r.train \in SUBSET Tasks /\ r.todo \in SUBSET Tasks
  BY DEF IInv, Places, Look, At, sessionVars, TypeOK, Request
<1>2. PICK pc \in {"look", "select", "answer"}, todo \in SUBSET r.todo, train \in SUBSET Tasks :
         /\ Moves(p, pc, todo, train, r.expired)
         /\ pc = "select" => todo # {}
  <2>1. CASE Todo(p) = {}
    BY <1>1, <2>1, GotoMoves DEF Look, IInv, Pcs, Todo
  <2>2. CASE Todo(p) # {} /\ OwnPending(Task(p), Sid(p))
    <3> DEFINE T == r.train \cup {Task(p)}
               D == r.todo \ {Task(p)}
    <3>1. T \in SUBSET Tasks /\ D \in SUBSET Tasks /\ D \in SUBSET r.todo
      BY <1>1, <2>2, NextTodo DEF IInv
    <3>2. request' = [request EXCEPT ![p].train = T, ![p].todo = D]
      BY <2>2 DEF Look
    <3> HIDE DEF T, D
    <3>3. Moves(p, "look", D, T, r.expired)
      BY <1>1, <3>1, <3>2, TrainTodo DEF IInv
    <3> QED
      BY <3>1, <3>3
  <2>3. CASE Todo(p) # {} /\ ~OwnPending(Task(p), Sid(p)) /\ word[Task(p)].state = EMPTY
    BY <1>1, <2>3, GotoMoves DEF Look, IInv, Pcs, Todo
  <2>4. CASE Todo(p) # {} /\ ~OwnPending(Task(p), Sid(p)) /\ word[Task(p)].state # EMPTY
    <3>1. Moves(p, "look", Todo(p) \ {Task(p)}, r.train, r.expired)
      BY <2>4, NextTaskMoves DEF Look, IInv, Pcs
    <3> QED
      BY <1>1, <3>1 DEF Todo
  <2> QED
    BY <2>1, <2>2, <2>3, <2>4
<1>3. Place(p)'
  BY <1>1, <1>2, MovePlace
  DEF IInv, Place, Serves, Looping, Releasing, Dispatching, Holding, RiskStays, OwnersStay, Sid
<1> QED
  BY <1>2, <1>3, OnlyRequest DEF Look, Moves, sessionVars, taskVars, roundVars

\* The selection decides between claiming the task and the next one.
LEMMA SelectStep ==
    ASSUME IInv, NEW p \in Threads, Select(p)
    PROVE  IInv'
<1> DEFINE r == request[p]
<1>1. Place(p) /\ r.pc = "select" /\ UNCHANGED <<session, owners, lock>>
  BY DEF IInv, Places, Select, At, sessionVars
<1>2. PICK pc \in {"look", "take"} :
         \/ pc = "take" /\ Moves(p, pc, Todo(p), r.train, r.expired)
         \/ pc = "look" /\ Moves(p, pc, Todo(p) \ {Task(p)}, r.train, r.expired)
  BY GotoMoves, NextTaskMoves DEF Select, IInv, Pcs
<1>3. Place(p)'
  BY <1>1, <1>2, MovePlace
  DEF IInv, Place, Serves, Looping, Releasing, Dispatching, Holding, RiskStays, OwnersStay,
      Sid, Todo
<1> QED
  BY <1>2, <1>3, OnlyRequest DEF Select, Moves, sessionVars, taskVars, roundVars

\* A claim leaves the word alone, or names the SID that claims.
LEMMA ClaimedWord ==
    ASSUME TypeOK, NEW p \in Threads, Task(p) \in Tasks,
           \/ word' = word
           \/ word' = [word EXCEPT ![Task(p)] = [state |-> PENDING, trainer |-> Sid(p)]]
    PROVE  /\ word' \in [Tasks -> Word]
           /\ \A t \in Tasks : word'[t] = word[t] \/ (t = Task(p) /\ word'[t].trainer = Sid(p))
<1> DEFINE w == [state |-> PENDING, trainer |-> Sid(p)]
<1>1. w \in Word
  BY DEF TypeOK, Request, Sid, Word
<1>2. word' = word \/ word' = [word EXCEPT ![Task(p)] = w]
  OBVIOUS
<1>3. w.trainer = Sid(p)
  OBVIOUS
<1> HIDE DEF w
<1> QED
  BY <1>1, <1>2, <1>3, WordSet DEF TypeOK

\* A dispatch claims tasks its client owns.
LEMMA TakeStep ==
    ASSUME IInv, NEW p \in Threads, Take(p)
    PROVE  IInv'
<1> DEFINE r == request[p]
<1>1. Place(p) /\ r.pc = "take" /\ UNCHANGED <<session, owners, previous, lock>>
  BY DEF IInv, Places, Take, At, sessionVars
<1>2. Task(p) \in Todo(p) /\ Task(p) \in Tasks /\ Sid(p) \in owners[Task(p)]
  BY <1>1, NextTodo DEF IInv, Place, Looping, Dispatching, Todo, Sid, ClientTasks
<1>3. /\ word' \in [Tasks -> Word]
      /\ \A t \in Tasks : word'[t] = word[t] \/ (t = Task(p) /\ word'[t].trainer = Sid(p))
  BY <1>2, ClaimedWord DEF IInv, Take, TryClaim
<1>4. PICK pc \in {"look", "clear"} :
         \/ pc = "clear" /\ Moves(p, pc, Todo(p), r.train, r.expired)
         \/ pc = "look" /\ Moves(p, pc, Todo(p) \ {Task(p)}, r.train, r.expired)
  BY GotoMoves, NextTaskMoves DEF IInv, Pcs, Take, TryClaim
<1>5. Place(p)'
  BY <1>1, <1>4, MovePlace
  DEF IInv, Place, Serves, Looping, Releasing, Dispatching, Holding, RiskStays, OwnersStay,
      Sid, Todo
<1>6. Places'
  BY <1>1, <1>4, <1>5, OthersPlaces DEF IInv, RiskStays, OwnersStay, Moves
<1>7. TypeOK'
  BY <1>3, <1>4 DEF IInv, TypeOK, Take, Moves, sessionVars, roundVars
<1>8. TrainerIsOwner'
  BY <1>1, <1>2, <1>3, OwnersKept DEF IInv, OwnersStay
<1> QED
  BY <1>6, <1>7, <1>8 DEF IInv

\* Clearing the recovery flag ends the turn of the task.
LEMMA ClearRecoveryStep ==
    ASSUME IInv, NEW p \in Threads, ClearRecovery(p)
    PROVE  IInv'
<1> DEFINE r == request[p]
           T == r.train \cup {Task(p)}
           D == r.todo \ {Task(p)}
<1>1. Place(p) /\ r.pc = "clear" /\ UNCHANGED <<session, owners, word, previous, lock>>
  BY DEF IInv, Places, ClearRecovery, At, sessionVars
<1>2. T \in SUBSET Tasks /\ D \in SUBSET Tasks /\ D \in SUBSET r.todo
  BY <1>1, NextTodo DEF IInv, Place, Looping, TypeOK, Request, Todo
<1>3. request' = [request EXCEPT ![p].pc = "look", ![p].train = T, ![p].todo = D]
  BY DEF ClearRecovery
<1> HIDE DEF T, D
<1>4. Moves(p, "look", D, T, r.expired)
  BY <1>2, <1>3, PcTrainTodo DEF IInv, Pcs
<1>5. Place(p)'
  BY <1>1, <1>2, <1>4, MovePlace
  DEF IInv, Place, Serves, Looping, Releasing, Dispatching, Holding, RiskStays, OwnersStay, Sid
<1>6. Places'
  BY <1>1, <1>4, <1>5, OthersPlaces DEF IInv, RiskStays, OwnersStay, Moves
<1>7. TypeOK'
  BY <1>4 DEF IInv, TypeOK, ClearRecovery, Moves, sessionVars, roundVars
<1>8. TrainerIsOwner'
  BY <1>1, OwnersKept DEF IInv, OwnersStay
<1> QED
  BY <1>6, <1>7, <1>8 DEF IInv

\* An answer ends the request.
LEMMA AnswerStep ==
    ASSUME IInv, NEW p \in Threads, Answer(p)
    PROVE  IInv'
<1>1. Place(p) /\ At(p, "answer") /\ UNCHANGED <<session, owners, word, previous, lock>>
  BY DEF IInv, Places, Answer, sessionVars, taskVars
<1>2. Ends(p) /\ Place(p)'
  <2>1. Ends(p)
    BY DoneEnds DEF Answer, IInv
  <2>2. lock' # p
    BY <1>1 DEF Place, Holding, At
  <2> QED
    BY <2>1, <2>2, EndPlace
<1>3. Places'
  BY <1>1, <1>2, OthersPlaces DEF IInv, RiskStays, OwnersStay, Ends
<1>4. work' \in [Sids -> SUBSET Tasks]
  <2> DEFINE new == IF request[p].torn THEN work[Sid(p)] ELSE work[Sid(p)] \cup request[p].train
  <2>1. Sid(p) \in Sids
    BY <1>1 DEF Place, Serves, Dispatching, Releasing, ClientKinds, Sid, At
  <2>2. new \in SUBSET Tasks
    BY <2>1 DEF IInv, TypeOK, Request
  <2>3. work' = work \/ work' = [work EXCEPT ![Sid(p)] = new]
    BY DEF Answer, Reply
  <2> HIDE DEF new
  <2> QED
    BY <2>1, <2>2, <2>3 DEF IInv, TypeOK
<1>5. TypeOK'
  BY <1>2, <1>4 DEF IInv, TypeOK, Answer, Ends, sessionVars, taskVars, roundVars
<1>6. TrainerIsOwner'
  BY <1>1, OwnersKept DEF IInv, OwnersStay
<1> QED
  BY <1>3, <1>5, <1>6 DEF IInv

-----------------------------------------------------------------------------
\* Labels and claims.

LEMMA AppendOwnerStep ==
    ASSUME IInv, NEW p \in Threads, AppendOwner(p)
    PROVE  IInv'
<1> DEFINE r == request[p]
<1>1. /\ Place(p) /\ r.pc = "append"
      /\ UNCHANGED <<session, word, previous, lock>>
  BY DEF IInv, Places, AppendOwner, At, sessionVars, taskVars
<1>2. Sid(p) \in Sids
  BY <1>1 DEF Place, Serves, Dispatching, Releasing, ClientKinds, Sid
<1>3. owners' \in [Tasks -> SUBSET Sids] /\ OwnersStay
  <2>1. CASE UNCHANGED owners
    BY <2>1 DEF IInv, TypeOK, OwnersStay
  <2>2. CASE Todo(p) # {} /\ owners' = [owners EXCEPT ![Task(p)] = @ \cup {Sid(p)}]
    <3> DEFINE t == Task(p)
               O == owners[t] \cup {Sid(p)}
    <3>1. t \in Tasks /\ O \in SUBSET Sids /\ owners[t] \subseteq O
      BY <1>2, <2>2, NextTodo DEF IInv, TypeOK
    <3>2. owners' = [owners EXCEPT ![t] = O]
      BY <2>2
    <3> HIDE DEF t, O
    <3> QED
      BY <3>1, <3>2 DEF IInv, TypeOK, OwnersStay
  <2> QED
    BY <2>1, <2>2 DEF AppendOwner
<1>4. /\ request' \in [Threads -> Request]
      /\ \A q \in Threads \ {p} : request'[q] = request[q]
      /\ Place(p)'
  <2>1. CASE NextTask(p, "append")
    <3>1. Moves(p, "append", Todo(p) \ {Task(p)}, r.train, r.expired)
      BY <2>1, NextTaskMoves DEF IInv, Pcs
    <3>2. Place(p)'
      BY <1>1, <1>3, <3>1, MovePlace
      DEF IInv, Place, Serves, Looping, Releasing, Dispatching, Holding, RiskStays
    <3> QED
      BY <3>1, <3>2 DEF Moves
  <2>2. CASE Done(p)
    <3>1. Ends(p)
      BY <2>2, DoneEnds DEF IInv
    <3>2. lock' # p
      BY <1>1 DEF Place, Holding
    <3> QED
      BY <3>1, <3>2, EndPlace DEF Ends
  <2> QED
    BY <2>1, <2>2 DEF AppendOwner
<1>5. Places'
  BY <1>1, <1>3, <1>4, OthersPlaces DEF IInv, RiskStays
<1>6. TypeOK'
  BY <1>3, <1>4 DEF IInv, TypeOK, AppendOwner, sessionVars, taskVars, roundVars
<1>7. TrainerIsOwner'
  BY <1>1, <1>3, OwnersKept DEF IInv
<1> QED
  BY <1>5, <1>6, <1>7 DEF IInv

\* A claim asks the owner list before it tries the task.
LEMMA ClaimLookStep ==
    ASSUME IInv, NEW p \in Threads, ClaimLook(p)
    PROVE  IInv'
<1> DEFINE r == request[p]
<1>1. /\ Place(p) /\ r.pc = "claimLook" /\ UNCHANGED <<session, owners, lock>>
      /\ r.train \in SUBSET Tasks /\ r.todo \in SUBSET Tasks
  BY DEF IInv, Places, ClaimLook, At, sessionVars, TypeOK, Request
<1>2. \/ Ends(p)
      \/ \E todo \in SUBSET Tasks, train \in SUBSET Tasks, pc \in {"answer", "claimLook"} :
            Moves(p, pc, todo, train, r.expired)
      \/ /\ Moves(p, "claimTry", Todo(p), r.train, r.expired)
         /\ Todo(p) # {} /\ Sid(p) \in owners[Task(p)]
  <2>1. CASE Todo(p) = {}
    BY <1>1, <2>1, GotoMoves DEF ClaimLook, IInv, Pcs, Todo
  <2>2. CASE Todo(p) # {} /\ Sid(p) \notin owners[Task(p)]
    BY <2>2, DoneEnds DEF ClaimLook, IInv
  <2>3. CASE Todo(p) # {} /\ Sid(p) \in owners[Task(p)] /\ word[Task(p)].state = EMPTY
    BY <2>3, GotoMoves DEF ClaimLook, IInv, Pcs
  <2>4. CASE /\ Todo(p) # {} /\ Sid(p) \in owners[Task(p)]
             /\ word[Task(p)].state # EMPTY /\ OwnPending(Task(p), Sid(p))
    <3> DEFINE T == r.train \cup {Task(p)}
               D == r.todo \ {Task(p)}
    <3>1. T \in SUBSET Tasks /\ D \in SUBSET Tasks
      BY <1>1, <2>4, NextTodo DEF IInv
    <3>2. request' = [request EXCEPT ![p].train = T, ![p].todo = D]
      BY <2>4 DEF ClaimLook
    <3> HIDE DEF T, D
    <3>3. Moves(p, "claimLook", D, T, r.expired)
      BY <1>1, <3>1, <3>2, TrainTodo DEF IInv
    <3> QED
      BY <3>1, <3>3
  <2>5. CASE /\ Todo(p) # {} /\ Sid(p) \in owners[Task(p)]
             /\ word[Task(p)].state # EMPTY /\ ~OwnPending(Task(p), Sid(p))
    <3>1. Moves(p, "claimLook", Todo(p) \ {Task(p)}, r.train, r.expired)
      BY <2>5, NextTaskMoves DEF ClaimLook, IInv, Pcs
    <3> QED
      BY <1>1, <3>1 DEF Todo
  <2> QED
    BY <2>1, <2>2, <2>3, <2>4, <2>5
<1>3. /\ request' \in [Threads -> Request]
      /\ \A q \in Threads \ {p} : request'[q] = request[q]
      /\ Place(p)'
  <2>1. CASE Ends(p)
    <3>1. lock' # p
      BY <1>1 DEF Place, Holding
    <3> QED
      BY <2>1, <3>1, EndPlace DEF Ends
  <2>2. ASSUME NEW todo \in SUBSET Tasks, NEW train \in SUBSET Tasks,
               NEW pc \in {"answer", "claimLook"}, Moves(p, pc, todo, train, r.expired)
        PROVE  Place(p)'
    BY <1>1, <2>2, MovePlace
    DEF IInv, Place, Serves, Looping, Releasing, Dispatching, Holding, RiskStays, OwnersStay
  <2>3. ASSUME Moves(p, "claimTry", Todo(p), r.train, r.expired),
               Todo(p) # {}, Sid(p) \in owners[Task(p)]
        PROVE  Place(p)'
    BY <1>1, <2>3, MovePlace, NextTodo
    DEF IInv, Place, Serves, Looping, Releasing, Dispatching, Holding, RiskStays, OwnersStay, Task
  <2> QED
    BY <1>2, <2>1, <2>2, <2>3 DEF Moves
<1> QED
  BY <1>3, OnlyRequest DEF ClaimLook, sessionVars, taskVars, roundVars

\* So the task it wins is owned.
LEMMA ClaimTryStep ==
    ASSUME IInv, NEW p \in Threads, ClaimTry(p)
    PROVE  IInv'
<1> DEFINE r == request[p]
           T == r.train \cup {Task(p)}
<1>1. Place(p) /\ r.pc = "claimTry" /\ UNCHANGED <<session, owners, previous, lock>>
  BY DEF IInv, Places, ClaimTry, At, sessionVars
<1>2. /\ Task(p) \in Tasks /\ Sid(p) \in owners[Task(p)] /\ Todo(p) # {}
      /\ T \in SUBSET Tasks
  BY <1>1, NextTodo DEF IInv, Place, Looping, Todo, Sid, TypeOK, Request
<1>3. /\ word' \in [Tasks -> Word]
      /\ \A t \in Tasks : word'[t] = word[t] \/ (t = Task(p) /\ word'[t].trainer = Sid(p))
  BY <1>2, ClaimedWord DEF IInv, ClaimTry, TryClaim
<1>4. PICK train : Moves(p, "claimFinal", Todo(p), train, r.expired)
  <2>1. \/ request' = [request EXCEPT ![p].pc = "claimFinal", ![p].train = T]
        \/ Goto(p, "claimFinal")
    BY DEF ClaimTry, TryClaim
  <2> HIDE DEF T
  <2> QED
    BY <1>2, <2>1, GotoMoves, PcTrain DEF IInv, Pcs, Todo
<1>5. Place(p)'
  BY <1>1, <1>2, <1>4, MovePlace
  DEF IInv, Place, Serves, Looping, Releasing, Dispatching, Holding, RiskStays, OwnersStay
<1>6. Places'
  BY <1>1, <1>4, <1>5, OthersPlaces DEF IInv, RiskStays, OwnersStay, Moves
<1>7. TypeOK'
  BY <1>3, <1>4 DEF IInv, TypeOK, ClaimTry, Moves, sessionVars, roundVars
<1>8. TrainerIsOwner'
  BY <1>1, <1>2, <1>3, OwnersKept DEF IInv, OwnersStay
<1> QED
  BY <1>6, <1>7, <1>8 DEF IInv

\* The second snapshot ends the turn of the task.
LEMMA ClaimFinalStep ==
    ASSUME IInv, NEW p \in Threads, ClaimFinal(p)
    PROVE  IInv'
<1> DEFINE r == request[p]
           t == Task(p)
           D == r.todo \ {t}
           T == IF OwnPending(t, Sid(p)) THEN r.train \cup {t} ELSE r.train
           torn == r.torn \/ (t \in r.train /\ word[t].state # PENDING)
<1>1. Place(p) /\ r.pc = "claimFinal" /\ UNCHANGED <<session, owners, lock>>
  BY DEF IInv, Places, ClaimFinal, At, sessionVars
<1>2. D \in SUBSET Tasks /\ T \in SUBSET Tasks /\ torn \in BOOLEAN
  BY <1>1, NextTodo DEF IInv, Place, Looping, Todo, TypeOK, Request
<1>3. request' = [request EXCEPT ![p].pc = "claimLook", ![p].todo = D,
                                 ![p].train = T, ![p].torn = torn]
  BY DEF ClaimFinal
<1> HIDE DEF D, T, torn
<1>4. Moves(p, "claimLook", D, T, r.expired)
  BY <1>2, <1>3, PcTodoTrainTorn DEF IInv, Pcs
<1>5. Place(p)'
  BY <1>1, <1>4, MovePlace
  DEF IInv, Place, Serves, Looping, Releasing, Dispatching, Holding, RiskStays, OwnersStay
<1> QED
  BY <1>4, <1>5, OnlyRequest DEF ClaimFinal, Moves, sessionVars, taskVars, roundVars

-----------------------------------------------------------------------------
\* Finalize.

LEMMA CheckUpdateStep ==
    ASSUME IInv, NEW p \in Threads, CheckUpdate(p)
    PROVE  IInv'
<1> DEFINE r == request[p]
           old == updates[r.round][Sid(p)].tasks
<1>1. /\ Place(p) /\ r.pc = "check"
      /\ UNCHANGED <<session, owners, word, previous, lock>>
  BY DEF IInv, Places, CheckUpdate, At, sessionVars, taskVars
<1>2. Sid(p) \in Sids /\ r.tasks \in SUBSET Tasks
  BY <1>1 DEF Place, Serves, Dispatching, Releasing, ClientKinds, Sid, IInv, TypeOK, Request
<1>3. \/ Done(p)
      \/ request' = [request EXCEPT ![p].pc = "store", ![p].todo = r.tasks \ old]
  BY DEF CheckUpdate
<1>4. /\ request' \in [Threads -> Request]
      /\ \A q \in Threads \ {p} : request'[q] = request[q]
      /\ Place(p)'
  <2>1. CASE Done(p)
    <3>1. Ends(p)
      BY <2>1, DoneEnds DEF IInv
    <3>2. lock' # p
      BY <1>1 DEF Place, Holding
    <3> QED
      BY <3>1, <3>2, EndPlace DEF Ends
  <2>2. CASE request' = [request EXCEPT ![p].pc = "store", ![p].todo = r.tasks \ old]
    <3> DEFINE D == r.tasks \ old
    <3>1. D \in SUBSET Tasks
      BY <1>2
    <3>2. request' = [request EXCEPT ![p].pc = "store", ![p].todo = D]
      BY <2>2
    <3> HIDE DEF D
    <3>3. Moves(p, "store", D, r.train, r.expired)
      BY <3>1, <3>2, PcTodo DEF IInv, Pcs
    <3>4. Place(p)'
      BY <1>1, <3>3, MovePlace
      DEF IInv, Place, Serves, Looping, Releasing, Dispatching, Holding, RiskStays, OwnersStay
    <3> QED
      BY <3>3, <3>4 DEF Moves
  <2> QED
    BY <1>3, <2>1, <2>2
<1>5. Places'
  BY <1>1, <1>4, OthersPlaces DEF IInv, RiskStays, OwnersStay
<1>6. work' \in [Sids -> SUBSET Tasks]
  <2>1. \/ work' = work
        \/ work' = [work EXCEPT ![Sid(p)] = work[Sid(p)] \ TakenOver(Sid(p), r.tasks)]
    BY DEF CheckUpdate, Reply
  <2> QED
    BY <1>2, <2>1 DEF IInv, TypeOK
<1>7. TypeOK'
  BY <1>4, <1>6 DEF IInv, TypeOK, CheckUpdate, sessionVars, taskVars, roundVars
<1>8. TrainerIsOwner'
  BY <1>1, OwnersKept DEF IInv, OwnersStay
<1> QED
  BY <1>5, <1>7, <1>8 DEF IInv

\* Publishing a checkpoint enters the section that commits it.
LEMMA StoreUpdateStep ==
    ASSUME IInv, NEW p \in Threads, StoreUpdate(p)
    PROVE  IInv'
<1> DEFINE r == request[p]
<1>1. /\ Place(p) /\ r.pc = "store"
      /\ UNCHANGED <<session, owners, word, previous>>
  BY DEF IInv, Places, StoreUpdate, At, sessionVars, taskVars
<1>2. /\ request' \in [Threads -> Request]
      /\ \A q \in Threads \ {p} : request'[q] = request[q]
      /\ Place(p)'
  <2>1. CASE Done(p) /\ UNCHANGED lock
    <3>1. Ends(p)
      BY <2>1, DoneEnds DEF IInv
    <3>2. lock' # p
      BY <1>1, <2>1 DEF Place, Holding
    <3> QED
      BY <3>1, <3>2, EndPlace DEF Ends
  <2>2. CASE lock' = p /\ Goto(p, "commit")
    <3>1. Moves(p, "commit", Todo(p), r.train, r.expired)
      BY <2>2, GotoMoves DEF IInv, Pcs
    <3>2. Place(p)'
      BY <1>1, <2>2, <3>1, MovePlace
      DEF IInv, Place, Serves, Looping, Releasing, Dispatching, Holding, RiskStays, OwnersStay
    <3> QED
      BY <3>1, <3>2 DEF Moves
  <2> QED
    BY <2>1, <2>2 DEF StoreUpdate
<1>3. lock' = lock \/ (lock = Free /\ lock' = p)
  BY DEF StoreUpdate, Unlocked
<1>4. Places'
  BY <1>1, <1>2, <1>3, OthersPlaces DEF IInv, RiskStays, OwnersStay
<1>5. TypeOK'
  BY <1>2, <1>3 DEF IInv, TypeOK, StoreUpdate, sessionVars, taskVars, roundVars
<1>6. TrainerIsOwner'
  BY <1>1, OwnersKept DEF IInv, OwnersStay
<1> QED
  BY <1>4, <1>5, <1>6 DEF IInv

\* A commit keeps the trainer, and a rejection gives up the lock.
LEMMA CommitTaskStep ==
    ASSUME IInv, NEW p \in Threads, CommitTask(p)
    PROVE  IInv'
<1> DEFINE r == request[p]
<1>1. /\ Place(p) /\ r.pc = "commit" /\ lock = p
      /\ UNCHANGED <<session, owners, previous>>
  BY DEF IInv, Places, CommitTask, At, sessionVars, Place, Holding
<1>2. Task(p) \in Tasks
  BY NextTodo DEF IInv, CommitTask
<1>3. /\ word' \in [Tasks -> Word]
      /\ \A t \in Tasks : word'[t].trainer = word[t].trainer
  <2>1. CASE word' = word
    BY <2>1 DEF IInv, TypeOK
  <2>2. CASE word' = [word EXCEPT ![Task(p)].state = COMMITTED]
    <3> DEFINE t == Task(p)
               w == [word[t] EXCEPT !.state = COMMITTED]
    <3>1. word[t] \in Word
      BY <1>2 DEF IInv, TypeOK
    <3>2. w \in Word /\ w.trainer = word[t].trainer
      BY <3>1 DEF Word
    <3>3. word' = [word EXCEPT ![t] = w]
      BY <2>2
    <3> HIDE DEF w
    <3> QED
      BY <1>2, <3>2, <3>3, WordSet DEF IInv
  <2> QED
    BY <2>1, <2>2 DEF CommitTask
<1>4. /\ request' \in [Threads -> Request]
      /\ \A q \in Threads \ {p} : request'[q] = request[q]
      /\ Place(p)'
  <2>1. CASE Done(p) /\ lock' = Free
    <3>1. Ends(p)
      BY <2>1, DoneEnds DEF IInv
    <3>2. lock' # p
      BY <2>1, ThreadsAssumption DEF Threads
    <3> QED
      BY <3>1, <3>2, EndPlace DEF Ends
  <2>2. CASE NextTask(p, "commit") /\ UNCHANGED lock
    <3>1. Moves(p, "commit", Todo(p) \ {Task(p)}, r.train, r.expired)
      BY <2>2, NextTaskMoves DEF IInv, Pcs
    <3>2. Place(p)'
      BY <1>1, <2>2, <3>1, MovePlace
      DEF IInv, Place, Serves, Looping, Releasing, Dispatching, Holding, RiskStays, OwnersStay
    <3> QED
      BY <3>1, <3>2 DEF Moves
  <2> QED
    BY <2>1, <2>2 DEF CommitTask
<1>5. lock' \in {p, Free}
  BY <1>1 DEF CommitTask
<1>6. Places'
  BY <1>1, <1>4, <1>5, OthersPlaces DEF IInv, RiskStays, OwnersStay
<1>7. TypeOK'
  BY <1>3, <1>4, <1>5 DEF IInv, TypeOK, CommitTask, sessionVars, roundVars
<1>8. TrainerIsOwner'
  BY <1>1, <1>3, OwnersKept DEF IInv, OwnersStay
<1> QED
  BY <1>6, <1>7, <1>8 DEF IInv

\* Acceptance gives up the lock.
LEMMA AcceptUpdateStep ==
    ASSUME IInv, NEW p \in Threads, AcceptUpdate(p)
    PROVE  IInv'
<1> DEFINE r == request[p]
           n == Cardinality(CommittedBy(Sid(p)))
           U == [tasks |-> r.tasks, samples |-> n]
<1>1. /\ Place(p) /\ r.pc = "commit" /\ lock = p /\ lock' = Free /\ Done(p)
      /\ UNCHANGED <<session, owners, word, previous>>
  BY DEF IInv, Places, AcceptUpdate, At, sessionVars, taskVars, Place, Holding
<1>2. U \in Update
  <2>1. CommittedBy(Sid(p)) \in SUBSET Tasks
    BY DEF CommittedBy
  <2>2. /\ n \in Nat /\ Cardinality(Tasks) \in Nat /\ n <= Cardinality(Tasks)
    BY <2>1, FS_Subset, FS_CardinalityType, TasksAssumption
  <2>3. n \in 0 .. Cardinality(Tasks) /\ r.tasks \in SUBSET Tasks
    BY <2>2 DEF IInv, TypeOK, Request
  <2> HIDE DEF n
  <2> QED
    BY <2>3 DEF Update
<1>3. updates' \in [Rounds -> [Sids -> Update]]
  <2>1. updates' = updates \/ updates' = [updates EXCEPT ![r.round][Sid(p)] = U]
    BY DEF AcceptUpdate
  <2> DEFINE k == r.round
             V == [updates[k] EXCEPT ![Sid(p)] = U]
  <2>2. k \in Rounds
    BY DEF IInv, TypeOK, Request
  <2>3. V \in [Sids -> Update]
    <3> HIDE DEF U
    <3> QED
      BY <1>2, <2>2 DEF IInv, TypeOK
  <2>4. updates' = updates \/ updates' = [updates EXCEPT ![k] = V]
    BY <2>1
  <2> HIDE DEF V, k
  <2> QED
    BY <2>2, <2>3, <2>4 DEF IInv, TypeOK
<1>4. Ends(p) /\ Place(p)'
  <2>1. Ends(p)
    BY <1>1, DoneEnds DEF IInv
  <2>2. lock' # p
    BY <1>1, ThreadsAssumption DEF Threads
  <2> QED
    BY <2>1, <2>2, EndPlace
<1>5. Places'
  BY <1>1, <1>4, OthersPlaces DEF IInv, RiskStays, OwnersStay, Ends
<1>6. TypeOK'
  BY <1>1, <1>3, <1>4 DEF IInv, TypeOK, AcceptUpdate, Ends, sessionVars, taskVars
<1>7. TrainerIsOwner'
  BY <1>1, OwnersKept DEF IInv, OwnersStay
<1> QED
  BY <1>5, <1>6, <1>7 DEF IInv

-----------------------------------------------------------------------------
\* The end of a round.

LEMMA PublishGlobalStep ==
    ASSUME IInv, NEW p \in Threads, PublishGlobal(p)
    PROVE  IInv'
<1> DEFINE r == request[p]
<1>1. /\ Place(p) /\ r.pc = "fedavg" /\ UNCHANGED <<session, owners, word, previous>>
      /\ r.averaged \in [Sids -> Update]
  BY DEF IInv, Places, PublishGlobal, At, sessionVars, taskVars, TypeOK, Request
<1>2. /\ request' \in [Threads -> Request]
      /\ \A q \in Threads \ {p} : request'[q] = request[q]
      /\ Place(p)'
  <2>1. CASE Done(p) /\ UNCHANGED lock
    <3>1. Ends(p)
      BY <2>1, DoneEnds DEF IInv
    <3>2. lock' # p
      BY <1>1, <2>1 DEF Place, Holding
    <3> QED
      BY <3>1, <3>2, EndPlace DEF Ends
  <2>2. CASE lock' = p /\ request' = [request EXCEPT ![p].pc = "retain", ![p].todo = Tasks]
    <3>1. Moves(p, "retain", Tasks, r.train, r.expired)
      BY <2>2, PcTodo DEF IInv, Pcs
    <3>2. Place(p)'
      BY <1>1, <2>2, <3>1, MovePlace
      DEF IInv, Place, Serves, Looping, Releasing, Dispatching, Holding, RiskStays, OwnersStay
    <3> QED
      BY <3>1, <3>2 DEF Moves
  <2> QED
    BY <2>1, <2>2 DEF PublishGlobal
<1>3. lock' = lock \/ (lock = Free /\ lock' = p)
  BY DEF PublishGlobal, Unlocked
<1>4. Places'
  BY <1>1, <1>2, <1>3, OthersPlaces DEF IInv, RiskStays, OwnersStay
<1>5. global' \in [Rounds -> [Sids -> Update]]
  BY <1>1 DEF PublishGlobal, IInv, TypeOK
<1>6. TypeOK'
  BY <1>2, <1>3, <1>5 DEF IInv, TypeOK, PublishGlobal, sessionVars, taskVars
<1>7. TrainerIsOwner'
  BY <1>1, OwnersKept DEF IInv, OwnersStay
<1> QED
  BY <1>4, <1>6, <1>7 DEF IInv

\* The retained trainer was an owner when it committed.
LEMMA RetainTrainerStep ==
    ASSUME IInv, NEW p \in Threads, RetainTrainer(p)
    PROVE  IInv'
<1> DEFINE r == request[p]
<1>1. /\ Place(p) /\ r.pc = "retain" /\ Todo(p) # {}
      /\ UNCHANGED <<session, owners, word, lock>>
  BY DEF IInv, Places, RetainTrainer, At, sessionVars
<1>2. Task(p) \in Tasks
  BY <1>1, NextTodo DEF IInv
<1>3. /\ previous' \in [Tasks -> Sids \cup {NoSid}]
      /\ \A t \in Tasks : previous'[t] \in {previous[t], word[t].trainer}
  <2>1. word[Task(p)].trainer \in Sids \cup {NoSid}
    BY <1>2 DEF IInv, TypeOK, Word
  <2> QED
    BY <1>2, <2>1 DEF RetainTrainer, IInv, TypeOK
<1>4. Moves(p, "reset", Todo(p), r.train, r.expired)
  BY GotoMoves DEF RetainTrainer, IInv, Pcs
<1>5. Place(p)'
  BY <1>1, <1>4, MovePlace
  DEF IInv, Place, Serves, Looping, Releasing, Dispatching, Holding, RiskStays, OwnersStay
<1>6. Places'
  BY <1>1, <1>4, <1>5, OthersPlaces DEF IInv, RiskStays, OwnersStay, Moves
<1>7. TypeOK'
  BY <1>3, <1>4 DEF IInv, TypeOK, RetainTrainer, Moves, sessionVars, roundVars
<1>8. TrainerIsOwner'
  BY <1>1, <1>3, OwnersKept DEF IInv, OwnersStay
<1> QED
  BY <1>6, <1>7, <1>8 DEF IInv

\* A reset names no trainer.
LEMMA ResetTaskStep ==
    ASSUME IInv, NEW p \in Threads, ResetTask(p)
    PROVE  IInv'
<1> DEFINE r == request[p]
<1>1. /\ Place(p) /\ r.pc = "reset" /\ UNCHANGED <<session, owners, previous, lock>>
  BY DEF IInv, Places, ResetTask, At, sessionVars
<1>2. Todo(p) # {} /\ Task(p) \in Tasks
  BY <1>1, NextTodo DEF IInv, Place, Looping, Todo
<1>3. /\ word' \in [Tasks -> Word]
      /\ \A t \in Tasks : word'[t].trainer \in {word[t].trainer, NoSid}
  <2>1. EmptyWord \in Word /\ EmptyWord.trainer = NoSid
    BY EmptyWordType DEF EmptyWord
  <2>2. word' = [word EXCEPT ![Task(p)] = EmptyWord]
    BY DEF ResetTask
  <2> QED
    BY <1>2, <2>1, <2>2, WordSet DEF IInv
<1>4. Moves(p, "unflag", Todo(p), r.train, r.expired)
  BY GotoMoves DEF ResetTask, IInv, Pcs
<1>5. Place(p)'
  BY <1>1, <1>2, <1>4, MovePlace
  DEF IInv, Place, Serves, Looping, Releasing, Dispatching, Holding, RiskStays, OwnersStay
<1>6. Places'
  BY <1>1, <1>4, <1>5, OthersPlaces DEF IInv, RiskStays, OwnersStay, Moves
<1>7. TypeOK'
  BY <1>3, <1>4 DEF IInv, TypeOK, ResetTask, Moves, sessionVars, roundVars
<1>8. TrainerIsOwner'
  BY <1>1, <1>3, OwnersKept DEF IInv, OwnersStay
<1> QED
  BY <1>6, <1>7, <1>8 DEF IInv

\* Unflagging takes the task off the loop.
LEMMA UnflagStep ==
    ASSUME IInv, NEW p \in Threads, Unflag(p)
    PROVE  IInv'
<1> DEFINE r == request[p]
<1>1. /\ Place(p) /\ r.pc = "unflag" /\ UNCHANGED <<session, owners, word, previous, lock>>
  BY DEF IInv, Places, Unflag, At, sessionVars
<1>2. Moves(p, "retain", Todo(p) \ {Task(p)}, r.train, r.expired)
  BY NextTaskMoves DEF Unflag, IInv, Pcs
<1>3. Place(p)'
  BY <1>1, <1>2, MovePlace
  DEF IInv, Place, Serves, Looping, Releasing, Dispatching, Holding, RiskStays, OwnersStay
<1>4. Places'
  BY <1>1, <1>2, <1>3, OthersPlaces DEF IInv, RiskStays, OwnersStay, Moves
<1>5. TypeOK'
  BY <1>2 DEF IInv, TypeOK, Unflag, Moves, sessionVars, roundVars
<1>6. TrainerIsOwner'
  BY <1>1, OwnersKept DEF IInv, OwnersStay
<1> QED
  BY <1>4, <1>5, <1>6 DEF IInv

\* The next round gives up the lock.
LEMMA AdvanceStep ==
    ASSUME IInv, NEW p \in Threads, Advance(p)
    PROVE  IInv'
<1> DEFINE r == request[p]
<1>1. /\ Place(p) /\ r.pc = "retain" /\ lock = p /\ lock' = Free
      /\ UNCHANGED <<session, owners, word, previous>>
  BY DEF IInv, Places, Advance, At, sessionVars, taskVars, Place, Holding
<1>2. active' \in 0 .. MaxRound + 1
  <2>1. r.round \in 0 .. MaxRound
    BY DEF IInv, TypeOK, Request, Rounds
  <2> QED
    BY <2>1, BoundsAssumption DEF Advance
<1>3. Ends(p) /\ Place(p)'
  <2>1. Ends(p)
    BY DoneEnds DEF Advance, IInv
  <2>2. lock' # p
    BY <1>1, ThreadsAssumption DEF Threads
  <2> QED
    BY <2>1, <2>2, EndPlace
<1>4. Places'
  BY <1>1, <1>3, OthersPlaces DEF IInv, RiskStays, OwnersStay, Ends
<1>5. TypeOK'
  BY <1>1, <1>2, <1>3 DEF IInv, TypeOK, Advance, Ends, sessionVars, taskVars
<1>6. TrainerIsOwner'
  BY <1>1, OwnersKept DEF IInv, OwnersStay
<1> QED
  BY <1>4, <1>5, <1>6 DEF IInv

\* Every step of a thread keeps the invariant.
LEMMA ThreadStep ==
    ASSUME IInv, NEW p \in Threads, Step(p)
    PROVE  IInv'
BY ExpireStep, SweepStep, ReleaseStep, FlagReleasedStep, EnableDispatchStep, AdmitStep,
   InstructStep, LookStep, SelectStep, TakeStep, ClearRecoveryStep, AnswerStep,
   AppendOwnerStep, ClaimLookStep, ClaimTryStep, ClaimFinalStep, CheckUpdateStep,
   StoreUpdateStep, CommitTaskStep, AcceptUpdateStep, PublishGlobalStep,
   RetainTrainerStep, ResetTaskStep, UnflagStep, AdvanceStep
DEF Step

-----------------------------------------------------------------------------
\* Requests that arrive, and what happens outside the server.

\* The sessions after an expiry, which only take risk and offline marks.
LEMMA MarkOfflineSessions ==
    ASSUME TypeOK, MarkOffline
    PROVE  /\ session' \in [Sids -> [registered : BOOLEAN, online : BOOLEAN,
                                     risk : BOOLEAN, lapsed : BOOLEAN]]
           /\ RiskStays
           /\ Overdue \in SUBSET Sids
           /\ \A s \in Overdue : session'[s].risk
BY DEF MarkOffline, TypeOK, RiskStays, Overdue

\* A request of a client begins at h.
LEMMA ClientBegins ==
    ASSUME IInv, NEW h \in Handlers, NEW R \in Request,
           request' = [request EXCEPT ![h] = R], At(h, "idle"),
           R.kind \in ClientKinds \cup {"aggregate"}, Serves(R.kind, R.pc),
           R.pc \notin Looping \cup Releasing \cup Dispatching \cup Holding,
           R.kind \in ClientKinds => R.sid \in Sids,
           \A s \in R.expired : session'[s].risk,
           RiskStays, UNCHANGED <<owners, lock>>
    PROVE  Places' /\ request' \in [Threads -> Request]
<1>1. h \in Threads /\ h # Monitor
  BY ThreadsAssumption DEF Threads
<1>2. request' \in [Threads -> Request] /\ request'[h] = R
  BY <1>1 DEF IInv, TypeOK
<1>3. Place(h)
  BY <1>1 DEF IInv, Places
<1>4. Place(h)'
  BY <1>1, <1>2, <1>3 DEF Place, At, Looping, Releasing, Holding, ClientKinds
<1>5. \A q \in Threads \ {h} : request'[q] = request[q]
  BY DEF IInv, TypeOK
<1>6. Places'
  BY <1>1, <1>4, <1>5, OthersPlaces DEF IInv, OwnersStay
<1> QED
  BY <1>2, <1>6

LEMMA HeartbeatStep ==
    ASSUME IInv, NEW h \in Handlers, NEW s \in Sids, Heartbeat(h, s)
    PROVE  IInv'
<1> DEFINE R == [NoRequest EXCEPT !.pc = "instruct", !.sid = s, !.kind = "heartbeat"]
<1>1. R \in Request /\ R.kind = "heartbeat" /\ R.pc = "instruct" /\ R.sid = s /\ R.expired = {}
  <2>1. NoRequest \in Request /\ NoRequest.expired = {}
    BY NoRequestType DEF NoRequest
  <2> QED
    BY <2>1 DEF Request, RequestKinds, Pcs
<1>2. request' = [request EXCEPT ![h] = R] /\ At(h, "idle")
  BY DEF Heartbeat, Start
<1>3. /\ session' \in [Sids -> [registered : BOOLEAN, online : BOOLEAN,
                                risk : BOOLEAN, lapsed : BOOLEAN]]
      /\ RiskStays
  BY DEF Heartbeat, IInv, TypeOK, RiskStays
<1> HIDE DEF R
<1>4. UNCHANGED <<owners, lock, word, previous>>
  BY DEF Heartbeat, taskVars
<1>5. Places' /\ request' \in [Threads -> Request]
  BY <1>1, <1>2, <1>3, <1>4, ClientBegins
  DEF ClientKinds, Serves, Looping, Releasing, Dispatching, Holding
<1>6. started' \in 0 .. MaxRequests
  BY BoundsAssumption DEF Heartbeat, Start, IInv, TypeOK
<1>7. TypeOK'
  BY <1>3, <1>5, <1>6 DEF Heartbeat, IInv, TypeOK, taskVars, roundVars
<1>8. TrainerIsOwner'
  BY <1>4, OwnersKept DEF IInv, OwnersStay
<1> QED
  BY <1>5, <1>7, <1>8 DEF IInv

\* register_labels and claim_tasks begin alike.
LEMMA BatchStep ==
    ASSUME IInv, NEW h \in Handlers, NEW s \in Sids, NEW T \in Batches,
           StartLabels(h, s, T) \/ StartClaim(h, s, T)
    PROVE  IInv'
<1>1. PICK k \in {"labels", "claim"} :
         Start(h, k, [NoRequest EXCEPT !.pc = "sweep", !.sid = s, !.tasks = T, !.expired = Overdue])
  BY DEF StartLabels, StartClaim
<1> DEFINE R == [NoRequest EXCEPT !.pc = "sweep", !.sid = s, !.tasks = T,
                                  !.expired = Overdue, !.kind = k]
<1>2. MarkOffline /\ UNCHANGED <<faults, owners, word, previous, recovery, updates, global,
                                 roster, active, dispatch, lock, work>>
  BY DEF StartLabels, StartClaim, taskVars, roundVars
<1>3. /\ session' \in [Sids -> [registered : BOOLEAN, online : BOOLEAN,
                                risk : BOOLEAN, lapsed : BOOLEAN]]
      /\ RiskStays
      /\ Overdue \in SUBSET Sids
      /\ \A q \in Overdue : session'[q].risk
  BY <1>2, MarkOfflineSessions DEF IInv
<1>4. R \in Request /\ R.kind = k /\ R.pc = "sweep" /\ R.sid = s /\ R.expired = Overdue
  <2>1. NoRequest \in Request /\ T \in SUBSET Tasks
    BY NoRequestType, BatchesAssumption
  <2> QED
    BY <1>3, <2>1 DEF Request, RequestKinds, Pcs
<1>5. request' = [request EXCEPT ![h] = R] /\ At(h, "idle") /\ started' \in 0 .. MaxRequests
  BY <1>1, BoundsAssumption DEF Start, IInv, TypeOK
<1> HIDE DEF R
<1>6. Places' /\ request' \in [Threads -> Request]
  BY <1>2, <1>3, <1>4, <1>5, ClientBegins
  DEF ClientKinds, Serves, Looping, Releasing, Dispatching, Holding
<1>7. TypeOK'
  BY <1>2, <1>3, <1>5, <1>6 DEF IInv, TypeOK
<1>8. TrainerIsOwner'
  BY <1>2, OwnersKept DEF IInv, OwnersStay
<1> QED
  BY <1>6, <1>7, <1>8 DEF IInv

\* A finalize request begins.
LEMMA StartFinalizeStep ==
    ASSUME IInv, NEW h \in Handlers, NEW s \in Sids, StartFinalize(h, s)
    PROVE  IInv'
<1> DEFINE R == [NoRequest EXCEPT !.pc = "expire", !.sid = s, !.round = active,
                                  !.tasks = work[s], !.kind = "finalize"]
<1>1. R \in Request /\ R.kind = "finalize" /\ R.pc = "expire" /\ R.sid = s /\ R.expired = {}
  <2>1. NoRequest \in Request /\ NoRequest.expired = {}
    BY NoRequestType DEF NoRequest
  <2>2. active \in Rounds /\ work[s] \in SUBSET Tasks
    BY DEF StartFinalize, IInv, TypeOK
  <2> QED
    BY <2>1, <2>2 DEF Request, RequestKinds, Pcs
<1>2. request' = [request EXCEPT ![h] = R] /\ At(h, "idle")
  BY DEF StartFinalize, Start
<1> HIDE DEF R
<1>3. UNCHANGED <<session, owners, lock, word, previous>> /\ RiskStays
  BY DEF StartFinalize, sessionVars, taskVars, RiskStays
<1>4. Places' /\ request' \in [Threads -> Request]
  BY <1>1, <1>2, <1>3, ClientBegins
  DEF ClientKinds, Serves, Looping, Releasing, Dispatching, Holding
<1>5. started' \in 0 .. MaxRequests
  BY BoundsAssumption DEF StartFinalize, Start, IInv, TypeOK
<1>6. TypeOK'
  BY <1>4, <1>5 DEF StartFinalize, IInv, TypeOK, sessionVars, taskVars, roundVars
<1>7. TrainerIsOwner'
  BY <1>3, OwnersKept DEF IInv, OwnersStay
<1> QED
  BY <1>4, <1>6, <1>7 DEF IInv

\* An aggregation begins.
LEMMA AggregateStep ==
    ASSUME IInv, NEW h \in Handlers, NEW k \in Rounds, NEW S \in SUBSET Sids, Aggregate(h, k, S)
    PROVE  IInv'
<1> DEFINE A == [s \in Sids |-> IF s \in S THEN updates[k][s] ELSE NoUpdate]
           R == [NoRequest EXCEPT !.pc = "fedavg", !.round = k, !.averaged = A,
                                  !.kind = "aggregate"]
<1>1. A \in [Sids -> Update]
  BY FS_CardinalityType, TasksAssumption DEF IInv, TypeOK, NoUpdate, Update
<1>2. request' = [request EXCEPT ![h] = R] /\ At(h, "idle")
  BY DEF Aggregate, Start
<1>3. R \in Request /\ R.kind = "aggregate" /\ R.pc = "fedavg" /\ R.expired = {}
  <2>1. NoRequest \in Request /\ NoRequest.expired = {}
    BY NoRequestType DEF NoRequest
  <2> HIDE DEF A
  <2> QED
    BY <1>1, <2>1 DEF Request, RequestKinds, Pcs
<1> HIDE DEF R
<1>4. UNCHANGED <<session, owners, lock, word, previous>> /\ RiskStays
  BY DEF Aggregate, sessionVars, taskVars, RiskStays
<1>5. Places' /\ request' \in [Threads -> Request]
  BY <1>2, <1>3, <1>4, ClientBegins
  DEF ClientKinds, Serves, Looping, Releasing, Dispatching, Holding
<1>6. started' \in 0 .. MaxRequests
  BY BoundsAssumption DEF Aggregate, Start, IInv, TypeOK
<1>7. TypeOK'
  BY <1>5, <1>6 DEF Aggregate, IInv, TypeOK, sessionVars, taskVars, roundVars
<1>8. TrainerIsOwner'
  BY <1>4, OwnersKept DEF IInv, OwnersStay
<1> QED
  BY <1>5, <1>7, <1>8 DEF IInv

\* The monitor begins a release of the SIDs it marked.
LEMMA MonitorStep ==
    ASSUME IInv, MonitorExpires
    PROVE  IInv'
<1> DEFINE R == [NoRequest EXCEPT !.kind = "expire", !.pc = "sweep", !.expired = Overdue]
<1>1. /\ session' \in [Sids -> [registered : BOOLEAN, online : BOOLEAN,
                                risk : BOOLEAN, lapsed : BOOLEAN]]
      /\ RiskStays
      /\ Overdue \in SUBSET Sids /\ Overdue # {}
      /\ \A s \in Overdue : session'[s].risk
  BY MarkOfflineSessions DEF MonitorExpires, IInv
<1>2. R \in Request /\ R.kind = "expire" /\ R.pc = "sweep" /\ R.expired = Overdue
  <2>1. NoRequest \in Request
    BY NoRequestType
  <2> QED
    BY <1>1, <2>1 DEF Request, RequestKinds, Pcs
<1>3. /\ request' = [request EXCEPT ![Monitor] = R]
      /\ UNCHANGED <<owners, lock, word, previous>>
      /\ Monitor \in Threads
  BY DEF MonitorExpires, taskVars, Threads
<1> HIDE DEF R
<1>4. request' \in [Threads -> Request] /\ request'[Monitor] = R
  BY <1>2, <1>3 DEF IInv, TypeOK
<1>5. Place(Monitor)'
  <2>1. lock # Monitor
    BY <1>3 DEF MonitorExpires, At, IInv, Places, Place, Holding
  <2> QED
    BY <1>1, <1>2, <1>3, <1>4, <2>1
    DEF Place, Serves, Looping, Releasing, Dispatching, Holding, ClientKinds
<1>6. \A q \in Threads \ {Monitor} : request'[q] = request[q]
  BY <1>3 DEF IInv, TypeOK
<1>7. Places'
  BY <1>1, <1>3, <1>5, <1>6, OthersPlaces DEF IInv, OwnersStay
<1>8. TypeOK'
  BY <1>1, <1>4 DEF MonitorExpires, IInv, TypeOK, taskVars, roundVars
<1>9. TrainerIsOwner'
  BY <1>3, OwnersKept DEF IInv, OwnersStay
<1> QED
  BY <1>7, <1>8, <1>9 DEF IInv

\* Steps that move no thread and take no owner, risk or lock.
LEMMA NoThreadMoves ==
    ASSUME IInv, UNCHANGED <<owners, lock, request, word, previous>>, RiskStays
    PROVE  Places' /\ TrainerIsOwner'
<1>1. Places'
  BY KeepPlace DEF IInv, Places, OwnersStay
<1>2. TrainerIsOwner'
  BY OwnersKept DEF IInv, OwnersStay
<1> QED
  BY <1>1, <1>2

\* Sessions change without any thread.
LEMMA SessionStep ==
    ASSUME IInv, (\E s \in Sids : Lapse(s) \/ Register(s)) \/ RefreshLeases
    PROVE  IInv'
<1>1. /\ session' \in [Sids -> [registered : BOOLEAN, online : BOOLEAN,
                                risk : BOOLEAN, lapsed : BOOLEAN]]
      /\ RiskStays
  <2>1. ASSUME NEW s \in Sids, Lapse(s) \/ Register(s)
        PROVE  /\ session' \in [Sids -> [registered : BOOLEAN, online : BOOLEAN,
                                         risk : BOOLEAN, lapsed : BOOLEAN]]
               /\ RiskStays
    <3> DEFINE lapse == [session[s] EXCEPT !.lapsed = TRUE]
               back == [registered |-> TRUE, online |-> TRUE,
                        risk |-> session[s].risk, lapsed |-> FALSE]
               Sessions == [registered : BOOLEAN, online : BOOLEAN,
                            risk : BOOLEAN, lapsed : BOOLEAN]
    <3>1. /\ lapse \in Sessions /\ lapse.risk = session[s].risk
          /\ back \in Sessions /\ back.risk = session[s].risk
      BY DEF IInv, TypeOK
    <3>2. PICK new \in {lapse, back} : session' = [session EXCEPT ![s] = new]
      BY <2>1 DEF Lapse, Register
    <3>3. new \in Sessions /\ new.risk = session[s].risk
      BY <3>1
    <3> HIDE DEF lapse, back
    <3> QED
      BY <3>2, <3>3 DEF IInv, TypeOK, RiskStays
  <2>2. CASE RefreshLeases
    BY <2>2 DEF RefreshLeases, IInv, TypeOK, RiskStays
  <2> QED
    BY <2>1, <2>2
<1>2. /\ UNCHANGED <<owners, lock, request, word, previous, recovery, updates, global, roster,
                     active, dispatch, work>>
      /\ started' \in 0 .. MaxRequests /\ faults' \in 0 .. MaxFaults
  BY BoundsAssumption
  DEF Lapse, Register, RefreshLeases, AtOnce, IInv, TypeOK, taskVars, roundVars
<1>3. TypeOK'
  BY <1>1, <1>2 DEF IInv, TypeOK
<1> QED
  BY <1>1, <1>2, <1>3, NoThreadMoves DEF IInv

\* So does the roster of a round.
LEMMA ConfigureStep ==
    ASSUME IInv, NEW S \in SUBSET Sids, Configure(S)
    PROVE  IInv'
<1>1. /\ UNCHANGED <<owners, lock, request, word, previous>>
      /\ RiskStays
  BY DEF Configure, sessionVars, taskVars, RiskStays
<1>2. started' \in 0 .. MaxRequests
  BY BoundsAssumption DEF Configure, AtOnce, IInv, TypeOK
<1>3. TypeOK'
  BY <1>2 DEF Configure, IInv, TypeOK, sessionVars, taskVars
<1> QED
  BY <1>1, <1>3, NoThreadMoves DEF IInv

\* A restarted client only loses its answers.
LEMMA ClientRestartStep ==
    ASSUME IInv, NEW s \in Sids, ClientRestart(s)
    PROVE  IInv'
<1>1. UNCHANGED <<session, owners, lock, word, previous>>
  BY DEF ClientRestart, taskVars
<1>2. ASSUME NEW q \in Threads
      PROVE  /\ request'[q] \in Request
             /\ request'[q].kind = request[q].kind /\ request'[q].pc = request[q].pc
             /\ request'[q].sid = request[q].sid /\ request'[q].todo = request[q].todo
             /\ request'[q].expired = request[q].expired
  <2>1. request[q] \in Request
    BY DEF IInv, TypeOK
  <2>2. request'[q] = IF Sid(q) = s THEN [request[q] EXCEPT !.lost = TRUE] ELSE request[q]
    BY DEF ClientRestart
  <2>3. CASE Sid(q) = s
    <3> DEFINE R == [request[q] EXCEPT !.lost = TRUE]
    <3>1. /\ R \in Request /\ R.kind = request[q].kind /\ R.pc = request[q].pc
          /\ R.sid = request[q].sid /\ R.todo = request[q].todo
          /\ R.expired = request[q].expired
      BY <2>1 DEF Request
    <3> HIDE DEF R
    <3> QED
      BY <2>2, <2>3, <3>1 DEF R
  <2>4. CASE Sid(q) # s
    BY <2>1, <2>2, <2>4
  <2> QED
    BY <2>3, <2>4
<1>3. request' \in [Threads -> Request]
  <2>1. request' = [q \in Threads |-> request'[q]]
    BY DEF ClientRestart
  <2> QED
    BY <1>2, <2>1
<1>4. Places'
  BY <1>1, <1>2, KeepPlace DEF IInv, Places, RiskStays, OwnersStay
<1>5. TypeOK'
  BY <1>3, BoundsAssumption DEF ClientRestart, IInv, TypeOK, taskVars, roundVars
<1>6. TrainerIsOwner'
  BY <1>1, OwnersKept DEF IInv, OwnersStay
<1> QED
  BY <1>4, <1>5, <1>6 DEF IInv

-----------------------------------------------------------------------------

\* The invariant holds initially,
LEMMA InitIInv == Init => IInv
<1> SUFFICES ASSUME Init
             PROVE  IInv
  OBVIOUS
<1>1. NoRequest \in Request /\ NoUpdates \in [Sids -> Update]
  BY NoRequestType, FS_CardinalityType, TasksAssumption DEF NoUpdates, NoUpdate, Update
<1>2. TypeOK
  <2>1. session \in [Sids -> [registered : BOOLEAN, online : BOOLEAN,
                              risk : BOOLEAN, lapsed : BOOLEAN]]
    BY DEF Init
  <2>2. /\ updates \in [Rounds -> [Sids -> Update]] /\ global \in [Rounds -> [Sids -> Update]]
        /\ request \in [Threads -> Request] /\ word \in [Tasks -> Word]
    BY <1>1, EmptyWordType DEF Init
  <2> QED
    <3>1. /\ owners \in [Tasks -> SUBSET Sids] /\ previous \in [Tasks -> Sids \cup {NoSid}]
          /\ recovery \in [Tasks -> BOOLEAN] /\ roster \in [Rounds -> SUBSET Sids]
          /\ work \in [Sids -> SUBSET Tasks] /\ dispatch \in BOOLEAN
          /\ lock \in Threads \cup {Free}
      BY OwnersAssumption DEF Init
    <3>2. active \in 0 .. MaxRound + 1 /\ started \in 0 .. MaxRequests /\ faults \in 0 .. MaxFaults
      BY BoundsAssumption DEF Init
    <3> QED
      BY <2>1, <2>2, <3>1, <3>2 DEF TypeOK
<1>3. Places
  BY ThreadsAssumption
  DEF Init, Places, Place, NoRequest, Serves, Looping, Releasing, Dispatching, Holding,
      ClientKinds, Threads
<1>4. TrainerIsOwner
  BY DEF Init, TrainerIsOwner, EmptyWord
<1> QED
  BY <1>2, <1>3, <1>4 DEF IInv

\* is preserved by every step,
LEMMA NextIInv == IInv /\ [Next]_vars => IInv'
<1> SUFFICES ASSUME IInv, [Next]_vars
             PROVE  IInv'
  OBVIOUS
<1>1. CASE UNCHANGED vars
  <2>1. UNCHANGED <<session, faults, owners, word, previous, recovery, updates, global, roster,
                    active, dispatch, lock, request, work, started>>
    BY <1>1 DEF vars, sessionVars, taskVars, roundVars
  <2>2. TypeOK'
    BY <2>1 DEF IInv, TypeOK
  <2> QED
    BY <2>1, <2>2, NoThreadMoves DEF IInv, RiskStays
<1>2. CASE Environment
  BY <1>2, SessionStep, ConfigureStep, ClientRestartStep, HeartbeatStep, BatchStep,
     StartFinalizeStep, AggregateStep
  DEF Environment
<1>3. CASE MonitorExpires
  BY <1>3, MonitorStep
<1>4. ASSUME NEW p \in Threads, Step(p)
      PROVE  IInv'
  BY <1>4, ThreadStep
<1> QED
  BY <1>1, <1>2, <1>3, <1>4 DEF Next

\* and so holds in every state.
LEMMA Invariance == Spec => []IInv
BY InitIInv, NextIInv, PTL DEF Spec

\* Every variable keeps its type, for any number of clients, tasks and handlers.
THEOREM TypeCorrect == Spec => []TypeOK
<1>1. IInv => TypeOK
  BY DEF IInv
<1> QED
  BY <1>1, Invariance, PTL

\* Only an owner ever trains a task, also when another client's heartbeat hands
\* it over: the dispatch walks the inverse list, a claim asks the owner list.
THEOREM TrainerIsOwnerHolds == Spec => []TrainerIsOwner
<1>1. IInv => TrainerIsOwner
  BY DEF IInv
<1> QED
  BY <1>1, Invariance, PTL

-----------------------------------------------------------------------------
\* How the word of a task can change.

WordMoves(t) ==
    \/ \E s \in Sids : word[t].state = EMPTY /\ word'[t] = [state |-> PENDING, trainer |-> s]
    \/ \E s \in Sids : OwnPending(t, s) /\ word'[t] = [state |-> COMMITTED, trainer |-> s]
    \/ \E s \in Sids : OwnPending(t, s) /\ word'[t] = EmptyWord /\ session[s].risk
    \/ Resetting /\ word'[t] = EmptyWord

\* Each step of a thread that changes a word is one of these moves,
LEMMA WordStep ==
    ASSUME IInv, NEW p \in Threads, Step(p), NEW t \in Tasks, word'[t] # word[t]
    PROVE  WordMoves(t)
<1>1. Place(p) /\ word \in [Tasks -> Word]
  BY DEF IInv, Places, TypeOK
<1>2. CASE Release(p)
  <2>1. /\ Todo(p) # {} /\ OwnPending(Task(p), Dropped(p))
        /\ word' = [word EXCEPT ![Task(p)] = EmptyWord]
    BY <1>2 DEF Release
  <2>2. t = Task(p) /\ word'[t] = EmptyWord
    BY <1>1, <2>1
  <2>3. Dropped(p) \in Sids /\ session[Dropped(p)].risk
    BY <1>1, <1>2, NextDrop DEF IInv, Place, Release, At, Releasing
  <2> QED
    BY <2>1, <2>2, <2>3 DEF WordMoves
<1>3. CASE Take(p) \/ ClaimTry(p)
  <2>1. /\ word[Task(p)].state = EMPTY
        /\ word' = [word EXCEPT ![Task(p)] = [state |-> PENDING, trainer |-> Sid(p)]]
    BY <1>3 DEF Take, ClaimTry, TryClaim
  <2>2. t = Task(p) /\ word'[t] = [state |-> PENDING, trainer |-> Sid(p)]
    BY <1>1, <2>1
  <2>3. Sid(p) \in Sids
    BY <1>1, <1>3 DEF Place, Take, ClaimTry, At, Serves, Dispatching, Releasing, ClientKinds, Sid
  <2> QED
    BY <2>1, <2>2, <2>3 DEF WordMoves
<1>4. CASE CommitTask(p)
  <2>1. /\ OwnPending(Task(p), Sid(p))
        /\ word' = [word EXCEPT ![Task(p)].state = COMMITTED]
    BY <1>4 DEF CommitTask
  <2>2. t = Task(p) /\ word'[t] = [state |-> COMMITTED, trainer |-> Sid(p)]
    BY <1>1, <2>1 DEF OwnPending
  <2>3. Sid(p) \in Sids
    BY <1>1, <1>4 DEF Place, CommitTask, At, Serves, Dispatching, Releasing, ClientKinds, Sid
  <2> QED
    BY <2>1, <2>2, <2>3 DEF WordMoves
<1>5. CASE ResetTask(p)
  <2>1. word'[t] = EmptyWord
    BY <1>1, <1>5 DEF ResetTask
  <2>2. Resetting
    BY <1>1, <1>5 DEF Resetting, Place, ResetTask, At, Serves, Dispatching, Releasing, Holding
  <2> QED
    BY <2>1, <2>2 DEF WordMoves
<1>6. CASE UNCHANGED word
  BY <1>6
<1> QED
  BY <1>2, <1>3, <1>4, <1>5, <1>6
  DEF Step, Expire, Sweep, FlagReleased, EnableDispatch, Admit, Instruct, Look, Select,
      ClearRecovery, Answer, AppendOwner, ClaimLook, ClaimFinal, CheckUpdate, StoreUpdate,
      AcceptUpdate, PublishGlobal, RetainTrainer, Unflag, Advance, taskVars

\* and no other step changes a word.
LEMMA WordChanges ==
    ASSUME IInv, [Next]_vars, NEW t \in Tasks, word'[t] # word[t]
    PROVE  WordMoves(t)
<1>1. PICK p \in Threads : Step(p)
  BY DEF Next, Environment, MonitorExpires, Lapse, Register, ClientRestart, RefreshLeases,
         Heartbeat, StartFinalize, StartLabels, StartClaim, Configure, Aggregate, vars, taskVars
<1> QED
  BY <1>1, WordStep

\* Whatever the handlers interleave, a claim is lost before the reset only by a
\* trainer that timed out: whoever releases a task has marked its trainer first.
THEOREM OnlyDroppedLoseHolds == Spec => OnlyDroppedLose
<1> DEFINE Lost(t, s) == OwnPending(t, s) /\ word'[t].state = EMPTY /\ ~Resetting
<1>1. ASSUME IInv, [Next]_vars, NEW t \in Tasks, NEW s \in Sids, Lost(t, s)
      PROVE  session[s].risk
  <2>1. word[t].state = PENDING /\ word[t].trainer = s
    BY <1>1 DEF OwnPending
  <2>2. WordMoves(t)
    BY <1>1, <2>1, WordChanges DEF EMPTY, PENDING
  <2>3. word'[t].state = EMPTY /\ ~Resetting
    BY <1>1
  <2>4. ASSUME NEW q \in Sids, word'[t] = [state |-> PENDING, trainer |-> q]
        PROVE  FALSE
    BY <2>3, <2>4 DEF EMPTY, PENDING
  <2>5. ASSUME NEW q \in Sids, word'[t] = [state |-> COMMITTED, trainer |-> q]
        PROVE  FALSE
    BY <2>3, <2>5 DEF EMPTY, COMMITTED
  <2>6. PICK q \in Sids : OwnPending(t, q) /\ session[q].risk
    BY <2>2, <2>3, <2>4, <2>5 DEF WordMoves
  <2>7. q = s
    BY <2>1, <2>6 DEF OwnPending
  <2> QED
    BY <2>6, <2>7
<1>2. IInv /\ [Next]_vars =>
        [\A t \in Tasks, s \in Sids :
            OwnPending(t, s) /\ word'[t].state = EMPTY /\ ~Resetting
               => session[s].risk]_word
  BY <1>1
<1> QED
  BY <1>2, Invariance, PTL DEF Spec, OnlyDroppedLose

\* The handlers take every task through the lifecycle of TaskLifecycle, and only
\* an aggregation takes COMMITTED work back.
THEOREM Refinement == Spec => ImplementsLifecycle
<1>1. Init => \A t \in Tasks : TaskSlot(t)!LifecycleInit
  BY DEF Init, EmptyWord, TaskSlot!LifecycleInit, EMPTY, TaskSlot!EMPTY
<1>2. ASSUME IInv, [Next]_vars, NEW t \in Tasks, word'[t] # word[t]
      PROVE  /\ TaskSlot(t)!LifecycleNext
             /\ TaskSlot(t)!Reset => Resetting \/ \E s \in Sids : TaskSlot(t)!Release(s)
  <2>1. WordMoves(t)
    BY <1>2, WordChanges
  <2>2. ASSUME NEW s \in Sids, word[t].state = EMPTY,
               word'[t] = [state |-> PENDING, trainer |-> s]
        PROVE  TaskSlot(t)!Claim(s) /\ ~TaskSlot(t)!Reset
    <3>1. word'[t].state = PENDING /\ word'[t].trainer = s
      BY <2>2
    <3> QED
      BY <2>2, <3>1 DEF TaskSlot!Claim, TaskSlot!Reset, EMPTY, PENDING, TaskSlot!EMPTY,
                        TaskSlot!PENDING
  <2>3. ASSUME NEW s \in Sids, OwnPending(t, s),
               word'[t] = [state |-> COMMITTED, trainer |-> s]
        PROVE  TaskSlot(t)!Commit(s) /\ ~TaskSlot(t)!Reset
    <3>1. /\ word[t].state = PENDING /\ word[t].trainer = s
          /\ word'[t].state = COMMITTED /\ word'[t].trainer = s
      BY <2>3 DEF OwnPending
    <3> QED
      BY <3>1 DEF TaskSlot!Commit, TaskSlot!Reset, EMPTY, PENDING, COMMITTED, TaskSlot!EMPTY,
                  TaskSlot!PENDING, TaskSlot!COMMITTED
  <2>4. ASSUME NEW s \in Sids, OwnPending(t, s), word'[t] = EmptyWord
        PROVE  TaskSlot(t)!Release(s)
    <3>1. /\ word[t].state = PENDING /\ word[t].trainer = s
          /\ word'[t].state = EMPTY /\ word'[t].trainer = NoSid
      BY <2>4 DEF OwnPending, EmptyWord
    <3> QED
      BY <3>1 DEF TaskSlot!Release, EMPTY, PENDING, TaskSlot!EMPTY, TaskSlot!PENDING
  <2>5. ASSUME Resetting, word'[t] = EmptyWord
        PROVE  TaskSlot(t)!Reset
    <3>1. word'[t].state = EMPTY /\ word'[t].trainer = NoSid
      BY <2>5 DEF EmptyWord
    <3> QED
      BY <3>1 DEF TaskSlot!Reset, EMPTY, TaskSlot!EMPTY
  <2>6. TaskSlot(t)!LifecycleNext
    BY <2>1, <2>2, <2>3, <2>4, <2>5 DEF WordMoves, TaskSlot!LifecycleNext
  <2> QED
    BY <2>1, <2>2, <2>3, <2>4, <2>6 DEF WordMoves
<1>3. IInv /\ [Next]_vars =>
        [\A t \in Tasks :
            \/ TaskSlot(t)!LifecycleNext /\ (TaskSlot(t)!Reset => Resetting
                  \/ \E s \in Sids : TaskSlot(t)!Release(s))
            \/ UNCHANGED word[t]]_word
  BY <1>2
<1> QED
  BY <1>1, <1>3, Invariance, PTL DEF Spec, ImplementsLifecycle

-----------------------------------------------------------------------------
\* Rounds.  When an aggregate request is not repeated, there is one aggregation at a
\* time, for the active round, and a finalize is never ahead of it.
OneAggregation ==
    /\ \A p \in Threads : request[p].kind = "finalize" => request[p].round <= active
    /\ \A p \in Threads : request[p].kind = "aggregate" => request[p].round = active
    /\ \A p, q \in Threads :
          request[p].kind = "aggregate" /\ request[q].kind = "aggregate" => p = q
    /\ \A r \in Rounds : r > active => updates[r] = NoUpdates

\* A finalize that was checked has COMMITTED the tasks it has passed, those of the
\* update it replaces included.
Committing(p) ==
    request[p].pc \in {"store", "commit"} /\ request[p].round = active /\ ~Resetting =>
        request[p].tasks \ request[p].todo \subseteq CommittedBy(request[p].sid)

\* An accepted update weighs no less than its tasks and no more than what its SID
\* has COMMITTED.
Weighed ==
    active \in Rounds /\ ~Resetting =>
        \A s \in Sids :
            /\ Cardinality(updates[active][s].tasks) <= updates[active][s].samples
            /\ updates[active][s].samples <= Cardinality(CommittedBy(s))

\* What an aggregation has read and what it publishes: every task counts once.
TotalSamples(u) == MapThenSumSet(LAMBDA s : u[s].samples, Sids)
Balanced ==
    {u \in [Sids -> Update] :
        /\ \A s, q \in Sids : s # q => u[s].tasks \cap u[q].tasks = {}
        /\ \A s \in Sids : Cardinality(u[s].tasks) <= u[s].samples
        /\ TotalSamples(u) <= Cardinality(Tasks)}
AllBalanced ==
    /\ \A r \in Rounds : global[r] \in Balanced
    /\ \A p \in Threads : request[p].kind = "aggregate" => request[p].averaged \in Balanced

RoundInv ==
    /\ OneAggregation
    /\ \A p \in Threads : Committing(p)
    /\ AcceptedStaysCommitted
    /\ Weighed
    /\ AllBalanced

\* Induction over the naturals, about a set.
LEMMA CountUp ==
    ASSUME NEW S, 0 \in S, \A n \in Nat : n \in S => n + 1 \in S
    PROVE  Nat \subseteq S
<1> DEFINE T == Nat \ S
           R == OpToRel(<, Nat)
<1> SUFFICES ASSUME T # {}
             PROVE  FALSE
  OBVIOUS
<1>1. IsWellFoundedOn(R, Nat)
  BY NatLessThanWellFounded
<1>2. \A x, y \in Nat : y < x => <<y, x>> \in R
  BY DEF OpToRel
<1> HIDE DEF R
<1>3. PICK x \in T : \A y \in T : ~(<<y, x>> \in R)
  <2>1. T \subseteq Nat
    OBVIOUS
  <2> HIDE DEF T
  <2> QED
    BY <1>1, <2>1, WFMin
<1>4. x # 0 /\ x - 1 \in Nat /\ x - 1 < x
  BY <1>3
<1>5. x - 1 \in S
  BY <1>2, <1>3, <1>4
<1> QED
  BY <1>3, <1>4, <1>5

\* MapThenSumSet takes the members of a set one after another; f is its recursion on
\* the sets D.
Pick(S) == CHOOSE x \in S : TRUE
Sums(u, f, D) ==
    f = [S \in D |-> IF S = {} THEN 0 ELSE u[Pick(S)].samples + f[S \ {Pick(S)}]]
Small(n) == {S \in SUBSET Sids : Cardinality(S) <= n}

\* A set that is not empty is one larger than the set without its pick.
LEMMA WithoutPick ==
    ASSUME NEW S \in SUBSET Sids, S # {}
    PROVE  /\ Pick(S) \in S
           /\ S \ {Pick(S)} \in SUBSET Sids
           /\ Cardinality(S) \in Nat /\ Cardinality(S \ {Pick(S)}) \in Nat
           /\ Cardinality(S) = Cardinality(S \ {Pick(S)}) + 1
<1>1. IsFiniteSet(S) /\ Cardinality(S) \in Nat
  BY SidsAssumption, FS_Subset, FS_CardinalityType
<1>2. Pick(S) \in S
  BY DEF Pick
<1>3. Cardinality(S \ {Pick(S)}) = Cardinality(S) - 1 /\ IsFiniteSet(S \ {Pick(S)})
  BY <1>1, <1>2, FS_RemoveElement
<1>4. Cardinality(S \ {Pick(S)}) \in Nat
  BY <1>3, FS_CardinalityType
<1> QED
  BY <1>1, <1>2, <1>3, <1>4

\* The recursion has a solution on the small sets, and so on all of them.
LEMMA SumsExist ==
    ASSUME NEW u, NEW n \in Nat
    PROVE  \E f : Sums(u, f, Small(n))
<1> DEFINE N == {m \in Nat : \E f : Sums(u, f, Small(m))}
<1>1. 0 \in N
  <2>1. \A S \in Small(0) : S = {}
    <3> SUFFICES ASSUME NEW S \in Small(0), S # {}
                 PROVE  FALSE
      OBVIOUS
    <3>1. S \in SUBSET Sids /\ Cardinality(S) <= 0
      BY DEF Small
    <3>2. PICK k \in Nat : Cardinality(S) = k + 1
      BY <3>1, WithoutPick
    <3> QED
      BY <3>1, <3>2
  <2>2. Sums(u, [S \in Small(0) |-> 0], Small(0))
    BY <2>1 DEF Sums
  <2> QED
    BY <2>2
<1>2. ASSUME NEW m \in Nat, m \in N
      PROVE  m + 1 \in N
  <2>1. PICK f : Sums(u, f, Small(m))
    BY <1>2
  <2> DEFINE next(S) == IF S = {} THEN 0 ELSE u[Pick(S)].samples + f[S \ {Pick(S)}]
             g == [S \in Small(m + 1) |-> next(S)]
  <2>2. \A S \in Small(m) : f[S] = next(S)
    BY <2>1 DEF Sums
  <2>3. \A S \in Small(m) : S \in Small(m + 1) /\ g[S] = f[S]
    <3> SUFFICES ASSUME NEW S \in Small(m)
                 PROVE  S \in Small(m + 1) /\ g[S] = f[S]
      OBVIOUS
    <3>1. IsFiniteSet(S) /\ Cardinality(S) \in Nat
      BY SidsAssumption, FS_Subset, FS_CardinalityType DEF Small
    <3>2. S \in Small(m + 1)
      BY <3>1 DEF Small
    <3> QED
      BY <2>2, <3>2
  <2>4. \A S \in Small(m + 1) : S # {} => S \ {Pick(S)} \in Small(m)
    <3> SUFFICES ASSUME NEW S \in Small(m + 1), S # {}
                 PROVE  S \ {Pick(S)} \in Small(m)
      OBVIOUS
    <3>1. S \in SUBSET Sids /\ Cardinality(S) <= m + 1
      BY DEF Small
    <3>2. /\ S \ {Pick(S)} \in SUBSET Sids /\ Cardinality(S \ {Pick(S)}) \in Nat
          /\ Cardinality(S) = Cardinality(S \ {Pick(S)}) + 1
      BY <3>1, WithoutPick
    <3> QED
      BY <3>1, <3>2 DEF Small
  <2>5. \A S \in Small(m + 1) :
           g[S] = IF S = {} THEN 0 ELSE u[Pick(S)].samples + g[S \ {Pick(S)}]
    BY <2>3, <2>4
  <2>6. g = [S \in Small(m + 1) |-> g[S]]
    OBVIOUS
  <2> HIDE DEF g
  <2>7. Sums(u, g, Small(m + 1))
    BY <2>5, <2>6 DEF Sums
  <2> QED
    BY <2>7
<1> HIDE DEF N
<1>3. Nat \subseteq N
  BY <1>1, <1>2, CountUp
<1> QED
  BY <1>3 DEF N

\* The sum is the value of such a solution.
LEMMA TotalIs ==
    ASSUME NEW u
    PROVE  \E f : Sums(u, f, SUBSET Sids) /\ TotalSamples(u) = f[Sids]
<1> DEFINE g == CHOOSE f_ : f_ = [S \in SUBSET Sids |->
                   IF S = {} THEN 0 ELSE u[CHOOSE x \in S : TRUE].samples
                                         + f_[S \ {CHOOSE x \in S : TRUE}]]
<1>1. TotalSamples(u) = g[Sids]
  BY DEF TotalSamples, MapThenSumSet, MapThenFoldSet
<1>2. PICK f : Sums(u, f, SUBSET Sids)
  <2>1. Cardinality(Sids) \in Nat
    BY SidsAssumption, FS_CardinalityType
  <2>2. \A S \in SUBSET Sids : Cardinality(S) <= Cardinality(Sids)
    BY SidsAssumption, FS_Subset
  <2>3. Small(Cardinality(Sids)) = SUBSET Sids
    BY <2>2 DEF Small
  <2>4. \E f : Sums(u, f, Small(Cardinality(Sids)))
    BY <2>1, SumsExist
  <2> QED
    BY <2>3, <2>4
<1>3. f = [S \in SUBSET Sids |->
                   IF S = {} THEN 0 ELSE u[CHOOSE x \in S : TRUE].samples
                                         + f[S \ {CHOOSE x \in S : TRUE}]]
  BY <1>2 DEF Sums, Pick
<1>4. g = [S \in SUBSET Sids |->
                   IF S = {} THEN 0 ELSE u[CHOOSE x \in S : TRUE].samples
                                         + g[S \ {CHOOSE x \in S : TRUE}]]
  BY <1>3
<1> HIDE DEF g
<1>5. Sums(u, g, SUBSET Sids)
  BY <1>4 DEF Sums, Pick
<1> QED
  BY <1>1, <1>5

\* Samples that count tasks of disjoint sets add up to no more than all tasks.
LEMMA TotalBounded ==
    ASSUME NEW u \in [Sids -> Update], NEW C \in [Sids -> SUBSET Tasks],
           \A s, q \in Sids : s # q => C[s] \cap C[q] = {},
           \A s \in Sids : u[s].samples <= Cardinality(C[s])
    PROVE  TotalSamples(u) <= Cardinality(Tasks)
<1>1. PICK f : Sums(u, f, SUBSET Sids) /\ TotalSamples(u) = f[Sids]
  BY TotalIs
<1> DEFINE Of(S) == UNION {C[s] : s \in S}
           Good(S) == f[S] \in Nat /\ f[S] <= Cardinality(Of(S))
           N == {m \in Nat : \A S \in SUBSET Sids : Cardinality(S) = m => Good(S)}
<1>2. \A S \in SUBSET Sids : f[S] = IF S = {} THEN 0 ELSE u[Pick(S)].samples + f[S \ {Pick(S)}]
  BY <1>1 DEF Sums
<1>3. ASSUME NEW S \in SUBSET Sids
      PROVE  /\ Of(S) \subseteq Tasks
             /\ IsFiniteSet(Of(S)) /\ Cardinality(Of(S)) \in Nat
             /\ Cardinality(Of(S)) <= Cardinality(Tasks)
  <2>1. Of(S) \subseteq Tasks
    OBVIOUS
  <2> HIDE DEF Of
  <2> QED
    BY <2>1, TasksAssumption, FS_Subset, FS_CardinalityType
<1>4. 0 \in N
  <2> HIDE DEF Good
  <2>1. \A S \in SUBSET Sids : Cardinality(S) = 0 => S = {}
    BY SidsAssumption, FS_Subset, FS_EmptySet
  <2>2. Good({})
    <3>1. f[{}] = 0 /\ Cardinality(Of({})) \in Nat
      BY <1>2, <1>3
    <3> HIDE DEF Of
    <3> QED
      BY <3>1 DEF Good
  <2> QED
    BY <2>1, <2>2
<1>5. ASSUME NEW m \in Nat, m \in N
      PROVE  m + 1 \in N
  <2> HIDE DEF Good, Of
  <2> SUFFICES ASSUME NEW S \in SUBSET Sids, Cardinality(S) = m + 1
               PROVE  Good(S)
    OBVIOUS
  <2> DEFINE x == Pick(S)
             R == S \ {x}
  <2>1. S # {}
    <3>1. Cardinality({}) = 0 /\ m + 1 # 0
      BY FS_EmptySet
    <3> QED
      BY <3>1
  <2>2. x \in S /\ x \in Sids /\ R \in SUBSET Sids /\ Cardinality(R) = m
    <3>1. /\ Pick(S) \in S /\ S \ {Pick(S)} \in SUBSET Sids
          /\ Cardinality(S \ {Pick(S)}) \in Nat
          /\ Cardinality(S) = Cardinality(S \ {Pick(S)}) + 1
      BY <2>1, WithoutPick
    <3> QED
      BY <3>1
  <2>3. f[R] \in Nat /\ f[R] <= Cardinality(Of(R))
    BY <1>5, <2>2 DEF Good
  <2>4. f[S] = u[x].samples + f[R]
    BY <1>2, <2>1
  <2>5. u[x].samples \in Nat /\ u[x].samples <= Cardinality(C[x])
    <3>1. u[x].samples \in 0 .. Cardinality(Tasks)
      BY <2>2 DEF Update
    <3> QED
      BY <2>2, <3>1
  <2>6. IsFiniteSet(C[x]) /\ Cardinality(C[x]) \in Nat
    BY <2>2, TasksAssumption, FS_Subset, FS_CardinalityType
  <2>7. Of(S) = C[x] \cup Of(R) /\ C[x] \cap Of(R) = {}
    <3>1. Of(S) = C[x] \cup Of(R)
      BY <2>2 DEF Of
    <3>2. \A s \in R : s # x /\ s \in Sids
      BY <2>2
    <3> QED
      BY <2>2, <3>1, <3>2 DEF Of
  <2>8. IsFiniteSet(Of(R)) /\ Cardinality(Of(R)) \in Nat /\ Cardinality(Of(S)) \in Nat
    BY <1>3, <2>2
  <2> HIDE DEF x, R, Of
  <2>9. Cardinality(Of(S)) = Cardinality(C[x]) + Cardinality(Of(R))
    <3>1. Cardinality(C[x] \cap Of(R)) = 0
      BY <2>7, FS_EmptySet
    <3>2. Cardinality(C[x] \cup Of(R))
             = Cardinality(C[x]) + Cardinality(Of(R)) - Cardinality(C[x] \cap Of(R))
      BY <2>6, <2>8, FS_Union
    <3> QED
      BY <2>6, <2>7, <2>8, <3>1, <3>2
  <2> QED
    BY <2>3, <2>4, <2>5, <2>6, <2>8, <2>9 DEF Good
<1> HIDE DEF N, Good, Of
<1>6. Nat \subseteq N
  BY <1>4, <1>5, CountUp
<1>7. Good(Sids)
  <2>1. Cardinality(Sids) \in Nat
    BY SidsAssumption, FS_CardinalityType
  <2> QED
    BY <1>6, <2>1 DEF N
<1>8. Cardinality(Of(Sids)) <= Cardinality(Tasks) /\ Cardinality(Of(Sids)) \in Nat
      /\ Cardinality(Tasks) \in Nat
  BY <1>3, TasksAssumption, FS_CardinalityType
<1> QED
  BY <1>1, <1>7, <1>8 DEF Good
-----------------------------------------------------------------------------
\* Steps that leave the updates, the averages and the active round alone, and the
\* requests too, except that some end or others begin.

SameRequest(q) ==
    /\ request'[q].kind = request[q].kind
    /\ request'[q].sid = request[q].sid
    /\ request'[q].round = request[q].round
    /\ request'[q].tasks = request[q].tasks
    /\ request'[q].averaged = request[q].averaged
Unrelated(q) == request'[q].kind \notin {"finalize", "aggregate"}
CommittedGrows == ~Resetting => \A s \in Sids : CommittedBy(s) \subseteq CommittedBy(s)'
ResettingStays == Resetting => Resetting'
SameRounds == /\ \A q \in Threads : SameRequest(q) \/ Unrelated(q)
              /\ UNCHANGED <<updates, global, active>>
SameLoop(q) == request'[q].pc \in {"store", "commit"} =>
                  request[q].pc \in {"store", "commit"} /\ request'[q].todo = request[q].todo
Quiet == SameRounds /\ ResettingStays /\ \A q \in Threads : SameLoop(q)

\* Steps that keep rounds and requests keep the one aggregation.
LEMMA OneAggregationKept ==
    ASSUME OneAggregation, SameRounds
    PROVE  OneAggregation'
<1>1. /\ \A q \in Threads : SameRequest(q) \/ Unrelated(q)
      /\ active' = active /\ updates' = updates
  BY DEF SameRounds
<1>2. \A q \in Threads : request'[q].kind \in {"finalize", "aggregate"} =>
          request'[q].kind = request[q].kind /\ request'[q].round = request[q].round
  BY <1>1 DEF SameRequest, Unrelated
<1> QED
  BY <1>1, <1>2 DEF OneAggregation

\* And keep what aggregations read and published.
LEMMA AllBalancedKept ==
    ASSUME AllBalanced, SameRounds
    PROVE  AllBalanced'
<1>1. /\ \A q \in Threads : SameRequest(q) \/ Unrelated(q)
      /\ global' = global
  BY DEF SameRounds
<1>2. \A q \in Threads : request'[q].kind = "aggregate" =>
          request[q].kind = "aggregate" /\ request'[q].averaged = request[q].averaged
  BY <1>1 DEF SameRequest, Unrelated
<1> QED
  BY <1>1, <1>2 DEF AllBalanced

\* Accepted work of the active round stays COMMITTED, and so its weight is right.
LEMMA AcceptedKept ==
    ASSUME TypeOK, AcceptedStaysCommitted, Weighed, UNCHANGED <<updates, active>>,
           ResettingStays, CommittedGrows
    PROVE  AcceptedStaysCommitted' /\ Weighed'
<1> SUFFICES ASSUME active \in Rounds, ~Resetting', NEW s \in Sids
             PROVE  /\ updates[active][s].tasks \subseteq CommittedBy(s)'
                    /\ Cardinality(updates[active][s].tasks) <= updates[active][s].samples
                    /\ updates[active][s].samples <= Cardinality(CommittedBy(s)')
  BY DEF AcceptedStaysCommitted, Weighed
<1>1. /\ updates[active][s].tasks \subseteq CommittedBy(s)
      /\ Cardinality(updates[active][s].tasks) <= updates[active][s].samples
      /\ updates[active][s].samples <= Cardinality(CommittedBy(s))
      /\ CommittedBy(s) \subseteq CommittedBy(s)'
  BY DEF ResettingStays, CommittedGrows, AcceptedStaysCommitted, Weighed
<1>2. /\ CommittedBy(s)' \subseteq Tasks
      /\ updates[active][s].samples \in 0 .. Cardinality(Tasks)
  BY DEF CommittedBy, TypeOK, Update
<1>3. Cardinality(CommittedBy(s)) <= Cardinality(CommittedBy(s)')
      /\ Cardinality(CommittedBy(s)) \in Nat /\ Cardinality(CommittedBy(s)') \in Nat
  <2> DEFINE A == CommittedBy(s)
             B == CommittedBy(s)'
  <2> HIDE DEF A, B
  <2>1. A \subseteq B /\ B \subseteq Tasks
    BY <1>1, <1>2 DEF A, B
  <2>2. IsFiniteSet(B) /\ IsFiniteSet(A)
    BY <2>1, TasksAssumption, FS_Subset
  <2>3. Cardinality(A) <= Cardinality(B) /\ Cardinality(A) \in Nat /\ Cardinality(B) \in Nat
    BY <2>1, <2>2, FS_Subset, FS_CardinalityType
  <2> QED
    BY <2>3 DEF A, B
<1> QED
  BY <1>1, <1>2, <1>3

\* A step that leaves the rounds alone only has to respect the loops of finalizes.
LEMMA RoundsKept ==
    ASSUME IInv, RoundInv, SameRounds, ResettingStays, CommittedGrows,
           \A q \in Threads : Committing(q)'
    PROVE  RoundInv'
<1>1. UNCHANGED <<updates, active>> /\ TypeOK
  BY DEF SameRounds, IInv
<1>2. OneAggregation' /\ AllBalanced'
  BY OneAggregationKept, AllBalancedKept DEF RoundInv
<1>3. AcceptedStaysCommitted' /\ Weighed'
  BY <1>1, AcceptedKept DEF RoundInv
<1> QED
  BY <1>2, <1>3 DEF RoundInv

\* Only a finalize is at store or commit.
LEMMA StoringFinalizes ==
    ASSUME IInv, NEW q \in Threads, request[q].pc \in {"store", "commit"}
    PROVE  request[q].kind = "finalize" /\ request[q].sid \in Sids
BY DEF IInv, Places, Place, Serves, Dispatching, Releasing, ClientKinds

\* What a finalize has seen COMMITTED stays so while its commit loop goes on.
LEMMA LoopKept ==
    ASSUME IInv, IInv', ResettingStays, CommittedGrows, active' = active, NEW q \in Threads,
           SameRequest(q) \/ Unrelated(q), SameLoop(q), Committing(q)
    PROVE  Committing(q)'
<1> SUFFICES ASSUME request'[q].pc \in {"store", "commit"}, request'[q].round = active,
                    ~Resetting'
             PROVE  \A t \in request'[q].tasks \ request'[q].todo :
                        t \in Tasks /\ word'[t] = [state |-> COMMITTED, trainer |-> request'[q].sid]
  BY DEF Committing, CommittedBy, OwnCommitted
<1>1. request'[q].kind = "finalize"
  <2>1. Place(q)'
    BY DEF IInv, Places
  <2> QED
    BY <2>1 DEF Place, Serves, Dispatching, Releasing
<1>2. /\ request'[q].sid = request[q].sid /\ request'[q].round = request[q].round
      /\ request'[q].tasks = request[q].tasks
      /\ request[q].pc \in {"store", "commit"} /\ request'[q].todo = request[q].todo
  BY <1>1 DEF SameRequest, Unrelated, SameLoop
<1>3. request[q].sid \in Sids
  BY <1>2, StoringFinalizes
<1>4. PICK s \in Sids : s = request[q].sid
  BY <1>3
<1>5. /\ request[q].tasks \ request[q].todo \subseteq CommittedBy(s)
      /\ CommittedBy(s) \subseteq CommittedBy(s)'
  BY <1>2, <1>4 DEF Committing, ResettingStays, CommittedGrows
<1> QED
  BY <1>2, <1>4, <1>5 DEF CommittedBy, OwnCommitted

\* A step away from rounds and finalizes keeps the whole invariant.
LEMMA QuietKeeps ==
    ASSUME IInv, IInv', RoundInv, Quiet, CommittedGrows
    PROVE  RoundInv'
<1>1. \A q \in Threads : Committing(q)'
  <2> SUFFICES ASSUME NEW q \in Threads
               PROVE  Committing(q)'
    OBVIOUS
  <2>1. /\ SameRequest(q) \/ Unrelated(q)
        /\ SameLoop(q) /\ Committing(q) /\ active' = active /\ ResettingStays
    BY DEF Quiet, SameRounds, RoundInv
  <2> QED
    BY <2>1, LoopKept
<1> QED
  BY <1>1, RoundsKept DEF Quiet

\* Only the reset takes COMMITTED work back.
LEMMA CommitsGrow ==
    ASSUME IInv, [Next]_vars
    PROVE  CommittedGrows
<1> SUFFICES ASSUME ~Resetting, NEW s \in Sids, NEW t \in CommittedBy(s)
             PROVE  t \in CommittedBy(s)'
  BY DEF CommittedGrows
<1>1. t \in Tasks /\ word[t].state = COMMITTED /\ word[t].trainer = s
      /\ word[t] = [state |-> COMMITTED, trainer |-> s]
  BY DEF CommittedBy, OwnCommitted
<1>2. word'[t] = word[t]
  <2> SUFFICES ASSUME word'[t] # word[t]
               PROVE  FALSE
    OBVIOUS
  <2>1. WordMoves(t)
    BY <1>1, WordChanges
  <2>2. \A q \in Sids : ~OwnPending(t, q)
    BY <1>1 DEF OwnPending, PENDING, COMMITTED
  <2> QED
    BY <1>1, <2>1, <2>2 DEF WordMoves, EMPTY, COMMITTED
<1> QED
  BY <1>1, <1>2 DEF CommittedBy, OwnCommitted

\* A thread that goes on with its request, elsewhere than in the loop of a finalize.
Stays(p) ==
    /\ \A q \in Threads \ {p} : request'[q] = request[q]
    /\ SameRequest(p)
    /\ request'[p].pc \notin {"store", "commit"}

\* A thread that goes on within its request is such a step,
LEMMA StaysQuiet ==
    ASSUME NEW p \in Threads, Stays(p), UNCHANGED <<updates, global, active, lock>>
    PROVE  Quiet
<1>1. \A q \in Threads : SameRequest(q) /\ SameLoop(q)
  BY DEF Stays, SameRequest, SameLoop
<1>2. ResettingStays
  BY <1>1 DEF ResettingStays, Resetting, SameRequest
<1> QED
  BY <1>1, <1>2 DEF Quiet, SameRounds

\* A request that ends, unless it is an aggregation that is resetting.
LEMMA EndsQuiet ==
    ASSUME NEW p \in Threads, Ends(p), UNCHANGED <<updates, global, active>>,
           lock # p \/ request[p].kind # "aggregate", lock' = lock \/ lock = p
    PROVE  Quiet
<1>1. /\ \A q \in Threads : SameRequest(q) \/ Unrelated(q)
      /\ \A q \in Threads : SameLoop(q)
  BY DEF Ends, NoRequest, SameRequest, SameLoop, Unrelated
<1>2. ResettingStays
  BY DEF ResettingStays, Resetting, Ends
<1> QED
  BY <1>1, <1>2 DEF Quiet, SameRounds

\* The steps of a thread that are not about updates and rounds.
LocalStep(p) ==
    \/ Expire(p) \/ Sweep(p) \/ Release(p) \/ FlagReleased(p) \/ EnableDispatch(p) \/ Admit(p)
    \/ Instruct(p) \/ Look(p) \/ Select(p) \/ Take(p) \/ ClearRecovery(p) \/ Answer(p)
    \/ AppendOwner(p) \/ ClaimLook(p) \/ ClaimTry(p) \/ ClaimFinal(p)
    \/ RetainTrainer(p) \/ ResetTask(p) \/ Unflag(p)

\* and every step inside a request that is not about rounds goes on, or is done.
LEMMA LocalStays ==
    ASSUME IInv, NEW p \in Threads, LocalStep(p)
    PROVE  Stays(p) \/ (Done(p) /\ ~At(p, "retain") /\ ~At(p, "reset") /\ ~At(p, "unflag"))
<1>1. request[p] \in Request /\ request \in [Threads -> Request]
  BY DEF IInv, TypeOK
<1>2. CASE Expire(p) \/ Sweep(p)
  BY <1>1, <1>2 DEF Expire, Sweep, Stays, SameRequest, Request
<1>3. CASE Release(p)
  BY <1>1, <1>3 DEF Release, NextDropped, Goto, NextTask, At, Stays, SameRequest, Request
<1>4. CASE FlagReleased(p) \/ EnableDispatch(p)
  BY <1>1, <1>4 DEF FlagReleased, EnableDispatch, Goto, NextTask, Stays, SameRequest, Request
<1>5. CASE Admit(p)
  <2>1. At(p, "sweep") /\ request[p].kind \in {"finalize", "labels", "claim"}
    BY <1>5 DEF Admit, At, IInv, Places, Place, Serves, Releasing, Dispatching
  <2>2. \/ Done(p) \/ Goto(p, "check")
        \/ \E pc \in {"append", "claimLook"} :
              request' = [request EXCEPT ![p].pc = pc, ![p].todo = request[p].tasks]
    BY <1>5, <2>1 DEF Admit
  <2> QED
    BY <1>1, <2>1, <2>2 DEF Goto, At, Stays, SameRequest, Request
<1>6. CASE Instruct(p)
  BY <1>1, <1>6 DEF Instruct, At, Stays, SameRequest, Request
<1>7. CASE Look(p)
  <2>1. \/ Goto(p, "answer") \/ Goto(p, "select") \/ NextTask(p, "look")
        \/ /\ At(p, "look")
           /\ request' = [request EXCEPT ![p].train = @ \cup {Task(p)},
                                         ![p].todo = @ \ {Task(p)}]
    BY <1>7 DEF Look
  <2> QED
    BY <1>1, <2>1 DEF Goto, NextTask, At, Stays, SameRequest, Request
<1>8. CASE Select(p) \/ ClearRecovery(p)
  BY <1>1, <1>8 DEF Select, ClearRecovery, Goto, NextTask, Stays, SameRequest, Request
<1>9. CASE Take(p) \/ ClaimTry(p)
  BY <1>1, <1>9 DEF Take, ClaimTry, TryClaim, Goto, NextTask, Stays, SameRequest, Request
<1>10. CASE Answer(p)
  BY <1>10 DEF Answer, At
<1>11. CASE AppendOwner(p)
  BY <1>1, <1>11 DEF AppendOwner, NextTask, At, Stays, SameRequest, Request
<1>12. CASE ClaimLook(p)
  BY <1>1, <1>12 DEF ClaimLook, Goto, NextTask, At, Stays, SameRequest, Request
<1>13. CASE ClaimFinal(p)
  BY <1>1, <1>13 DEF ClaimFinal, Stays, SameRequest, Request
<1>14. CASE RetainTrainer(p) \/ ResetTask(p) \/ Unflag(p)
  BY <1>1, <1>14
  DEF RetainTrainer, ResetTask, Unflag, Goto, NextTask, Stays, SameRequest, Request
<1> QED
  BY <1>2, <1>3, <1>4, <1>5, <1>6, <1>7, <1>8, <1>9, <1>10, <1>11, <1>12, <1>13, <1>14
  DEF LocalStep

\* Hence those steps are quiet.
LEMMA LocalQuiet ==
    ASSUME IInv, NEW p \in Threads, LocalStep(p)
    PROVE  Quiet
<1>1. UNCHANGED <<updates, global, active, lock>>
  BY DEF LocalStep, Expire, Sweep, Release, FlagReleased, EnableDispatch, Admit, Instruct, Look,
         Select, Take, ClearRecovery, Answer, AppendOwner, ClaimLook, ClaimTry, ClaimFinal,
         RetainTrainer, ResetTask, Unflag, roundVars
<1>2. CASE Stays(p)
  BY <1>1, <1>2, StaysQuiet
<1>3. CASE Done(p) /\ ~At(p, "retain") /\ ~At(p, "reset") /\ ~At(p, "unflag")
  <2>1. Ends(p)
    BY <1>3, DoneEnds DEF IInv
  <2>2. lock # p \/ request[p].kind # "aggregate"
    BY <1>3 DEF IInv, Places, Place, Holding, Serves, At
  <2> QED
    BY <1>1, <2>1, <2>2, EndsQuiet
<1> QED
  BY <1>2, <1>3, LocalStays

-----------------------------------------------------------------------------
\* Requests that arrive and whatever happens outside of them.

\* A request that begins at an idle thread.
Begins(h, R) == request' = [request EXCEPT ![h] = R] /\ At(h, "idle")

\* A request that begins is quiet, unless it finalizes or aggregates.
LEMMA BeginsQuiet ==
    ASSUME IInv, NEW h \in Threads, NEW R, Begins(h, R), R.kind \notin {"finalize", "aggregate"},
           R.pc \notin {"store", "commit"}, UNCHANGED <<updates, global, active, lock>>
    PROVE  Quiet
<1>1. request'[h] = R /\ \A q \in Threads \ {h} : request'[q] = request[q]
  BY DEF Begins, IInv, TypeOK
<1>2. request[h].kind = "none"
  BY DEF IInv, Places, Place, Serves, Begins, At, Dispatching, Releasing
<1>3. /\ \A q \in Threads : SameRequest(q) \/ Unrelated(q)
      /\ \A q \in Threads : SameLoop(q)
  BY <1>1 DEF SameRequest, SameLoop, Unrelated
<1>4. ResettingStays
  BY <1>1, <1>2 DEF ResettingStays, Resetting
<1> QED
  BY <1>3, <1>4 DEF Quiet, SameRounds

\* A heartbeat, labels and a claim begin, and so does the monitor.
LEMMA ClientQuiet ==
    ASSUME IInv,
           \/ \E h \in Handlers, s \in Sids : Heartbeat(h, s)
           \/ \E h \in Handlers, s \in Sids : \E T \in Batches :
                 StartLabels(h, s, T) \/ StartClaim(h, s, T)
           \/ MonitorExpires
    PROVE  Quiet
<1>1. UNCHANGED <<updates, global, active, lock>>
  BY DEF Heartbeat, StartLabels, StartClaim, MonitorExpires, roundVars
<1>2. CASE \E h \in Handlers, s \in Sids : Heartbeat(h, s)
  <2>1. PICK h \in Handlers, s \in Sids : Heartbeat(h, s)
    BY <1>2
  <2> DEFINE R == [NoRequest EXCEPT !.pc = "instruct", !.sid = s, !.kind = "heartbeat"]
  <2>2. Begins(h, R)
    BY <2>1 DEF Heartbeat, Start, Begins
  <2>3. R.kind = "heartbeat" /\ R.pc = "instruct"
    BY DEF NoRequest
  <2> HIDE DEF R
  <2> QED
    BY <1>1, <2>2, <2>3, BeginsQuiet DEF Threads
<1>3. CASE \E h \in Handlers, s \in Sids : \E T \in Batches :
              StartLabels(h, s, T) \/ StartClaim(h, s, T)
  <2>1. PICK h \in Handlers, s \in Sids, T \in Batches :
            StartLabels(h, s, T) \/ StartClaim(h, s, T)
    BY <1>3
  <2>2. PICK kind \in {"labels", "claim"} : Begins(h,
            [NoRequest EXCEPT !.pc = "sweep", !.sid = s, !.tasks = T, !.expired = Overdue,
                              !.kind = kind])
    BY <2>1 DEF StartLabels, StartClaim, Start, Begins
  <2> DEFINE R == [NoRequest EXCEPT !.pc = "sweep", !.sid = s, !.tasks = T,
                                    !.expired = Overdue, !.kind = kind]
  <2>3. R.kind = kind /\ R.pc = "sweep"
    BY DEF NoRequest
  <2>4. Begins(h, R)
    BY <2>2
  <2> HIDE DEF R
  <2> QED
    BY <1>1, <2>2, <2>3, <2>4, BeginsQuiet DEF Threads
<1>4. CASE MonitorExpires
  <2> DEFINE R == [NoRequest EXCEPT !.kind = "expire", !.pc = "sweep", !.expired = Overdue]
  <2>1. Begins(Monitor, R)
    BY <1>4 DEF MonitorExpires, Begins
  <2>2. R.kind = "expire" /\ R.pc = "sweep"
    BY DEF NoRequest
  <2> HIDE DEF R
  <2> QED
    BY <1>1, <2>1, <2>2, BeginsQuiet DEF Threads
<1> QED
  BY <1>2, <1>3, <1>4

\* What concerns no request leaves them all as they are, but for the mark of a lost client.
LEMMA OutsideQuiet ==
    ASSUME IInv,
           \/ \E s \in Sids : Lapse(s) \/ Register(s) \/ ClientRestart(s)
           \/ RefreshLeases
           \/ \E S \in (SUBSET Sids) \ {{}} : Configure(S)
           \/ UNCHANGED vars
    PROVE  Quiet
<1>1. UNCHANGED <<updates, global, active, lock>>
  BY DEF Lapse, Register, ClientRestart, RefreshLeases, Configure, vars, roundVars
<1>2. \A q \in Threads : SameRequest(q) /\ request'[q].pc = request[q].pc
                         /\ request'[q].todo = request[q].todo
  <2>1. CASE UNCHANGED request
    BY <2>1 DEF SameRequest
  <2>2. CASE \E s \in Sids : ClientRestart(s)
    <3>1. PICK s \in Sids : ClientRestart(s)
      BY <2>2
    <3>2. ASSUME NEW q \in Threads
          PROVE  SameRequest(q) /\ request'[q].pc = request[q].pc
                 /\ request'[q].todo = request[q].todo
      <4>1. request[q] \in Request
        BY DEF IInv, TypeOK
      <4>2. request'[q] = IF Sid(q) = s THEN [request[q] EXCEPT !.lost = TRUE] ELSE request[q]
        BY <3>1 DEF ClientRestart
      <4> QED
        BY <4>1, <4>2 DEF SameRequest, Request
    <3> QED
      BY <3>2
  <2> QED
    BY <2>1, <2>2 DEF Lapse, Register, RefreshLeases, Configure, vars
<1>3. ResettingStays
  BY <1>1, <1>2 DEF ResettingStays, Resetting, SameRequest
<1> QED
  BY <1>1, <1>2, <1>3 DEF Quiet, SameRounds, SameLoop

-----------------------------------------------------------------------------
\* Finalizing an update.

\* A finalize begins for the active round.
LEMMA StartFinalizeRounds ==
    ASSUME IInv, IInv', RoundInv, CommittedGrows,
           NEW h \in Handlers, NEW s \in Sids, StartFinalize(h, s)
    PROVE  RoundInv'
<1> DEFINE R == [NoRequest EXCEPT !.pc = "expire", !.sid = s, !.round = active,
                                  !.tasks = work[s], !.kind = "finalize"]
<1>1. R.kind = "finalize" /\ R.pc = "expire" /\ R.round = active
  BY DEF NoRequest
<1>2. Begins(h, R)
  BY DEF StartFinalize, Start, Begins
<1> HIDE DEF R
<1>3. /\ request'[h] = R
      /\ \A q \in Threads \ {h} : request'[q] = request[q]
      /\ h \in Threads /\ request[h].kind = "none"
  BY <1>2 DEF IInv, TypeOK, Threads, Begins, At, Places, Place, Serves, Dispatching, Releasing
<1>4. UNCHANGED <<updates, global, active, lock>> /\ active \in Rounds
  BY DEF StartFinalize, roundVars
<1>5. ResettingStays
  BY <1>3, <1>4 DEF ResettingStays, Resetting
<1>6. OneAggregation'
  <2>1. \A q \in Threads : request'[q].kind = "aggregate" =>
            request'[q].kind = request[q].kind /\ request'[q].round = request[q].round
    BY <1>1, <1>3
  <2>2. \A q \in Threads : request'[q].kind = "finalize" => request'[q].round <= active
    BY <1>1, <1>3, <1>4 DEF RoundInv, OneAggregation, Rounds
  <2> QED
    BY <1>4, <2>1, <2>2 DEF RoundInv, OneAggregation
<1>7. AllBalanced'
  BY <1>1, <1>3, <1>4 DEF RoundInv, AllBalanced
<1>8. \A q \in Threads : Committing(q)'
  <2> SUFFICES ASSUME NEW q \in Threads
               PROVE  Committing(q)'
    OBVIOUS
  <2>1. CASE q = h
    BY <1>1, <1>3, <2>1 DEF Committing
  <2>2. CASE q # h
    <3>1. SameRequest(q) /\ SameLoop(q) /\ Committing(q)
      BY <1>3, <2>2 DEF SameRequest, SameLoop, RoundInv
    <3> QED
      BY <1>4, <1>5, <3>1, LoopKept
  <2> QED
    BY <2>1, <2>2
<1>9. AcceptedStaysCommitted' /\ Weighed'
  BY <1>4, <1>5, AcceptedKept DEF RoundInv, IInv
<1> QED
  BY <1>6, <1>7, <1>8, <1>9 DEF RoundInv

\* A step of one finalize in its loop: what it has passed is COMMITTED.
LEMMA LoopStep ==
    ASSUME IInv, IInv', RoundInv, CommittedGrows, NEW p \in Threads,
           \A q \in Threads \ {p} : request'[q] = request[q],
           SameRequest(p), UNCHANGED <<updates, global, active, lock>>,
           Committing(p)'
    PROVE  RoundInv'
<1>1. \A q \in Threads : SameRequest(q)
  BY DEF SameRequest
<1>2. ResettingStays
  BY <1>1 DEF ResettingStays, Resetting, SameRequest
<1>3. \A q \in Threads : Committing(q)'
  <2> SUFFICES ASSUME NEW q \in Threads, q # p
               PROVE  Committing(q)'
    OBVIOUS
  <2>1. SameRequest(q) /\ SameLoop(q) /\ Committing(q)
    BY DEF SameRequest, SameLoop, RoundInv
  <2> QED
    BY <1>2, <2>1, LoopKept
<1> QED
  BY <1>1, <1>2, <1>3, RoundsKept DEF SameRounds

\* The check: what the update keeps of an accepted one stays COMMITTED, the rest is
\* still to be done.
LEMMA CheckUpdateRounds ==
    ASSUME IInv, IInv', RoundInv, CommittedGrows, NEW p \in Threads, CheckUpdate(p)
    PROVE  RoundInv'
<1> DEFINE r == request[p]
           old == updates[r.round][Sid(p)].tasks
           D == r.tasks \ old
<1>1. /\ UNCHANGED <<updates, global, active, lock>> /\ lock = Free
      /\ At(p, "check")
  BY DEF CheckUpdate, roundVars, Unlocked
<1>2. \/ Done(p)
      \/ request' = [request EXCEPT ![p].pc = "store", ![p].todo = D]
  BY DEF CheckUpdate
<1>3. CASE Done(p)
  <2>1. lock # p /\ Ends(p)
    BY <1>1, <1>3, ThreadsAssumption, DoneEnds DEF Threads, IInv
  <2> QED
    BY <1>1, <2>1, EndsQuiet, QuietKeeps
<1>4. CASE request' = [request EXCEPT ![p].pc = "store", ![p].todo = D]
  <2> HIDE DEF D
  <2>1. r \in Request /\ request \in [Threads -> Request]
    BY DEF IInv, TypeOK
  <2>2. /\ \A q \in Threads \ {p} : request'[q] = request[q]
        /\ SameRequest(p) /\ request'[p].todo = D
    BY <1>4, <2>1 DEF SameRequest, Request
  <2>3. r.sid \in Sids /\ r.round \in Rounds /\ ~Resetting
    BY <1>1, <2>1, ThreadsAssumption
    DEF IInv, Places, Place, Serves, At, Dispatching, Releasing, ClientKinds, Request,
        Resetting, Threads
  <2>4. Committing(p)'
    <3> SUFFICES ASSUME r.round = active, NEW t \in r.tasks \ D
                 PROVE  t \in Tasks /\ word'[t] = [state |-> COMMITTED, trainer |-> r.sid]
      BY <1>1, <2>2 DEF Committing, CommittedBy, OwnCommitted, SameRequest
    <3>1. t \in updates[active][r.sid].tasks
      BY DEF D, Sid
    <3>2. PICK s \in Sids : s = r.sid
      BY <2>3
    <3>3. t \in CommittedBy(s)
      BY <2>3, <3>1, <3>2 DEF RoundInv, AcceptedStaysCommitted
    <3>4. t \in CommittedBy(s)'
      BY <2>3, <3>3 DEF CommittedGrows
    <3> QED
      BY <3>2, <3>4 DEF CommittedBy, OwnCommitted
  <2> QED
    BY <1>1, <2>2, <2>4, LoopStep
<1> QED
  BY <1>2, <1>3, <1>4

\* The store checks the checkpoint, and the lock is taken.
LEMMA StoreUpdateRounds ==
    ASSUME IInv, IInv', RoundInv, CommittedGrows, NEW p \in Threads, StoreUpdate(p)
    PROVE  RoundInv'
<1> DEFINE r == request[p]
<1>1. UNCHANGED <<updates, global, active>> /\ At(p, "store")
  BY DEF StoreUpdate, roundVars
<1>2. CASE Done(p) /\ UNCHANGED lock
  <2>1. request[p].kind # "aggregate"
    BY <1>1, StoringFinalizes DEF At
  <2>2. Ends(p)
    BY <1>2, DoneEnds DEF IInv
  <2> QED
    BY <1>1, <1>2, <2>1, <2>2, EndsQuiet, QuietKeeps
<1>3. CASE Unlocked /\ lock' = p /\ Goto(p, "commit")
  <2>1. r \in Request /\ request \in [Threads -> Request]
    BY DEF IInv, TypeOK
  <2>2. /\ \A q \in Threads : SameRequest(q) /\ SameLoop(q)
    BY <1>1, <1>3, <2>1 DEF Goto, At, SameRequest, SameLoop, Request
  <2>3. ResettingStays
    BY <1>3, ThreadsAssumption DEF ResettingStays, Resetting, Unlocked, Threads
  <2> QED
    BY <1>1, <2>2, <2>3, QuietKeeps DEF Quiet, SameRounds
<1> QED
  BY <1>2, <1>3 DEF StoreUpdate

\* A task is COMMITTED and taken off the loop, or the request is rejected.
LEMMA CommitTaskRounds ==
    ASSUME IInv, IInv', RoundInv, CommittedGrows, NEW p \in Threads, CommitTask(p)
    PROVE  RoundInv'
<1> DEFINE r == request[p]
<1>1. UNCHANGED <<updates, global, active>> /\ At(p, "commit") /\ Todo(p) # {}
  BY DEF CommitTask, roundVars
<1>2. r.kind = "finalize" /\ r.sid \in Sids /\ lock = p
  BY <1>1, StoringFinalizes DEF At, IInv, Places, Place, Holding
<1>3. CASE ~OwnPending(Task(p), Sid(p))
  <2>1. Done(p) /\ lock' = Free
    BY <1>3 DEF CommitTask
  <2>2. Ends(p)
    BY <2>1, DoneEnds DEF IInv
  <2> QED
    BY <1>1, <1>2, <2>2, EndsQuiet, QuietKeeps
<1>4. CASE OwnPending(Task(p), Sid(p))
  <2>1. /\ word' = [word EXCEPT ![Task(p)].state = COMMITTED]
        /\ NextTask(p, "commit") /\ lock' = lock
    BY <1>4 DEF CommitTask
  <2>2. r \in Request /\ request \in [Threads -> Request]
    BY DEF IInv, TypeOK
  <2>3. PICK t0 \in Tasks : t0 = Task(p)
    BY <1>1, NextTodo DEF IInv
  <2>4. /\ \A q \in Threads \ {p} : request'[q] = request[q]
        /\ SameRequest(p) /\ request'[p].todo = r.todo \ {t0}
    BY <2>1, <2>2, <2>3 DEF NextTask, SameRequest, Request
  <2>5. word'[t0] = [state |-> COMMITTED, trainer |-> r.sid]
    BY <1>4, <2>1, <2>3 DEF OwnPending, Sid, IInv, TypeOK
  <2>6. Committing(p)'
    <3> SUFFICES ASSUME r.round = active, NEW t \in r.tasks \ (r.todo \ {t0})
                 PROVE  t \in Tasks /\ word'[t] = [state |-> COMMITTED, trainer |-> r.sid]
      BY <1>1, <2>4 DEF Committing, CommittedBy, OwnCommitted, SameRequest
    <3>1. CASE t = t0
      BY <2>5, <3>1
    <3>2. CASE t # t0
      <4>1. ~Resetting
        BY <1>2 DEF Resetting
      <4>2. PICK s \in Sids : s = r.sid
        BY <1>2
      <4>3. t \in CommittedBy(s)
        BY <1>1, <3>2, <4>1, <4>2 DEF RoundInv, Committing, At
      <4>4. t \in CommittedBy(s)'
        BY <4>1, <4>3 DEF CommittedGrows
      <4> QED
        BY <4>2, <4>4 DEF CommittedBy, OwnCommitted
    <3> QED
      BY <3>1, <3>2
  <2> QED
    BY <1>1, <2>1, <2>4, <2>6, LoopStep
<1> QED
  BY <1>3, <1>4

\* The update is accepted once its last task is COMMITTED, with a weight that covers it.
LEMMA AcceptUpdateRounds ==
    ASSUME IInv, IInv', RoundInv, CommittedGrows, NEW p \in Threads, AcceptUpdate(p)
    PROVE  RoundInv'
<1> DEFINE r == request[p]
<1>1. /\ UNCHANGED <<word, global, active>> /\ At(p, "commit") /\ Todo(p) = {}
      /\ Done(p) /\ lock' = Free
  BY DEF AcceptUpdate, taskVars
<1>2. /\ r.kind = "finalize" /\ r.sid \in Sids /\ lock = p
      /\ r.round \in Rounds /\ r.tasks \in SUBSET Tasks /\ r.round <= active
  BY <1>1, StoringFinalizes
  DEF At, IInv, Places, Place, Holding, TypeOK, Request, RoundInv, OneAggregation
<1>3. Ends(p) /\ ~Resetting
  BY <1>1, <1>2, DoneEnds DEF IInv, Resetting
<1>4. CASE updates' = updates
  BY <1>1, <1>2, <1>3, <1>4, EndsQuiet, QuietKeeps
<1>5. ASSUME updates' # updates
      PROVE  RoundInv'
  <2> DEFINE new == [tasks |-> r.tasks, samples |-> Cardinality(CommittedBy(r.sid))]
  <2>1. updates' = [updates EXCEPT ![r.round][r.sid] = new]
    BY <1>5 DEF AcceptUpdate, Sid
  <2>2. new.tasks = r.tasks /\ new.samples = Cardinality(CommittedBy(r.sid))
    OBVIOUS
  <2> HIDE DEF new
  <2>3. /\ \A k \in Rounds : k # r.round => updates'[k] = updates[k]
        /\ \A s \in Sids : s # r.sid => updates'[r.round][s] = updates[r.round][s]
        /\ updates'[r.round][r.sid] = new
    BY <1>2, <2>1 DEF IInv, TypeOK
  <2>4. /\ \A q \in Threads : SameRequest(q) \/ Unrelated(q)
        /\ \A q \in Threads : SameLoop(q)
    BY <1>3 DEF Ends, NoRequest, SameRequest, SameLoop, Unrelated
  <2>5. ResettingStays
    BY <1>3 DEF ResettingStays
  <2>6. OneAggregation'
    <3>1. \A q \in Threads : request'[q].kind \in {"finalize", "aggregate"} =>
              request'[q].kind = request[q].kind /\ request'[q].round = request[q].round
      BY <2>4 DEF SameRequest, Unrelated
    <3>2. \A k \in Rounds : k > active => updates'[k] = NoUpdates
      <4> SUFFICES ASSUME NEW k \in Rounds, k > active
                   PROVE  updates'[k] = NoUpdates
        OBVIOUS
      <4>1. k # r.round
        BY <1>2 DEF IInv, TypeOK, Rounds
      <4> QED
        BY <2>3, <4>1 DEF RoundInv, OneAggregation
    <3> QED
      BY <1>1, <3>1, <3>2 DEF RoundInv, OneAggregation
  <2>7. AllBalanced'
    BY <1>1, <2>4 DEF RoundInv, AllBalanced, SameRequest, Unrelated
  <2>8. \A q \in Threads : Committing(q)'
    <3> SUFFICES ASSUME NEW q \in Threads
                 PROVE  Committing(q)'
      OBVIOUS
    <3>1. Committing(q)
      BY DEF RoundInv
    <3> QED
      BY <1>1, <2>4, <2>5, <3>1, LoopKept
  <2>9. ASSUME active \in Rounds, NEW s \in Sids
        PROVE  /\ updates'[active][s].tasks \subseteq CommittedBy(s)
               /\ Cardinality(updates'[active][s].tasks) <= updates'[active][s].samples
               /\ updates'[active][s].samples <= Cardinality(CommittedBy(s))
    <3>1. CASE active = r.round /\ s = r.sid
      <4>1. updates'[active][s] = new
        BY <2>3, <3>1
      <4>2. r.tasks \subseteq CommittedBy(s)
        BY <1>1, <1>3, <3>1 DEF RoundInv, Committing, At, Todo
      <4>3. IsFiniteSet(CommittedBy(s)) /\ Cardinality(CommittedBy(s)) \in Nat
        <5>1. CommittedBy(s) \in SUBSET Tasks
          BY DEF CommittedBy
        <5> QED
          BY <5>1, TasksAssumption, FS_Subset, FS_CardinalityType
      <4>4. Cardinality(r.tasks) <= Cardinality(CommittedBy(s))
        BY <4>2, <4>3, FS_Subset
      <4> QED
        BY <2>2, <3>1, <4>1, <4>2, <4>3, <4>4
    <3>2. CASE ~(active = r.round /\ s = r.sid)
      <4>1. updates'[active][s] = updates[active][s]
        BY <2>3, <2>9, <3>2
      <4> QED
        BY <1>3, <2>9, <4>1 DEF RoundInv, AcceptedStaysCommitted, Weighed
    <3> QED
      BY <3>1, <3>2
  <2>10. \A s \in Sids : CommittedBy(s)' = CommittedBy(s)
    BY <1>1 DEF CommittedBy, OwnCommitted
  <2>11. AcceptedStaysCommitted' /\ Weighed'
    BY <1>1, <2>9, <2>10 DEF AcceptedStaysCommitted, Weighed
  <2> QED
    BY <2>6, <2>7, <2>8, <2>11 DEF RoundInv
<1> QED
  BY <1>4, <1>5

-----------------------------------------------------------------------------
\* Aggregating a round.

\* The accepted updates an aggregation reads count every task once.
LEMMA AcceptedBalanced ==
    ASSUME IInv, RoundInv, active \in Rounds, ~Resetting, NEW S \in SUBSET Sids
    PROVE  [s \in Sids |-> IF s \in S THEN updates[active][s] ELSE NoUpdate] \in Balanced
<1> DEFINE A == [s \in Sids |-> IF s \in S THEN updates[active][s] ELSE NoUpdate]
           C == [s \in Sids |-> CommittedBy(s)]
<1>1. C \in [Sids -> SUBSET Tasks]
  BY DEF CommittedBy
<1>2. \A s, q \in Sids : s # q => C[s] \cap C[q] = {}
  BY DEF CommittedBy, OwnCommitted
<1>3. A \in [Sids -> Update]
  BY FS_CardinalityType, TasksAssumption DEF IInv, TypeOK, NoUpdate, Update
<1>a. \A s \in Sids : C[s] = CommittedBy(s)
  OBVIOUS
<1>b. \A s \in S : A[s] = updates[active][s]
  OBVIOUS
<1>c. \A s \in Sids \ S : A[s].tasks = {} /\ A[s].samples = 0
  BY DEF NoUpdate
<1> HIDE DEF A, C
<1>4. ASSUME NEW s \in Sids
      PROVE  /\ A[s].tasks \subseteq C[s]
             /\ Cardinality(A[s].tasks) <= A[s].samples
             /\ A[s].samples <= Cardinality(C[s])
  <2>1. CASE s \in S
    BY <1>a, <1>b, <2>1 DEF RoundInv, AcceptedStaysCommitted, Weighed
  <2>2. CASE s \notin S
    <3>1. A[s].tasks = {} /\ A[s].samples = 0
      BY <1>c, <2>2
    <3>2. Cardinality(C[s]) \in Nat
      BY <1>1, TasksAssumption, FS_Subset, FS_CardinalityType
    <3>3. Cardinality({}) = 0
      BY FS_EmptySet
    <3>4. Cardinality(A[s].tasks) = 0
      BY <3>1, <3>3
    <3> QED
      BY <3>1, <3>2, <3>4
  <2> QED
    BY <2>1, <2>2
<1>5. TotalSamples(A) <= Cardinality(Tasks)
  BY <1>1, <1>2, <1>3, <1>4, TotalBounded
<1>6. A \in Balanced
  BY <1>2, <1>3, <1>4, <1>5 DEF Balanced
<1> QED
  BY <1>6 DEF A

\* An aggregation begins when none is under way, and reads balanced updates.
LEMMA AggregateRounds ==
    ASSUME IInv, IInv', RoundInv, CommittedGrows, ~RepeatAggregate,
           NEW h \in Handlers, NEW k \in Rounds, NEW S \in SUBSET Sids, Aggregate(h, k, S)
    PROVE  RoundInv'
<1> DEFINE A == [s \in Sids |-> IF s \in S THEN updates[k][s] ELSE NoUpdate]
           R == [NoRequest EXCEPT !.pc = "fedavg", !.round = k, !.averaged = A,
                                  !.kind = "aggregate"]
<1>1. /\ UNCHANGED <<updates, global, active, lock>>
      /\ k = active /\ lock = Free /\ \A q \in Handlers : request[q].kind # "aggregate"
  BY DEF Aggregate, MayAggregate, Unlocked, roundVars
<1>2. /\ ~Resetting
      /\ \A q \in Threads : request[q].kind # "aggregate"
  BY <1>1, ThreadsAssumption DEF Resetting, Threads, IInv, Places, Place
<1>3. A \in Balanced
  BY <1>1, <1>2, AcceptedBalanced
<1>4. R.kind = "aggregate" /\ R.pc = "fedavg" /\ R.round = k /\ R.averaged = A
  BY DEF NoRequest
<1>5. Begins(h, R)
  BY DEF Aggregate, Start, Begins
<1> HIDE DEF R, A
<1>6. /\ request'[h] = R /\ h \in Threads
      /\ \A q \in Threads \ {h} : request'[q] = request[q]
  BY <1>5 DEF IInv, TypeOK, Threads, Begins
<1>7. ResettingStays
  BY <1>2 DEF ResettingStays
<1>8. OneAggregation'
  <2>1. \A q \in Threads : request'[q].kind = "finalize" => request'[q].round <= active
    BY <1>4, <1>6 DEF RoundInv, OneAggregation
  <2>2. \A q \in Threads : request'[q].kind = "aggregate" => q = h /\ request'[q].round = active
    BY <1>1, <1>2, <1>4, <1>6
  <2> QED
    BY <1>1, <2>1, <2>2 DEF RoundInv, OneAggregation
<1>9. AllBalanced'
  BY <1>1, <1>2, <1>3, <1>4, <1>6 DEF RoundInv, AllBalanced
<1>10. \A q \in Threads : Committing(q)'
  <2> SUFFICES ASSUME NEW q \in Threads
               PROVE  Committing(q)'
    OBVIOUS
  <2>1. CASE q = h
    BY <1>4, <1>6, <2>1 DEF Committing
  <2>2. CASE q # h
    <3>1. SameRequest(q) /\ SameLoop(q) /\ Committing(q)
      BY <1>6, <2>2 DEF SameRequest, SameLoop, RoundInv
    <3> QED
      BY <1>1, <1>7, <3>1, LoopKept
  <2> QED
    BY <2>1, <2>2
<1>11. AcceptedStaysCommitted' /\ Weighed'
  BY <1>1, <1>7, AcceptedKept DEF RoundInv, IInv
<1> QED
  BY <1>8, <1>9, <1>10, <1>11 DEF RoundInv

\* The average is published, and from then on the round is being reset.
LEMMA PublishGlobalRounds ==
    ASSUME IInv, IInv', RoundInv, CommittedGrows, NEW p \in Threads, PublishGlobal(p)
    PROVE  RoundInv'
<1> DEFINE r == request[p]
<1>1. UNCHANGED <<updates, active>> /\ At(p, "fedavg")
  BY DEF PublishGlobal
<1>2. /\ r.kind = "aggregate" /\ lock # p
      /\ r \in Request /\ request \in [Threads -> Request]
  BY <1>1 DEF At, IInv, Places, Place, Serves, Dispatching, Releasing, Holding, TypeOK
<1>3. CASE Done(p) /\ UNCHANGED <<global, lock>>
  <2>1. Ends(p)
    BY <1>3, DoneEnds DEF IInv
  <2> QED
    BY <1>1, <1>2, <1>3, <2>1, EndsQuiet, QuietKeeps
<1>4. CASE /\ lock' = p
           /\ global' = [global EXCEPT ![r.round] = r.averaged]
           /\ request' = [request EXCEPT ![p].pc = "retain", ![p].todo = Tasks]
  <2>1. \A q \in Threads : SameRequest(q)
    BY <1>2, <1>4 DEF SameRequest, Request
  <2>2. Resetting'
    BY <1>2, <1>4, <2>1 DEF Resetting, SameRequest
  <2>3. OneAggregation'
    BY <1>1, <2>1 DEF RoundInv, OneAggregation, SameRequest
  <2>4. AllBalanced'
    <3>1. \A k \in Rounds : global'[k] \in Balanced
      BY <1>2, <1>4 DEF RoundInv, AllBalanced, IInv, TypeOK
    <3> QED
      BY <2>1, <3>1 DEF RoundInv, AllBalanced, SameRequest
  <2> QED
    BY <2>2, <2>3, <2>4 DEF RoundInv, Committing, AcceptedStaysCommitted, Weighed
<1> QED
  BY <1>3, <1>4 DEF PublishGlobal

\* The next round begins without updates and without finalizes.
LEMMA AdvanceRounds ==
    ASSUME IInv, IInv', RoundInv, NEW p \in Threads, Advance(p)
    PROVE  RoundInv'
<1> DEFINE r == request[p]
<1>1. /\ UNCHANGED <<updates, global>> /\ At(p, "retain")
      /\ active' = r.round + 1 /\ Done(p)
  BY DEF Advance
<1>2. r.kind = "aggregate" /\ r.round = active /\ active \in Nat
  <2>1. Place(p) /\ r.pc = "retain"
    BY <1>1 DEF At, IInv, Places
  <2>2. r.kind = "aggregate"
    BY <2>1 DEF Place, Serves, Dispatching, Releasing
  <2>3. r.round = active
    BY <2>2 DEF RoundInv, OneAggregation
  <2>4. active \in Nat
    BY BoundsAssumption DEF IInv, TypeOK
  <2> QED
    BY <2>2, <2>3, <2>4
<1>3. Ends(p)
  BY <1>1, DoneEnds DEF IInv
<1>4. \A q \in Threads : request'[q].kind \in {"finalize", "aggregate"} =>
          request'[q] = request[q] /\ q # p
  BY <1>3 DEF Ends, NoRequest
<1>5. ASSUME NEW q \in Threads, request'[q].kind = "finalize"
      PROVE  request'[q].round <= active /\ request'[q].round \in Nat
  BY <1>4, <1>5 DEF RoundInv, OneAggregation, IInv, TypeOK, Request, Rounds
<1>6. \A q \in Threads : request'[q].kind # "aggregate"
  BY <1>2, <1>4 DEF RoundInv, OneAggregation
<1>7. \A k \in Rounds : k >= active' => updates'[k] = NoUpdates
  BY <1>1, <1>2 DEF RoundInv, OneAggregation, Rounds
<1>8. OneAggregation'
  <2>1. \A q \in Threads : request'[q].kind = "finalize" => request'[q].round <= active'
    BY <1>1, <1>2, <1>5
  <2>2. \A k \in Rounds : k > active' => updates'[k] = NoUpdates
    BY <1>1, <1>2, <1>7 DEF Rounds
  <2> QED
    BY <1>6, <2>1, <2>2 DEF OneAggregation
<1>9. AllBalanced'
  BY <1>1, <1>6 DEF RoundInv, AllBalanced
<1>10. \A q \in Threads : Committing(q)'
  <2> SUFFICES ASSUME NEW q \in Threads, request'[q].pc \in {"store", "commit"},
                      request'[q].round = active'
               PROVE  FALSE
    BY DEF Committing
  <2>1. Place(q)'
    BY DEF IInv, Places
  <2>2. request'[q].kind = "finalize"
    BY <2>1 DEF Place, Serves, Dispatching, Releasing
  <2> QED
    BY <1>1, <1>2, <1>5, <2>2
<1>11. AcceptedStaysCommitted' /\ Weighed'
  <2>1. active' \in Rounds => updates'[active'] = NoUpdates
    BY <1>1, <1>2, <1>7 DEF Rounds
  <2>2. active' \in Rounds => \A s \in Sids :
            /\ updates'[active'][s].tasks = {} /\ updates'[active'][s].samples = 0
    BY <2>1 DEF NoUpdates, NoUpdate
  <2>3. Cardinality({}) = 0
    BY FS_EmptySet
  <2>4. \A s \in Sids : Cardinality(CommittedBy(s)') \in Nat
    <3> SUFFICES ASSUME NEW s \in Sids
                 PROVE  Cardinality(CommittedBy(s)') \in Nat
      OBVIOUS
    <3> DEFINE B == CommittedBy(s)'
    <3>1. B \in SUBSET Tasks
      BY DEF CommittedBy
    <3> HIDE DEF B
    <3>2. Cardinality(B) \in Nat
      BY <3>1, TasksAssumption, FS_Subset, FS_CardinalityType
    <3> QED
      BY <3>2 DEF B
  <2>5. ASSUME active' \in Rounds, NEW s \in Sids
        PROVE  /\ updates'[active'][s].tasks \subseteq CommittedBy(s)'
               /\ Cardinality(updates'[active'][s].tasks) <= updates'[active'][s].samples
               /\ updates'[active'][s].samples <= Cardinality(CommittedBy(s)')
    <3>1. updates'[active'][s].tasks = {} /\ updates'[active'][s].samples = 0
      BY <2>2, <2>5
    <3>2. Cardinality(updates'[active'][s].tasks) = 0
      BY <2>3, <3>1
    <3>3. Cardinality(CommittedBy(s)') \in Nat
      BY <2>4
    <3>4. 0 <= Cardinality(CommittedBy(s)')
      BY <3>3
    <3> QED
      BY <3>1, <3>2, <3>4
  <2> QED
    BY <2>5 DEF AcceptedStaysCommitted, Weighed
<1> QED
  BY <1>8, <1>9, <1>10, <1>11 DEF RoundInv

-----------------------------------------------------------------------------

\* The round invariant holds initially,
LEMMA InitRounds == Init => RoundInv
<1> SUFFICES ASSUME Init
             PROVE  RoundInv
  OBVIOUS
<1>1. NoUpdates \in [Sids -> Update]
  BY FS_CardinalityType, TasksAssumption DEF NoUpdates, NoUpdate, Update
<1>2. Cardinality({}) = 0 /\ Cardinality(Tasks) \in Nat
  BY FS_EmptySet, FS_CardinalityType, TasksAssumption
<1>3. NoUpdates \in Balanced
  <2> DEFINE C == [s \in Sids |-> {}]
  <2>1. /\ C \in [Sids -> SUBSET Tasks]
        /\ \A s, q \in Sids : s # q => C[s] \cap C[q] = {}
        /\ \A s \in Sids : NoUpdates[s].samples <= Cardinality(C[s])
    BY <1>2 DEF NoUpdates, NoUpdate
  <2> HIDE DEF C
  <2>2. TotalSamples(NoUpdates) <= Cardinality(Tasks)
    BY <1>1, <2>1, TotalBounded
  <2>3. \A s \in Sids : NoUpdates[s].tasks = {} /\ NoUpdates[s].samples = 0
    BY DEF NoUpdates, NoUpdate
  <2>4. \A s \in Sids : Cardinality(NoUpdates[s].tasks) <= NoUpdates[s].samples
    <3> SUFFICES ASSUME NEW s \in Sids
                 PROVE  Cardinality(NoUpdates[s].tasks) <= NoUpdates[s].samples
      OBVIOUS
    <3>1. Cardinality(NoUpdates[s].tasks) = 0 /\ NoUpdates[s].samples = 0
      BY <1>2, <2>3
    <3> QED
      BY <3>1
  <2>5. \A s, q \in Sids : s # q => NoUpdates[s].tasks \cap NoUpdates[q].tasks = {}
    BY <2>3
  <2> QED
    BY <1>1, <2>2, <2>4, <2>5 DEF Balanced
<1>4. \A p \in Threads : request[p].kind = "none" /\ request[p].pc = "idle"
  BY DEF Init, NoRequest
<1>5. AllBalanced
  BY <1>3, <1>4 DEF Init, AllBalanced
<1>6. OneAggregation
  BY <1>4 DEF Init, OneAggregation
<1>7. \A p \in Threads : Committing(p)
  BY <1>4 DEF Committing
<1>8. AcceptedStaysCommitted /\ Weighed
  <2>1. active \in Rounds =>
            \A s \in Sids : updates[active][s].tasks = {} /\ updates[active][s].samples = 0
    BY DEF Init, NoUpdates, NoUpdate
  <2>2. ASSUME NEW s \in Sids
        PROVE  Cardinality(CommittedBy(s)) \in Nat
    <3> DEFINE B == CommittedBy(s)
    <3>1. B \in SUBSET Tasks
      BY DEF CommittedBy
    <3> HIDE DEF B
    <3>2. Cardinality(B) \in Nat
      BY <3>1, TasksAssumption, FS_Subset, FS_CardinalityType
    <3> QED
      BY <3>2 DEF B
  <2>3. ASSUME active \in Rounds, NEW s \in Sids
        PROVE  /\ updates[active][s].tasks \subseteq CommittedBy(s)
               /\ Cardinality(updates[active][s].tasks) <= updates[active][s].samples
               /\ updates[active][s].samples <= Cardinality(CommittedBy(s))
    <3>1. updates[active][s].tasks = {} /\ updates[active][s].samples = 0
      BY <2>1, <2>3
    <3>2. Cardinality(updates[active][s].tasks) = 0
      BY <1>2, <3>1
    <3>3. 0 <= Cardinality(CommittedBy(s))
      BY <2>2
    <3> QED
      BY <3>1, <3>2, <3>3
  <2> QED
    BY <2>3 DEF AcceptedStaysCommitted, Weighed
<1> QED
  BY <1>5, <1>6, <1>7, <1>8 DEF RoundInv

\* is kept by every step,
LEMMA NextRounds ==
    ASSUME ~RepeatAggregate, IInv, IInv', RoundInv, [Next]_vars
    PROVE  RoundInv'
<1>1. CommittedGrows
  BY CommitsGrow
<1>2. CASE UNCHANGED vars
  BY <1>1, <1>2, OutsideQuiet, QuietKeeps
<1>3. CASE Environment
  <2>1. CASE \/ \E s \in Sids : Lapse(s) \/ Register(s) \/ ClientRestart(s)
             \/ RefreshLeases
             \/ \E S \in (SUBSET Sids) \ {{}} : Configure(S)
    BY <1>1, <2>1, OutsideQuiet, QuietKeeps
  <2>2. CASE \/ \E h \in Handlers, s \in Sids : Heartbeat(h, s)
             \/ \E h \in Handlers, s \in Sids : \E T \in Batches :
                   StartLabels(h, s, T) \/ StartClaim(h, s, T)
    BY <1>1, <2>2, ClientQuiet, QuietKeeps
  <2>3. ASSUME NEW h \in Handlers, NEW s \in Sids, StartFinalize(h, s)
        PROVE  RoundInv'
    BY <1>1, <2>3, StartFinalizeRounds
  <2>4. ASSUME NEW S \in (SUBSET Sids) \ {{}}, NEW h \in Handlers, NEW k \in Rounds,
               Aggregate(h, k, S)
        PROVE  RoundInv'
    BY <1>1, <2>4, AggregateRounds
  <2> QED
    BY <1>3, <2>1, <2>2, <2>3, <2>4 DEF Environment
<1>4. CASE MonitorExpires
  BY <1>1, <1>4, ClientQuiet, QuietKeeps
<1>5. ASSUME NEW p \in Threads, Step(p)
      PROVE  RoundInv'
  <2>1. CASE LocalStep(p)
    BY <1>1, <2>1, LocalQuiet, QuietKeeps
  <2>2. CASE CheckUpdate(p) \/ StoreUpdate(p) \/ CommitTask(p) \/ AcceptUpdate(p)
    BY <1>1, <2>2, CheckUpdateRounds, StoreUpdateRounds, CommitTaskRounds, AcceptUpdateRounds
  <2>3. CASE PublishGlobal(p) \/ Advance(p)
    BY <1>1, <2>3, PublishGlobalRounds, AdvanceRounds
  <2> QED
    BY <1>5, <2>1, <2>2, <2>3 DEF Step, LocalStep
<1> QED
  BY <1>2, <1>3, <1>4, <1>5 DEF Next

\* and so holds always, if aggregate requests are not repeated.
LEMMA RoundsInvariant ==
    ASSUME ~RepeatAggregate
    PROVE  Spec => []RoundInv
<1>1. IInv /\ IInv' /\ RoundInv /\ [Next]_vars => RoundInv'
  BY NextRounds
<1> QED
  BY <1>1, InitRounds, Invariance, PTL DEF Spec

\* While the coordinator does not repeat aggregate requests, accepted work of the active
\* round stays COMMITTED until the aggregation resets it: a check and the commit of what
\* it checked are two lock sections, and no release or replacement comes between.
THEOREM AcceptedStaysCommittedHolds ==
    ASSUME ~RepeatAggregate
    PROVE  Spec => []AcceptedStaysCommitted
<1>1. RoundInv => AcceptedStaysCommitted
  BY DEF RoundInv
<1> QED
  BY <1>1, RoundsInvariant, PTL

\* Under the same condition no task is averaged twice into a global model, however
\* often tasks change hands in a round.
THEOREM AveragedOnceHolds ==
    ASSUME ~RepeatAggregate
    PROVE  Spec => []AveragedOnce
<1>1. RoundInv => AveragedOnce
  BY DEF RoundInv, AllBalanced, Balanced, AveragedOnce
<1> QED
  BY <1>1, RoundsInvariant, PTL

\* And the weights of a global model add up to no more than the tasks there are, for any
\* number of clients, while each covers the tasks its update was trained on.
THEOREM WeightsBoundedHolds ==
    ASSUME ~RepeatAggregate
    PROVE  Spec => []WeightsBounded
<1>1. RoundInv => WeightsBounded
  <2> SUFFICES ASSUME RoundInv, NEW r \in Rounds
               PROVE  /\ MapThenSumSet(LAMBDA s : global[r][s].samples, Sids)
                            <= Cardinality(Tasks)
                      /\ \A s \in Sids :
                            Cardinality(global[r][s].tasks) <= global[r][s].samples
    BY DEF WeightsBounded
  <2>1. global[r] \in Balanced
    BY DEF RoundInv, AllBalanced
  <2>2. TotalSamples(global[r]) <= Cardinality(Tasks)
    BY <2>1 DEF Balanced
  <2> QED
    BY <2>1, <2>2 DEF Balanced, TotalSamples
<1> QED
  BY <1>1, RoundsInvariant, PTL
=============================================================================
