------------------------- MODULE AggregationServer -------------------------
(***************************************************************************)
(* The Aggregation Server (src/dbtfl/entities/aggregation_server.py): SID  *)
(* sessions kept alive by heartbeats, training tasks claimed by their      *)
(* owners, model updates that commit the tasks they were trained on, and   *)
(* rounds closed by FedAvg.                                                *)
(*                                                                         *)
(* Each request runs in a thread of its own and the session monitor in     *)
(* another.  They share one lock, which a handler takes for single         *)
(* sections only, and the native index, whose task operations need no      *)
(* lock.  A step of this module is one lock section or one operation of    *)
(* the index; a section that calls the index repeatedly holds the lock     *)
(* over several steps.  A task operation is atomic and a snapshot is read  *)
(* in one step, which is what TaskWord establishes of them.                *)
(***************************************************************************)
EXTENDS Integers, FiniteSets, FiniteSetsExt

CONSTANTS
    Handlers,          \* request threads of the HTTP server
    Monitor,           \* the thread that runs expire_sessions periodically
    Free,              \* nobody holds the AS lock
    Sids,              \* session identifiers 1..max_clients, one per client
    Tasks,             \* task identifiers of the native index
    Kinds,             \* the kinds of requests clients send
    Batches,           \* the batches in which clients submit and claim labels
    InitialOwners,     \* owners of every task when the behaviour starts
    HistoryScheduling, \* history_scheduling_enabled
    ScanRecovery,      \* recovery_index_mode = "scan"
    RepeatAggregate,   \* the coordinator may repeat an aggregate request
    MaxRound,          \* bound on the rounds
    MaxRequests,       \* bound on the requests
    MaxFaults          \* bound on heartbeat timeouts and client restarts

RequestKinds == {"register", "heartbeat", "labels", "claim", "finalize",
                 "configure", "aggregate", "lease"}

ASSUME SidsAssumption == Sids \subseteq Nat \ {0} /\ IsFiniteSet(Sids)
ASSUME TasksAssumption == Tasks \subseteq Nat /\ IsFiniteSet(Tasks)
ASSUME ThreadsAssumption ==
    Monitor \notin Handlers /\ Free \notin Handlers \cup {Monitor}
ASSUME KindsAssumption == Kinds \subseteq RequestKinds
ASSUME BatchesAssumption == Batches \subseteq (SUBSET Tasks) \ {{}}
ASSUME OwnersAssumption == InitialOwners \in [Tasks -> SUBSET Sids]
ASSUME SwitchAssumption ==
    {HistoryScheduling, ScanRecovery, RepeatAggregate} \subseteq BOOLEAN
ASSUME BoundsAssumption == {MaxRound, MaxRequests, MaxFaults} \subseteq Nat

VARIABLES
    session,    \* per SID: registered, online, recovery_risk; lapsed: the
                \* last heartbeat is older than the timeout
    owners,     \* per task: the SIDs on its owner list
    word,       \* per task: state and trainer of the packed word
    previous,   \* per task: the trainer of the last completed round
    recovery,   \* per task: the recovery_required flag
    updates,    \* per round and SID: the accepted update
    global,     \* per round: the updates FedAvg averaged
    roster,     \* per round: the configured participants, {} when absent
    active,     \* _active_round
    dispatch,   \* _round_dispatch_enabled
    lock,       \* the thread inside a section of several steps, or Free
    request,    \* per thread: the request it serves and its locals
    work,       \* per client: tasks it was told to TRAIN in this round
    started,    \* requests so far
    faults      \* heartbeat timeouts and client restarts so far

sessionVars == <<session, faults>>
taskVars == <<word, previous, recovery>>
roundVars == <<updates, global, roster, active>>
vars == <<sessionVars, owners, taskVars, roundVars, dispatch, lock, request,
          work, started>>

Threads == Handlers \cup {Monitor}
NoSid == 0
Rounds == 0 .. MaxRound

EMPTY == "EMPTY"
PENDING == "PENDING"
COMMITTED == "COMMITTED"
Word == [state : {EMPTY, PENDING, COMMITTED}, trainer : Sids \cup {NoSid}]
EmptyWord == [state |-> EMPTY, trainer |-> NoSid]

\* An accepted update is known by the tasks it was trained on; FedAvg weighs
\* it by samples.  A set of task identifiers is never empty in an update.
Update == [tasks : SUBSET Tasks, samples : 0 .. Cardinality(Tasks)]
NoUpdate == [tasks |-> {}, samples |-> 0]
NoUpdates == [s \in Sids |-> NoUpdate]

\* Where a thread can be between two steps of its request.
Pcs == {"idle", "expire", "sweep", "release", "flag", "enable", "instruct", "look",
        "select", "take", "clear", "answer", "append", "claimLook", "claimTry",
        "claimFinal", "check", "store", "commit", "fedavg", "retain", "reset", "unflag"}

\* A thread's request and locals: train and torn are the answer being built,
\* lost says that the client that waits for it is gone,
\* expired the SIDs whose tasks are still to be released, todo the tasks left
\* in the current loop, averaged the updates an aggregation has read.
Request == [kind : RequestKinds \cup {"none", "expire"}, pc : Pcs,
            sid : Sids \cup {NoSid}, round : Rounds,
            tasks : SUBSET Tasks, todo : SUBSET Tasks, train : SUBSET Tasks,
            torn : BOOLEAN, lost : BOOLEAN, expired : SUBSET Sids,
            averaged : [Sids -> Update]]
NoRequest == [kind |-> "none", pc |-> "idle", sid |-> NoSid, round |-> 0,
              tasks |-> {}, todo |-> {}, train |-> {}, torn |-> FALSE, lost |-> FALSE,
              expired |-> {}, averaged |-> NoUpdates]

TypeOK ==
    /\ session \in [Sids -> [registered : BOOLEAN, online : BOOLEAN,
                             risk : BOOLEAN, lapsed : BOOLEAN]]
    /\ owners \in [Tasks -> SUBSET Sids]
    /\ word \in [Tasks -> Word]
    /\ previous \in [Tasks -> Sids \cup {NoSid}]
    /\ recovery \in [Tasks -> BOOLEAN]
    /\ updates \in [Rounds -> [Sids -> Update]]
    /\ global \in [Rounds -> [Sids -> Update]]
    /\ roster \in [Rounds -> SUBSET Sids]
    /\ active \in 0 .. MaxRound + 1
    /\ dispatch \in BOOLEAN
    /\ lock \in Threads \cup {Free}
    /\ request \in [Threads -> Request]
    /\ work \in [Sids -> SUBSET Tasks]
    /\ started \in 0 .. MaxRequests
    /\ faults \in 0 .. MaxFaults

\* The clients that own tasks have registered themselves and their labels.
Init ==
    /\ session = [s \in Sids |->
                    LET enrolled == \E t \in Tasks : s \in InitialOwners[t] IN
                    [registered |-> enrolled, online |-> enrolled,
                     risk |-> FALSE, lapsed |-> FALSE]]
    /\ owners = InitialOwners
    /\ word = [t \in Tasks |-> EmptyWord]
    /\ previous = [t \in Tasks |-> NoSid]
    /\ recovery = [t \in Tasks |-> FALSE]
    /\ updates = [r \in Rounds |-> NoUpdates]
    /\ global = [r \in Rounds |-> NoUpdates]
    /\ roster = [r \in Rounds |-> {}]
    /\ active = 0
    /\ dispatch = FALSE
    /\ lock = Free
    /\ request = [p \in Threads |-> NoRequest]
    /\ work = [s \in Sids |-> {}]
    /\ started = 0
    /\ faults = 0

-----------------------------------------------------------------------------

At(p, pc) == request[p].pc = pc
Sid(p) == request[p].sid
Todo(p) == request[p].todo
Done(p) == request' = [request EXCEPT ![p] = NoRequest]
Goto(p, pc) == request' = [request EXCEPT ![p].pc = pc]

\* A loop over task identifiers takes them in ascending order.
Task(p) == Min(Todo(p))
NextTask(p, pc) ==
    request' = [request EXCEPT ![p].pc = pc, ![p].todo = @ \ {Task(p)}]

Unlocked == lock = Free

OwnPending(t, s) == word[t] = [state |-> PENDING, trainer |-> s]
OwnCommitted(t, s) == word[t] = [state |-> COMMITTED, trainer |-> s]
ClientTasks(s) == {t \in Tasks : s \in owners[t]}
CommittedBy(s) == {t \in Tasks : OwnCommitted(t, s)}
Accepted(r, s) == updates[r][s] # NoUpdate
Online(s) == session[s].registered /\ session[s].online

Start(h, kind, first) ==
    /\ kind \in Kinds
    /\ At(h, "idle")
    /\ started < MaxRequests
    /\ started' = started + 1
    /\ request' = [request EXCEPT ![h] = [first EXCEPT !.kind = kind]]

\* A request that is one lock section from beginning to end.
AtOnce(kind) ==
    /\ kind \in Kinds
    /\ \E h \in Handlers : At(h, "idle")
    /\ Unlocked
    /\ started < MaxRequests
    /\ started' = started + 1

-----------------------------------------------------------------------------
\* Sessions

\* The lease of a client that sends no heartbeat runs out.
Lapse(s) ==
    /\ faults < MaxFaults
    /\ Online(s) /\ ~session[s].lapsed
    /\ session' = [session EXCEPT ![s].lapsed = TRUE]
    /\ faults' = faults + 1
    /\ UNCHANGED <<owners, taskVars, roundVars, dispatch, lock, request, work,
                   started>>

\* register: SIDs are issued in ascending order, one per client; a known client
\* reconnects under its SID and keeps its recovery_risk.
Register(s) ==
    /\ AtOnce("register")
    /\ \A r \in Sids : r < s => session[r].registered
    /\ session' = [session EXCEPT ![s] =
                     [registered |-> TRUE, online |-> TRUE,
                      risk |-> @.risk, lapsed |-> FALSE]]
    /\ UNCHANGED <<faults, owners, taskVars, roundVars, dispatch, lock,
                   request, work>>

\* configure_evaluation_lease: every online session is refreshed at once.
RefreshLeases ==
    /\ AtOnce("lease")
    /\ session' = [s \in Sids |->
                     IF Online(s) THEN [session[s] EXCEPT !.lapsed = FALSE]
                     ELSE session[s]]
    /\ UNCHANGED <<faults, owners, taskVars, roundVars, dispatch, lock,
                   request, work>>

\* expire_sessions marks overdue sessions inside the lock and releases their
\* tasks after it is given up.  The monitor runs it for ever; a run that finds
\* nobody overdue changes nothing.
Overdue == {s \in Sids : Online(s) /\ session[s].lapsed}
MarkOffline ==
    /\ Unlocked
    /\ session' = [s \in Sids |->
                     IF s \in Overdue
                     THEN [session[s] EXCEPT !.online = FALSE, !.risk = TRUE]
                     ELSE session[s]]

MonitorExpires ==
    /\ At(Monitor, "idle")
    /\ Overdue # {}
    /\ MarkOffline
    /\ request' = [request EXCEPT ![Monitor] =
                     [NoRequest EXCEPT !.kind = "expire", !.pc = "sweep",
                                       !.expired = Overdue]]
    /\ UNCHANGED <<faults, owners, taskVars, roundVars, dispatch, lock, work,
                   started>>

\* Requests of an SID call it first; the request arrives at that point.
Expire(p) ==
    /\ At(p, "expire")
    /\ MarkOffline
    /\ request' = [request EXCEPT ![p].pc = "sweep", ![p].expired = Overdue]
    /\ UNCHANGED <<faults, owners, taskVars, roundVars, dispatch, lock, work,
                   started>>

Dropped(p) == Min(request[p].expired)

\* Faulty variant of Sweep: nothing is recovered before dispatch is on.
SweepWhenDispatching(p) ==
    /\ At(p, "sweep")
    /\ request[p].expired # {}
    /\ request' = [request EXCEPT ![p].pc = "release", ![p].todo =
            IF dispatch THEN ClientTasks(Dropped(p)) ELSE {}]
    /\ UNCHANGED <<sessionVars, owners, taskVars, roundVars, dispatch, lock,
                   work, started>>

\* _release_dropped_trainer_tasks of the next expired SID, through the inverse
\* index or by a scan of all tasks.
Sweep(p) ==
    /\ At(p, "sweep")
    /\ request[p].expired # {}
    /\ request' = [request EXCEPT ![p].pc = "release", ![p].todo =
            IF ScanRecovery
            THEN {t \in Tasks : word[t].trainer = Dropped(p)}
            ELSE ClientTasks(Dropped(p))]
    /\ UNCHANGED <<sessionVars, owners, taskVars, roundVars, dispatch, lock,
                   work, started>>

NextDropped(p) ==
    IF request[p].kind = "expire" /\ request[p].expired = {Dropped(p)}
    THEN Done(p)
    ELSE request' = [request EXCEPT ![p].pc = "sweep",
                                    ![p].expired = @ \ {Dropped(p)}]

\* Faulty variant of Release: the claim of any trainer is revoked.
ReleaseOthers(p) ==
    /\ At(p, "release")
    /\ IF Todo(p) = {}
       THEN NextDropped(p) /\ UNCHANGED word
       ELSE IF word[Task(p)].state = PENDING
       THEN /\ word' = [word EXCEPT ![Task(p)] = EmptyWord]
            /\ Goto(p, "flag")
       ELSE /\ NextTask(p, "release")
            /\ UNCHANGED word
    /\ UNCHANGED <<sessionVars, owners, previous, recovery, roundVars,
                   dispatch, lock, work, started>>

\* release_if_trainer revokes the task only while the dropped SID holds it.
Release(p) ==
    /\ At(p, "release")
    /\ IF Todo(p) = {}
       THEN NextDropped(p) /\ UNCHANGED word
       ELSE IF OwnPending(Task(p), Dropped(p))
       THEN /\ word' = [word EXCEPT ![Task(p)] = EmptyWord]
            /\ Goto(p, "flag")
       ELSE /\ NextTask(p, "release")
            /\ UNCHANGED word
    /\ UNCHANGED <<sessionVars, owners, previous, recovery, roundVars,
                   dispatch, lock, work, started>>

\* The released task asks for a safe trainer ...
FlagReleased(p) ==
    /\ At(p, "flag")
    /\ recovery' = [recovery EXCEPT ![Task(p)] = TRUE]
    /\ Goto(p, "enable")
    /\ UNCHANGED <<sessionVars, owners, word, previous, roundVars, dispatch,
                   lock, work, started>>

\* ... and heartbeats may hand it out, in the first round too.
EnableDispatch(p) ==
    /\ At(p, "enable")
    /\ Unlocked
    /\ dispatch' = TRUE
    /\ NextTask(p, "release")
    /\ UNCHANGED <<sessionVars, owners, taskVars, roundVars, lock, work,
                   started>>

\* The online check of register_labels, claim_tasks and _require_online_sid.
Admit(p) ==
    /\ At(p, "sweep")
    /\ request[p].expired = {}
    /\ Unlocked
    /\ IF ~Online(Sid(p))
       THEN Done(p)
       ELSE CASE request[p].kind = "finalize" -> Goto(p, "check")
              [] request[p].kind = "labels" ->
                   request' = [request EXCEPT ![p].pc = "append",
                                              ![p].todo = request[p].tasks]
              [] request[p].kind = "claim" ->
                   request' = [request EXCEPT ![p].pc = "claimLook",
                                              ![p].todo = request[p].tasks]
    /\ UNCHANGED <<sessionVars, owners, taskVars, roundVars, dispatch, lock,
                   work, started>>

-----------------------------------------------------------------------------
\* heartbeat: the session is refreshed inside the lock, the instructions are
\* computed after it is given up.

Heartbeat(h, s) ==
    /\ Unlocked
    /\ session[s].registered
    /\ session' = [session EXCEPT ![s].online = TRUE, ![s].lapsed = FALSE]
    /\ Start(h, "heartbeat", [NoRequest EXCEPT !.pc = "instruct", !.sid = s])
    /\ UNCHANGED <<faults, owners, taskVars, roundVars, dispatch, lock, work>>

\* _round_instructions_for_sid walks the client's tasks while dispatch is on.
\* _round_dispatch_sealed is only ever set to False and is left out.
Instruct(p) ==
    /\ At(p, "instruct")
    /\ Unlocked
    /\ IF dispatch
       THEN request' = [request EXCEPT ![p].pc = "look",
                                       ![p].todo = ClientTasks(Sid(p))]
       ELSE Done(p)
    /\ UNCHANGED <<sessionVars, owners, taskVars, roundVars, dispatch, lock,
                   work, started>>

\* The snapshot of the next task: work the client holds is confirmed, an EMPTY
\* task may be handed out, anything else is DEDUP.
Look(p) ==
    /\ At(p, "look")
    /\ IF Todo(p) = {} THEN Goto(p, "answer")
       ELSE IF OwnPending(Task(p), Sid(p))
       THEN request' = [request EXCEPT ![p].train = @ \cup {Task(p)},
                                       ![p].todo = @ \ {Task(p)}]
       ELSE IF word[Task(p)].state = EMPTY THEN Goto(p, "select")
       ELSE NextTask(p, "look")
    /\ UNCHANGED <<sessionVars, owners, taskVars, roundVars, dispatch, lock,
                   work, started>>

OnlineOwners(t) == {s \in owners[t] : Online(s)}
SafeOwners(t) == {s \in OnlineOwners(t) : ~session[s].risk}
PreferSafe(t) == Min(IF SafeOwners(t) # {} THEN SafeOwners(t) ELSE OnlineOwners(t))

\* _select_next_trainer: the previous trainer when it is still fit, otherwise
\* the smallest fit owner; a recovered task never goes back on history alone.
Selected(t) ==
    IF OnlineOwners(t) = {} THEN NoSid
    ELSE IF ~HistoryScheduling
         THEN IF previous[t] \in OnlineOwners(t) THEN previous[t]
              ELSE Min(OnlineOwners(t))
    ELSE IF ~recovery[t] /\ previous[t] \in SafeOwners(t) THEN previous[t]
    ELSE PreferSafe(t)

Select(p) ==
    /\ At(p, "select")
    /\ Unlocked
    /\ IF Selected(Task(p)) = Sid(p) THEN Goto(p, "take") ELSE NextTask(p, "look")
    /\ UNCHANGED <<sessionVars, owners, taskVars, roundVars, dispatch, lock,
                   work, started>>

\* Faulty variant of TryClaim: it wins any task.
TryClaimAny(p, won, lost) ==
    /\ word' = [word EXCEPT ![Task(p)] = [state |-> PENDING, trainer |-> Sid(p)]]
    /\ won

\* try_claim, in the heartbeat and in claim_tasks: it wins an EMPTY task.
TryClaim(p, won, lost) ==
    IF word[Task(p)].state = EMPTY
    THEN /\ word' = [word EXCEPT ![Task(p)] =
                        [state |-> PENDING, trainer |-> Sid(p)]]
         /\ won
    ELSE /\ UNCHANGED word
         /\ lost

Take(p) ==
    /\ At(p, "take")
    /\ TryClaim(p, Goto(p, "clear"), NextTask(p, "look"))
    /\ UNCHANGED <<sessionVars, owners, previous, recovery, roundVars,
                   dispatch, lock, work, started>>

\* The new trainer's claim is followed by clearing the recovery flag.
ClearRecovery(p) ==
    /\ At(p, "clear")
    /\ recovery' = [recovery EXCEPT ![Task(p)] = FALSE]
    /\ request' = [request EXCEPT ![p].pc = "look",
                                  ![p].train = @ \cup {Task(p)},
                                  ![p].todo = @ \ {Task(p)}]
    /\ UNCHANGED <<sessionVars, owners, word, previous, roundVars, dispatch,
                   lock, work, started>>

\* The response reaches the client or is lost.
Reply(p, new) ==
    \/ ~request[p].lost /\ work' = [work EXCEPT ![Sid(p)] = new]
    \/ UNCHANGED work

\* The client adds the new work to what it holds; it rejects a claim response in
\* which a TRAIN decision is not PENDING.
Answer(p) ==
    /\ At(p, "answer")
    /\ Reply(p, IF request[p].torn THEN work[Sid(p)]
                ELSE work[Sid(p)] \cup request[p].train)
    /\ Done(p)
    /\ UNCHANGED <<sessionVars, owners, taskVars, roundVars, dispatch, lock,
                   started>>

-----------------------------------------------------------------------------
\* register_labels and claim_tasks: an online check, then one index operation
\* after another without the lock.

\* Both requests call expire_sessions before anything else.
StartLabels(h, s, T) ==
    /\ session[s].registered
    /\ MarkOffline
    /\ Start(h, "labels", [NoRequest EXCEPT !.pc = "sweep", !.sid = s,
                              !.tasks = T, !.expired = Overdue])
    /\ UNCHANGED <<faults, owners, taskVars, roundVars, dispatch, lock, work>>

\* The index either records the owner or is out of slots or edges, which
\* rejects the request but keeps the labels registered before.
AppendOwner(p) ==
    /\ At(p, "append")
    /\ \/ /\ Todo(p) # {}
          /\ owners' = [owners EXCEPT ![Task(p)] = @ \cup {Sid(p)}]
          /\ NextTask(p, "append")
       \/ /\ UNCHANGED owners
          /\ Done(p)
    /\ UNCHANGED <<sessionVars, taskVars, roundVars, dispatch, lock, work,
                   started>>

StartClaim(h, s, T) ==
    /\ session[s].registered
    /\ MarkOffline
    /\ Start(h, "claim", [NoRequest EXCEPT !.pc = "sweep", !.sid = s,
                             !.tasks = T, !.expired = Overdue])
    /\ UNCHANGED <<faults, owners, taskVars, roundVars, dispatch, lock, work>>

\* Faulty variant of ClaimLook: the owner list is not asked.
ClaimLookUnowned(p) ==
    /\ At(p, "claimLook")
    /\ IF Todo(p) = {} THEN Goto(p, "answer")
       ELSE IF word[Task(p)].state = EMPTY THEN Goto(p, "claimTry")
       ELSE NextTask(p, "claimLook")
    /\ UNCHANGED <<sessionVars, owners, taskVars, roundVars, dispatch, lock,
                   work, started>>

\* A task the client does not own rejects the request, and the claims won before
\* stay.  Otherwise the first snapshot of a task decides unless it is EMPTY.
ClaimLook(p) ==
    /\ At(p, "claimLook")
    /\ IF Todo(p) = {} THEN Goto(p, "answer")
       ELSE IF Sid(p) \notin owners[Task(p)] THEN Done(p)
       ELSE IF word[Task(p)].state = EMPTY THEN Goto(p, "claimTry")
       ELSE IF OwnPending(Task(p), Sid(p))
       THEN request' = [request EXCEPT ![p].train = @ \cup {Task(p)},
                                       ![p].todo = @ \ {Task(p)}]
       ELSE NextTask(p, "claimLook")
    /\ UNCHANGED <<sessionVars, owners, taskVars, roundVars, dispatch, lock,
                   work, started>>

\* A won claim is TRAIN whatever the second snapshot says; a lost one is TRAIN
\* when a concurrent request of the same client has won it.
ClaimTry(p) ==
    /\ At(p, "claimTry")
    /\ TryClaim(p,
                request' = [request EXCEPT ![p].pc = "claimFinal",
                                           ![p].train = @ \cup {Task(p)}],
                Goto(p, "claimFinal"))
    /\ UNCHANGED <<sessionVars, owners, previous, recovery, roundVars,
                   dispatch, lock, work, started>>

ClaimFinal(p) ==
    /\ At(p, "claimFinal")
    /\ LET t == Task(p) IN
       request' = [request EXCEPT
          ![p].pc = "claimLook",
          ![p].todo = @ \ {t},
          ![p].train = IF OwnPending(t, Sid(p)) THEN @ \cup {t} ELSE @,
          ![p].torn = @ \/ (t \in request[p].train /\ word[t].state # PENDING)]
    /\ UNCHANGED <<sessionVars, owners, taskVars, roundVars, dispatch, lock,
                   work, started>>

-----------------------------------------------------------------------------
\* _finalize_model_update.  A client submits the checkpoint it trained on all
\* the tasks it was told to TRAIN, for the round it is in.

StartFinalize(h, s) ==
    /\ active \in Rounds
    /\ work[s] # {}
    /\ Start(h, "finalize", [NoRequest EXCEPT !.pc = "expire", !.sid = s,
                               !.round = active, !.tasks = work[s]])
    /\ UNCHANGED <<sessionVars, owners, taskVars, roundVars, dispatch, lock,
                   work>>

\* What a rejected trainer has lost for good: tasks another online SID trains
\* and tasks another SID has committed.
TakenOver(s, T) ==
    {t \in T : /\ word[t].trainer # s
               /\ \/ word[t].state = PENDING /\ Online(word[t].trainer)
                  \/ word[t].state = COMMITTED}

\* The first lock section.  An update whose tasks are those of the accepted one
\* may be the same update again, which is acknowledged, or a retrained one.  A
\* replacement has to keep the tasks of the update it replaces, and every other
\* task has to be PENDING for the SID.  The rejection for a lost task names
\* those taken over, if it reaches the client.
CheckUpdate(p) ==
    /\ At(p, "check")
    /\ Unlocked
    /\ LET s == Sid(p)
           T == request[p].tasks
           old == updates[request[p].round][s].tasks
           usable == \A t \in T :
                        OwnPending(t, s) \/ (t \in old /\ OwnCommitted(t, s))
       IN
       \/ /\ old # {} /\ (old = T \/ ~(old \subseteq T))
          /\ Done(p)
          /\ UNCHANGED work
       \/ /\ old \subseteq T /\ usable
          /\ request' = [request EXCEPT ![p].pc = "store", ![p].todo = T \ old]
          /\ UNCHANGED work
       \/ /\ old \subseteq T /\ ~usable
          /\ Done(p)
          /\ Reply(p, work[s] \ TakenOver(s, T))
    /\ UNCHANGED <<sessionVars, owners, taskVars, roundVars, dispatch, lock,
                   started>>

\* Outside the lock the store verifies the checkpoint: it is incomplete, or it
\* is published and the lock is taken again.
StoreUpdate(p) ==
    /\ At(p, "store")
    /\ \/ /\ Done(p)
          /\ UNCHANGED lock
       \/ /\ Unlocked
          /\ lock' = p
          /\ Goto(p, "commit")
    /\ UNCHANGED <<sessionVars, owners, taskVars, roundVars, dispatch, work,
                   started>>

\* Faulty variants of CommitTask: a lost task is passed over, or the rejection
\* keeps the lock.
CommitTaskOr(p, rejected) ==
    /\ At(p, "commit")
    /\ Todo(p) # {}
    /\ IF OwnPending(Task(p), Sid(p))
       THEN /\ word' = [word EXCEPT ![Task(p)].state = COMMITTED]
            /\ NextTask(p, "commit")
       ELSE /\ UNCHANGED word
            /\ rejected
    /\ UNCHANGED <<sessionVars, owners, previous, recovery, roundVars,
                   dispatch, lock, work, started>>
CommitTaskIgnoresLoss(p) == CommitTaskOr(p, NextTask(p, "commit"))
CommitTaskKeepsLock(p) == CommitTaskOr(p, Done(p))

\* mark_committed for one task after another; the first one that is no longer
\* PENDING for the SID rejects the update and leaves the earlier ones COMMITTED.
CommitTask(p) ==
    /\ At(p, "commit")
    /\ Todo(p) # {}
    /\ IF OwnPending(Task(p), Sid(p))
       THEN /\ word' = [word EXCEPT ![Task(p)].state = COMMITTED]
            /\ NextTask(p, "commit")
            /\ UNCHANGED lock
       ELSE /\ UNCHANGED word
            /\ Done(p)
            /\ lock' = Free
    /\ UNCHANGED <<sessionVars, owners, previous, recovery, roundVars,
                   dispatch, work, started>>

\* The update is accepted, weighted by all the tasks its SID has committed.
AcceptUpdate(p) ==
    /\ At(p, "commit")
    /\ Todo(p) = {}
    /\ LET s == Sid(p)
           samples == Cardinality(CommittedBy(s))
       IN updates' = IF samples < 1 THEN updates
                     ELSE [updates EXCEPT ![request[p].round][s] =
                             [tasks |-> request[p].tasks, samples |-> samples]]
    /\ Done(p)
    /\ lock' = Free
    /\ UNCHANGED <<sessionVars, owners, taskVars, global, roster, active,
                   dispatch, work, started>>

-----------------------------------------------------------------------------
\* Rounds

\* configure_round fixes the participants until the first update arrives.
Configure(S) ==
    /\ AtOnce("configure")
    /\ active \in Rounds
    /\ \A s \in S : session[s].registered
    /\ updates[active] = NoUpdates
    /\ roster' = [roster EXCEPT ![active] = S]
    /\ UNCHANGED <<sessionVars, owners, taskVars, updates, global, active,
                   dispatch, lock, request, work>>

\* The coordinator closes the active round once, or repeats the request when
\* it got no answer.
MayAggregate(r) ==
    IF RepeatAggregate
    THEN r <= active
    ELSE r = active /\ \A h \in Handlers : request[h].kind # "aggregate"

\* aggregate_model_updates up to the end of its first lock section: a request
\* that would be rejected changes nothing and is left out.
Aggregate(h, r, S) ==
    /\ MayAggregate(r)
    /\ Unlocked
    /\ \A s \in S : Accepted(r, s)
    /\ roster[r] \in {{}, S}
    /\ \A t \in Tasks : word[t].state # PENDING
    /\ Start(h, "aggregate",
             [NoRequest EXCEPT !.pc = "fedavg", !.round = r, !.averaged =
                [s \in Sids |-> IF s \in S THEN updates[r][s] ELSE NoUpdate]])
    /\ UNCHANGED <<sessionVars, owners, taskVars, roundVars, dispatch, lock,
                   work>>

\* FedAvg runs without the lock; it fails, or the global model is published
\* and the index is reset inside the lock.
PublishGlobal(p) ==
    /\ At(p, "fedavg")
    /\ \/ /\ Done(p)
          /\ UNCHANGED <<global, lock>>
       \/ /\ Unlocked
          /\ lock' = p
          /\ global' = [global EXCEPT ![request[p].round] = request[p].averaged]
          /\ request' = [request EXCEPT ![p].pc = "retain", ![p].todo = Tasks]
    /\ UNCHANGED <<sessionVars, owners, taskVars, updates, roster, active,
                   dispatch, work, started>>

\* _advance_to_next_round, task by task: claims and releases need no lock and
\* may fall between any two of these steps.
RetainTrainer(p) ==
    /\ At(p, "retain")
    /\ Todo(p) # {}
    /\ previous' = IF word[Task(p)].state = COMMITTED
                   THEN [previous EXCEPT ![Task(p)] = word[Task(p)].trainer]
                   ELSE previous
    /\ Goto(p, "reset")
    /\ UNCHANGED <<sessionVars, owners, word, recovery, roundVars, dispatch,
                   lock, work, started>>

ResetTask(p) ==
    /\ At(p, "reset")
    /\ word' = [word EXCEPT ![Task(p)] = EmptyWord]
    /\ Goto(p, "unflag")
    /\ UNCHANGED <<sessionVars, owners, previous, recovery, roundVars, dispatch,
                   lock, work, started>>

Unflag(p) ==
    /\ At(p, "unflag")
    /\ recovery' = [recovery EXCEPT ![Task(p)] = FALSE]
    /\ NextTask(p, "retain")
    /\ UNCHANGED <<sessionVars, owners, word, previous, roundVars, dispatch,
                   lock, work, started>>

\* Faulty variant of Advance: a round is skipped.
AdvanceTwice(p) ==
    /\ At(p, "retain")
    /\ Todo(p) = {}
    /\ active' = request[p].round + 2
    /\ dispatch' = TRUE
    /\ lock' = Free
    /\ work' = [s \in Sids |-> {}]
    /\ Done(p)
    /\ UNCHANGED <<sessionVars, owners, taskVars, updates, global, roster,
                   started>>

\* The next round begins and with it the clients' work for it.
Advance(p) ==
    /\ At(p, "retain")
    /\ Todo(p) = {}
    /\ active' = request[p].round + 1
    /\ dispatch' = TRUE
    /\ lock' = Free
    /\ work' = [s \in Sids |-> {}]
    /\ Done(p)
    /\ UNCHANGED <<sessionVars, owners, taskVars, updates, global, roster,
                   started>>

\* A client process restarts and forgets what it was told to train; the server
\* goes on with the requests of the old process.
ClientRestart(s) ==
    /\ faults < MaxFaults
    /\ faults' = faults + 1
    /\ work[s] # {} \/ \E h \in Handlers : Sid(h) = s /\ ~request[h].lost
    /\ work' = [work EXCEPT ![s] = {}]
    /\ request' = [p \in Threads |->
                     IF Sid(p) = s THEN [request[p] EXCEPT !.lost = TRUE]
                     ELSE request[p]]
    /\ UNCHANGED <<session, owners, taskVars, roundVars, dispatch, lock,
                   started>>

-----------------------------------------------------------------------------

Environment ==
    \/ \E s \in Sids : Lapse(s) \/ Register(s) \/ ClientRestart(s)
    \/ RefreshLeases
    \/ \E h \in Handlers, s \in Sids : Heartbeat(h, s) \/ StartFinalize(h, s)
    \/ \E h \in Handlers, s \in Sids : \E T \in Batches :
          StartLabels(h, s, T) \/ StartClaim(h, s, T)
    \/ \E S \in (SUBSET Sids) \ {{}} :
          \/ Configure(S)
          \/ \E h \in Handlers, r \in Rounds : Aggregate(h, r, S)

Step(p) ==
    \/ Expire(p) \/ Sweep(p) \/ Release(p) \/ FlagReleased(p)
    \/ EnableDispatch(p) \/ Admit(p)
    \/ Instruct(p) \/ Look(p) \/ Select(p) \/ Take(p) \/ ClearRecovery(p)
    \/ Answer(p) \/ AppendOwner(p) \/ ClaimLook(p) \/ ClaimTry(p) \/ ClaimFinal(p)
    \/ CheckUpdate(p) \/ StoreUpdate(p) \/ CommitTask(p) \/ AcceptUpdate(p)
    \/ PublishGlobal(p) \/ RetainTrainer(p) \/ ResetTask(p) \/ Unflag(p)
    \/ Advance(p)

Next == Environment \/ MonitorExpires \/ \E p \in Threads : Step(p)

Spec == Init /\ [][Next]_vars

\* Threads keep running and the monitor keeps calling expire_sessions; clients
\* and the coordinator owe nothing.
FairSpec ==
    /\ Spec
    /\ WF_vars(MonitorExpires)
    /\ \A p \in Threads : WF_vars(Step(p))

-----------------------------------------------------------------------------
\* Properties

Resetting == \E p \in Threads : lock = p /\ request[p].kind = "aggregate"

\* Whatever claims, commits, releases and resets the handlers interleave, each
\* task goes through the lifecycle of TaskLifecycle, and only an aggregation
\* takes COMMITTED work back to EMPTY.
TaskSlot(t) == INSTANCE TaskLifecycle
               WITH Trainers <- Sids, NoTrainer <- NoSid,
                    state <- word[t].state, trainer <- word[t].trainer
ImplementsLifecycle ==
    /\ \A t \in Tasks : TaskSlot(t)!LifecycleInit
    /\ [][\A t \in Tasks :
            \/ TaskSlot(t)!LifecycleNext /\ (TaskSlot(t)!Reset => Resetting
                  \/ \E s \in Sids : TaskSlot(t)!Release(s))
            \/ UNCHANGED word[t]]_word

\* Only a trainer that timed out loses a claim before the round is reset.
OnlyDroppedLose ==
    [][\A t \in Tasks, s \in Sids :
          OwnPending(t, s) /\ word'[t].state = EMPTY /\ ~Resetting
             => session[s].risk]_word

\* The tasks of an accepted update of the active round are COMMITTED by its SID
\* until an aggregation resets the index: neither a late release of a client
\* that was offline meanwhile nor a replacement undoes accepted work.
AcceptedStaysCommitted ==
    active \in Rounds /\ ~Resetting =>
        \A s \in Sids : updates[active][s].tasks \subseteq CommittedBy(s)

\* No task is averaged twice into a global model: the updates FedAvg combined
\* were trained on disjoint tasks, although tasks change hands within a round.
AveragedOnce ==
    \A r \in Rounds : \A s, q \in Sids :
        s # q => global[r][s].tasks \cap global[r][q].tasks = {}

\* The FedAvg weights of a round never count a task twice, and an update never
\* weighs less than the tasks it was trained on.
WeightsBounded ==
    \A r \in Rounds :
        /\ MapThenSumSet(LAMBDA s : global[r][s].samples, Sids)
              <= Cardinality(Tasks)
        /\ \A s \in Sids :
              Cardinality(global[r][s].tasks) <= global[r][s].samples

\* Only an owner trains a task, also after it was released and handed over by
\* another client's heartbeat.
TrainerIsOwner ==
    \A t \in Tasks : {word[t].trainer, previous[t]} \subseteq owners[t] \cup {NoSid}

\* The lock is always given up and every request is answered, whatever fails.
HandlersReturn ==
    \A h \in Handlers : ~At(h, "idle") ~> At(h, "idle")

\* A trainer whose lease ran out loses its PENDING tasks, unless it is heard of
\* again: the monitor or another client's request releases all of them.
Silent(s) == session[s].lapsed /\ \A p \in Threads : Sid(p) # s
DropReleases ==
    \A s \in Sids, t \in Tasks :
        (Silent(s) /\ session[s].online /\ OwnPending(t, s))
            ~> (~Silent(s) \/ ~OwnPending(t, s))

-----------------------------------------------------------------------------
\* What the repository says and the code does not keep

\* "all PENDING tasks must finish or recover before aggregation": the round's
\* reset meets no PENDING task.
NoPendingAtReset ==
    \A p \in Threads : At(p, "reset") => word[Task(p)].state # PENDING

\* An offline trainer's task does not stay PENDING for ever.
OfflineTrainerReleased ==
    \A s \in Sids, t \in Tasks :
        (~Online(s) /\ OwnPending(t, s)) ~> (Online(s) \/ ~OwnPending(t, s))
=============================================================================
