# DwT-FL: TLA+ models, model checking and proofs

This directory holds TLA+ models of DwT-FL (deduplicated federated learning): clients turn their records into
protected labels through an oblivious PRF, register the labels with an Aggregation Server (AS), claim the training
task behind each label so that equal data is trained once, upload what they trained, and download the FedAvg average.
File names below are relative to the repository root.

## 1. The system

| Component | Code | State | Operations |
|---|---|---|---|
| Task state word | `src/native/atomic_word.cpp` 29-75, 361-373, 573-709 | one 64-bit atomic word per task: version, trainer, state | claim, commit, release, reset (compare-and-swap loops), three reads |
| Concurrent label index | `src/native/atomic_word.cpp` 81-571 | hash table of task slots, edge pool, owner lists, inverse lists | register a label, find a label, list owners, list a client's tasks |
| Python binding | `src/src/dbtfl/native_index.py` | handle of the native index | forwards the calls; `snapshot()` is three native reads |
| Aggregation Server | `src/src/dbtfl/entities/aggregation_server.py` | sessions, rounds, updates, rosters, global models, the lock | register, heartbeat, labels, claim, chunk, finalize, configure, aggregate, download, expiry |
| Update store | `src/src/dbtfl/federation/updates.py` | staged and published checkpoint files | append a chunk, finalize, discard |
| FedAvg | `src/src/dbtfl/federation/fedavg.py` | global model files | aggregate and save |
| Client | `src/src/dbtfl/entities/client.py` | session, round instructions, label store | register, claim, upload with recovery, download, generate labels, heartbeat worker |
| Key Server | `src/src/dbtfl/entities/key_server.py`, `src/src/dbtfl/oprf/` | the OPRF key and its file | load or create the key, evaluate blinded points |
| GPU job scheduler | `src/src/dbtfl/training/scheduler.py` | job queues, worker threads, child processes | run, cancel, time out, kill |
| Request server and HTTP client | `src/src/dbtfl/communication/http.py` | request slots: limit, active count, condition | acquire, release and resize the slots; control path for heartbeats; accept, route, answer; time out |
| Evaluation control | `reset_evaluation`, `_reset_for_evaluation` (`aggregation_server.py`) | none of its own | empty the AS and set a new request limit, switch the lease |
| Training and data preparation, scripts | `src/src/dbtfl/training/gpt.py`, `data.py`, `src/scripts/` | none between calls | numerical work, start-up |

How they interact. Every request to the AS runs in a thread of its own; a monitor thread expires sessions every so
often, and most handlers expire sessions themselves when they start. The threads share one lock, which a handler takes
for single sections only. The native index needs no lock. A client has a heartbeat worker beside the thread that
trains and uploads. Clients, Key Server and AS talk over HTTP; a request may be lost, handled late, or answered to a
client that has given up. All requests but heartbeats need one of the server's slots, whose number the evaluator
changes while requests run and wait.

What makes it hard:

- the lock-free word and index, with several threads inside at the same time;
- AS handlers that decide in one lock section, or on a snapshot, and act in another step;
- leases that run out at any moment, also in the middle of a claim, an upload or a download, and the release, takeover
  and return of tasks that follow;
- rounds that close while requests for them are on their way;
- repeated and late chunks, and uploads that start again from the first chunk;
- files that are replaced while they are read, crashes between creating and completing a file, failed writes;
- heartbeats of two threads of a client, answers of the previous worker after a reconnect, calls that reconnect and
  are sent again while earlier copies still wait at the server, an evaluation reset under all of it;
- request slots that are released, taken and resized while threads wait and have just been notified;
- worker threads that die of an exception, children that hang.

What makes each component correct:

- *word*: one winner per claim; a loop acts on the word it saw; it behaves as four atomic operations;
- *index*: one slot per label, one edge per owner, nothing registered is ever lost, every call returns;
- *AS*: only a trainer that timed out loses a claim; accepted work stays; nothing is averaged twice; every request is
  answered; a dropped client's tasks come free;
- *upload*: what the client believes at its end is true, and there is an end;
- *global model*: a download that succeeds is one whole model;
- *labels*: a record has one label, for ever and for everybody;
- *request server*: every free slot finds the thread that waits for it; heartbeats do not queue behind the data plane;
- *client session*: the client uses the SID of its latest registration, stores instructions in the order the AS gave
  them, and a call that reconnects is carried out once and ends;
- *scheduler*: bounded slots, each job once, nothing silently missing.

## 2. The modules

| Module | Models | Checked by |
|---|---|---|
| `TaskLifecycle` | the abstract specification of one task: EMPTY, PENDING, COMMITTED, with its trainer | implemented by the next two |
| `TaskWord` | one state word; a step is one load or one compare-and-swap | `MCTaskWord`, proofs in `TaskWord_proofs` |
| `NativeIndex` | slots, gate, edge pool and both lists; a step is one atomic access | `MCNativeIndex`, proofs in `NativeIndex_proofs` |
| `AggregationServer` | sessions, tasks, updates and rounds; a step is one lock section or one index operation | `MCAggregationServer`, proofs in `AggregationServer_proofs` |
| `ModelUpload` | one client's upload against the chunk store, the handlers and the lease | itself, proofs in `ModelUpload_proofs` |
| `GlobalModel` | saving, publishing and downloading a global model | `MCGlobalModel`, proofs in `GlobalModel_proofs` |
| `ProtectedLabels` | key file, Key Server processes, label generation and label store | `MCProtectedLabels`, proofs in `ProtectedLabels_proofs` |
| `Scheduler` | queues, workers and child processes | itself, proofs in `Scheduler_proofs` |
| `RequestSlots` | the request slots of the JSON server, with waiting, notified and running threads | through `ClientSession`, proofs in `ClientSession_proofs` |
| `ClientSession` | client threads, HTTP server, AS sessions and the evaluation reset together; extends `RequestSlots` | itself, proofs in `ClientSession_proofs` |

The modules are layered. `TaskWord` shows that the native loops implement the atomic lifecycle of `TaskLifecycle`,
and that a `snapshot()` that says PENDING is real; `AggregationServer` therefore takes task operations and snapshots
as single steps. It shows in turn (`ImplementsLifecycle`) that whatever the handlers do, each task still goes
through `TaskLifecycle`. `ModelUpload` takes the server's handlers one level up: the word of a task says who holds
it (`mine`, `theirs`, `free`) and other clients are one action. `ClientSession` composes the client with the server's
request threads and the slots of `RequestSlots`, and is proved to use the slots only as `RequestSlots` allows
(`ImplementsSlots`); of the AS it keeps the two SIDs and one lease, and of the tasks how often a call was carried out.

Correspondence of state and actions with the code:

- *TaskWord*. `word` is the packed word as a record; `call[th].seen` the local variable a loop reloads into. `Load`,
  `GiveUp`, `Swap` and `Reload` are the four things a loop of `dbt_task_*` can do next; `compare_exchange_weak` may
  fail spuriously, so `Reload` needs no change of the word. `ReadState`, `ReadTrainer`, `ReadVersion` are `snapshot()`.
  `writes`, `seenAt`, `window` and `granted` are history.
- *NativeIndex*. `lifecycle` is the per-slot EMPTY/WRITING/READY flag; `Probe`, `ClaimSlot`, `Fill`, `Publish` are
  `find_or_insert`; `AcquireGate` is the constructor of `OwnerAppendGuard`; `Reserve` is `reserve_edge`;
  `OwnerLoad`/`OwnerPush` and `UserLoad`/`UserPush` are the two calls of `append_edge_id`. Memory is sequentially
  consistent in the model; the release stores and acquire loads of the code order exactly the plain fields that
  `Fill` and `Reserve` write before they are reachable.
- *AggregationServer*. `session`, `updates`, `global`, `roster`, `active`, `dispatch` are the attributes of the
  entity; `owners`, `word`, `previous`, `recovery` are the index; `request[p]` is a handler's place and locals; `lock`
  is the thread inside a lock section of several steps. Time is `session[s].lapsed`: the last heartbeat is older than
  the timeout. `Start`, `Sweep`, `Release` and the actions named after handlers follow the handlers' order.
- *ModelUpload*. `client` is `submit_model_update_at_as` with its recovery; `inflight` holds every chunk request not
  handled yet, given up or not; `finalizing` is the finalize handler; `train` is `_last_round_instructions`.
  `claiming` is the claim of a recovery on its way through `claim_tasks`: `ClaimArrives` is the check of the session,
  and for each label in turn `ClaimSnapshot` is the first snapshot, `ClaimTry` is `try_claim` and `ClaimConfirm` the
  second snapshot, each a step of its own; `trained` and `pending` are the answer so far, its operations and its
  states. `Recover` is the client's end of it: the validator that takes TRAIN for PENDING only, and `Retained`. A claim
  that finds the session offline sends the client through "reconnect" and is sent again without a heartbeat. `releases`
  counts for each task the releases that expired sessions still owe it: `Expire` adds one to all, `Release` pays one, so
  that the release passes of two expiries may overlap. A heartbeat is one step, after which the session may
  have expired again before its instructions are stored (`Instruct`).
- *GlobalModel*. Files are inodes, because two aggregate requests share the name `global_model.safetensors.tmp`: one
  may go on writing into a file the other has renamed. A digest is the content itself.
- *ProtectedLabels*. A label is represented by the key it was made with; blinding and group arithmetic are
  abstracted away. `keyFile` is absent, partial or complete.
- *Scheduler*. `worker[w].pc` is the place in `worker` and `_run_one_job`; a callback may return or raise.
- *RequestSlots*. `limit` and `active` are the attributes of `_ResizableRequestSlots`, `waiting` the waiters of its
  condition in order, `woken` the threads that were notified and have not taken the lock again, `holding` the threads
  between `acquire` and `release`. `Acquire` and `Recheck` are the two entries into the loop of `acquire`.
- *ClientSession*. `session`, `beatLock` and `worker` are `_as_session`, `_heartbeat_request_lock` and
  `_heartbeat_thread`; `latest` is history. `thread[t]` is the place of a client thread, the request it waits for and
  its answer; `job` what the foreground is doing. `request[r]` is a request thread of the server, `server` the part of
  the AS that sessions are. `Send` delivers to a free request thread, or to none: no connection. `Fails` is the client's
  timeout: free when the request is stuck (no connection, waiting for a slot), counted by `events` when it is
  making progress. A request whose client gave up has `from = None` and is still served. `Enter`, `Serve` and
  `Finish` are `do_POST` around the handler; `ServeReset` is the evaluation reset with the new limit.

Each property has at least one *faulty variant* beside the definition it varies: a plausible bug of the same code (a
dropped guard, a missing reset, a swapped order) under which TLC finds the property violated. They are named in
`PROJECT.json` and used by no specification. Every module has a type invariant, and each is proved as a theorem (of
`ClientSession` its own part, `SessionTypeOK`, and that of the slots); the runs check the two that bound a counter.

## 3. The runs

| Run | Bounds | Shows |
|---|---|---|
| `task_word` | 3 threads, 2 trainers, 3 versions, 4 writes | `OneWinner`, `NoABA`, `PendingSnapshotIsReal`, and that the loops implement `TaskLifecycle` |
| `native_index` | 2 threads with 2 calls, 3 labels, 2 slots, 2 edges, 2 tokens | slots, lists and pool stay consistent; every call returns |
| `handover` | 2 handlers, 2 clients, 2 tasks in a batch, 5 requests, 1 timeout | claims, release, takeover, commit, FedAvg |
| `rounds` | 1 task, 2 rounds, 6 requests, 1 timeout, every kind of request, one client enrolled; scan recovery, no history scheduling | the task lifecycle across a reset; only owners train |
| `server_live` | 1 task, 3 requests, 1 timeout, fairness | requests are answered, dropped trainers lose their tasks |
| `model_upload` | 2 chunks, 2 tasks, 2 attempts, 2 drops, 2 lost answers | no replay is rejected by the store, the upload's reports are true (`OutcomeIsTrue`), and it ends |
| `global_model` | 2 aggregate requests, 3 models of 1 and 2 chunks, 2 attempts, any number of session timeouts | a finished download is whole; it ends |
| `protected_labels` | 2 Key Servers, 2 keys, 2 threads, 2 records, 2 crashes, 2 failed writes | one label per record; the store never forgets |
| `scheduler` | 2 workers, 4 jobs, 2 exceptions | slots are bounded, results are complete (`ResultsComplete`), the call returns |
| `client_session` | a heartbeat thread and two data threads of the server, limits 1 and 2, 2 method calls, 2 registration attempts, 1 request that never ends, 2 events | `NoLostWakeup`, `SessionIsLatest`, `CarriedOutOnce`, `SnapshotsInOrder`; waiting requests are served, leases kept, calls end |
| `pending_at_reset`, `offline_trainer` | small | two disagreements, section 6 |

Why the bounds are enough. In `task_word` three versions and four writes let the version wrap completely under a
sleeping thread. In `native_index` odd labels share a home slot and even ones probe into it, so that both orders of
collision occur, and table and pool are exhausted, by calls that hold the gate as well. `handover` has the two tasks a
partial commit needs and the two clients a takeover needs; five requests hold claim, finalize by the old trainer,
claim, finalize by the new one, and aggregate. `rounds` trades the second task for a second round. In
`model_upload` two lost answers let every chunk be repeated late, by a copy that is handled after the upload was started
again; two drops let it be started three times, and let a second release pass of the session fall anywhere in a claim
that the first one made necessary. Two tasks leave the client with a part of them, and put the decision on one between
the reads of the other. That is about 1.3 million states.
`global_model` needs a model to be replaced by another one of the same size during a download: two requests. In
`protected_labels` the clients share nothing but the Key Server processes, so that one client that loses its memory
stands for another client as well. `scheduler` uses one GPU: GPUs share only the set of results.
`client_session` gives two data threads to the client, the other client and the evaluator, so that one may hold the
only slot for ever while the other waits, or two may run and the limit shrink. Two calls are a connection and one
more; a call may register again as often as its lease lapses. An event is a request of the other client, a reset or
the timeout of a request that is being served: two of them hold a reset after which the other client takes over the
SID, or a timeout with the late copy and another reset. The second heartbeat thread is the worker after a reconnect.

A run stops where its requests are used up, which is why deadlock is not checked in those; `task_word` is checked for
it. Symmetry is used for threads, handlers, keys and records, never for SIDs and tasks (the code orders
them) and never in a run with a liveness property. In `client_session` all calls are used up in the end, and deadlock is not
checked for the same reason.

Fairness. `NativeIndex`: a thread inside the library keeps running; no fairness of callers and none between spinning
threads is needed. `AggregationServer`: handlers and the monitor keep running (weak fairness of each thread's step; the
sections of a handler are short and its lock is a plain mutex); no fairness of clients or timeouts. `ModelUpload`:
the client runs on and the server handles the chunk the client is waiting for, its finalize and its claim, read by
read; nothing has to time out. That the upload ends rests on `MaxDrops` and `MaxLosses`: for ever new
timeouts the code has the recovery deadline (`client.py:943-947`), which `Abandon` lets pass at any
moment of a recovery but nothing forces to.
`GlobalModel`: threads run and time passes; sessions may expire for ever, and it is the recovery deadline
that ends the call. `Scheduler`: threads run, the timeout passes (the run models calls with `timeout_seconds`; without
one a child that hangs keeps the call for ever, by design), children need not end by themselves, `SIGKILL` ends them.
`ClientSession`: the client's threads and the server's run, each with weak fairness. Two strong ones are added. A call
that is found offline after every reconnect gives up sooner or later, because its deadline passes. The foreground gets
the heartbeat lock that the worker takes again and again, because the worker pauses between two heartbeats and the
lock is free meanwhile. Nothing is assumed of method calls, the other client, the evaluator or the lease, and a request that hangs
may hang for ever. `WaitersServed` excepts the case that hung requests hold all slots; it also depends on the number of
newcomers being finite, since a newcomer may overtake a notified thread each time.

## 4. What is proved

Every invariant and every action property that a passing run checks is also a theorem, for every value of the
constants that their assumptions allow. In each module the proof rests on an inductive invariant, `IInv` (`SlotsInv`
for the slots), that was model-checked on an instance before it was proved.

`TaskWord_proofs` proves for every set of threads and trainers, every version width and every number of writes:

| Theorem | States |
|---|---|
| `TypeCorrect` | `Spec => []TypeOK` |
| `OneWinnerHolds` | the claims that were granted and not lost are exactly the trainer of the word |
| `NoABAHolds` | a swap that succeeds within one version period acts on the word of its own load |
| `PendingSnapshotHolds` | a PENDING snapshot that names a trainer was the word during the call |
| `Refinement` | the compare-and-swap loops implement `TaskLifecycle` |

Assumptions: `NoTrainer` is not a trainer (tokens are positive), the number of versions is positive, the bound on
writes is a natural number.

Argument. None of the properties is inductive. `IInv` adds `WordShape` (a word has a trainer exactly when it is not
EMPTY), `VersionCounts` (the word's version is the version a thread saw plus the writes since, modulo the width, as
long as these are fewer than the width) and `WindowCovers` (the current word is in every running snapshot's
window, and if the first load saw PENDING, so is PENDING with the current trainer). The window fact needs the shape:
between a first load that sees PENDING and a second one that sees a trainer, a change of trainer goes through EMPTY
and a new claim, which puts the new PENDING word into the window. `SwapArguments` keeps the calls' arguments in
range. The step proofs are split by actions: those that only observe, the snapshot's loads, and `Swap`.

`AggregationServer_proofs` proves for any sets of clients, tasks and request threads, both recovery modes, both
schedulers, and with repeated aggregate requests allowed or not (the three about accepted work only without them: each
assumes `~RepeatAggregate`, and with a repeated aggregation they are false, section 6):

| Theorem | States |
|---|---|
| `TypeCorrect` | `Spec => []TypeOK` |
| `TrainerIsOwnerHolds` | whoever holds, committed or last trained a task owns it |
| `OnlyDroppedLoseHolds` | before the reset, only a trainer marked `recovery_risk` loses a claim |
| `AcceptedStaysCommittedHolds` | work accepted in the active round stays COMMITTED by its client until the reset |
| `AveragedOnceHolds` | no task counts in two updates of a global model |
| `WeightsBoundedHolds` | the weights of a global model add up to at most the number of tasks |
| `Refinement` | every task goes through `TaskLifecycle`; only an aggregation takes COMMITTED work back |

Assumptions: SIDs are finitely many positive integers and tasks finitely many naturals (the loops and the trainer selection
take the smallest), the threads, the monitor and `Free` differ, batches are nonempty sets of tasks, the tasks' first
owners are SIDs, bounds are naturals.

Argument. `IInv` is `TypeOK`, `TrainerIsOwner` and a `Place` for each thread, which says what the position of a
thread implies about its locals and the shared state. Three of its parts carry the theorems. A dispatch
walks tasks of its own client and a claim that is about to be tried has seen its SID on the owner list; owner lists
only grow, so the claim is an owner's although the lock was given up in between. Every SID a thread is going to release is
marked `recovery_risk`; nothing takes that mark back, so a release, which may run long after the
expiry, only ever revokes claims of marked trainers. And a thread holds the lock exactly while it commits or resets, so
a reset happens only inside the aggregation's section. One lemma per action shows that it preserves `IInv`:
`KeepPlace` for the threads that do not move, `MovePlace` or `EndPlace` for the one that does. `WordChanges` then
lists the four ways in which a word can change, from which the last two theorems follow.

The three theorems about rounds have an invariant of their own on top, `RoundInv`. `OneAggregation`: one request
aggregates at a time, it does so for the active round, and no finalize runs for a later one. `Committing`: the tasks a
finalize has passed are COMMITTED by its SID, so that they are when their update is accepted. `AcceptedStaysCommitted`
itself then survives every other step, because COMMITTED words are only changed by the reset, which
`OneAggregation` puts behind the round. `Weighed`: an accepted update weighs at least its tasks and at most what its SID
has COMMITTED. `AllBalanced`: the updates an aggregation has read, and those of a published model, have disjoint tasks and
weights that add up to at most the number of tasks; the sum is compared with that number by unfolding the fold over the
updates and by induction on their number. TLC confirmed `RoundInv` on the instance of `handover` and on
`rounds` without repeated requests.

`ClientSession_proofs` proves of `RequestSlots`, for any finite set of request threads and any set of positive limits:

| Theorem | States |
|---|---|
| `SlotsTypeCorrect` | `SlotsSpec => []SlotsTypeOK` |
| `SlotsExact` | `active` is the number of threads between acquire and release |
| `SlotsNoLostWakeup` | while a thread waits, every free slot is matched by a notified thread |

Argument. `NoLostWakeup` alone is not inductive. A release makes one slot free and notifies one thread, but only if that
thread was not counted before: `OncePlaced` says that the waiting list has no duplicates and that no thread is
waiting, notified and running at once. A notified thread that finds no slot waits again; then nothing is free, which
needs `ActiveIsExact` and nothing else. Raising the limit empties the list. The cases are arithmetic over
cardinalities, stated as lemmas over naturals.

`ClientSession_proofs` proves of `ClientSession`, for any threads, handlers and bounds:

| Theorem | States |
|---|---|
| `ImplementsSlots` | `Spec => SlotsSpec`: the composed system uses the slots as `RequestSlots` allows |
| `ServerNoLostWakeup` | hence no wake-up is lost in it either |
| `SessionTypeCorrect` | the types of the session, the requests and the counters |
| `SessionIsLatestHolds` | no heartbeat brings an older SID back |
| `CarriedOutOnceHolds` | no call is carried out twice |
| `SnapshotsInOrderHolds` | heartbeats are stored in the order in which the AS answered them |

Assumptions: there is a heartbeat worker thread, `Main` and `None` are none, the heartbeat handlers are request threads, bounds are
naturals.

Argument. Every step is a step of `RequestSlots` or leaves the slots alone (`StepUsesSlots`), which justifies proving
the slots by themselves. The invariant `IInv` of the session has four more parts beside types and `SessionIsLatest`.
`Places`: a heartbeat thread that is not off is the worker, and there is no worker while a registration runs; joining
the old worker is what makes this true. `Answerable`: a request some client thread waits for is that thread's current
one and asks for what the thread is waiting for; a heartbeat that still has a receiver carries the SID in use.
`Confirmed`: so does its answer. A new SID therefore arrives only when no heartbeat has a receiver. `OneCopy`: of
each call at most one copy is not served, and none when it was carried out. `NotSent`: while the call's lease
is refreshed or its client reconnects, there is no copy at all, since the only reason to reconnect is the answer that
the SID was offline, and that answer consumed the copy. Sending, answering and giving up are described once
(`SendAsks`, `RespondEffect`, `Left`), and the lemma of each action instantiates them. TLC confirmed `IInv` on the
instance of `client_session`. The order of the heartbeats needs two more parts: `Serial`, a thread is in a heartbeat exactly
while it holds the request lock, and `OneAnswer`, the answers not yet stored are none or the lock holder's one.

`ProtectedLabels_proofs` proves for any Key Servers, clients, threads, keys and records, and any numbers of crashes and
failed writes:

| Theorem | States |
|---|---|
| `LabelsTypeCorrect` | `Spec => []TypeOK` |
| `ServingKeyIsOnDiskHolds` | a Key Server that serves uses the key on disk |
| `OneLabelPerRecordHolds` | a record gets one label, whoever asks and whenever |
| `StoreKeepsLabelsHolds` | no step takes a label away that is on disk |
| `IssuedIsStoredHolds` | a call returns only labels on disk, unless a write of its client failed before |

Argument. `KeyFileInv`: the process that created the file is the only one that writes it, and what it syncs is its own key.
`OneKey`: unless the key was lost, a label in memory, on disk, in a call or in an answer was made with the key on
disk. `Progress` follows a call from what it found missing to what it merged. `Locked`: the store's lock is held by the
one call that writes. `Stored` is what makes the last two theorems inductive: the store is a part of the memory and holds
all of it except what failed calls left there and what the call at work is about to write. So a write, which replaces
the whole file by the memory, loses nothing.

`NativeIndex_proofs` proves for any threads, labels, tokens, hash function, table size, edge pool and number of calls:

| Theorem | States |
|---|---|
| `IndexTypeCorrect` | `Spec => []TypeOK`: no access leaves the arrays |
| `UniqueSlotHolds` | no label has two slots |
| `OneEdgePerOwnerHolds` | a client owns a task by one edge at most |
| `RegisteredIsVisibleHolds` | what was registered stays on both lists |
| `InverseImpliesOwnerHolds` | a client's task list is never ahead of the tasks' owner lists |
| `LookupFindsRegisteredHolds` | a lookup that starts after a registration finds it |

Assumptions: the table and the pool are not empty, every label has a home slot, `None` is no label or token, the bound on
calls is a natural number.

Argument. Two chains of facts. For the table: a published label lies where its probe sequence leads, with no gap and no
other copy before it (`Placed`), and every probe that is under way has passed only slots of other labels (`Probed`), which
stay what they are; a slot that is being written has one writer (`Claims`). Hence no second slot, and no lookup that stops
early (`Owed`). For the lists: between `AcquireGate` and the release one thread works on a task (`Gated`), and what it read
under the gate stays true (`Asked`); an edge is reserved by one thread (`Reserved`) and belongs to a
published task (`EdgesNamed`). `OwnerLists` and `UserLists` say that the list at a head consists of exactly the edges that were pushed.
Lists are paths without repetition (`Path`, `Chain`); that the model's walk along the next fields, cut off after as many
steps as there are edges, visits all of a path is an induction on its length and needs the pigeonhole principle. A push
extends a path at its front, whatever others pushed since the head was loaded, because the compare-and-swap fails then.
TLC confirmed `IInv` on the instance of `native_index`.

`ModelUpload_proofs` proves for any number of chunks, any tasks and any number of attempts, lost answers and session timeouts:

| Theorem | States |
|---|---|
| `UploadTypeCorrect` | `Spec => []TypeOK` |
| `NeverRejectedHolds` | the store rejects no request the client is waiting for |
| `OutcomeIsTrueHolds` | what the upload reports at its end is true |

Argument. `Prefix`: what is staged is a prefix of the checkpoint, whatever was repeated. `Acknowledged`: what the client has
had acknowledged is staged until the upload is published, so that its next chunk is never beyond the end. `Awaited`: a
finalize handler runs for a client that waits for it or gave it up. `Committed` and `Taken` say which words the end of the
upload can find. `ClaimInv` follows a claim between its reads. `Released`: a task owes at most one release per expiry, and
one that is free, though no other client ever held it, has been released, hence owes less than that. So after a
single expiry a free task owes nothing, and what `ClaimTry` wins stays the client's until `ClaimConfirm` reads it (`Current`);
the decisions so far are TRAIN and PENDING (`Decided`), unless another client has held a task or there was a second expiry
(`Excused`). Without that exception the second half of `OutcomeIsTrue` is false, section 6.

`GlobalModel_proofs` proves for any finite sets of aggregate requests and models, any chunk counts and any number of attempts:

| Theorem | States |
|---|---|
| `ModelTypeCorrect` | `Spec => []TypeOK` |
| `DescriptorMatchesFileHolds` | between aggregations that did not overlap, the descriptor is that of the output file |
| `DownloadIsWholeHolds` | a download that succeeds is one whole model, if they did not overlap |

Assumptions: models are finitely many and at least one, with positive sizes, the requests are finitely many, `NoFile` is no
file, descriptor or content, bounds are naturals.

Argument. Types first, and without the condition about overlaps: `Opened` keeps every write inside the largest model's
size, and `Counted` pays for every file created with a save. While requests have not overlapped, `Orderly` holds:
one request is in the handler (`Alone`), the temporary file is its own and holds what it has written (`Saving`), the output
is another file and whole (`Complete`), the descriptor belongs to it unless a request stands between replacing and publishing
(`Described`), and every descriptor in circulation is of a whole model, replaced or not (`Circulating`). A download checks
what it received against a descriptor in circulation, which is why it needs nothing about when files were replaced.

`Scheduler_proofs` proves for any numbers of GPUs, slots, jobs and exceptions:

| Theorem | States |
|---|---|
| `SchedulerTypeCorrect` | `Spec => []TypeOK` |
| `SlotsBoundedHolds` | a GPU runs at most as many processes as it has slots |
| `ResultsCompleteHolds` | the results of a call that returned lack only what an exception took |

Assumptions: there is a GPU, the slots are finitely many, `NoJob` is no job.

Argument. A job is in the queue of its GPU, with one of its workers, or has its one result (`Queues`, `Held`, `NoJobLost`,
`OneResult`), which holds at the start because the dealing loop puts each job into one queue, once (an induction over the
jobs). A process runs only while the worker that started it holds the job, be it dead (`Attended`): the running processes of
a GPU map one-to-one into its slots. `Ends`: a worker ends only when its queue is empty or of an exception.

Only model-checked: the liveness properties (`EveryCallReturns`, `HandlersReturn`, `DropReleases`, `UploadEnds`,
`DownloadEnds`, `CallReturns`, `WaitersServed`, `LeaseKept`, `CallEnds`), since fairness and ENABLED are outside what the
proof system handles here, and the two disagreements of section 6. The library's induction theorems take an operator as a
parameter, which the installed provers cannot instantiate. Where a proof needs induction (lists, sums, the dealing of
jobs) it is done over a set of naturals, from the well-foundedness of `<` (`WFMin`). None of the modules declares a RECURSIVE
operator; recursive functions are used instead.

## 5. Abstractions

- Labels, models, checkpoints and keys are model values or numbers; digests are contents; wording, logging, metrics
  and message validation are left out, except where a validation steers the control (the chunk checks of `GlobalModel`).
- Time is a flag that may become true (a lapsed lease, a passed deadline, a timeout).
- `MaxRound`, `MaxRequests`, `MaxFaults`, `MaxCalls`, `MaxWrites`, `MaxLosses`, `MaxDrops`, `MaxSaves`, `MaxCrashes`,
  `MaxFailures`, `MaxErrors`, `MaxOps`, `MaxHung` and `MaxEvents` bound counters that are unbounded in the code.
  `Attempts` is a constant of the code in `ModelUpload`, `GlobalModel` and `ClientSession`, made small.
- `ClientSession` joins the old heartbeat worker always. The code waits at most five seconds for it, and the worker's
  request takes two by default; a larger `heartbeat_rpc_timeout_seconds` could leave the old worker behind.
- A registration that is served succeeds: running out of SIDs is not modelled.
- `CallOrBeat` sends the heartbeat that precedes a call; the parameter `refresh_lease=False`, which leaves it out, is
  used by no caller in the repository.
- `Select` of `AggregationServer` reads owners, sessions, the previous trainer and the recovery flag in one step; the code
  reads them one after the other (`aggregation_server.py:454-475`). The choice is a preference among owners, and
  only that it is an owner is used by a property.
- A crash is the end of a process: written and flushed bytes stay. Loss of power is not modelled.
- Memory order weaker than sequential consistency is not modelled.

## 6. Where the code departs from what it says

Kept as runs:

- `pending_at_reset`: the check that no task is PENDING and the reset of all tasks are two lock sections of
  `aggregate_model_updates`, with FedAvg in between; claims take no lock. A claim in between is answered TRAIN and
  erased.
- `offline_trainer`: `claim_tasks` checks that its SID is online before it claims. If the session expires and its tasks are
  released in between, the claimed task is PENDING for an offline client and nobody looks at it again.

Seen while modelling, described with the hazards and not kept as runs:

- An aggregate request repeated for a closed round averages again and resets the index under the current round
  (`AcceptedStaysCommitted` fails with `RepeatAggregate = TRUE`).
- A finalize that fails at its second task leaves the first one COMMITTED without an update, which counts towards the
  weight of that client's next accepted update.
- Heartbeat dispatch does not consult the configured roster when it hands a released task over.
- With a second expiry while a recovery claims its tasks, an upload may end although nobody else held a task. If the
  claim is won and released before the second snapshot, the answer is TRAIN with state EMPTY, which the client's
  validator refuses as a protocol error (`client.py:1518`): the upload fails with `TransportError`. If the client's
  own heartbeat wins the task between the first snapshot and `try_claim`, and the release falls before the second
  snapshot, the answer is DEDUP with state EMPTY and `_recover_model_upload_ownership` raises
  `ModelUpdateOwnershipLostError`, "ownership was transferred", whose comment (`client.py:1006-1008`) explains it by
  another live client. `OutcomeIsTrue` therefore excuses a lost upload after two expiries; for one, TLC and the proof
  show that the report is true.
- A recovering upload may accept a heartbeat instruction that was true before the task was lost; the server rejects
  the replay at finalize.
- Overlapping aggregate requests of one round share the temporary file, and may publish a mixed file with a matching
  digest, although saving is described as atomic.
- A label whose write failed stays in memory and is returned by later calls without being written.
- A key file is visible before it is complete; a crash in between stops every later start (by design: malformed
  key files are never replaced), and a failed fsync removes a key another process may have loaded.
- Between an evaluation reset and its next registration a client uses a SID that may be somebody else's by now;
  neither heartbeats nor calls carry an epoch that would tell.
- A reconnect whose registrations all fail leaves the client without a heartbeat worker until its next call.
- A notified request may be overtaken by a newcomer, again and again.
- `reconcile_recovery_claims` rereads the latest instructions, although `send_as_heartbeat_with_instructions` asks
  recovery code to use the returned ones (`client.py`, its docstring).
- The evaluation reset is documented for an idle server; nothing enforces that.
- An exception in a callback of the scheduler ends a worker silently; with the last worker of a GPU its queue is lost.

## 7. Plan

Done, in this order: word and lifecycle with proofs, native index, AS core, upload, global model, labels, scheduler,
proofs of the AS core (types, ownership, lost claims, lifecycle), request slots with proofs, client session with reset
and heartbeat worker with proofs, proofs of labels, index, upload, rounds, global model, scheduler and the order of
heartbeats.

Next, the model:

1. The lifetime of the native index handle: the evaluation reset and `close` against handlers and the monitor that
   have fetched it.
2. An abstract specification of a round (who may train, what is averaged) that `AggregationServer` implements.

Next, the proofs:

1. That `AggregationServer` implements that abstract round.
2. Invariants of the handle's lifetime, once it is modelled.

## 8. Not modelled

The microbenchmark of the native library, message formats and validators, the OPRF's group arithmetic, GPT training
and data preparation, and the command-line scripts: they have no state between calls, or compute numbers.
Of the modelled parts, the metrics, the traffic records, the creation and destruction of the native index and the
routing of decisions into local queues are left out.

To run: `tlc -config MCHandover.cfg MCAggregationServer` (the configuration and module of each run are in
`PROJECT.json`), `tlapm` on each `*_proofs.tla` (`AggregationServer_proofs` takes about five minutes,
`NativeIndex_proofs` three or four, the others one or two at most).
