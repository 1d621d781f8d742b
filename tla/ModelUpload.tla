---------------------------- MODULE ModelUpload ----------------------------
(***************************************************************************)
(* One client uploads the checkpoint it trained: submit_model_update_at_as *)
(* (src/dbtfl/entities/client.py) against the chunk store of the           *)
(* Aggregation Server (src/dbtfl/federation/updates.py) and the server's   *)
(* handlers.  Chunks are sent one at a time, each repeated when no answer  *)
(* came in time, so that a request the client gave up may be handled much  *)
(* later; the last request commits the client's tasks.  Meanwhile the      *)
(* client's lease may run out, its tasks may be released and other clients *)
(* may take them; the client then reconnects, claims its tasks again and   *)
(* repeats the upload from the first chunk.                                *)
(***************************************************************************)
EXTENDS Naturals, Sequences

CONSTANTS
    N,           \* number of chunks of the checkpoint
    Tasks,       \* the tasks the checkpoint was trained on
    Attempts,    \* MODEL_CHUNK_TRANSPORT_ATTEMPTS
    MaxDrops,    \* bound on the client's session timeouts
    MaxLosses    \* bound on the requests the client gives up

ASSUME SizeAssumption == {N, Attempts} \subseteq Nat \ {0} /\ Tasks \subseteq Nat
ASSUME BoundsAssumption == {MaxDrops, MaxLosses} \subseteq Nat

VARIABLES
    client,     \* the upload call: pc, next request, attempt, awaited request
    train,      \* _last_round_instructions: tasks the last heartbeat said TRAIN
    inflight,   \* chunk requests on their way to the server
    finalizing, \* the finalize request: its place in the handler
    staged,     \* the chunks of the staged upload, <<>> when there is none
    accepted,   \* the server has accepted the update
    word,       \* per task: who holds it, and whether it is committed
    online,     \* the client's session is online
    claiming,   \* the claim request: its place in the handler, and the answer so far
    releases,   \* per task: releases still to come from session timeouts
    drops,      \* session timeouts so far
    losses,     \* requests given up so far
    taken       \* history: another client has held one of the tasks

uploadVars == <<inflight, finalizing, staged, accepted>>
faultVars == <<releases, drops, losses>>
vars == <<client, train, uploadVars, claiming, word, online, faultVars, taken>>

Finalize == N + 1
NoRequest == 0
Free == "free"
Mine == "mine"
Theirs == "theirs"
MineCommitted == "mineCommitted"
TheirsCommitted == "theirsCommitted"
Ended == {"done", "lost", "failed", "rejected"}

\* The client at a place of the call where it is about no request but the first.
At(place) == [pc |-> place, next |-> 1, attempt |-> 1]
NoClaim == [pc |-> "none", todo |-> {}, won |-> FALSE, trained |-> {}, pending |-> {}]

TypeOK ==
    /\ client \in [pc : {"upload", "wait", "connect", "heartbeat", "claim", "claiming",
                         "reconnect"} \cup Ended,
                   next : 1 .. Finalize, attempt : 1 .. Attempts]
    /\ claiming \in [pc : {"none", "arriving", "snapshot", "claim", "confirm", "answered"},
                     todo : SUBSET Tasks, won : BOOLEAN,
                     trained : SUBSET Tasks, pending : SUBSET Tasks]
    /\ train \subseteq Tasks
    /\ inflight \subseteq [chunk : 1 .. N, id : 0 .. MaxLosses]
    /\ finalizing \in {"none", "arriving", "check", "publish", "commit"}
    /\ staged \in Seq(1 .. N) /\ Len(staged) <= N
    /\ word \in [Tasks -> {Free, Mine, Theirs, MineCommitted, TheirsCommitted}]
    /\ {accepted, online, taken} \subseteq BOOLEAN
    /\ releases \in [Tasks -> 0 .. MaxDrops]
    /\ drops \in 0 .. MaxDrops
    /\ losses \in 0 .. MaxLosses

\* The client trained the tasks and has just sent the heartbeat before the upload.
Init ==
    /\ client = At("upload")
    /\ train \in SUBSET Tasks
    /\ inflight = {}
    /\ finalizing = "none"
    /\ staged = <<>>
    /\ accepted = FALSE
    /\ word = [t \in Tasks |-> Mine]
    /\ online = TRUE
    /\ claiming = NoClaim
    /\ releases = [t \in Tasks |-> 0]
    /\ drops = 0
    /\ losses = 0
    /\ taken = FALSE

-----------------------------------------------------------------------------
\* The client

\* The next chunk, or after the last one the finalize request.  A request is
\* told apart from an earlier one for the same chunk by the losses before it.
Send ==
    /\ client.pc = "upload"
    /\ client' = [client EXCEPT !.pc = "wait"]
    /\ IF client.next = Finalize
       THEN finalizing' = "arriving" /\ UNCHANGED inflight
       ELSE /\ inflight' = inflight \cup {[chunk |-> client.next, id |-> losses]}
            /\ UNCHANGED finalizing
    /\ UNCHANGED <<train, staged, accepted, claiming, word, online, faultVars, taken>>

\* No answer in time.  The server may not have seen the request yet, may be
\* handling it, or has answered.  A chunk is sent again, a finalize request is not.
Timeout ==
    /\ client.pc = "wait"
    /\ losses < MaxLosses
    /\ losses' = losses + 1
    /\ client' = IF client.next = Finalize \/ client.attempt = Attempts
                 THEN At("failed")
                 ELSE [client EXCEPT !.pc = "upload", !.attempt = @ + 1]
    /\ UNCHANGED <<train, uploadVars, claiming, word, online, releases, drops, taken>>

\* Faulty variant of Proceed: an offline client repeats the upload at once.
ProceedOffline(answer) ==
    CASE answer = "ack" /\ client.next = Finalize -> At("done")
      [] answer = "ack" /\ client.next # Finalize ->
           [client EXCEPT !.pc = "upload", !.next = @ + 1, !.attempt = 1]
      [] answer \in {"sid_offline", "task_not_pending"} -> At("upload")
      [] answer = "taken_over" -> At("lost")
      [] answer = "invalid_model_upload" -> At("rejected")
      [] answer = "task_commit_failed" -> At("failed")

\* How the client goes on after an answer: sid_offline, or a lost task nobody has
\* taken, sends it into recovery.
Proceed(answer) ==
    CASE answer = "ack" /\ client.next = Finalize -> At("done")
      [] answer = "ack" /\ client.next # Finalize ->
           [client EXCEPT !.pc = "upload", !.next = @ + 1, !.attempt = 1]
      [] answer \in {"sid_offline", "task_not_pending"} -> At("connect")
      [] answer = "taken_over" -> At("lost")
      [] answer = "invalid_model_upload" -> At("rejected")
      [] answer = "task_commit_failed" -> At("failed")

\* connect_to_as: the known client is online again.  It connects at the start of the
\* recovery, and whenever the server found it offline when its claim arrived; the
\* claim is then sent again, without another heartbeat.
Connect ==
    /\ client.pc \in {"connect", "reconnect"}
    /\ client' = At(IF client.pc = "connect" THEN "heartbeat" ELSE "claim")
    /\ online' = TRUE
    /\ UNCHANGED <<train, uploadVars, claiming, word, faultVars, taken>>

\* A heartbeat refreshes the session.  With dispatch off it carries no
\* instructions; with dispatch on the server may hand free tasks to the client,
\* and the instructions name all the client holds.  The session may have expired
\* again since the handler marked it online.
Instruct ==
    /\ online' \in {TRUE, online}
    /\ \/ UNCHANGED word /\ train' = {}
       \/ /\ \E W \in SUBSET {t \in Tasks : word[t] = Free} :
                word' = [t \in Tasks |-> IF t \in W THEN Mine ELSE word[t]]
          /\ train' = {t \in Tasks : word'[t] = Mine}
    /\ UNCHANGED <<uploadVars, claiming, faultVars, taken>>

\* claim_protected_labels_at_as sends a heartbeat first.
Refresh ==
    /\ client.pc = "heartbeat"
    /\ client' = At("claim")
    /\ Instruct

\* The heartbeat worker, also while a request waits for its answer.
WorkerHeartbeat ==
    /\ client.pc \notin Ended
    /\ UNCHANGED client
    /\ Instruct

Claim ==
    /\ client.pc = "claim"
    /\ client' = At("claiming")
    /\ claiming' = [NoClaim EXCEPT !.pc = "arriving"]
    /\ UNCHANGED <<train, uploadVars, word, online, faultVars, taken>>

\* Faulty variant of Retained: only the heartbeat's instructions count.
RetainedByHeartbeat == \A t \in Tasks : t \in train

\* Every task was PENDING, and is TRAIN in the claim's answer or in the last
\* heartbeat's instructions.
Retained == Tasks \subseteq claiming.pending /\ Tasks \subseteq claiming.trained \cup train

\* The end of _recover_model_upload_ownership: a TRAIN that is not PENDING any more
\* is a protocol error; the upload is repeated only if all was retained.  A client
\* that gave up does not see the answer.
Recover ==
    /\ claiming.pc = "answered"
    /\ claiming' = NoClaim
    /\ client' = IF client.pc # "claiming" THEN client
                 ELSE IF ~(claiming.trained \subseteq claiming.pending) THEN At("failed")
                 ELSE IF Retained THEN At("upload") ELSE At("lost")
    /\ UNCHANGED <<train, uploadVars, word, online, faultVars, taken>>

\* A request of the recovery gets no answer, or the recovery deadline has passed.
Abandon ==
    /\ client.pc \in {"connect", "heartbeat", "claim", "claiming", "reconnect"}
    /\ losses < MaxLosses
    /\ losses' = losses + 1
    /\ client' = At("failed")
    /\ UNCHANGED <<train, uploadVars, claiming, word, online, releases, drops, taken>>

-----------------------------------------------------------------------------
\* The server

\* The client gets the answer to the request it is waiting for, and no other.
Awaits(r) == client.pc = "wait" /\ r = [chunk |-> client.next, id |-> losses]
AwaitsFinalize == client.pc = "wait" /\ client.next = Finalize

\* Faulty variant of Acceptable: a repeated chunk is invalid.
AcceptableNextOnly(c) == c = Len(staged) + 1

\* append_chunk: a chunk that is stored already is acknowledged when the bytes are
\* the same, the next one is appended, any other is invalid.
StagedAfter(c) == IF c = Len(staged) + 1 THEN Append(staged, c) ELSE staged
Acceptable(c) == c = Len(staged) + 1 \/ (c <= Len(staged) /\ staged[c] = c)

HandleChunk(r) ==
    /\ r \in inflight
    /\ inflight' = inflight \ {r}
    /\ staged' = IF online THEN StagedAfter(r.chunk) ELSE staged
    /\ client' = IF Awaits(r)
                 THEN Proceed(IF ~online THEN "sid_offline"
                              ELSE IF Acceptable(r.chunk) THEN "ack"
                              ELSE "invalid_model_upload")
                 ELSE client
    /\ UNCHANGED <<train, finalizing, accepted, claiming, word, online, faultVars, taken>>

\* Ends the finalize handler; a client that gave up does not see the answer.
Answer(answer) ==
    /\ finalizing' = "none"
    /\ client' = IF AwaitsFinalize THEN Proceed(answer) ELSE client

\* _require_online_sid
FinalizeArrives ==
    /\ finalizing = "arriving"
    /\ IF online
       THEN finalizing' = "check" /\ UNCHANGED client
       ELSE Answer("sid_offline")
    /\ UNCHANGED <<train, inflight, staged, accepted, claiming, word, online, faultVars, taken>>

\* The first lock section.  A task that is not PENDING for the client discards the
\* staged upload; the answer names the tasks taken over, those of a trainer that
\* is offline itself excepted.
FinalizeCheck ==
    /\ finalizing = "check"
    /\ IF \A t \in Tasks : word[t] = Mine
       THEN /\ finalizing' = "publish"
            /\ UNCHANGED <<staged, client>>
       ELSE /\ staged' = <<>>
            /\ \/ (\A t \in Tasks : word[t] # TheirsCommitted) /\ Answer("task_not_pending")
               \/ (\E t \in Tasks : word[t] \in {Theirs, TheirsCommitted}) /\ Answer("taken_over")
    /\ UNCHANGED <<train, inflight, accepted, claiming, word, online, faultVars, taken>>

\* ModelUpdateStore.finalize: a complete upload with the right digest is published.
FinalizePublish ==
    /\ finalizing = "publish"
    /\ IF staged = [c \in 1 .. N |-> c]
       THEN /\ staged' = <<>>
            /\ finalizing' = "commit"
            /\ UNCHANGED client
       ELSE /\ staged' = IF Len(staged) = N THEN <<>> ELSE staged
            /\ Answer("invalid_model_upload")
    /\ UNCHANGED <<train, inflight, accepted, claiming, word, online, faultVars, taken>>

\* mark_committed in ascending order, up to the first task that was released.
Committable == {t \in Tasks : \A u \in Tasks : u <= t => word[u] = Mine}
\* Faulty variant of FinalizeCommit: a released task is passed over.
FinalizeCommitAnyway ==
    /\ finalizing = "commit"
    /\ word' = [t \in Tasks |-> IF word[t] = Mine THEN MineCommitted ELSE word[t]]
    /\ accepted' = TRUE
    /\ Answer("ack")
    /\ UNCHANGED <<train, inflight, staged, claiming, online, faultVars, taken>>

FinalizeCommit ==
    /\ finalizing = "commit"
    /\ word' = [t \in Tasks |-> IF t \in Committable THEN MineCommitted ELSE word[t]]
    /\ accepted' = (Committable = Tasks)
    /\ Answer(IF Committable = Tasks THEN "ack" ELSE "task_commit_failed")
    /\ UNCHANGED <<train, inflight, staged, claiming, online, faultVars, taken>>

\* claim_tasks: an offline client has to reconnect.
ClaimArrives ==
    /\ claiming.pc = "arriving"
    /\ IF online
       THEN /\ claiming' = [claiming EXCEPT !.pc = "snapshot", !.todo = Tasks]
            /\ UNCHANGED client
       ELSE /\ claiming' = NoClaim
            /\ client' = IF client.pc = "claiming" THEN At("reconnect") ELSE client
    /\ UNCHANGED <<train, uploadVars, word, online, faultVars, taken>>

\* The labels are decided one after the other, each by separate reads of its task.
Deciding(t) == t \in claiming.todo /\ \A u \in claiming.todo : t <= u

\* The decision on a task: TRAIN or DEDUP, and the state as it was read last.
Decide(t, won) ==
    claiming' = [pc      |-> IF claiming.todo = {t} THEN "answered" ELSE "snapshot",
                 todo    |-> claiming.todo \ {t},
                 won     |-> FALSE,
                 trained |-> IF won \/ word[t] = Mine
                             THEN claiming.trained \cup {t} ELSE claiming.trained,
                 pending |-> IF word[t] \in {Mine, Theirs}
                             THEN claiming.pending \cup {t} ELSE claiming.pending]

\* The first snapshot decides, unless the task is EMPTY.
ClaimSnapshot(t) ==
    /\ claiming.pc = "snapshot" /\ Deciding(t)
    /\ IF word[t] = Free THEN claiming' = [claiming EXCEPT !.pc = "claim"] ELSE Decide(t, FALSE)
    /\ UNCHANGED <<client, train, uploadVars, word, online, faultVars, taken>>

\* try_claim
ClaimTry(t) ==
    /\ claiming.pc = "claim" /\ Deciding(t)
    /\ claiming' = [claiming EXCEPT !.pc = "confirm", !.won = (word[t] = Free)]
    /\ word' = IF word[t] = Free THEN [word EXCEPT ![t] = Mine] ELSE word
    /\ UNCHANGED <<client, train, uploadVars, online, faultVars, taken>>

\* The second snapshot: the task may have been released again since.
ClaimConfirm(t) ==
    /\ claiming.pc = "confirm" /\ Deciding(t)
    /\ Decide(t, claiming.won)
    /\ UNCHANGED <<client, train, uploadVars, word, online, faultVars, taken>>

-----------------------------------------------------------------------------
\* Session timeouts and other clients

\* expire_sessions marks the session and releases its tasks one by one afterwards.
\* A client that reconnects in between may expire again before they are released.
Expire ==
    /\ online
    /\ drops < MaxDrops
    /\ drops' = drops + 1
    /\ online' = FALSE
    /\ releases' = [t \in Tasks |-> releases[t] + 1]
    /\ UNCHANGED <<client, train, uploadVars, claiming, word, losses, taken>>

\* release_if_trainer, for one task.
Release(t) ==
    /\ releases[t] > 0
    /\ releases' = [releases EXCEPT ![t] = @ - 1]
    /\ word' = IF word[t] = Mine THEN [word EXCEPT ![t] = Free] ELSE word
    /\ UNCHANGED <<client, train, uploadVars, claiming, online, drops, losses, taken>>

\* Other clients claim, commit and lose tasks.
Others(t) ==
    /\ \/ word[t] = Free /\ word' = [word EXCEPT ![t] = Theirs]
       \/ word[t] = Theirs /\ word' = [word EXCEPT ![t] = TheirsCommitted]
       \/ word[t] = Theirs /\ word' = [word EXCEPT ![t] = Free]
    /\ taken' = TRUE
    /\ UNCHANGED <<client, train, uploadVars, claiming, online, faultVars>>

-----------------------------------------------------------------------------

ClientStep == Send \/ Connect \/ Refresh \/ Claim
FinalizeStep ==
    FinalizeArrives \/ FinalizeCheck \/ FinalizePublish \/ FinalizeCommit
ClaimStep ==
    \/ ClaimArrives \/ Recover
    \/ \E t \in Tasks : ClaimSnapshot(t) \/ ClaimTry(t) \/ ClaimConfirm(t)
Handle == \E r \in inflight : HandleChunk(r)

Next ==
    \/ ClientStep \/ Timeout \/ Abandon \/ WorkerHeartbeat
    \/ Handle \/ FinalizeStep \/ ClaimStep
    \/ Expire \/ \E t \in Tasks : Release(t) \/ Others(t)

Spec == Init /\ [][Next]_vars

\* The client keeps running and the server handles what it receives; leases need
\* not run out, requests need not time out, other clients owe nothing.
FairSpec ==
    /\ Spec
    /\ WF_vars(ClientStep)
    /\ WF_vars(FinalizeStep)
    /\ WF_vars(ClaimStep)
    /\ WF_vars(\E r \in inflight : Awaits(r) /\ HandleChunk(r))

-----------------------------------------------------------------------------
\* Properties

\* The store never rejects a request the client is waiting for: replays after a
\* lost answer, a reconnection or a discarded upload meet what they expect.
NeverRejected == client.pc # "rejected"

\* What the client reports is true.  An acknowledged upload is accepted and all
\* its tasks are COMMITTED by the client, although they may have been released
\* and claimed again on the way.  A checkpoint is given up as taken over only if
\* another client has indeed held one of its tasks, or the session has expired a
\* second time: a single expiry alone, whatever it interrupts, never costs it.
OutcomeIsTrue ==
    /\ client.pc = "done" => accepted /\ \A t \in Tasks : word[t] = MineCommitted
    /\ client.pc = "lost" => taken \/ drops >= 2

\* Every upload ends, also one that has to recover from an offline session.
UploadEnds == <>(client.pc \in Ended)
=============================================================================
