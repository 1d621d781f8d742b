--------------------------- MODULE ClientSession ---------------------------
(***************************************************************************)
(* A client's session with the Aggregation Server: the thread that calls   *)
(* the client's methods, the heartbeat worker beside it                    *)
(* (src/dbtfl/entities/client.py), the JSON server between them and the    *)
(* AS (src/dbtfl/communication/http.py), and the AS sessions, which leases *)
(* and evaluation resets take away                                         *)
(* (src/dbtfl/entities/aggregation_server.py).                             *)
(*                                                                         *)
(* A request is served by a thread of the server.  Heartbeats take the     *)
(* control path; all other requests need one of the slots of RequestSlots, *)
(* which the requests of other clients keep busy.  A client that gives up  *)
(* on a request leaves it to the server, which may serve it much later.    *)
(***************************************************************************)
EXTENDS RequestSlots

CONSTANTS
    Main,         \* the thread that calls the client's methods
    Beaters,      \* heartbeat worker threads, one after the other
    None,
    BeatHandlers, \* the request threads that serve heartbeats
    Attempts,     \* AS_REGISTRATION_TRANSPORT_ATTEMPTS
    MaxOps,       \* bound on the method calls
    MaxHung,      \* bound on the requests of other clients that take for ever
    MaxEvents     \* bound on what happens to the client: requests of other
                  \* clients, evaluation resets, and timeouts of requests that
                  \* are making progress

ASSUME ThreadsAssumption ==
    /\ Main \notin Beaters
    /\ None \notin Beaters \cup {Main}
    /\ Beaters # {}
ASSUME HandlersAssumption ==
    BeatHandlers \subseteq Requests /\ None \notin Requests
ASSUME BoundsAssumption ==
    /\ Attempts \in Nat \ {0}
    /\ {MaxOps, MaxHung, MaxEvents} \subseteq Nat

VARIABLES
    session,    \* the SID of _as_session, NoSid before the first connect
    latest,     \* history: the SID of the latest registration that succeeded
    beatLock,   \* _heartbeat_request_lock: the thread that holds it, or None
    worker,     \* _heartbeat_thread
    thread,     \* per client thread: its place, its request and the answer
    job,        \* what Main is doing: purpose, registration attempt
    server,     \* the AS: this client's SID, another client's, and the lease
    request,    \* per request thread: the request it serves
    hung,       \* requests whose handler does not come to an end
    answers,    \* history: threads whose heartbeat was answered, in that order
    executed,   \* history: per method call, how often the AS carried it out
    ops, events \* bounded counters

clientVars == <<session, latest, beatLock, worker, job, ops>>
serverVars == <<server, hung, executed>>
vars == <<slotVars, clientVars, serverVars, thread, request, answers, events>>

Threads == Beaters \cup {Main}
DataHandlers == Requests \ BeatHandlers
NoSid == 0
Sids == 1 .. 2

NoAnswer == [status |-> "none", sid |-> NoSid]
Off == [pc |-> "off", request |-> None, answer |-> NoAnswer, stop |-> FALSE]
Rest == [Off EXCEPT !.pc = "rest"]
NoRequest == [pc |-> "free", kind |-> "none", from |-> None, sid |-> NoSid, op |-> 0]
NoJob == [purpose |-> "none", attempt |-> 0]

ThreadType ==
    [pc : {"off", "rest", "lock", "beating", "join", "registering", "calling"},
     request : Requests \cup {None},
     answer : [status : {"none", "ok", "offline", "unknown"}, sid : Sids \cup {NoSid}],
     stop : BOOLEAN]
RequestType ==
    [pc : {"free", "arrived", "served"},
     kind : {"none", "beat", "register", "call", "load", "reset"},
     from : Threads \cup {None}, sid : Sids \cup {NoSid}, op : 0 .. MaxOps]

SessionTypeOK ==
    /\ {session, latest} \subseteq Sids \cup {NoSid}
    /\ beatLock \in Threads \cup {None}
    /\ worker \in Beaters \cup {None}
    /\ thread \in [Threads -> ThreadType]
    /\ job \in [purpose : {"none", "connect", "call", "beat", "close"},
                attempt : 0 .. Attempts]
    /\ server \in [ours : Sids \cup {NoSid}, other : Sids \cup {NoSid},
                   online : BOOLEAN]
    /\ request \in [Requests -> RequestType]
    /\ executed \in [1 .. MaxOps -> Nat]
    /\ ops \in 0 .. MaxOps

TypeOK ==
    /\ SlotsTypeOK
    /\ SessionTypeOK
    /\ hung \subseteq DataHandlers
    /\ answers \in Seq(Threads)
    /\ events \in 0 .. MaxEvents

\* The AS has just started and the client has not connected yet.
Init ==
    /\ SlotsInit
    /\ session = NoSid /\ latest = NoSid
    /\ beatLock = None
    /\ worker = None
    /\ thread = [t \in Threads |-> IF t = Main THEN Rest ELSE Off]
    /\ job = NoJob
    /\ server = [ours |-> NoSid, other |-> NoSid, online |-> TRUE]
    /\ request = [r \in Requests |-> NoRequest]
    /\ hung = {}
    /\ answers = <<>>
    /\ executed = [o \in 1 .. MaxOps |-> 0]
    /\ ops = 0 /\ events = 0

-----------------------------------------------------------------------------
\* Sending, and being answered or not

At(t, pc) == thread[t].pc = pc
Goto(t, pc) == thread' = [thread EXCEPT ![t].pc = pc]
Answer(t) == thread[t].answer

\* JsonHttpClient.send: the request reaches a free thread of the server, or no
\* connection is accepted.  requests and threads are the state of the others.
Free(handlers) == {r \in handlers : request[r].pc = "free"}
Chosen(handlers) == CHOOSE r \in Free(handlers) : TRUE
Deliver(handlers, message, requests) ==
    request' = [requests EXCEPT ![Chosen(handlers)] = [message EXCEPT !.pc = "arrived"]]

Send(t, pc, handlers, message, requests, threads) ==
    \/ /\ Free(handlers) # {}
       /\ Deliver(handlers, [message EXCEPT !.from = t], requests)
       /\ thread' = [threads EXCEPT ![t] = [thread[t] EXCEPT
                       !.pc = pc, !.request = Chosen(handlers), !.answer = NoAnswer]]
    \/ /\ Free(handlers) = {}
       /\ thread' = [threads EXCEPT ![t] = [thread[t] EXCEPT
                       !.pc = pc, !.request = None, !.answer = NoAnswer]]
       /\ request' = requests

SendBeat(t) ==
    Send(t, "beating", BeatHandlers, [NoRequest EXCEPT !.kind = "beat", !.sid = session],
         request, thread)
SendRegister(requests) ==
    Send(Main, "registering", DataHandlers, [NoRequest EXCEPT !.kind = "register"],
         requests, thread)
SendCall(sid, threads) ==
    Send(Main, "calling", DataHandlers,
         [NoRequest EXCEPT !.kind = "call", !.sid = sid, !.op = ops], request, threads)

\* The answers that are left when t has taken its own.
Without(heard, t) ==
    LET left[n \in 0 .. Len(heard)] ==
            IF n = 0 THEN <<>>
            ELSE IF heard[n] = t THEN left[n - 1]
            ELSE Append(left[n - 1], heard[n])
    IN left[Len(heard)]

\* The thread goes on after its request.
Return(t, threads) == [threads EXCEPT ![t] = [Rest EXCEPT !.stop = thread[t].stop]]
Heard(t) == answers' = Without(answers, t)

Sent(t) == thread[t].pc \in {"beating", "registering", "calling"}

\* A request is stuck when nobody will serve it for the time being.
Stuck(t) ==
    \/ thread[t].request = None
    \/ thread[t].request \in Waiting \cup woken

\* The timeout of a request: the server keeps the request, or its answer is lost.
Fails(t) ==
    /\ Sent(t)
    /\ \/ Stuck(t) /\ UNCHANGED events
       \/ /\ ~Stuck(t)
          /\ events < MaxEvents
          /\ events' = events + 1
Abandoned(t) ==
    [r \in Requests |-> IF request[r].from = t THEN [request[r] EXCEPT !.from = None]
                        ELSE request[r]]

-----------------------------------------------------------------------------
\* Heartbeats, of the worker and of the foreground alike

\* The worker waits between two heartbeats and stops when it is told to.
WakeUp(b) ==
    /\ At(b, "rest")
    /\ IF thread[b].stop
       THEN thread' = [thread EXCEPT ![b] = Off]
       ELSE Goto(b, "lock")
    /\ UNCHANGED <<slotVars, clientVars, serverVars, request, answers, events>>

\* Faulty variant of BeginBeat: heartbeats are not serialised.
BeginBeatUnlocked(t) ==
    /\ At(t, "lock")
    /\ SendBeat(t)
    /\ UNCHANGED <<slotVars, clientVars, serverVars, answers, events>>

\* send_as_heartbeat_with_instructions: inside the request lock, the SID is
\* read and the request sent.
BeginBeat(t) ==
    /\ At(t, "lock")
    /\ beatLock = None
    /\ beatLock' = t
    /\ SendBeat(t)
    /\ UNCHANGED <<slotVars, session, latest, worker, job, ops, serverVars,
                   answers, events>>

\* The response confirms the SID of its request: the session, the active round
\* and the instructions are stored before the request lock is given up.  The
\* worker pauses again, and the foreground sends the call it refreshed its
\* lease for, or returns.
StoreBeat(t) ==
    /\ At(t, "beating")
    /\ Answer(t).status = "ok"
    /\ session' = Answer(t).sid
    /\ beatLock' = None
    /\ Heard(t)
    /\ IF t = Main /\ job.purpose = "call"
       THEN SendCall(session', thread) /\ UNCHANGED job
       ELSE /\ thread' = Return(t, thread)
            /\ job' = IF t = Main THEN NoJob ELSE job
            /\ UNCHANGED request
    /\ UNCHANGED <<slotVars, latest, worker, ops, serverVars, events>>

\* Any error ends a foreground call; the worker notes it and carries on.
BeatFails(t) ==
    /\ At(t, "beating")
    /\ \/ /\ Answer(t).status = "unknown"
          /\ UNCHANGED <<request, events>>
       \/ /\ Fails(t)
          /\ request' = Abandoned(t)
    /\ beatLock' = None
    /\ Heard(t)
    /\ thread' = Return(t, thread)
    /\ job' = IF t = Main THEN NoJob ELSE job
    /\ UNCHANGED <<slotVars, session, latest, worker, ops, serverVars>>

-----------------------------------------------------------------------------
\* The foreground: connect_to_as, close, a heartbeat, or a call that reconnects

Begin(purpose) ==
    /\ At(Main, "rest")
    /\ ops < MaxOps
    /\ ops' = ops + 1
    /\ job' = [NoJob EXCEPT !.purpose = purpose]

\* _stop_heartbeat_worker sets the stop event of the worker ...
StopWorker ==
    thread' = [t \in Threads |->
                 IF t = Main THEN [Rest EXCEPT !.pc = "join"]
                 ELSE IF t = worker THEN [thread[t] EXCEPT !.stop = TRUE]
                 ELSE thread[t]]

ConnectOrClose ==
    /\ \E purpose \in {"connect", "close"} : Begin(purpose)
    /\ StopWorker
    /\ UNCHANGED <<slotVars, session, latest, beatLock, worker, serverVars,
                   request, answers, events>>

\* ... and waits for its end, which the heartbeat's timeout brings in time; the
\* registration follows.
AfterJoin ==
    IF job.purpose = "close"
    THEN /\ thread' = Return(Main, thread)
         /\ job' = NoJob
         /\ UNCHANGED request
    ELSE /\ SendRegister(request)
         /\ job' = [job EXCEPT !.attempt = 1]

\* Faulty variant of Join: the old worker is left to itself.
JoinNobody ==
    /\ At(Main, "join")
    /\ worker' = None
    /\ AfterJoin
    /\ UNCHANGED <<slotVars, session, latest, beatLock, ops, serverVars, answers,
                   events>>

Join ==
    /\ At(Main, "join")
    /\ worker # None => At(worker, "off")
    /\ worker' = None
    /\ AfterJoin
    /\ UNCHANGED <<slotVars, session, latest, beatLock, ops, serverVars, answers,
                   events>>

\* The SID is kept and a new worker starts; a call is sent again under the SID.
Registered ==
    /\ At(Main, "registering")
    /\ Answer(Main).status = "ok"
    /\ session' = Answer(Main).sid
    /\ latest' = Answer(Main).sid
    /\ LET b == CHOOSE b \in Beaters : At(b, "off")
           started == [thread EXCEPT ![b] = Rest]
       IN /\ worker' = b
          /\ \/ /\ job.purpose = "call"
                /\ SendCall(session', started)
                /\ UNCHANGED job
             \/ /\ job.purpose = "connect"
                /\ thread' = Return(Main, started)
                /\ job' = NoJob
                /\ UNCHANGED request
    /\ UNCHANGED <<slotVars, beatLock, ops, serverVars, answers, events>>

\* A registration that fails is repeated a few times; then there is no worker.
RegisterFails ==
    /\ At(Main, "registering")
    /\ Fails(Main)
    /\ \/ /\ job.attempt < Attempts
          /\ job' = [job EXCEPT !.attempt = @ + 1]
          /\ SendRegister(Abandoned(Main))
       \/ /\ job.attempt = Attempts
          /\ job' = NoJob
          /\ request' = Abandoned(Main)
          /\ thread' = Return(Main, thread)
    /\ UNCHANGED <<slotVars, session, latest, beatLock, worker, ops, serverVars,
                   answers>>

\* register_records_with_as and claim_registered_labels_at_as refresh the lease
\* before they send their request; send_as_heartbeat alone does only that.
CallOrBeat ==
    /\ session # NoSid
    /\ \E purpose \in {"call", "beat"} : Begin(purpose)
    /\ Goto(Main, "lock")
    /\ UNCHANGED <<slotVars, session, latest, beatLock, worker, serverVars,
                   request, answers, events>>

\* Faulty variant of CallReturns: a transport error reconnects as well.
CallReturnsOrRepeats ==
    /\ At(Main, "calling")
    /\ \/ /\ Answer(Main).status \in {"ok", "unknown"}
          /\ thread' = Return(Main, thread)
          /\ job' = NoJob
          /\ UNCHANGED <<request, events>>
       \/ /\ Fails(Main)
          /\ request' = Abandoned(Main)
          /\ StopWorker
          /\ UNCHANGED job
    /\ UNCHANGED <<slotVars, session, latest, beatLock, worker, ops, serverVars,
                   answers>>

\* _send_as_request_with_offline_reconnect returns an answer and raises every
\* error but an offline SID ...
CallReturns ==
    /\ At(Main, "calling")
    /\ \/ /\ Answer(Main).status \in {"ok", "unknown"}
          /\ UNCHANGED <<request, events>>
       \/ /\ Fails(Main)
          /\ request' = Abandoned(Main)
    /\ thread' = Return(Main, thread)
    /\ job' = NoJob
    /\ UNCHANGED <<slotVars, session, latest, beatLock, worker, ops, serverVars,
                   answers>>

\* ... which makes the call reconnect and try again ...
CallReconnects ==
    /\ At(Main, "calling")
    /\ Answer(Main).status = "offline"
    /\ StopWorker
    /\ UNCHANGED <<slotVars, clientVars, serverVars, request, answers, events>>

\* ... until the client's deadline has passed.
CallGivesUp ==
    /\ At(Main, "calling")
    /\ Answer(Main).status = "offline"
    /\ thread' = Return(Main, thread)
    /\ job' = NoJob
    /\ UNCHANGED <<slotVars, session, latest, beatLock, worker, ops, serverVars,
                   request, answers, events>>

-----------------------------------------------------------------------------
\* The server

\* do_POST: a request on the data path waits for a slot.
Enter(r) ==
    /\ request[r].pc = "arrived"
    /\ r \in DataHandlers
    /\ Acquire(r) \/ Recheck(r)
    /\ UNCHANGED <<clientVars, serverVars, thread, request, answers, events>>

\* Faulty variant of MayServe: a heartbeat waits for the data plane.
MayServeUnsaturated(r) == active < limit \/ r \in holding

\* The paths in control_paths need no slot.
MayServe(r) == r \in BeatHandlers \/ r \in holding

NextSid == IF server.ours = NoSid /\ server.other = NoSid THEN 1 ELSE 2
Known(sid) == sid # NoSid /\ sid \in {server.ours, server.other}

\* The handler's response, for a client that still waits for it.
Respond(r, status, sid) ==
    LET t == request[r].from IN
    /\ request' = [request EXCEPT ![r] =
                     IF r \in holding THEN [NoRequest EXCEPT !.pc = "served"]
                     ELSE NoRequest]
    /\ thread' = IF t = None THEN thread
                 ELSE [thread EXCEPT ![t].answer = [status |-> status, sid |-> sid]]
    /\ answers' = IF t # None /\ request[r].kind = "beat" THEN Append(answers, t)
                  ELSE answers

Serves(r, kind) ==
    /\ request[r].pc = "arrived"
    /\ request[r].kind = kind
    /\ MayServe(r)
    /\ r \notin hung

\* register: the client's SID, old or new, and a fresh lease.
ServeRegister(r) ==
    /\ Serves(r, "register")
    /\ server' = [server EXCEPT !.ours = IF @ = NoSid THEN NextSid ELSE @,
                                !.online = TRUE]
    /\ Respond(r, "ok", server'.ours)
    /\ UNCHANGED <<slotVars, clientVars, hung, executed, events>>

\* heartbeat refreshes the lease of whatever client has the SID.
ServeBeat(r) ==
    /\ Serves(r, "beat")
    /\ server' = [server EXCEPT !.online = @ \/ request[r].sid = server.ours]
    /\ Respond(r, IF Known(request[r].sid) THEN "ok" ELSE "unknown", request[r].sid)
    /\ UNCHANGED <<slotVars, clientVars, hung, executed, events>>

\* register_labels and claim_tasks reject an unknown or offline SID before they
\* change anything.
ServeCall(r) ==
    /\ Serves(r, "call")
    /\ LET sid == request[r].sid
           offline == sid = server.ours /\ ~server.online
       IN \/ /\ ~Known(sid)
             /\ Respond(r, "unknown", sid)
             /\ UNCHANGED executed
          \/ /\ Known(sid) /\ offline
             /\ Respond(r, "offline", sid)
             /\ UNCHANGED executed
          \/ /\ Known(sid) /\ ~offline
             /\ Respond(r, "ok", sid)
             /\ executed' = [executed EXCEPT ![request[r].op] = @ + 1]
    /\ UNCHANGED <<slotVars, clientVars, server, hung, events>>

\* A request of the other client: its registration, or work that leaves this
\* client alone and may take for ever.
ServeLoad(r) ==
    /\ Serves(r, "load")
    /\ \/ /\ server' = [server EXCEPT !.other = IF @ = NoSid THEN NextSid ELSE @]
          /\ Respond(r, "ok", NoSid)
          /\ UNCHANGED hung
       \/ /\ Cardinality(hung) < MaxHung
          /\ hung' = hung \cup {r}
          /\ UNCHANGED <<server, request, thread, answers>>
    /\ UNCHANGED <<slotVars, clientVars, executed, events>>

\* _reset_for_evaluation: sessions and SIDs start over and a new limit is set,
\* while the reset request itself holds a slot.
ServeReset(r) ==
    /\ Serves(r, "reset")
    /\ server' = [ours |-> NoSid, other |-> NoSid, online |-> TRUE]
    /\ \E n \in Limits : SetLimit(n)
    /\ Respond(r, "ok", NoSid)
    /\ UNCHANGED <<clientVars, hung, executed, events>>

Serve(r) ==
    \/ ServeRegister(r) \/ ServeBeat(r) \/ ServeCall(r) \/ ServeLoad(r)
    \/ ServeReset(r)

\* The slot is released whatever became of the request and of its client.
Finish(r) ==
    /\ request[r].pc = "served"
    /\ request' = [request EXCEPT ![r] = NoRequest]
    /\ Release(r)
    /\ UNCHANGED <<clientVars, serverVars, thread, answers, events>>

\* The lease runs out, and the monitor or the next request takes the session
\* offline.
Lapse ==
    /\ server.ours # NoSid
    /\ server.online
    /\ server' = [server EXCEPT !.online = FALSE]
    /\ UNCHANGED <<slotVars, clientVars, hung, executed, thread,
                   request, answers, events>>

\* Requests of the other client and of the evaluator.
Arrive ==
    /\ events < MaxEvents
    /\ events' = events + 1
    /\ Free(DataHandlers) # {}
    /\ \E kind \in {"load", "reset"} :
           Deliver(DataHandlers, [NoRequest EXCEPT !.kind = kind], request)
    /\ UNCHANGED <<slotVars, clientVars, serverVars, thread, answers>>

-----------------------------------------------------------------------------

Foreground ==
    \/ Join \/ Registered \/ RegisterFails \/ CallReturns \/ CallGivesUp
    \/ CallReconnects
Beat(t) == BeginBeat(t) \/ StoreBeat(t) \/ BeatFails(t)
Handler(r) == Enter(r) \/ Serve(r) \/ Finish(r)

Next ==
    \/ ConnectOrClose \/ CallOrBeat \/ Foreground
    \/ \E b \in Beaters : WakeUp(b)
    \/ \E t \in Threads : Beat(t)
    \/ \E r \in Requests : Handler(r)
    \/ Lapse \/ Arrive

Spec == Init /\ [][Next]_vars

\* Threads of the client and of the server keep running.  A deadline passes, so
\* that a call cannot be found offline and try again for ever.  The worker
\* pauses between heartbeats, which leaves the request lock to the foreground
\* often enough.  Method calls, other clients, resets and lapses owe nothing.
FairSpec ==
    /\ Spec
    /\ WF_vars(Foreground)
    /\ SF_vars(CallGivesUp)
    /\ \A b \in Beaters : WF_vars(WakeUp(b)) /\ WF_vars(Beat(b))
    /\ WF_vars(Beat(Main)) /\ SF_vars(BeginBeat(Main))
    /\ \A r \in Requests : WF_vars(Handler(r))

-----------------------------------------------------------------------------
\* Properties

\* The session the client uses is the one its latest registration returned,
\* although heartbeats store the SID of their own, possibly older, request: an
\* answer of the previous worker never brings back a SID that a reset of the AS
\* has given to somebody else.
SessionIsLatest == session = latest

\* The instruction snapshots of the worker and of the foreground are stored in
\* the order in which the AS answered them, so that no older snapshot replaces
\* a newer one.
SnapshotsInOrder == [][\A t \in Threads : StoreBeat(t) => t = Head(answers)]_vars

\* A method call that reconnects and repeats its request is carried out at most
\* once by the AS, the late requests of earlier attempts included.
CarriedOutOnce == \A o \in 1 .. MaxOps : executed[o] <= 1

\* The requests that wait for a slot all get one when no newcomers arrive,
\* unless requests that never end hold all slots.
WaitersServed ==
    Waiting \cup woken # {}
        ~> (Waiting \cup woken = {} \/ Cardinality(hung) >= limit)

\* A connected client whose worker runs gets its lease back, even while the data
\* path is saturated for good and heartbeats time out now and then.
Beating ==
    /\ worker # None
    /\ ~thread[worker].stop
    /\ session = server.ours
LeaseKept ==
    (Beating /\ ~server.online) ~> (server.online \/ ~Beating)

\* Every method call ends, also when registrations fail and the SID is offline
\* again after each reconnect.
CallEnds == job.purpose # "none" ~> job.purpose = "none"
=============================================================================
