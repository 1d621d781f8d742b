------------------------ MODULE ClientSession_proofs ------------------------
(***************************************************************************)
(* Proofs about the request slots, for any finite set of request threads   *)
(* and any limits, and about ClientSession, for any threads, handlers and  *)
(* bounds.                                                                 *)
(***************************************************************************)
EXTENDS ClientSession, FiniteSetTheorems, TLAPS

-----------------------------------------------------------------------------
\* The slots: the counter of active requests is exact, and no wake-up is lost

\* A thread waits once, and is in one place at a time: a thread that is notified
\* is new among the notified.
OncePlaced ==
    /\ \A i, j \in 1 .. Len(waiting) : waiting[i] = waiting[j] => i = j
    /\ \A i \in 1 .. Len(waiting) : waiting[i] \notin woken \cup holding
    /\ woken \cap holding = {}

\* _active counts the requests between acquire and release.
ActiveIsExact == active = Cardinality(holding)

SlotsInv == SlotsTypeOK /\ OncePlaced /\ ActiveIsExact /\ NoLostWakeup

-----------------------------------------------------------------------------
\* The queue of waiting threads

LEMMA RangeIsItems ==
    ASSUME NEW S, NEW s \in Seq(S)
    PROVE  Range(s) = {s[i] : i \in 1 .. Len(s)}
BY DEF Range

\* The thread that waits longest leaves the others in their order.
LEMMA TailItems ==
    ASSUME NEW S, NEW s \in Seq(S), s # <<>>
    PROVE  /\ Len(s) \in Nat \ {0}
           /\ Head(s) = s[1]
           /\ Head(s) \in S
           /\ Tail(s) \in Seq(S)
           /\ Len(Tail(s)) = Len(s) - 1
           /\ \A i \in 1 .. Len(Tail(s)) : Tail(s)[i] = s[i + 1]
OBVIOUS

LEMMA AppendItems ==
    ASSUME NEW S, NEW s \in Seq(S), NEW x \in S
    PROVE  /\ Append(s, x) \in Seq(S)
           /\ Len(Append(s, x)) = Len(s) + 1
           /\ Append(s, x) # <<>>
           /\ \A i \in 1 .. Len(s) : Append(s, x)[i] = s[i]
           /\ Append(s, x)[Len(s) + 1] = x
OBVIOUS

\* The sets of threads are finite.
LEMMA FiniteThreads ==
    ASSUME SlotsTypeOK
    PROVE  /\ IsFiniteSet(woken) /\ Cardinality(woken) \in Nat
           /\ IsFiniteSet(holding) /\ Cardinality(holding) \in Nat
BY RequestsAssumption, FS_Subset, FS_CardinalityType DEF SlotsTypeOK

-----------------------------------------------------------------------------
\* The steps

LEMMA InitInv == SlotsInit => SlotsInv
BY FS_EmptySet, LimitsAssumption
   DEF SlotsInit, SlotsInv, SlotsTypeOK, OncePlaced, ActiveIsExact, NoLostWakeup

\* The loop of acquire, for a thread that is nowhere else.
LEMMA TakeOrWaitInv ==
    ASSUME SlotsTypeOK, OncePlaced, ActiveIsExact, NEW r \in Requests,
           r \notin Waiting \cup holding, TakeOrWait(r),
           limit' = limit, woken' = woken \ {r}
    PROVE  /\ SlotsTypeOK' /\ OncePlaced' /\ ActiveIsExact'
           /\ \/ waiting' = waiting /\ active' = active + 1
              \/ limit' <= active'
<1> USE DEF SlotsTypeOK
<1>1. \A i \in 1 .. Len(waiting) : waiting[i] # r
    BY RangeIsItems DEF Waiting
<1>2. CASE /\ active < limit
           /\ active' = active + 1
           /\ holding' = holding \cup {r}
           /\ UNCHANGED waiting
    <2>1. SlotsTypeOK'
        BY <1>2
    <2>2. OncePlaced'
        BY <1>1, <1>2 DEF OncePlaced
    <2>3. Cardinality(holding') = Cardinality(holding) + 1
        BY <1>2, FiniteThreads, FS_AddElement
    <2> QED
        BY <1>2, <2>1, <2>2, <2>3 DEF ActiveIsExact
<1>3. CASE /\ active >= limit
           /\ waiting' = Append(waiting, r)
           /\ UNCHANGED <<active, holding>>
    <2>1. /\ waiting' \in Seq(Requests)
          /\ Len(waiting') = Len(waiting) + 1
          /\ \A i \in 1 .. Len(waiting) : waiting'[i] = waiting[i]
          /\ waiting'[Len(waiting) + 1] = r
        BY <1>3, AppendItems
    <2>2. SlotsTypeOK'
        BY <1>3, <2>1
    <2>3. ASSUME NEW i \in 1 .. Len(waiting'), NEW j \in 1 .. Len(waiting'),
                 waiting'[i] = waiting'[j]
          PROVE  i = j
        BY <1>1, <2>1, <2>3 DEF OncePlaced
    <2>4. \A i \in 1 .. Len(waiting') : waiting'[i] \notin woken' \cup holding'
        BY <1>1, <1>3, <2>1 DEF OncePlaced
    <2>5. OncePlaced'
        BY <1>3, <2>3, <2>4 DEF OncePlaced
    <2>6. limit' <= active'
        BY <1>3
    <2> QED
        BY <1>3, <2>2, <2>5, <2>6 DEF ActiveIsExact
<1> QED
    BY <1>2, <1>3 DEF TakeOrWait

\* The arithmetic of a thread that passes the loop of acquire: either it takes a
\* slot, and at most one notified thread the less is around, or none is free.
LEMMA Balance ==
    ASSUME NoLostWakeup, limit \in Nat, limit' = limit,
           active \in Nat, active' \in Nat,
           Cardinality(woken) \in Nat, Cardinality(woken') \in Nat,
           Cardinality(woken') \in {Cardinality(woken), Cardinality(woken) - 1},
           \/ waiting' = waiting /\ active' = active + 1
           \/ limit' <= active'
    PROVE  NoLostWakeup'
<1> DEFINE before == Cardinality(woken)
           after == Cardinality(woken')
<1>1. before \in Nat /\ after \in Nat /\ after \in {before, before - 1}
    OBVIOUS
<1>2. waiting # <<>> => limit - active <= before
    BY DEF NoLostWakeup
<1> HIDE DEF before, after
<1>3. CASE waiting' = waiting /\ active' = active + 1
    <2>1. waiting' # <<>> => limit' - active' <= after
        BY <1>1, <1>2, <1>3
    <2> QED
        BY <2>1 DEF NoLostWakeup, after
<1>4. CASE limit' <= active'
    <2>1. ASSUME NEW l \in Nat, NEW a \in Nat, NEW n \in Nat, l <= a
          PROVE  l - a <= n
        BY <2>1
    <2>2. limit' - active' <= after
        BY <1>1, <1>4, <2>1
    <2> QED
        BY <2>2 DEF NoLostWakeup, after
<1> QED
    BY <1>3, <1>4

LEMMA NextInv == SlotsInv /\ [SlotsNext]_slotVars => SlotsInv'
<1> SUFFICES ASSUME SlotsInv, [SlotsNext]_slotVars
             PROVE  SlotsInv'
    OBVIOUS
<1> USE DEF SlotsInv
<1>1. /\ limit \in Nat /\ active \in Nat /\ waiting \in Seq(Requests)
      /\ IsFiniteSet(woken) /\ Cardinality(woken) \in Nat
      /\ IsFiniteSet(holding) /\ Cardinality(holding) \in Nat
    BY FiniteThreads, LimitsAssumption DEF SlotsTypeOK
<1>2. ASSUME NEW r \in Requests, Acquire(r)
      PROVE  SlotsInv'
    <2>1. woken' = woken \ {r}
        BY <1>2 DEF Acquire
    <2>2. /\ SlotsTypeOK' /\ OncePlaced' /\ ActiveIsExact'
          /\ \/ waiting' = waiting /\ active' = active + 1
             \/ limit' <= active'
        BY <1>2, <2>1, TakeOrWaitInv DEF Acquire
    <2>3. active' \in Nat /\ limit' = limit /\ woken' = woken
        BY <1>2, <2>2 DEF Acquire, SlotsTypeOK
    <2>4. Cardinality(woken') = Cardinality(woken)
        BY <2>3
    <2>5. NoLostWakeup'
        BY <1>1, <2>2, <2>3, <2>4, Balance
    <2> QED
        BY <2>2, <2>5
<1>3. ASSUME NEW r \in Requests, Recheck(r)
      PROVE  SlotsInv'
    <2>1. r \in woken /\ woken' = woken \ {r} /\ limit' = limit
        BY <1>3 DEF Recheck
    <2>2. r \notin Waiting \cup holding
        BY <1>1, <2>1, RangeIsItems DEF OncePlaced, Waiting
    <2>3. /\ SlotsTypeOK' /\ OncePlaced' /\ ActiveIsExact'
          /\ \/ waiting' = waiting /\ active' = active + 1
             \/ limit' <= active'
        BY <1>3, <2>1, <2>2, TakeOrWaitInv DEF Recheck
    <2>4. Cardinality(woken') = Cardinality(woken) - 1
        BY <1>1, <2>1, FS_RemoveElement
    <2>5. active' \in Nat
        BY <2>3 DEF SlotsTypeOK
    <2>6. Cardinality(woken') \in Nat
        BY <2>3, FS_Subset, FS_CardinalityType, <1>1, <2>1
    <2>7. NoLostWakeup'
        BY <1>1, <2>1, <2>3, <2>4, <2>5, <2>6, Balance
    <2> QED
        BY <2>3, <2>7
<1>4. ASSUME NEW r \in Requests, Release(r)
      PROVE  SlotsInv'
    <2>1. /\ r \in holding /\ holding' = holding \ {r}
          /\ active' = active - 1 /\ limit' = limit /\ Notify
        BY <1>4 DEF Release
    <2>2. Cardinality(holding') = Cardinality(holding) - 1
        BY <1>1, <2>1, FS_RemoveElement
    <2>3. Cardinality(holding') \in Nat
        BY <1>1, <2>1, FS_Subset, FS_CardinalityType
    <2>4. ActiveIsExact' /\ active' \in Nat
        BY <1>1, <2>1, <2>2, <2>3 DEF ActiveIsExact
    <2>5. CASE waiting = <<>> /\ UNCHANGED <<waiting, woken>>
        BY <2>1, <2>4, <2>5 DEF SlotsTypeOK, OncePlaced, NoLostWakeup
    <2>6. CASE /\ waiting # <<>>
               /\ woken' = woken \cup {Head(waiting)}
               /\ waiting' = Tail(waiting)
        <3>1. /\ Head(waiting) = waiting[1] /\ Head(waiting) \in Requests
              /\ Len(waiting) \in Nat \ {0}
              /\ waiting' \in Seq(Requests)
              /\ Len(waiting') = Len(waiting) - 1
              /\ \A i \in 1 .. Len(waiting') : waiting'[i] = waiting[i + 1]
            BY <1>1, <2>6, TailItems
        <3>2. waiting[1] \notin woken \cup holding
            BY <3>1 DEF OncePlaced
        <3>3. SlotsTypeOK'
            BY <2>1, <2>4, <2>6, <3>1 DEF SlotsTypeOK
        <3>4. ASSUME NEW i \in 1 .. Len(waiting'), NEW j \in 1 .. Len(waiting'),
                     waiting'[i] = waiting'[j]
              PROVE  i = j
            <4>1. waiting[i + 1] = waiting[j + 1]
                BY <3>1, <3>4
            <4>2. i + 1 \in 1 .. Len(waiting) /\ j + 1 \in 1 .. Len(waiting)
                BY <3>1
            <4>3. i + 1 = j + 1
                BY <4>1, <4>2 DEF OncePlaced
            <4> QED
                BY <3>1, <4>3
        <3>5. \A i \in 1 .. Len(waiting') : waiting'[i] \notin woken' \cup holding'
            BY <2>1, <2>6, <3>1 DEF OncePlaced
        <3>6. woken' \cap holding' = {}
            BY <2>1, <2>6, <3>1, <3>2 DEF OncePlaced
        <3>7. Cardinality(woken') = Cardinality(woken) + 1
            BY <1>1, <2>6, <3>1, <3>2, FS_AddElement
        <3>8. NoLostWakeup'
            BY <1>1, <2>1, <2>6, <3>7 DEF NoLostWakeup
        <3> QED
            BY <2>4, <3>3, <3>4, <3>5, <3>6, <3>8 DEF OncePlaced
    <2> QED
        BY <2>1, <2>5, <2>6 DEF Notify
<1>5. ASSUME NEW n \in Limits, SetLimit(n)
      PROVE  SlotsInv'
    <2>1. Waiting \subseteq Requests
        BY <1>1, RangeIsItems DEF Waiting
    <2>2. Waiting \cap holding = {}
        BY <1>1, RangeIsItems DEF Waiting, OncePlaced
    <2> QED
        BY <1>5, <2>1, <2>2
           DEF SetLimit, SlotsTypeOK, OncePlaced, ActiveIsExact, NoLostWakeup
<1>6. ASSUME UNCHANGED slotVars
      PROVE  SlotsInv'
    BY <1>6 DEF slotVars, SlotsTypeOK, OncePlaced, ActiveIsExact, NoLostWakeup
<1> QED
    BY <1>2, <1>3, <1>4, <1>5, <1>6 DEF SlotsNext

LEMMA SlotsInvariant == SlotsSpec => []SlotsInv
BY InitInv, NextInv, PTL DEF SlotsSpec

-----------------------------------------------------------------------------

\* The request slots keep their types.
THEOREM SlotsTypeCorrect == SlotsSpec => []SlotsTypeOK
BY SlotsInvariant, PTL DEF SlotsInv

\* The counter that decides whether a request may start is the number of requests
\* between acquire and release, at every moment: no slot leaks, whatever order
\* releases, wake-ups and changes of the limit come in.
THEOREM SlotsExact == SlotsSpec => []ActiveIsExact
BY SlotsInvariant, PTL DEF SlotsInv

\* While a request waits, every free slot is on its way to a notified one.
THEOREM SlotsNoLostWakeup == SlotsSpec => []NoLostWakeup
BY SlotsInvariant, PTL DEF SlotsInv

-----------------------------------------------------------------------------
\* The server uses the slots as RequestSlots allows

LEMMA StepUsesSlots == [Next]_vars => [SlotsNext]_slotVars
<1> SUFFICES ASSUME [Next]_vars
             PROVE  SlotsNext \/ UNCHANGED slotVars
    BY DEF slotVars
<1>1. ASSUME NEW r \in Requests, Handler(r)
      PROVE  SlotsNext \/ UNCHANGED slotVars
    <2>1. CASE Enter(r)
        BY <2>1 DEF Enter, SlotsNext
    <2>2. CASE Finish(r)
        BY <2>2 DEF Finish, SlotsNext
    <2>3. CASE ServeReset(r)
        BY <2>3 DEF ServeReset, SlotsNext
    <2>4. CASE ServeRegister(r) \/ ServeBeat(r) \/ ServeCall(r) \/ ServeLoad(r)
        BY <2>4 DEF ServeRegister, ServeBeat, ServeCall, ServeLoad
    <2> QED
        BY <1>1, <2>1, <2>2, <2>3, <2>4 DEF Handler, Serve
<1>2. CASE Foreground
    BY <1>2 DEF Foreground, Join, Registered, RegisterFails, CallReturns,
                CallReconnects, CallGivesUp
<1>3. ASSUME NEW t \in Threads, Beat(t)
      PROVE  UNCHANGED slotVars
    BY <1>3 DEF Beat, BeginBeat, StoreBeat, BeatFails
<1>4. CASE \/ ConnectOrClose \/ CallOrBeat \/ (\E b \in Beaters : WakeUp(b))
           \/ Lapse \/ Arrive
    BY <1>4 DEF ConnectOrClose, CallOrBeat, WakeUp, Lapse, Arrive
<1>5. CASE UNCHANGED vars
    BY <1>5 DEF vars
<1> QED
    BY <1>1, <1>2, <1>3, <1>4, <1>5 DEF Next

\* The requests of the client, of other clients and of the evaluator use the
\* slots as RequestSlots specifies, evaluation resets in their midst included.
THEOREM ImplementsSlots == Spec => SlotsSpec
<1>1. Init => SlotsInit
    BY DEF Init
<1> QED
    BY <1>1, StepUsesSlots, PTL DEF Spec, SlotsSpec

\* No wake-up is lost in the server either.
THEOREM ServerNoLostWakeup == Spec => []NoLostWakeup
BY ImplementsSlots, SlotsNoLostWakeup

-----------------------------------------------------------------------------
\* The inductive invariant of the client's session and of its calls

\* Only the current worker is out of its place, and none while Main registers.
Places ==
    /\ \A b \in Beaters : ~At(b, "off") => b = worker
    /\ \A b \in Beaters : thread[b].pc \in {"off", "rest", "lock", "beating"}
    /\ At(Main, "registering") => worker = None

\* What a request is while thread t of the client waits for it.
Asked(r, t) ==
    \/ At(t, "beating") /\ request[r].kind = "beat" /\ request[r].sid = session
    \/ t = Main /\ At(t, "registering") /\ request[r].kind = "register"
    \/ t = Main /\ At(t, "calling") /\ request[r].kind = "call" /\ request[r].op = ops
Awaited(r, t) ==
    /\ request[r].pc = "arrived"
    /\ thread[t].request = r
    /\ Answer(t).status = "none"
    /\ Asked(r, t)
Answerable == \A r \in Requests, t \in Threads : request[r].from = t => Awaited(r, t)

\* A heartbeat confirms the SID that is in use.
Confirmed ==
    \A t \in Threads :
        At(t, "beating") /\ Answer(t).status = "ok" => Answer(t).sid = session

\* Of a call at most one copy is still to be served, or was carried out.
Live(r) == request[r].pc = "arrived" /\ request[r].kind = "call"
OneCopy ==
    /\ \A r \in Requests :
          Live(r) => request[r].op \in 1 .. ops /\ executed[request[r].op] = 0
    /\ \A r, q \in Requests :
          Live(r) /\ Live(q) /\ request[r].op = request[q].op => r = q
    /\ \A o \in 1 .. MaxOps : executed[o] <= 1 /\ (executed[o] # 0 => o <= ops)

\* A call that has not been sent, or was found offline, leaves nothing behind.
Fresh == executed[ops] = 0 /\ \A r \in Requests : Live(r) => request[r].op # ops
NotSent ==
    /\ job.purpose = "call" => ops \in 1 .. MaxOps
    /\ job.purpose = "call" /\ thread[Main].pc \in {"lock", "beating", "join", "registering"}
          => Fresh
    /\ At(Main, "calling") => job.purpose = "call"
    /\ At(Main, "calling") /\ Answer(Main).status = "offline" => Fresh

IInv ==
    /\ SessionTypeOK
    /\ Places
    /\ Answerable
    /\ Confirmed
    /\ SessionIsLatest
    /\ OneCopy
    /\ NotSent

USE ThreadsAssumption, HandlersAssumption, BoundsAssumption

\* How a request is sent: to a free request thread q, or to none.
Sending(t, pc, message, requests, threads, q) ==
    /\ q \in Requests \cup {None}
    /\ q # None => request[q].pc = "free"
    /\ thread' = [threads EXCEPT ![t] = [thread[t] EXCEPT
                     !.pc = pc, !.request = q, !.answer = NoAnswer]]
    /\ request' = IF q = None THEN requests
                  ELSE [requests EXCEPT ![q] = [message EXCEPT
                          !.from = t, !.pc = "arrived"]]

LEMMA SendEffect ==
    ASSUME NEW t, NEW pc, NEW handlers \in SUBSET Requests, NEW message,
           NEW requests, NEW threads,
           Send(t, pc, handlers, message, requests, threads)
    PROVE  \E q : Sending(t, pc, message, requests, threads, q)
<1>1. CASE Free(handlers) # {}
    <2>1. Chosen(handlers) \in Free(handlers)
        BY <1>1 DEF Chosen
    <2>2. Sending(t, pc, message, requests, threads, Chosen(handlers))
        BY <1>1, <2>1 DEF Send, Sending, Deliver, Free
    <2> QED
        BY <2>2
<1>2. CASE Free(handlers) = {}
    <2>1. Sending(t, pc, message, requests, threads, None)
        BY <1>2 DEF Send, Sending
    <2> QED
        BY <2>1
<1> QED
    BY <1>1, <1>2

LEMMA Start == Init => IInv
<1> SUFFICES ASSUME Init
             PROVE  IInv
    OBVIOUS
<1>1. SessionTypeOK
    <2>1. Rest \in ThreadType /\ Off \in ThreadType
        BY DEF Rest, Off, NoAnswer, ThreadType, Sids, NoSid
    <2>2. NoRequest \in RequestType
        BY DEF NoRequest, RequestType, Sids, NoSid
    <2>3. /\ job \in [purpose : {"none", "connect", "call", "beat", "close"},
                     attempt : 0 .. Attempts]
          /\ server \in [ours : Sids \cup {NoSid}, other : Sids \cup {NoSid},
                         online : BOOLEAN]
        BY DEF Init, NoJob, Sids, NoSid
    <2> QED
        BY <2>1, <2>2, <2>3 DEF Init, SessionTypeOK, Threads, NoSid
<1>2. Places
    BY DEF Init, Places, At, Threads, Off, Rest
<1>3. Answerable
    BY DEF Init, Answerable, NoRequest, Threads
<1>4. Confirmed /\ SessionIsLatest
    BY DEF Init, Confirmed, SessionIsLatest, At, Threads, Off, Rest
<1>5. OneCopy
    BY DEF Init, OneCopy, Live, NoRequest
<1>6. NotSent
    BY DEF Init, NotSent, NoJob, At, Rest, Threads, Off
<1> QED
    BY <1>1, <1>2, <1>3, <1>4, <1>5, <1>6 DEF IInv

-----------------------------------------------------------------------------
\* What the steps do to the records of threads and requests

LEMMA ThreadRecords ==
    /\ Rest \in ThreadType /\ Off \in ThreadType
    /\ [Rest EXCEPT !.pc = "join"] \in ThreadType
    /\ \A x \in ThreadType :
          /\ [x EXCEPT !.pc = "lock"] \in ThreadType
          /\ [x EXCEPT !.stop = TRUE] \in ThreadType
          /\ [Rest EXCEPT !.stop = x.stop] \in ThreadType
BY DEF ThreadType, Rest, Off, NoAnswer, Sids, NoSid

LEMMA RequestRecords ==
    /\ NoRequest \in RequestType
    /\ [NoRequest EXCEPT !.pc = "served"] \in RequestType
    /\ \A x \in RequestType : [x EXCEPT !.from = None] \in RequestType
BY DEF RequestType, NoRequest, Sids, NoSid

LEMMA Messages ==
    ASSUME NEW kind \in {"beat", "register", "call", "load", "reset"},
           NEW sid \in Sids \cup {NoSid}, NEW op \in 0 .. MaxOps
    PROVE  /\ [NoRequest EXCEPT !.kind = kind] \in RequestType
           /\ [NoRequest EXCEPT !.kind = kind, !.pc = "arrived"] \in RequestType
           /\ [NoRequest EXCEPT !.kind = kind, !.sid = sid] \in RequestType
           /\ [NoRequest EXCEPT !.kind = kind, !.sid = sid, !.op = op] \in RequestType
<1>1. NoRequest \in RequestType
    BY RequestRecords
<1> HIDE DEF NoRequest
<1> QED
    BY <1>1 DEF RequestType

\* Stopping the worker leaves its request to it and keeps Main's for nobody.
LEMMA StopEffect ==
    ASSUME SessionTypeOK, StopWorker
    PROVE  /\ thread' \in [Threads -> ThreadType]
           /\ thread'[Main] = [Rest EXCEPT !.pc = "join"]
           /\ thread'[Main].pc = "join" /\ thread'[Main].answer = NoAnswer
           /\ \A b \in Beaters :
                 /\ thread'[b].pc = thread[b].pc
                 /\ thread'[b].request = thread[b].request
                 /\ thread'[b].answer = thread[b].answer
<1>1. \A u \in Threads : thread[u] \in ThreadType
    BY DEF SessionTypeOK
<1>2. thread' \in [Threads -> ThreadType]
    BY <1>1, ThreadRecords DEF StopWorker
<1>3. thread'[Main] = [Rest EXCEPT !.pc = "join"]
    BY DEF StopWorker, Threads
<1>4. ASSUME NEW b \in Beaters
      PROVE  thread'[b] \in {thread[b], [thread[b] EXCEPT !.stop = TRUE]}
    BY DEF StopWorker, Threads
<1> QED
    BY <1>1, <1>2, <1>3, <1>4 DEF Rest, Off, ThreadType, Threads

\* requests are those of now, except that nobody of the client waits for some of
\* them any more, t for none.
Left(t, requests) ==
    /\ requests \in [Requests -> RequestType]
    /\ \A r \in Requests :
          /\ requests[r].pc = request[r].pc
          /\ requests[r].kind = request[r].kind
          /\ requests[r].sid = request[r].sid
          /\ requests[r].op = request[r].op
          /\ requests[r].from \in {request[r].from, None}
          /\ requests[r].from # t

LEMMA AbandonedLeft ==
    ASSUME SessionTypeOK, NEW t \in Threads
    PROVE  Left(t, Abandoned(t))
<1>1. \A r \in Requests : request[r] \in RequestType
    BY DEF SessionTypeOK
<1>2. Abandoned(t) \in [Requests -> RequestType]
    BY <1>1, RequestRecords DEF Abandoned
<1>3. ASSUME NEW r \in Requests
      PROVE  Abandoned(t)[r] = IF request[r].from = t THEN [request[r] EXCEPT !.from = None]
                               ELSE request[r]
    BY DEF Abandoned
<1>4. t # None
    BY DEF Threads
<1> HIDE DEF Abandoned
<1> QED
    BY <1>1, <1>2, <1>3, <1>4 DEF Left, RequestType

LEMMA UnaskedLeft ==
    ASSUME SessionTypeOK, Answerable, NEW t \in Threads,
           Answer(t).status # "none" \/ ~Sent(t)
    PROVE  Left(t, request)
BY DEF SessionTypeOK, Answerable, Awaited, Asked, At, Sent, Left

LEMMA ReturnEffect ==
    ASSUME SessionTypeOK, NEW t \in Threads
    PROVE  /\ Return(t, thread) \in [Threads -> ThreadType]
           /\ Return(t, thread)[t].pc = "rest"
           /\ \A u \in Threads : u # t => Return(t, thread)[u] = thread[u]
<1>1. thread[t] \in ThreadType
    BY DEF SessionTypeOK
<1>2. [Rest EXCEPT !.stop = thread[t].stop] \in ThreadType
    BY <1>1, ThreadRecords
<1>3. [Rest EXCEPT !.stop = thread[t].stop].pc = "rest"
    BY DEF Rest, Off
<1> QED
    BY <1>2, <1>3 DEF Return, SessionTypeOK

\* A thread of the client ends what it was doing with its request.
LEMMA EndInv ==
    ASSUME IInv, NEW t \in Threads, ~At(t, "off"), Left(t, request'),
           thread' = Return(t, thread),
           UNCHANGED <<session, latest, executed, ops, server>>,
           \/ UNCHANGED worker
           \/ worker' = None /\ \A b \in Beaters : At(b, "off"),
           beatLock' \in Threads \cup {None},
           job' = IF t = Main THEN NoJob ELSE job
    PROVE  IInv'
<1> USE DEF IInv
<1>a. /\ thread' \in [Threads -> ThreadType]
      /\ thread'[t].pc = "rest"
      /\ \A u \in Threads : u # t => thread'[u] = thread[u]
    BY ReturnEffect
<1>1. SessionTypeOK'
    BY <1>a DEF SessionTypeOK, Left, NoJob
<1>2. Places'
    BY <1>a DEF Places, At, Threads
<1>3. Answerable'
    BY <1>a DEF Left, Answerable, Awaited, Asked, At, Answer, Threads
<1>4. Confirmed'
    BY <1>a DEF Confirmed, At, Answer
<1>5. SessionIsLatest'
    BY DEF SessionIsLatest
<1>6. OneCopy'
    BY DEF OneCopy, Live, Left
<1>7. NotSent'
    BY <1>a DEF NotSent, Fresh, Live, Left, At, Answer, NoJob, Threads
<1> QED
    BY <1>1, <1>2, <1>3, <1>4, <1>5, <1>6, <1>7

\* A response frees the request and reaches the client that waits for it.
Responded(r, status, sid) ==
    /\ request' \in [Requests -> RequestType]
    /\ thread' \in [Threads -> ThreadType]
    /\ request'[r].from = None /\ request'[r].kind = "none"
    /\ \A q \in Requests : q # r => request'[q] = request[q]
    /\ \A t \in Threads :
          /\ thread'[t].pc = thread[t].pc
          /\ thread'[t].request = thread[t].request
          /\ t = request[r].from =>
                thread'[t].answer = [status |-> status, sid |-> sid]
          /\ t # request[r].from => thread'[t].answer = thread[t].answer

LEMMA RespondEffect ==
    ASSUME SessionTypeOK, NEW r \in Requests,
           NEW status \in {"ok", "offline", "unknown"}, NEW sid \in Sids \cup {NoSid},
           Respond(r, status, sid)
    PROVE  Responded(r, status, sid)
<1>1. /\ \A u \in Threads : thread[u] \in ThreadType
      /\ request[r] \in RequestType
    BY DEF SessionTypeOK
<1>2. PICK new \in {NoRequest, [NoRequest EXCEPT !.pc = "served"]} :
          request' = [request EXCEPT ![r] = new]
    BY DEF Respond
<1>3. new \in RequestType /\ new.from = None /\ new.kind = "none"
    BY RequestRecords DEF NoRequest
<1>4. request' \in [Requests -> RequestType] /\ request'[r] = new
    BY <1>2, <1>3 DEF SessionTypeOK
<1>5. CASE request[r].from = None
    <2>1. thread' = thread
        BY <1>5 DEF Respond
    <2> QED
        BY <1>1, <1>2, <1>3, <1>4, <1>5, <2>1 DEF Responded, SessionTypeOK, Threads
<1>6. CASE request[r].from # None
    <2>1. request[r].from \in Threads
        BY <1>1, <1>6 DEF RequestType
    <2>2. thread' = [thread EXCEPT ![request[r].from].answer =
                       [status |-> status, sid |-> sid]]
        BY <1>6 DEF Respond
    <2>3. [thread[request[r].from] EXCEPT !.answer = [status |-> status, sid |-> sid]]
              \in ThreadType
        BY <1>1, <2>1 DEF ThreadType
    <2>4. thread' \in [Threads -> ThreadType]
        BY <2>1, <2>2, <2>3 DEF SessionTypeOK
    <2>5. \A t \in Threads :
             /\ thread'[t].pc = thread[t].pc
             /\ thread'[t].request = thread[t].request
             /\ t = request[r].from =>
                   thread'[t].answer = [status |-> status, sid |-> sid]
             /\ t # request[r].from => thread'[t].answer = thread[t].answer
        BY <1>1, <2>1, <2>2 DEF SessionTypeOK, ThreadType
    <2> QED
        BY <1>2, <1>3, <1>4, <2>4, <2>5 DEF Responded, SessionTypeOK
<1> QED
    BY <1>5, <1>6


\* The threads and requests after t has asked.
Asks(t, pc, message, requests, threads, q) ==
    /\ thread' \in [Threads -> ThreadType]
    /\ thread'[t].pc = pc /\ thread'[t].request = q /\ thread'[t].answer.status = "none"
    /\ \A u \in Threads : u # t => thread'[u] = threads[u]
    /\ request' \in [Requests -> RequestType]
    /\ q \in Requests \cup {None}
    /\ q # None => request[q].pc = "free"
    /\ \A r \in Requests :
          /\ r # q => request'[r] = requests[r]
          /\ r = q => /\ request'[r].pc = "arrived" /\ request'[r].from = t
                      /\ request'[r].kind = message.kind
                      /\ request'[r].sid = message.sid /\ request'[r].op = message.op

LEMMA SendAsks ==
    ASSUME SessionTypeOK, NEW t \in Threads, NEW pc \in {"beating", "registering", "calling"},
           NEW handlers \in SUBSET Requests, NEW message \in RequestType,
           NEW requests \in [Requests -> RequestType],
           NEW threads \in [Threads -> ThreadType],
           Send(t, pc, handlers, message, requests, threads)
    PROVE  \E q : Asks(t, pc, message, requests, threads, q)
<1>1. PICK q : Sending(t, pc, message, requests, threads, q)
    BY SendEffect
<1>2. thread[t] \in ThreadType /\ q \in Requests \cup {None}
    BY <1>1 DEF SessionTypeOK, Sending
<1> DEFINE new == [thread[t] EXCEPT !.pc = pc, !.request = q, !.answer = NoAnswer]
<1>3. new \in ThreadType /\ new.pc = pc /\ new.request = q /\ new.answer.status = "none"
    BY <1>2 DEF ThreadType, NoAnswer, Sids, NoSid
<1> DEFINE sent == [message EXCEPT !.from = t, !.pc = "arrived"]
<1>4. /\ sent \in RequestType /\ sent.pc = "arrived" /\ sent.from = t
      /\ sent.kind = message.kind /\ sent.sid = message.sid /\ sent.op = message.op
    BY DEF RequestType
<1>5. /\ thread' = [threads EXCEPT ![t] = new]
      /\ request' = IF q = None THEN requests ELSE [requests EXCEPT ![q] = sent]
    BY <1>1 DEF Sending
<1> HIDE DEF new, sent
<1>6. /\ thread' \in [Threads -> ThreadType] /\ thread'[t] = new
      /\ \A u \in Threads : u # t => thread'[u] = threads[u]
    BY <1>3, <1>5
<1>7. /\ request' \in [Requests -> RequestType]
      /\ \A r \in Requests : /\ r # q => request'[r] = requests[r]
                             /\ r = q => request'[r] = sent
    BY <1>2, <1>4, <1>5
<1>8. q # None => request[q].pc = "free"
    BY <1>1 DEF Sending
<1>9. Asks(t, pc, message, requests, threads, q)
    BY <1>2, <1>3, <1>4, <1>6, <1>7, <1>8 DEF Asks
<1> QED
    BY <1>9

\* Whoever else waits goes on waiting for the request it sent.
LEMMA AskAnswerable ==
    ASSUME IInv, NEW t \in Threads, NEW pc, NEW message, NEW requests, NEW threads, NEW q,
           Asks(t, pc, message, requests, threads, q), Left(t, requests),
           \A u \in Threads : u # t /\ Sent(u) => threads[u] = thread[u],
           session' = session \/ \A u \in Threads : u # t => ~At(u, "beating"),
           ops' = ops,
           \/ pc = "beating" /\ message.kind = "beat" /\ message.sid = session'
           \/ t = Main /\ pc = "registering" /\ message.kind = "register"
           \/ t = Main /\ pc = "calling" /\ message.kind = "call" /\ message.op = ops
    PROVE  Answerable'
<1> SUFFICES ASSUME NEW r \in Requests, NEW u \in Threads, request'[r].from = u
             PROVE  Awaited(r, u)'
    BY DEF Answerable
<1>1. CASE r = q
    BY <1>1 DEF Asks, Awaited, Asked, At, Answer
<1>2. CASE r # q
    <2>1. u # t /\ request'[r] = requests[r] /\ request[r].from = u
        BY <1>2 DEF Asks, Left, Threads
    <2>2. Awaited(r, u) /\ Sent(u)
        BY <2>1 DEF IInv, Answerable, Awaited, Asked, Sent, At
    <2>3. thread'[u] = thread[u]
        BY <2>1, <2>2 DEF Asks
    <2> QED
        BY <2>1, <2>2, <2>3 DEF Left, Awaited, Asked, At, Answer
<1> QED
    BY <1>1, <1>2

\* A heartbeat or a registration is sent.
LEMMA SendInv ==
    ASSUME IInv, NEW t \in Threads, NEW pc \in {"beating", "registering"},
           NEW handlers \in SUBSET Requests, NEW message \in RequestType,
           NEW requests, Left(t, requests),
           Send(t, pc, handlers, message, requests, thread),
           \/ pc = "beating" /\ message.kind = "beat" /\ message.sid = session
              /\ At(t, "lock") /\ UNCHANGED worker
           \/ /\ t = Main /\ pc = "registering" /\ message.kind = "register"
              /\ At(t, "join") \/ At(t, "registering")
              /\ worker' = None /\ \A b \in Beaters : At(b, "off"),
           UNCHANGED <<session, latest, server, executed, ops>>,
           beatLock' \in Threads \cup {None},
           job' \in [purpose : {"none", "connect", "call", "beat", "close"},
                     attempt : 0 .. Attempts],
           job'.purpose = job.purpose
    PROVE  IInv'
<1> USE DEF IInv
<1>t. requests \in [Requests -> RequestType] /\ thread \in [Threads -> ThreadType]
    BY DEF Left, SessionTypeOK
<1>p. pc \in {"beating", "registering", "calling"}
    OBVIOUS
<1>a. PICK q : Asks(t, pc, message, requests, thread, q)
    BY <1>t, <1>p, SendAsks
<1>1. SessionTypeOK'
    BY <1>a DEF SessionTypeOK, Asks
<1>2. Places'
    BY <1>a DEF Places, Asks, At, Threads
<1>3. Answerable'
    BY <1>a, AskAnswerable
<1>4. Confirmed'
    BY <1>a DEF Asks, Confirmed, At, Answer
<1>5. SessionIsLatest'
    BY DEF SessionIsLatest
<1>b. \A r \in Requests : Live(r)' => r # q /\ Live(r) /\ request'[r].op = request[r].op
    BY <1>a DEF Asks, Left, Live
<1>6. OneCopy'
    BY <1>b DEF OneCopy
<1>7. NotSent'
    <2>1. Fresh => Fresh'
        BY <1>b DEF Fresh
    <2>2. CASE t = Main
        BY <1>a, <2>1, <2>2 DEF NotSent, Asks, At, Answer, Threads
    <2>3. CASE t # Main
        <3>1. thread'[Main] = thread[Main]
            BY <1>a, <2>3 DEF Asks, Threads
        <3> QED
            BY <2>1, <3>1 DEF NotSent, At, Answer
    <2> QED
        BY <2>2, <2>3
<1> QED
    BY <1>1, <1>2, <1>3, <1>4, <1>5, <1>6, <1>7

\* Main sends its call, after a heartbeat or after it has registered again.
LEMMA SendCallInv ==
    ASSUME IInv, NEW threads \in [Threads -> ThreadType], Left(Main, request),
           job.purpose = "call", Fresh,
           SendCall(session', threads),
           \A b \in Beaters : \/ threads[b] = thread[b]
                              \/ At(b, "off") /\ threads[b].pc = "rest",
           \A b \in Beaters : threads[b].pc # "off" => b = worker',
           session' = session \/ \A b \in Beaters : ~At(b, "beating"),
           session' \in Sids \cup {NoSid}, latest' = session',
           beatLock' \in Threads \cup {None}, worker' \in Beaters \cup {None},
           UNCHANGED <<job, server, executed, ops>>
    PROVE  IInv'
<1> USE DEF IInv
<1>m. Main \in Threads /\ \A u \in Threads : u # Main => u \in Beaters
    BY DEF Threads
<1>o. ops \in 1 .. MaxOps
    BY DEF NotSent
<1> DEFINE message == [NoRequest EXCEPT !.kind = "call", !.sid = session', !.op = ops]
<1>k. message.kind = "call" /\ message.op = ops
    BY DEF NoRequest
<1>t. message \in RequestType
    <2>1. ops \in 0 .. MaxOps
        BY <1>o
    <2> QED
        BY <2>1, Messages
<1>s. Send(Main, "calling", DataHandlers, message, request, threads)
    BY DEF SendCall
<1> HIDE DEF message
<1>a. PICK q : Asks(Main, "calling", message, request, threads, q)
    BY <1>m, <1>s, <1>t, SendAsks DEF SessionTypeOK, DataHandlers
<1>1. SessionTypeOK'
    BY <1>a DEF SessionTypeOK, Asks
<1>2. Places'
    BY <1>a, <1>m DEF Places, Asks, At, Threads
<1>3. Answerable'
    <2>1. \A u \in Threads : u # Main /\ Sent(u) => threads[u] = thread[u]
        BY <1>m DEF Sent, At
    <2> QED
        BY <1>a, <1>k, <1>m, <2>1, AskAnswerable
<1>4. Confirmed'
    <2> SUFFICES ASSUME NEW u \in Threads, At(u, "beating")', Answer(u)'.status = "ok"
                 PROVE  Answer(u)'.sid = session'
        BY DEF Confirmed
    <2>1. u \in Beaters /\ thread'[u] = threads[u]
        BY <1>a, <1>m DEF Asks, At
    <2>2. thread'[u] = thread[u] /\ session' = session
        BY <2>1 DEF At
    <2> QED
        BY <2>2 DEF Confirmed, At, Answer
<1>5. SessionIsLatest'
    BY DEF SessionIsLatest
<1>b. \A r \in Requests :
        /\ r # q => request'[r] = request[r]
        /\ r = q => ~Live(r) /\ request'[r].kind = "call" /\ request'[r].op = ops
    BY <1>a, <1>k DEF Asks, Live
<1>6. OneCopy'
    BY <1>b, <1>o DEF OneCopy, Live, Fresh
<1>7. NotSent'
    BY <1>a, <1>o DEF NotSent, Asks, At, Answer
<1> QED
    BY <1>1, <1>2, <1>3, <1>4, <1>5, <1>6, <1>7

\* What the invariant does not mention may change.
LEMMA UnchangedInv ==
    ASSUME IInv, UNCHANGED <<clientVars, executed, server, request, thread>>
    PROVE  IInv'
<1> USE DEF IInv
<1>1. SessionTypeOK'
    BY DEF SessionTypeOK, clientVars
<1>2. Places'
    BY DEF Places, At, Threads, clientVars
<1>3. Answerable'
    BY DEF Answerable, Awaited, Asked, At, Answer, Threads, clientVars
<1>4. Confirmed'
    BY DEF Confirmed, At, Answer, Threads, clientVars
<1>5. SessionIsLatest'
    BY DEF SessionIsLatest, Threads, clientVars
<1>6. OneCopy'
    BY DEF OneCopy, Live, SessionTypeOK, Threads, clientVars
<1>7. NotSent'
    BY DEF NotSent, OneCopy, Fresh, Live, At, Answer, SessionTypeOK, Threads, clientVars
<1> QED
    BY <1>1, <1>2, <1>3, <1>4, <1>5, <1>6, <1>7

\* Nobody else waits for the request that was answered.
LEMMA RespondAnswerable ==
    ASSUME IInv, NEW r \in Requests, NEW status, NEW sid, Responded(r, status, sid),
           UNCHANGED clientVars
    PROVE  Answerable'
<1> USE DEF IInv, clientVars
<1> SUFFICES ASSUME NEW q \in Requests, NEW t \in Threads, request'[q].from = t
             PROVE  Awaited(q, t)'
    BY DEF Answerable
<1>1. q # r /\ request'[q] = request[q]
    BY DEF Responded, Threads
<1>2. Awaited(q, t)
    BY <1>1 DEF Answerable
<1>3. request[r].from # t
    BY <1>1, <1>2 DEF Answerable, Awaited
<1> QED
    BY <1>1, <1>2, <1>3 DEF Responded, Awaited, Asked, At, Answer

\* A response that confirms only the SID of a heartbeat and rejects a call only
\* when it did nothing for it.
LEMMA RespondInv ==
    ASSUME IInv, NEW r \in Requests, request[r].pc = "arrived",
           NEW status \in {"ok", "offline", "unknown"}, NEW sid \in Sids \cup {NoSid},
           Respond(r, status, sid),
           request[r].kind = "beat" => sid = request[r].sid,
           UNCHANGED <<clientVars, executed>>,
           server' \in [ours : Sids \cup {NoSid}, other : Sids \cup {NoSid},
                        online : BOOLEAN]
    PROVE  IInv'
<1> USE DEF IInv, clientVars
<1>a. Responded(r, status, sid)
    BY RespondEffect
<1>1. SessionTypeOK'
    BY <1>a DEF SessionTypeOK, Responded
<1>2. Places'
    BY <1>a DEF Places, At, Responded, Threads
<1>3. Answerable'
    BY <1>a, RespondAnswerable
<1>4. Confirmed'
    <2> SUFFICES ASSUME NEW t \in Threads, At(t, "beating")', Answer(t)'.status = "ok"
                 PROVE  Answer(t)'.sid = session
        BY DEF Confirmed
    <2>1. CASE request[r].from = t
        <3>1. request[r].kind = "beat" /\ request[r].sid = session
            BY <1>a, <2>1 DEF Responded, Answerable, Awaited, Asked, At
        <3> QED
            BY <1>a, <2>1, <3>1 DEF Responded, Answer
    <2>2. CASE request[r].from # t
        BY <1>a, <2>2 DEF Responded, Confirmed, At, Answer
    <2> QED
        BY <2>1, <2>2
<1>5. SessionIsLatest'
    BY DEF SessionIsLatest
<1>6. OneCopy'
    BY <1>a DEF Responded, OneCopy, Live
<1>7. NotSent'
    <2>1. Fresh => Fresh'
        BY <1>a DEF Responded, Fresh, Live
    <2>2. Main \in Threads
        BY DEF Threads
    <2>3. thread'[Main].pc = thread[Main].pc
        BY <1>a, <2>2 DEF Responded
    <2>4. At(Main, "calling") /\ request[r].from = Main => Fresh'
        BY <1>a, <2>2 DEF Responded, Answerable, Awaited, Asked, OneCopy, Live, Fresh, At
    <2>5. At(Main, "calling") /\ Answer(Main)'.status = "offline" => Fresh'
        BY <1>a, <2>1, <2>2, <2>4 DEF Responded, NotSent, Answer
    <2> QED
        BY <2>1, <2>3, <2>5 DEF NotSent, At
<1> QED
    BY <1>1, <1>2, <1>3, <1>4, <1>5, <1>6, <1>7

\* A call that is carried out was the only copy of it.
LEMMA CarryOutInv ==
    ASSUME IInv, NEW r \in Requests, Live(r),
           Respond(r, "ok", request[r].sid),
           executed' = [executed EXCEPT ![request[r].op] = @ + 1],
           UNCHANGED <<clientVars, server>>
    PROVE  IInv'
<1> USE DEF IInv, clientVars
<1>a. Responded(r, "ok", request[r].sid)
    BY RespondEffect DEF SessionTypeOK, RequestType
<1>b. /\ request[r].op \in 1 .. ops /\ 1 .. ops \subseteq 1 .. MaxOps
      /\ executed[request[r].op] = 0 /\ executed'[request[r].op] = 1
      /\ \A o \in 1 .. MaxOps : o # request[r].op => executed'[o] = executed[o]
      /\ executed' \in [1 .. MaxOps -> Nat]
    BY DEF OneCopy, SessionTypeOK
<1>1. SessionTypeOK'
    BY <1>a, <1>b DEF SessionTypeOK, Responded
<1>2. Places'
    BY <1>a DEF Places, At, Responded, Threads
<1>3. Answerable'
    BY <1>a, RespondAnswerable
<1>4. Confirmed'
    <2>1. \A t \in Threads : request[r].from = t => ~At(t, "beating")
        BY DEF Answerable, Awaited, Asked, Live, At
    <2> QED
        BY <1>a, <2>1 DEF Responded, Confirmed, At, Answer
<1>5. SessionIsLatest'
    BY DEF SessionIsLatest
<1>6. OneCopy'
    <2>1. \A q \in Requests :
            Live(q)' => q # r /\ Live(q) /\ request'[q] = request[q]
        BY <1>a DEF Responded, Live
    <2>2. \A q \in Requests : Live(q)' => request[q].op # request[r].op
        BY <2>1 DEF OneCopy
    <2>3. \A q \in Requests :
            Live(q)' => request'[q].op \in 1 .. ops /\ executed'[request'[q].op] = 0
        BY <1>b, <2>1, <2>2 DEF OneCopy
    <2>4. \A q, s \in Requests :
            Live(q)' /\ Live(s)' /\ request'[q].op = request'[s].op => q = s
        BY <2>1 DEF OneCopy
    <2>5. \A o \in 1 .. MaxOps : executed'[o] <= 1 /\ (executed'[o] # 0 => o <= ops)
        BY <1>b DEF OneCopy, SessionTypeOK
    <2> QED
        BY <2>3, <2>4, <2>5 DEF OneCopy
<1>7. NotSent'
    <2>1. Fresh => Fresh'
        <3> SUFFICES ASSUME Fresh PROVE Fresh'
            OBVIOUS
        <3>1. request[r].op # ops
            BY DEF Fresh
        <3>2. ops \in 1 .. MaxOps
            BY <1>b DEF SessionTypeOK
        <3> QED
            BY <1>a, <1>b, <3>1, <3>2 DEF Responded, Fresh, Live
    <2>2. Main \in Threads
        BY DEF Threads
    <2>3. thread'[Main].pc = thread[Main].pc
        BY <1>a, <2>2 DEF Responded
    <2>4. Answer(Main)'.status = "offline" => Answer(Main).status = "offline"
        BY <1>a, <2>2 DEF Responded, Answer
    <2> QED
        BY <2>1, <2>3, <2>4 DEF NotSent, At
<1> QED
    BY <1>1, <1>2, <1>3, <1>4, <1>5, <1>6, <1>7

-----------------------------------------------------------------------------
\* One lemma per action

LEMMA WakeUpInv ==
    ASSUME IInv, NEW b \in Beaters, WakeUp(b)
    PROVE  IInv'
<1> USE DEF IInv
<1>a. PICK new \in {Off, [thread[b] EXCEPT !.pc = "lock"]} :
          thread' = [thread EXCEPT ![b] = new]
    BY DEF WakeUp, Goto, SessionTypeOK
<1>b. [thread[b] EXCEPT !.pc = "lock"] \in ThreadType /\ Off \in ThreadType
    BY ThreadRecords DEF SessionTypeOK, Threads
<1>c. new.pc \in {"off", "lock"}
    BY DEF SessionTypeOK, Threads, ThreadType, Off
<1>1. SessionTypeOK'
    BY <1>a, <1>b DEF SessionTypeOK, Threads, WakeUp, clientVars, serverVars
<1>2. Places'
    BY <1>a, <1>b, <1>c DEF Places, At, Threads, WakeUp, clientVars, serverVars
<1>3. Answerable'
    BY <1>a, <1>b, <1>c DEF Answerable, Awaited, Asked, At, Answer, Threads, WakeUp,
                            clientVars, serverVars
<1>4. Confirmed'
    BY <1>a, <1>b, <1>c DEF Confirmed, At, Answer, Threads, WakeUp, clientVars, serverVars
<1>5. SessionIsLatest'
    BY <1>a, <1>b, <1>c DEF SessionIsLatest, Threads, WakeUp, clientVars, serverVars
<1>6. OneCopy'
    BY <1>a, <1>b, <1>c DEF OneCopy, Live, SessionTypeOK, Threads, WakeUp, clientVars,
                            serverVars
<1>7. NotSent'
    BY <1>a, <1>b, <1>c DEF NotSent, OneCopy, Fresh, Live, At, Answer, SessionTypeOK,
                            Threads, WakeUp, clientVars, serverVars
<1> QED
    BY <1>1, <1>2, <1>3, <1>4, <1>5, <1>6, <1>7

LEMMA CallOrBeatInv ==
    ASSUME IInv, CallOrBeat
    PROVE  IInv'
<1> USE DEF IInv
<1>a. thread' = [thread EXCEPT ![Main] = [thread[Main] EXCEPT !.pc = "lock"]]
    BY DEF CallOrBeat, Goto, SessionTypeOK
<1>b. [thread[Main] EXCEPT !.pc = "lock"] \in ThreadType
    BY ThreadRecords DEF SessionTypeOK, Threads
<1>1. SessionTypeOK'
    BY <1>a, <1>b DEF SessionTypeOK, Threads, CallOrBeat, Begin, NoJob, clientVars,
                      serverVars
<1>2. Places'
    BY <1>a, <1>b DEF Places, At, Threads, CallOrBeat, Begin, NoJob, clientVars, serverVars
<1>3. Answerable'
    BY <1>a, <1>b DEF Answerable, Awaited, Asked, At, Answer, Threads, CallOrBeat, Begin,
                      NoJob, clientVars, serverVars
<1>4. Confirmed'
    BY <1>a, <1>b DEF Confirmed, At, Answer, Threads, CallOrBeat, Begin, NoJob, clientVars,
                      serverVars
<1>5. SessionIsLatest'
    BY <1>a, <1>b DEF SessionIsLatest, Threads, CallOrBeat, Begin, NoJob, clientVars,
                      serverVars
<1>6. OneCopy'
    BY <1>a, <1>b DEF OneCopy, Live, SessionTypeOK, Threads, CallOrBeat, Begin, NoJob,
                      clientVars, serverVars
<1>7. NotSent'
    BY <1>a, <1>b DEF NotSent, OneCopy, Fresh, Live, At, Answer, SessionTypeOK, Threads,
                      CallOrBeat, Begin, NoJob, clientVars, serverVars
<1> QED
    BY <1>1, <1>2, <1>3, <1>4, <1>5, <1>6, <1>7

LEMMA ConnectOrCloseInv ==
    ASSUME IInv, ConnectOrClose
    PROVE  IInv'
<1> USE DEF IInv
<1>1. SessionTypeOK'
    BY StopEffect DEF SessionTypeOK, ConnectOrClose, Begin, NoJob, clientVars, serverVars
<1>2. Places'
    BY StopEffect DEF ConnectOrClose, Places, At, clientVars
<1>3. Answerable'
    BY StopEffect DEF Answerable, Awaited, Asked, At, Answer, Threads, ConnectOrClose,
                      Begin, NoAnswer, NoJob, clientVars, serverVars
<1>4. Confirmed'
    BY StopEffect DEF Confirmed, At, Answer, Threads, ConnectOrClose, Begin, NoAnswer,
                      NoJob, clientVars, serverVars
<1>5. SessionIsLatest'
    BY StopEffect DEF SessionIsLatest, Threads, ConnectOrClose, Begin, NoAnswer, NoJob,
                      clientVars, serverVars
<1>6. OneCopy'
    BY StopEffect DEF OneCopy, Live, SessionTypeOK, Threads, ConnectOrClose, Begin,
                      NoAnswer, NoJob, clientVars, serverVars
<1>7. NotSent'
    BY StopEffect DEF NotSent, OneCopy, Fresh, Live, At, Answer, SessionTypeOK, Threads,
                      ConnectOrClose, Begin, NoAnswer, NoJob, clientVars, serverVars
<1> QED
    BY <1>1, <1>2, <1>3, <1>4, <1>5, <1>6, <1>7

LEMMA CallReconnectsInv ==
    ASSUME IInv, CallReconnects
    PROVE  IInv'
<1> USE DEF IInv
<1>1. SessionTypeOK'
    BY StopEffect DEF SessionTypeOK, CallReconnects, clientVars, serverVars
<1>2. Places'
    BY StopEffect DEF Places, At, Threads, CallReconnects, NoAnswer, clientVars, serverVars
<1>3. Answerable'
    BY StopEffect DEF Answerable, Awaited, Asked, At, Answer, Threads, CallReconnects,
                      NoAnswer, clientVars, serverVars
<1>4. Confirmed'
    BY StopEffect DEF CallReconnects, Confirmed, At, Answer, Threads, clientVars
<1>5. SessionIsLatest'
    BY StopEffect DEF SessionIsLatest, Threads, CallReconnects, NoAnswer, clientVars,
                      serverVars
<1>6. OneCopy'
    BY StopEffect DEF OneCopy, Live, SessionTypeOK, Threads, CallReconnects, NoAnswer,
                      clientVars, serverVars
<1>7. NotSent'
    BY StopEffect DEF NotSent, OneCopy, Fresh, Live, At, Answer, SessionTypeOK, Threads,
                      CallReconnects, NoAnswer, clientVars, serverVars
<1> QED
    BY <1>1, <1>2, <1>3, <1>4, <1>5, <1>6, <1>7

LEMMA CallReturnsInv ==
    ASSUME IInv, CallReturns
    PROVE  IInv'
<1>1. Main \in Threads
    BY DEF Threads
<1>2. Left(Main, request')
    BY <1>1, UnaskedLeft, AbandonedLeft DEF IInv, CallReturns
<1> QED
    BY <1>1, <1>2, EndInv DEF IInv, SessionTypeOK, CallReturns, At, serverVars

LEMMA CallGivesUpInv ==
    ASSUME IInv, CallGivesUp
    PROVE  IInv'
<1>1. Main \in Threads
    BY DEF Threads
<1>2. Left(Main, request')
    BY <1>1, UnaskedLeft DEF IInv, CallGivesUp
<1> QED
    BY <1>1, <1>2, EndInv DEF IInv, SessionTypeOK, CallGivesUp, At, serverVars

LEMMA BeatFailsInv ==
    ASSUME IInv, NEW t \in Threads, BeatFails(t)
    PROVE  IInv'
<1>1. Left(t, request')
    BY UnaskedLeft, AbandonedLeft DEF IInv, BeatFails
<1> QED
    BY <1>1, EndInv DEF BeatFails, At, serverVars

LEMMA FinishInv ==
    ASSUME IInv, NEW r \in Requests, Finish(r)
    PROVE  IInv'
<1> USE DEF IInv
<1>1. SessionTypeOK'
    BY RequestRecords DEF SessionTypeOK, Finish, clientVars, serverVars
<1>2. Places'
    BY DEF Places, At, Threads, Finish, NoRequest, clientVars, serverVars
<1>3. Answerable'
    BY DEF Answerable, Awaited, Asked, At, Answer, Threads, Finish, NoRequest, clientVars,
           serverVars
<1>4. Confirmed'
    BY DEF Confirmed, At, Answer, Threads, Finish, NoRequest, clientVars, serverVars
<1>5. SessionIsLatest'
    BY DEF SessionIsLatest, Threads, Finish, NoRequest, clientVars, serverVars
<1>6. OneCopy'
    BY DEF OneCopy, Live, SessionTypeOK, Threads, Finish, NoRequest, clientVars, serverVars
<1>7. NotSent'
    BY DEF NotSent, OneCopy, Fresh, Live, At, Answer, SessionTypeOK, Threads, Finish,
           NoRequest, clientVars, serverVars
<1> QED
    BY <1>1, <1>2, <1>3, <1>4, <1>5, <1>6, <1>7

LEMMA LapseInv ==
    ASSUME IInv, Lapse
    PROVE  IInv'
<1> USE DEF IInv
<1>1. SessionTypeOK'
    BY DEF SessionTypeOK, Lapse, clientVars, serverVars
<1>2. Places'
    BY DEF Places, At, Threads, Lapse, clientVars, serverVars
<1>3. Answerable'
    BY DEF Answerable, Awaited, Asked, At, Answer, Threads, Lapse, clientVars, serverVars
<1>4. Confirmed'
    BY DEF Confirmed, At, Answer, Threads, Lapse, clientVars, serverVars
<1>5. SessionIsLatest'
    BY DEF SessionIsLatest, Threads, Lapse, clientVars, serverVars
<1>6. OneCopy'
    BY DEF OneCopy, Live, SessionTypeOK, Threads, Lapse, clientVars, serverVars
<1>7. NotSent'
    BY DEF NotSent, OneCopy, Fresh, Live, At, Answer, SessionTypeOK, Threads, Lapse,
           clientVars, serverVars
<1> QED
    BY <1>1, <1>2, <1>3, <1>4, <1>5, <1>6, <1>7

LEMMA ServeInv ==
    ASSUME IInv, NEW r \in Requests, Serve(r)
    PROVE  IInv'
<1> DEFINE ServerType == [ours : Sids \cup {NoSid}, other : Sids \cup {NoSid},
                          online : BOOLEAN]
<1>a. /\ server \in ServerType
      /\ request[r].sid \in Sids \cup {NoSid}
      /\ NoSid \in Sids \cup {NoSid}
      /\ NextSid \in Sids
    BY DEF IInv, SessionTypeOK, RequestType, NextSid, Sids
<1>1. CASE ServeRegister(r)
    <2>1. server' \in ServerType /\ server'.ours \in Sids \cup {NoSid}
        BY <1>1, <1>a DEF ServeRegister
    <2> HIDE DEF ServerType
    <2>2. /\ request[r].pc = "arrived" /\ request[r].kind = "register"
          /\ Respond(r, "ok", server'.ours)
          /\ UNCHANGED <<clientVars, executed>>
        BY <1>1 DEF ServeRegister, Serves
    <2> QED
        BY <2>1, <2>2, RespondInv DEF ServerType
<1>2. CASE ServeBeat(r)
    <2>1. server' \in ServerType
        BY <1>2, <1>a DEF ServeBeat
    <2>2. /\ request[r].pc = "arrived"
          /\ \E status \in {"ok", "unknown"} : Respond(r, status, request[r].sid)
          /\ UNCHANGED <<clientVars, executed>>
        BY <1>2 DEF ServeBeat, Serves
    <2> QED
        BY <1>a, <2>1, <2>2, RespondInv
<1>3. CASE ServeCall(r)
    <2>1. /\ request[r].pc = "arrived" /\ request[r].kind = "call"
          /\ UNCHANGED <<clientVars, server>>
        BY <1>3 DEF ServeCall, Serves
    <2>2. \/ /\ \E status \in {"offline", "unknown"} : Respond(r, status, request[r].sid)
             /\ UNCHANGED executed
          \/ /\ Respond(r, "ok", request[r].sid)
             /\ executed' = [executed EXCEPT ![request[r].op] = @ + 1]
        BY <1>3 DEF ServeCall
    <2>3. CASE /\ \E status \in {"offline", "unknown"} :
                      Respond(r, status, request[r].sid)
               /\ UNCHANGED executed
        BY <1>a, <2>1, <2>3, RespondInv
    <2>4. CASE /\ Respond(r, "ok", request[r].sid)
               /\ executed' = [executed EXCEPT ![request[r].op] = @ + 1]
        BY <2>1, <2>4, CarryOutInv DEF Live
    <2> QED
        BY <2>2, <2>3, <2>4
<1>4. CASE ServeLoad(r)
    <2>1. CASE Respond(r, "ok", NoSid)
        <3>1. server' \in ServerType
            BY <1>4, <1>a DEF ServeLoad
        <3>2. /\ request[r].pc = "arrived" /\ request[r].kind = "load"
              /\ UNCHANGED <<clientVars, executed>>
            BY <1>4 DEF ServeLoad, Serves
        <3> QED
            BY <1>a, <2>1, <3>1, <3>2, RespondInv
    <2>2. CASE UNCHANGED <<server, request, thread>>
        <3>1. UNCHANGED <<clientVars, executed, server, request, thread>>
            BY <1>4, <2>2 DEF ServeLoad
        <3> QED
            BY <3>1, UnchangedInv
    <2> QED
        BY <1>4, <2>1, <2>2 DEF ServeLoad
<1>5. CASE ServeReset(r)
    <2>1. server' \in ServerType
        BY <1>5 DEF ServeReset
    <2>2. /\ request[r].pc = "arrived" /\ request[r].kind = "reset"
          /\ Respond(r, "ok", NoSid)
          /\ UNCHANGED <<clientVars, executed>>
        BY <1>5 DEF ServeReset, Serves
    <2> QED
        BY <1>a, <2>1, <2>2, RespondInv
<1> QED
    BY <1>1, <1>2, <1>3, <1>4, <1>5 DEF Serve

LEMMA ArriveInv ==
    ASSUME IInv, Arrive
    PROVE  IInv'
<1> USE DEF IInv
<1>1. PICK kind \in {"load", "reset"} :
          Deliver(DataHandlers, [NoRequest EXCEPT !.kind = kind], request)
    BY DEF Arrive
<1> DEFINE new == [NoRequest EXCEPT !.kind = kind, !.pc = "arrived"]
<1>2. new \in RequestType /\ new.kind # "call" /\ new.from = None
    <2>0. /\ kind \in {"beat", "register", "call", "load", "reset"}
          /\ 0 \in 0 .. MaxOps /\ NoSid \in Sids \cup {NoSid}
        OBVIOUS
    <2>1. new \in RequestType
        BY <2>0, Messages
    <2>2. new.kind # "call" /\ new.from = None
        BY DEF NoRequest
    <2> QED
        BY <2>1, <2>2
<1> DEFINE q == Chosen(DataHandlers)
<1>3. q \in Requests /\ request[q].pc = "free"
    BY DEF Arrive, Chosen, Free, DataHandlers
<1>4. request' = [request EXCEPT ![q] = new]
    BY <1>1 DEF Deliver, NoRequest
<1> HIDE DEF new, q
<1>5. /\ request' \in [Requests -> RequestType] /\ request'[q] = new
      /\ \A r \in Requests : r # q => request'[r] = request[r]
    BY <1>2, <1>3, <1>4 DEF SessionTypeOK
<1>6. UNCHANGED <<clientVars, server, executed, thread>>
    BY DEF Arrive, serverVars
<1>7. SessionTypeOK'
    BY <1>5, <1>6 DEF SessionTypeOK, clientVars
<1>8. Places' /\ Confirmed' /\ SessionIsLatest'
    BY <1>6 DEF Places, Confirmed, SessionIsLatest, At, Answer, clientVars
<1>9. Answerable'
    BY <1>2, <1>5, <1>6 DEF Answerable, Awaited, Asked, At, Answer, Threads, clientVars
<1>10. OneCopy'
    BY <1>2, <1>5, <1>6 DEF OneCopy, Live, clientVars
<1>11. NotSent'
    BY <1>2, <1>5, <1>6 DEF NotSent, Fresh, Live, At, Answer, clientVars
<1> QED
    BY <1>7, <1>8, <1>9, <1>10, <1>11

LEMMA BeginBeatInv ==
    ASSUME IInv, NEW t \in Threads, BeginBeat(t)
    PROVE  IInv'
<1> DEFINE message == [NoRequest EXCEPT !.kind = "beat", !.sid = session]
<1>1. message \in RequestType /\ message.kind = "beat" /\ message.sid = session
    <2>1. session \in Sids \cup {NoSid}
        BY DEF IInv, SessionTypeOK
    <2>2. message \in RequestType
        <3>1. 0 \in 0 .. MaxOps /\ "beat" \in {"beat", "register", "call", "load", "reset"}
            OBVIOUS
        <3> QED
            BY <2>1, <3>1, Messages
    <2>3. message.kind = "beat" /\ message.sid = session
        BY DEF NoRequest
    <2> QED
        BY <2>2, <2>3
<1>2. Send(t, "beating", BeatHandlers, message, request, thread)
    BY DEF BeginBeat, SendBeat
<1> HIDE DEF message
<1>3. Left(t, request)
    BY UnaskedLeft DEF IInv, BeginBeat, Sent, At
<1>4. /\ At(t, "lock") /\ beatLock' = t
      /\ UNCHANGED <<session, latest, worker, job, ops, server, executed>>
    BY DEF BeginBeat, serverVars
<1>5. job' \in [purpose : {"none", "connect", "call", "beat", "close"},
                attempt : 0 .. Attempts]
    BY <1>4 DEF IInv, SessionTypeOK
<1> QED
    BY <1>1, <1>2, <1>3, <1>4, <1>5, SendInv

LEMMA StoreBeatInv ==
    ASSUME IInv, NEW t \in Threads, StoreBeat(t)
    PROVE  IInv'
<1>1. /\ At(t, "beating") /\ Answer(t).status = "ok" /\ beatLock' = None
      /\ UNCHANGED <<latest, worker, ops, server, executed>>
    BY DEF StoreBeat, serverVars
<1>2. session' = session /\ session' = latest
    BY <1>1 DEF StoreBeat, IInv, Confirmed, SessionIsLatest
<1>3. Left(t, request)
    BY <1>1, UnaskedLeft DEF IInv
<1>4. CASE t = Main /\ job.purpose = "call"
    <2>1. SendCall(session', thread) /\ UNCHANGED job
        BY <1>4 DEF StoreBeat
    <2>2. Fresh
        BY <1>1, <1>4 DEF IInv, NotSent, At
    <2> QED
        BY <1>1, <1>2, <1>3, <1>4, <2>1, <2>2, SendCallInv
            DEF IInv, SessionTypeOK, Places, At
<1>5. CASE ~(t = Main /\ job.purpose = "call")
    <2>1. /\ thread' = Return(t, thread)
          /\ job' = IF t = Main THEN NoJob ELSE job
          /\ UNCHANGED request
        BY <1>5 DEF StoreBeat
    <2> QED
        BY <1>1, <1>2, <1>3, <2>1, EndInv DEF At
<1> QED
    BY <1>4, <1>5

\* A registration is sent when there is no worker.
LEMMA SendRegisterInv ==
    ASSUME IInv, NEW requests, Left(Main, requests), SendRegister(requests),
           At(Main, "join") \/ At(Main, "registering"),
           worker' = None, \A b \in Beaters : At(b, "off"),
           UNCHANGED <<session, latest, beatLock, server, executed, ops>>,
           NEW attempt \in 0 .. Attempts, job' = [job EXCEPT !.attempt = attempt]
    PROVE  IInv'
<1> DEFINE message == [NoRequest EXCEPT !.kind = "register"]
<1>1. message \in RequestType /\ message.kind = "register"
    BY DEF NoRequest, RequestType, NoSid
<1>2. Send(Main, "registering", DataHandlers, message, requests, thread)
    BY DEF SendRegister
<1> HIDE DEF message
<1>3. /\ job' \in [purpose : {"none", "connect", "call", "beat", "close"},
                   attempt : 0 .. Attempts]
      /\ job'.purpose = job.purpose
      /\ beatLock' \in Threads \cup {None}
    BY DEF IInv, SessionTypeOK
<1>4. Main \in Threads /\ DataHandlers \in SUBSET Requests
    BY DEF Threads, DataHandlers
<1> QED
    BY <1>1, <1>2, <1>3, <1>4, SendInv

LEMMA JoinInv ==
    ASSUME IInv, Join
    PROVE  IInv'
<1>1. /\ At(Main, "join") /\ worker' = None
      /\ UNCHANGED <<session, latest, beatLock, ops, server, executed>>
    BY DEF Join, serverVars
<1>2. \A b \in Beaters : At(b, "off")
    BY DEF Join, IInv, Places, SessionTypeOK
<1>3. Main \in Threads
    BY DEF Threads
<1>4. Left(Main, request)
    BY <1>1, <1>3, UnaskedLeft DEF IInv, Sent, At
<1>5. CASE job.purpose = "close"
    <2>1. /\ thread' = Return(Main, thread)
          /\ job' = NoJob
          /\ UNCHANGED request
        BY <1>5 DEF Join, AfterJoin
    <2> QED
        BY <1>1, <1>2, <1>3, <1>4, <2>1, EndInv DEF IInv, SessionTypeOK, At
<1>6. CASE job.purpose # "close"
    <2>1. SendRegister(request) /\ job' = [job EXCEPT !.attempt = 1]
        BY <1>6 DEF Join, AfterJoin
    <2>2. 1 \in 0 .. Attempts
        OBVIOUS
    <2> QED
        BY <1>1, <1>2, <1>4, <2>1, <2>2, SendRegisterInv
<1> QED
    BY <1>5, <1>6

LEMMA RegisterFailsInv ==
    ASSUME IInv, RegisterFails
    PROVE  IInv'
<1>1. /\ At(Main, "registering")
      /\ UNCHANGED <<session, latest, beatLock, worker, ops, server, executed>>
    BY DEF RegisterFails, serverVars
<1>2. worker = None /\ \A b \in Beaters : At(b, "off")
    BY <1>1 DEF IInv, Places
<1>3. Main \in Threads
    BY DEF Threads
<1>4. Left(Main, Abandoned(Main))
    BY <1>3, AbandonedLeft DEF IInv
<1>5. CASE /\ job.attempt < Attempts
           /\ job' = [job EXCEPT !.attempt = @ + 1]
           /\ SendRegister(Abandoned(Main))
    <2>1. job.attempt + 1 \in 0 .. Attempts
        BY <1>5 DEF IInv, SessionTypeOK
    <2> QED
        BY <1>1, <1>2, <1>4, <1>5, <2>1, SendRegisterInv
<1>6. CASE /\ job' = NoJob
           /\ request' = Abandoned(Main)
           /\ thread' = Return(Main, thread)
    BY <1>1, <1>3, <1>4, <1>6, EndInv DEF IInv, SessionTypeOK, At
<1> QED
    BY <1>5, <1>6 DEF RegisterFails

LEMMA RegisteredInv ==
    ASSUME IInv, Registered
    PROVE  IInv'
<1> DEFINE b0 == CHOOSE b \in Beaters : At(b, "off")
           started == [thread EXCEPT ![b0] = Rest]
<1>1. /\ At(Main, "registering") /\ Answer(Main).status = "ok"
      /\ session' = Answer(Main).sid /\ latest' = session' /\ worker' = b0
      /\ UNCHANGED <<beatLock, ops, server, executed>>
    BY DEF Registered, serverVars
<1>2. \A b \in Beaters : At(b, "off")
    BY <1>1 DEF IInv, Places
<1>3. b0 \in Beaters /\ At(b0, "off")
    BY <1>2
<1>4. \/ /\ job.purpose = "call"
         /\ SendCall(session', started)
         /\ UNCHANGED job
      \/ /\ thread' = Return(Main, started)
         /\ job' = NoJob
         /\ UNCHANGED request
    BY DEF Registered
<1> HIDE DEF b0
<1>5. Main \in Threads /\ b0 # Main /\ Beaters \subseteq Threads
    BY <1>3 DEF Threads
<1>6. /\ started \in [Threads -> ThreadType]
      /\ started[b0].pc = "rest"
      /\ \A u \in Threads : u # b0 => started[u] = thread[u]
    BY <1>3, <1>5, ThreadRecords DEF IInv, SessionTypeOK, Rest, Off
<1> HIDE DEF started
<1>7. Left(Main, request)
    BY <1>1, <1>5, UnaskedLeft DEF IInv
<1>8. session' \in Sids \cup {NoSid}
    BY <1>1, <1>5 DEF IInv, SessionTypeOK, ThreadType, Answer
<1>9. CASE job.purpose = "call" /\ SendCall(session', started) /\ UNCHANGED job
    <2>1. Fresh
        BY <1>1, <1>9 DEF IInv, NotSent, At
    <2>2. /\ \A b \in Beaters : \/ started[b] = thread[b]
                                \/ At(b, "off") /\ started[b].pc = "rest"
          /\ \A b \in Beaters : started[b].pc # "off" => b = worker'
          /\ \A b \in Beaters : ~At(b, "beating")
        BY <1>1, <1>2, <1>3, <1>5, <1>6 DEF At
    <2> QED
        BY <1>1, <1>3, <1>6, <1>7, <1>8, <1>9, <2>1, <2>2, SendCallInv
            DEF IInv, SessionTypeOK
<1>10. CASE thread' = Return(Main, started) /\ job' = NoJob /\ UNCHANGED request
    <2> USE DEF IInv
    <2>1. [Rest EXCEPT !.stop = thread[Main].stop] \in ThreadType
          /\ [Rest EXCEPT !.stop = thread[Main].stop].pc = "rest"
        BY <1>5, ThreadRecords DEF SessionTypeOK, Rest, Off
    <2>2. /\ thread' \in [Threads -> ThreadType]
          /\ thread'[Main].pc = "rest" /\ thread'[b0].pc = "rest"
          /\ \A u \in Threads \ {b0, Main} : thread'[u] = thread[u]
        BY <1>3, <1>5, <1>6, <1>10, <2>1 DEF Return
    <2>3. SessionTypeOK'
        BY <1>1, <1>3, <1>8, <1>10, <2>2 DEF SessionTypeOK, NoJob
    <2>4. Places'
        BY <1>1, <1>2, <1>3, <1>5, <2>2 DEF Places, At, Threads
    <2>5. \A u \in Threads : ~Sent(u)'
        BY <1>2, <2>2 DEF Sent, At, Threads
    <2>6. Answerable'
        <3>1. \A r \in Requests, u \in Threads : request[r].from # u
            BY <1>2, <1>5, <1>7 DEF Answerable, Awaited, Asked, At, Left, Threads
        <3> QED
            BY <1>10, <3>1 DEF Answerable
    <2>7. Confirmed' /\ SessionIsLatest'
        BY <1>1, <2>5 DEF Confirmed, SessionIsLatest, Sent, At
    <2>8. OneCopy'
        BY <1>1, <1>10 DEF OneCopy, Live
    <2>9. NotSent'
        BY <1>10, <2>2 DEF NotSent, At, NoJob
    <2> QED
        BY <2>3, <2>4, <2>6, <2>7, <2>8, <2>9
<1> QED
    BY <1>4, <1>9, <1>10

-----------------------------------------------------------------------------
\* The invariant, and the properties it carries

LEMMA SessionNextInv ==
    ASSUME IInv, [Next]_vars
    PROVE  IInv'
<1>1. ASSUME NEW r \in Requests, Handler(r)
      PROVE  IInv'
    <2>1. CASE Enter(r)
        BY <2>1, UnchangedInv DEF Enter, serverVars
    <2> QED
        BY <1>1, <2>1, ServeInv, FinishInv DEF Handler
<1>2. ASSUME NEW t \in Threads, Beat(t)
      PROVE  IInv'
    BY <1>2, BeginBeatInv, StoreBeatInv, BeatFailsInv DEF Beat
<1>3. CASE Foreground
    BY <1>3, JoinInv, RegisteredInv, RegisterFailsInv, CallReturnsInv, CallGivesUpInv,
       CallReconnectsInv DEF Foreground
<1>4. CASE UNCHANGED vars
    BY <1>4, UnchangedInv DEF vars, serverVars
<1> QED
    BY <1>1, <1>2, <1>3, <1>4, ConnectOrCloseInv, CallOrBeatInv, WakeUpInv, LapseInv,
       ArriveInv DEF Next

LEMMA SessionInvariant == Spec => []IInv
<1>1. IInv /\ [Next]_vars => IInv'
    BY SessionNextInv
<1> QED
    BY Start, <1>1, PTL DEF Spec

\* The types of the session, the requests and the counters hold.
THEOREM SessionTypeCorrect == Spec => []SessionTypeOK
<1>1. IInv => SessionTypeOK
    BY DEF IInv
<1> QED
    BY <1>1, SessionInvariant, PTL

\* No heartbeat brings an older SID back, for any number of threads and handlers.
THEOREM SessionIsLatestHolds == Spec => []SessionIsLatest
<1>1. IInv => SessionIsLatest
    BY DEF IInv
<1> QED
    BY <1>1, SessionInvariant, PTL

\* No call is carried out twice, however often it reconnects and is sent again.
THEOREM CarriedOutOnceHolds == Spec => []CarriedOutOnce
<1>1. IInv => CarriedOutOnce
    BY DEF IInv, OneCopy, CarriedOutOnce
<1> QED
    BY <1>1, SessionInvariant, PTL

-----------------------------------------------------------------------------
\* The order of the heartbeats

\* A heartbeat is under way exactly while its thread holds the request lock.
Serial == \A t \in Threads : At(t, "beating") <=> beatLock = t

\* The AS has answered the heartbeat of t, which has not stored it yet.
Told(t) == beatLock = t /\ Answer(t).status # "none"

\* At most one answer waits to be stored, and it is the lock holder's.
OneAnswer ==
    /\ \A t \in Threads : Told(t) => answers = <<t>>
    /\ (\A t \in Threads : ~Told(t)) => answers = <<>>

Ordered == Serial /\ OneAnswer

LEMMA WithoutNothing == ASSUME NEW t PROVE Without(<<>>, t) = <<>>
<1> DEFINE Left0(f) == f = [n \in 0 .. 0 |-> IF n = 0 THEN <<>>
                                             ELSE IF <<>>[n] = t THEN f[n - 1]
                                             ELSE Append(f[n - 1], <<>>[n])]
           left == CHOOSE f : Left0(f)
<1>1. Left0([n \in 0 .. 0 |-> <<>>])
    OBVIOUS
<1>2. Left0(left)
    BY <1>1
<1>3. left[0] = <<>>
    BY <1>2
<1> QED
    BY <1>3 DEF Without

\* The only answer is its thread's own.
LEMMA WithoutOnly == ASSUME NEW t PROVE Without(<<t>>, t) = <<>>
<1> DEFINE Left1(f) == f = [n \in 0 .. 1 |-> IF n = 0 THEN <<>>
                                             ELSE IF <<t>>[n] = t THEN f[n - 1]
                                             ELSE Append(f[n - 1], <<t>>[n])]
           left == CHOOSE f : Left1(f)
<1>1. Left1([n \in 0 .. 1 |-> <<>>])
    OBVIOUS
<1>2. Left1(left)
    BY <1>1
<1>3. left[0] = <<>> /\ left[1] = left[0]
    BY <1>2
<1> QED
    BY <1>3 DEF Without

\* A step that neither starts, answers nor ends a heartbeat.
Aside ==
    /\ UNCHANGED <<beatLock, answers>>
    /\ \A t \in Threads : At(t, "beating")' <=> At(t, "beating")
    /\ \A t \in Threads : At(t, "beating") => Answer(t)' = Answer(t)

LEMMA AsideOrdered ==
    ASSUME Ordered, Aside
    PROVE  Ordered'
<1>1. Serial'
    BY DEF Ordered, Serial, Aside
<1>2. \A t \in Threads : Told(t)' <=> Told(t)
    BY DEF Ordered, Serial, Aside, Told
<1> QED
    BY <1>1, <1>2 DEF Ordered, OneAnswer, Aside

\* Main is not in a heartbeat and sends something else; beaters may be started.
LEMMA SendAside ==
    ASSUME SessionTypeOK, NEW pc \in {"registering", "calling"},
           NEW message \in RequestType, NEW requests \in [Requests -> RequestType],
           NEW threads \in [Threads -> ThreadType],
           Send(Main, pc, DataHandlers, message, requests, threads)
    PROVE  /\ thread'[Main].pc = pc
           /\ \A u \in Threads : u # Main => thread'[u] = threads[u]
<1>1. /\ pc \in {"beating", "registering", "calling"}
      /\ Main \in Threads /\ DataHandlers \in SUBSET Requests
    BY DEF Threads, DataHandlers
<1>2. PICK q : Asks(Main, pc, message, requests, threads, q)
    BY <1>1, SendAsks
<1> QED
    BY <1>2 DEF Asks

LEMMA CallSent ==
    ASSUME IInv, NEW threads \in [Threads -> ThreadType], SendCall(session', threads),
           session' \in Sids \cup {NoSid}
    PROVE  /\ thread'[Main].pc = "calling"
           /\ \A u \in Threads : u # Main => thread'[u] = threads[u]
<1> DEFINE message == [NoRequest EXCEPT !.kind = "call", !.sid = session', !.op = ops]
<1>1. message \in RequestType
    <2>1. ops \in 0 .. MaxOps /\ "call" \in {"beat", "register", "call", "load", "reset"}
        BY DEF IInv, SessionTypeOK
    <2> QED
        BY <2>1, Messages
<1>2. Send(Main, "calling", DataHandlers, message, request, threads)
    BY DEF SendCall
<1> HIDE DEF message
<1> QED
    BY <1>1, <1>2, SendAside DEF IInv, SessionTypeOK

LEMMA RegisterSent ==
    ASSUME IInv, NEW requests \in [Requests -> RequestType], SendRegister(requests)
    PROVE  /\ thread'[Main].pc = "registering"
           /\ \A u \in Threads : u # Main => thread'[u] = thread[u]
<1> DEFINE message == [NoRequest EXCEPT !.kind = "register"]
<1>1. message \in RequestType
    BY DEF NoRequest, RequestType, NoSid
<1>2. Send(Main, "registering", DataHandlers, message, requests, thread)
    BY DEF SendRegister
<1> HIDE DEF message
<1> QED
    BY <1>1, <1>2, SendAside DEF IInv, SessionTypeOK

\* Main leaves and enters places that are none of a heartbeat.
LEMMA MainAside ==
    ASSUME ~At(Main, "beating"), thread'[Main].pc # "beating",
           \A u \in Beaters : \/ thread'[u] = thread[u]
                              \/ At(u, "off") /\ thread'[u].pc = "rest",
           UNCHANGED <<beatLock, answers>>
    PROVE  Aside
BY DEF Aside, At, Answer, Threads

LEMMA StopAside ==
    ASSUME SessionTypeOK, StopWorker, ~At(Main, "beating"), UNCHANGED <<beatLock, answers>>
    PROVE  Aside
BY StopEffect DEF Aside, At, Answer, Threads

LEMMA ForegroundAside ==
    ASSUME IInv, Foreground
    PROVE  Aside
<1>0. /\ Main \in Threads /\ Main \notin Beaters /\ Beaters \subseteq Threads
      /\ thread \in [Threads -> ThreadType]
    BY DEF Threads, IInv, SessionTypeOK
<1>r. ASSUME ~At(Main, "beating"), thread' = Return(Main, thread),
             UNCHANGED <<beatLock, answers>>
      PROVE  Aside
    BY <1>0, <1>r, ReturnEffect, MainAside DEF IInv
<1>1. CASE Join
    <2>1. UNCHANGED <<beatLock, answers>> /\ ~At(Main, "beating")
        BY <1>1 DEF Join, At
    <2>2. CASE thread' = Return(Main, thread)
        BY <1>r, <2>1, <2>2
    <2>3. CASE SendRegister(request)
        BY <1>0, <2>1, <2>3, RegisterSent, MainAside DEF IInv, SessionTypeOK
    <2> QED
        BY <1>1, <2>2, <2>3 DEF Join, AfterJoin
<1>2. CASE Registered
    <2> DEFINE b0 == CHOOSE b \in Beaters : At(b, "off")
               started == [thread EXCEPT ![b0] = Rest]
    <2>1. /\ UNCHANGED <<beatLock, answers>> /\ At(Main, "registering")
          /\ session' = Answer(Main).sid
          /\ SendCall(session', started) \/ thread' = Return(Main, started)
        BY <1>2 DEF Registered
    <2>2. \A b \in Beaters : At(b, "off")
        BY <2>1 DEF IInv, Places
    <2>3. b0 \in Beaters /\ At(b0, "off")
        BY <2>2
    <2> HIDE DEF b0
    <2>4. /\ started \in [Threads -> ThreadType]
          /\ started[b0].pc = "rest"
          /\ \A u \in Threads : u # b0 => started[u] = thread[u]
        BY <1>0, <2>3, ThreadRecords DEF Rest, Off
    <2> HIDE DEF started
    <2>5. session' \in Sids \cup {NoSid}
        BY <1>0, <2>1 DEF ThreadType, Answer
    <2>6. /\ thread'[Main].pc # "beating"
          /\ \A u \in Threads : u # Main => thread'[u] = started[u]
        <3>1. CASE SendCall(session', started)
            BY <2>4, <2>5, <3>1, CallSent
        <3>2. CASE thread' = Return(Main, started)
            BY <1>0, <2>4, <3>2 DEF Return, Rest, Off
        <3> QED
            BY <2>1, <3>1, <3>2
    <2> QED
        BY <1>0, <2>1, <2>3, <2>4, <2>6, MainAside DEF At
<1>3. CASE RegisterFails
    <2>1. UNCHANGED <<beatLock, answers>> /\ ~At(Main, "beating")
        BY <1>3 DEF RegisterFails, At
    <2>2. CASE thread' = Return(Main, thread)
        BY <1>r, <2>1, <2>2
    <2>3. CASE SendRegister(Abandoned(Main))
        <3>1. Abandoned(Main) \in [Requests -> RequestType]
            BY <1>0, AbandonedLeft DEF Left, IInv
        <3> QED
            BY <1>0, <2>1, <2>3, <3>1, RegisterSent, MainAside
    <2> QED
        BY <1>3, <2>2, <2>3 DEF RegisterFails
<1>4. CASE CallReturns \/ CallGivesUp
    BY <1>4, <1>r DEF CallReturns, CallGivesUp, At
<1>5. CASE CallReconnects
    BY <1>5, StopAside DEF IInv, CallReconnects, clientVars, At
<1> QED
    BY <1>1, <1>2, <1>3, <1>4, <1>5 DEF Foreground

\* The lock was free, so no answer was waiting.
LEMMA BeginBeatOrdered ==
    ASSUME IInv, Ordered, NEW t \in Threads, BeginBeat(t)
    PROVE  Ordered'
<1> DEFINE message == [NoRequest EXCEPT !.kind = "beat", !.sid = session]
<1>1. message \in RequestType
    <2>1. 0 \in 0 .. MaxOps /\ "beat" \in {"beat", "register", "call", "load", "reset"}
        OBVIOUS
    <2> QED
        BY <2>1, Messages DEF IInv, SessionTypeOK
<1>2. Send(t, "beating", BeatHandlers, message, request, thread)
    BY DEF BeginBeat, SendBeat
<1> HIDE DEF message
<1>3. "beating" \in {"beating", "registering", "calling"}
    OBVIOUS
<1>4. PICK q : Asks(t, "beating", message, request, thread, q)
    BY <1>1, <1>2, <1>3, SendAsks DEF IInv, SessionTypeOK
<1>5. /\ At(t, "beating")' /\ Answer(t)'.status = "none"
      /\ \A u \in Threads : u # t => thread'[u] = thread[u]
    BY <1>4 DEF Asks, At, Answer
<1>6. beatLock = None /\ beatLock' = t /\ answers' = answers
    BY DEF BeginBeat
<1>7. None \notin Threads
    BY DEF Threads
<1>8. Serial'
    BY <1>5, <1>6, <1>7 DEF Ordered, Serial, At
<1>9. answers = <<>>
    BY <1>6, <1>7 DEF Ordered, OneAnswer, Told
<1>10. \A u \in Threads : ~Told(u)'
    BY <1>5, <1>6 DEF Told
<1> QED
    BY <1>6, <1>8, <1>9, <1>10 DEF Ordered, OneAnswer

\* A heartbeat ends: its answer, if there is one, was the only one.
LEMMA BeatEndsOrdered ==
    ASSUME IInv, Ordered, NEW t \in Threads, At(t, "beating"),
           beatLock' = None, Heard(t),
           thread'[t].pc # "beating", \A u \in Threads : u # t => thread'[u] = thread[u]
    PROVE  Ordered'
<1>1. None \notin Threads
    BY DEF Threads
<1>2. beatLock = t
    BY DEF Ordered, Serial
<1>3. Serial'
    BY <1>1, <1>2 DEF Ordered, Serial, At
<1>4. answers \in {<<>>, <<t>>}
    BY <1>2 DEF Ordered, OneAnswer, Told
<1>5. answers' = <<>>
    BY <1>4, WithoutNothing, WithoutOnly DEF Heard
<1>6. \A u \in Threads : ~Told(u)'
    BY <1>1 DEF Told
<1> QED
    BY <1>3, <1>5, <1>6 DEF Ordered, OneAnswer

LEMMA BeatOrdered ==
    ASSUME IInv, Ordered, NEW t \in Threads, Beat(t)
    PROVE  Ordered'
<1>0. thread \in [Threads -> ThreadType]
    BY DEF IInv, SessionTypeOK
<1>r. ASSUME At(t, "beating"), beatLock' = None, Heard(t), thread' = Return(t, thread)
      PROVE  Ordered'
    BY <1>r, ReturnEffect, BeatEndsOrdered DEF IInv
<1>1. CASE StoreBeat(t)
    <2>1. At(t, "beating") /\ beatLock' = None /\ Heard(t)
        BY <1>1 DEF StoreBeat
    <2>2. CASE t = Main /\ SendCall(session', thread)
        <3>1. session' \in Sids \cup {NoSid}
            BY <1>0, <1>1 DEF StoreBeat, ThreadType, Answer
        <3>2. /\ thread'[Main].pc = "calling"
              /\ \A u \in Threads : u # Main => thread'[u] = thread[u]
            BY <1>0, <2>2, <3>1, CallSent
        <3> QED
            BY <2>1, <2>2, <3>2, BeatEndsOrdered
    <2>3. CASE thread' = Return(t, thread)
        BY <1>r, <2>1, <2>3
    <2> QED
        BY <1>1, <2>2, <2>3 DEF StoreBeat
<1>2. CASE BeatFails(t)
    BY <1>r, <1>2 DEF BeatFails
<1> QED
    BY <1>1, <1>2, BeginBeatOrdered DEF Beat

\* A response is noted when it answers a heartbeat, the only one under way.
LEMMA RespondOrdered ==
    ASSUME IInv, Ordered, NEW r \in Requests, request[r].pc = "arrived",
           NEW status \in {"ok", "offline", "unknown"}, NEW sid \in Sids \cup {NoSid},
           Respond(r, status, sid), UNCHANGED beatLock
    PROVE  Ordered'
<1>1. Responded(r, status, sid)
    BY RespondEffect DEF IInv
<1>2. Serial'
    BY <1>1 DEF Ordered, Serial, Responded, At
<1>3. CASE request[r].from # None /\ request[r].kind = "beat"
    <2>1. PICK t \in Threads : t = request[r].from
        BY <1>3 DEF IInv, SessionTypeOK, RequestType
    <2>2. At(t, "beating") /\ Answer(t).status = "none"
        BY <1>3, <2>1 DEF IInv, Answerable, Awaited, Asked
    <2>3. beatLock = t
        BY <2>1, <2>2 DEF Ordered, Serial
    <2>4. answers = <<>>
        BY <2>2, <2>3 DEF Ordered, OneAnswer, Told
    <2>5. answers' = <<t>>
        BY <1>3, <2>1, <2>4 DEF Respond
    <2>6. Told(t)'
        BY <1>1, <2>1, <2>3 DEF Told, Responded, Answer
    <2>7. \A u \in Threads : Told(u)' => u = t
        BY <2>3 DEF Told
    <2> QED
        BY <1>2, <2>1, <2>5, <2>6, <2>7 DEF Ordered, OneAnswer
<1>4. CASE ~(request[r].from # None /\ request[r].kind = "beat")
    <2>1. answers' = answers
        BY <1>4 DEF Respond
    <2>2. \A u \in Threads : request[r].from = u => ~At(u, "beating")
        BY <1>4 DEF IInv, Answerable, Awaited, Asked, At, Threads
    <2>3. Aside
        BY <1>1, <2>1, <2>2 DEF Aside, Responded, At, Answer
    <2> QED
        BY <2>3, AsideOrdered
<1> QED
    BY <1>3, <1>4

LEMMA ServeOrdered ==
    ASSUME IInv, Ordered, NEW r \in Requests, Serve(r)
    PROVE  Ordered'
<1>1. request[r].pc = "arrived" /\ beatLock' = beatLock
    BY DEF Serve, Serves, ServeRegister, ServeBeat, ServeCall, ServeLoad, ServeReset,
           clientVars
<1>2. /\ request[r].sid \in Sids \cup {NoSid} /\ NoSid \in Sids \cup {NoSid}
      /\ server \in [ours : Sids \cup {NoSid}, other : Sids \cup {NoSid}, online : BOOLEAN]
      /\ NextSid \in Sids
    BY DEF IInv, SessionTypeOK, RequestType, NextSid, Sids
<1>3. CASE ServeRegister(r)
    <2>1. server'.ours \in Sids \cup {NoSid}
        BY <1>2, <1>3 DEF ServeRegister
    <2>2. Respond(r, "ok", server'.ours)
        BY <1>3 DEF ServeRegister
    <2> QED
        BY <1>1, <2>1, <2>2, RespondOrdered
<1>4. CASE ServeBeat(r)
    <2>1. \E status \in {"ok", "unknown"} : Respond(r, status, request[r].sid)
        BY <1>4 DEF ServeBeat
    <2> QED
        BY <1>1, <1>2, <2>1, RespondOrdered
<1>5. CASE ServeCall(r)
    <2>1. \E status \in {"ok", "offline", "unknown"} : Respond(r, status, request[r].sid)
        BY <1>5 DEF ServeCall
    <2> QED
        BY <1>1, <1>2, <2>1, RespondOrdered
<1>6. CASE ServeLoad(r) \/ ServeReset(r)
    <2>1. CASE Respond(r, "ok", NoSid)
        BY <1>1, <1>2, <2>1, RespondOrdered
    <2>2. CASE UNCHANGED <<thread, answers>>
        BY <1>1, <2>2, AsideOrdered DEF Aside, At, Answer
    <2> QED
        BY <1>6, <2>1, <2>2 DEF ServeLoad, ServeReset
<1> QED
    BY <1>3, <1>4, <1>5, <1>6 DEF Serve

LEMMA OrderedNext ==
    ASSUME IInv, Ordered, [Next]_vars
    PROVE  Ordered'
<1>0. /\ Main \in Threads /\ Beaters \subseteq Threads /\ Main \notin Beaters
      /\ thread \in [Threads -> ThreadType]
    BY DEF Threads, IInv, SessionTypeOK
<1>1. ASSUME UNCHANGED <<beatLock, thread, answers>>
      PROVE  Ordered'
    BY <1>1, AsideOrdered DEF Aside, At, Answer
<1>2. ASSUME NEW r \in Requests, Handler(r)
      PROVE  Ordered'
    BY <1>1, <1>2, ServeOrdered DEF Handler, Enter, Finish, clientVars
<1>3. CASE Lapse \/ Arrive \/ UNCHANGED vars
    BY <1>1, <1>3 DEF Lapse, Arrive, clientVars, vars
<1>4. CASE Foreground
    BY <1>4, ForegroundAside, AsideOrdered
<1>5. CASE ConnectOrClose
    BY <1>5, StopAside, AsideOrdered DEF ConnectOrClose, Begin, At, IInv
<1>6. CASE CallOrBeat
    <2>1. Aside
        BY <1>0, <1>6 DEF CallOrBeat, Begin, Goto, Aside, At, Answer, ThreadType
    <2> QED
        BY <2>1, AsideOrdered
<1>7. ASSUME NEW b \in Beaters, WakeUp(b)
      PROVE  Ordered'
    <2>1. /\ At(b, "rest") /\ UNCHANGED <<beatLock, answers>>
          /\ \A u \in Threads : u # b => thread'[u] = thread[u]
        BY <1>0, <1>7 DEF WakeUp, Goto, clientVars
    <2>2. thread'[b].pc # "beating"
        BY <1>0, <1>7 DEF WakeUp, Goto, Off, ThreadType
    <2>3. Aside
        BY <2>1, <2>2 DEF Aside, At, Answer
    <2> QED
        BY <2>3, AsideOrdered
<1> QED
    BY <1>2, <1>3, <1>4, <1>5, <1>6, <1>7, BeatOrdered DEF Next

\* Heartbeats of the worker and of the foreground are stored in the order in
\* which the AS answered them, for any number of threads and handlers.
THEOREM SnapshotsInOrderHolds == Spec => SnapshotsInOrder
<1>1. Init => Ordered
    <2> SUFFICES ASSUME Init
                 PROVE  Ordered
        OBVIOUS
    <2>1. \A t \in Threads : ~At(t, "beating") /\ beatLock # t
        BY DEF Init, At, Threads, Rest, Off
    <2> QED
        BY <2>1 DEF Init, Ordered, Serial, OneAnswer, Told
<1>2. IInv /\ Ordered /\ [Next]_vars => Ordered'
    BY OrderedNext
<1>3. Ordered => \A t \in Threads : StoreBeat(t) => t = Head(answers)
    <2> SUFFICES ASSUME Ordered, NEW t \in Threads, StoreBeat(t)
                 PROVE  t = Head(answers)
        OBVIOUS
    <2>1. At(t, "beating") /\ Answer(t).status = "ok"
        BY DEF StoreBeat
    <2>2. answers = <<t>>
        BY <2>1 DEF Ordered, Serial, OneAnswer, Told
    <2> QED
        BY <2>2
<1>4. Ordered /\ [Next]_vars
          => [\A t \in Threads : StoreBeat(t) => t = Head(answers)]_vars
    BY <1>3
<1> QED
    BY <1>1, <1>2, <1>4, SessionInvariant, PTL DEF Spec, SnapshotsInOrder
=============================================================================
