------------------------- MODULE ModelUpload_proofs -------------------------
(***************************************************************************)
(* Proofs about ModelUpload, for any number of chunks, any tasks and any   *)
(* number of attempts, lost answers and session timeouts.                  *)
(***************************************************************************)
EXTENDS ModelUpload, SequenceTheorems, TLAPS

USE SizeAssumption, BoundsAssumption

-----------------------------------------------------------------------------
\* The inductive invariant

\* The staged upload is a prefix of the checkpoint, whatever was repeated or late.
Prefix == \A c \in 1 .. Len(staged) : staged[c] = c
\* What the client has had acknowledged is staged, until the upload is published.
Acknowledged ==
    client.pc \in {"upload", "wait"} /\ finalizing # "commit" =>
        client.next <= Len(staged) + 1
\* The finalize request runs for a client that waits for it or gave it up.
Awaited == finalizing # "none" => AwaitsFinalize \/ client.pc = "failed"
\* Tasks are committed by the end of the upload, and others hold tasks they took.
Committed == \A t \in Tasks : word[t] = MineCommitted => client.pc \in {"done", "failed"}
Taken == \A t \in Tasks : word[t] \in {Theirs, TheirsCommitted} => taken

\* A claim runs for a client that waits for it or gave it up.
ClaimAwaited == claiming.pc # "none" => client.pc \in {"claiming", "failed"}
\* A free task that no other client has held was released by a sweep that is over.
Released ==
    \A t \in Tasks :
        /\ releases[t] <= drops
        /\ word[t] = Free => taken \/ releases[t] < drops
\* Another client has held a task, or the session has expired a second time.
Excused == taken \/ drops >= 2
\* The task under decision was free, and after the claim it is the client's.
Current ==
    client.pc = "claiming" =>
        \A t \in Tasks :
            Deciding(t) =>
                /\ claiming.pc \in {"claim", "confirm"} => taken \/ releases[t] < drops
                /\ claiming.pc = "confirm" => Excused \/ word[t] = Mine
\* The tasks decided so far are the client's, by the answer.
Decided ==
    client.pc = "claiming" /\ claiming.pc \notin {"none", "arriving"} =>
        \A t \in Tasks \ claiming.todo :
            Excused \/ (t \in claiming.trained /\ t \in claiming.pending)
Answered == claiming.pc = "answered" => claiming.todo = {}

ClaimInv == ClaimAwaited /\ Released /\ Current /\ Decided /\ Answered

IInv ==
    /\ TypeOK
    /\ Prefix /\ Acknowledged /\ Awaited /\ Committed /\ Taken
    /\ ClaimInv
    /\ NeverRejected /\ OutcomeIsTrue

-----------------------------------------------------------------------------
\* Data

Places ==
    {"upload", "wait", "connect", "heartbeat", "claim", "claiming", "reconnect"} \cup Ended
Claims == [pc : {"none", "arriving", "snapshot", "claim", "confirm", "answered"},
           todo : SUBSET Tasks, won : BOOLEAN,
           trained : SUBSET Tasks, pending : SUBSET Tasks]
Client == [pc : Places, next : 1 .. Finalize, attempt : 1 .. Attempts]
Words == {Free, Mine, Theirs, MineCommitted, TheirsCommitted}

LEMMA ClientTyped ==
    ASSUME TypeOK
    PROVE  /\ client \in Client /\ client.pc \in Places
           /\ client.next \in 1 .. Finalize /\ client.attempt \in 1 .. Attempts
BY DEF TypeOK, Client, Places

\* The client moves to another place of the call, and changes nothing else of it.
LEMMA PlaceSet ==
    ASSUME NEW c \in Client, NEW p \in Places
    PROVE  /\ [c EXCEPT !.pc = p] \in Client
           /\ [c EXCEPT !.pc = p].pc = p
           /\ [c EXCEPT !.pc = p].next = c.next
BY DEF Client

LEMMA AtPlace ==
    ASSUME NEW p \in Places
    PROVE  At(p) \in Client /\ At(p).pc = p /\ At(p).next = 1 /\ 1 \in 1 .. Finalize
BY DEF At, Client, Finalize

LEMMA NoClaimTyped ==
    /\ NoClaim \in Claims /\ NoClaim.pc = "none" /\ NoClaim.todo = {}
BY DEF NoClaim, Claims

LEMMA ClaimTyped ==
    ASSUME TypeOK
    PROVE  /\ claiming \in Claims
           /\ claiming.todo \subseteq Tasks /\ claiming.trained \subseteq Tasks
           /\ claiming.pending \subseteq Tasks /\ claiming.won \in BOOLEAN
           /\ word \in [Tasks -> Words] /\ releases \in [Tasks -> 0 .. MaxDrops]
           /\ drops \in 0 .. MaxDrops /\ taken \in BOOLEAN
BY DEF TypeOK, Claims, Words

\* Steps that leave the claim and the pending releases alone: a task is freed only by
\* another client, and one of the waiting client changes hands only to another client.
LEMMA ClaimUndisturbed ==
    ASSUME IInv,
           UNCHANGED <<claiming, releases, drops>>,
           taken => taken',
           client'.pc = "claiming" => client.pc = "claiming",
           claiming.pc # "none" => client'.pc \in {"claiming", "failed"},
           \A t \in Tasks : word'[t] = Free => word[t] = Free \/ taken',
           client.pc = "claiming" =>
               \A t \in Tasks : word[t] = Mine => word'[t] = Mine \/ taken'
    PROVE  ClaimInv'
<1>1. ClaimAwaited' /\ Answered'
    BY DEF IInv, ClaimInv, ClaimAwaited, Answered
<1>2. Released'
    BY DEF IInv, ClaimInv, Released
<1>3. Excused => Excused'
    BY DEF Excused
<1>4. Current'
    BY <1>3 DEF IInv, ClaimInv, Current, Deciding, Excused
<1>5. Decided'
    BY <1>3 DEF IInv, ClaimInv, Decided
<1> QED
    BY <1>1, <1>2, <1>4, <1>5 DEF ClaimInv

\* A chunk that is staged, or is not.
LEMMA ChunkStaged ==
    ASSUME TypeOK, Prefix, NEW c \in 1 .. N
    PROVE  /\ StagedAfter(c) \in Seq(1 .. N) /\ Len(StagedAfter(c)) <= N
           /\ Len(staged) <= Len(StagedAfter(c))
           /\ \A d \in 1 .. Len(StagedAfter(c)) : StagedAfter(c)[d] = d
           /\ Acceptable(c) <=> c <= Len(staged) + 1
           /\ Acceptable(c) => c <= Len(StagedAfter(c))
<1>1. staged \in Seq(1 .. N) /\ Len(staged) \in Nat /\ Len(staged) <= N
    BY LenProperties DEF TypeOK
<1>2. Acceptable(c) <=> c <= Len(staged) + 1
    BY <1>1 DEF Acceptable, Prefix
<1>3. CASE c = Len(staged) + 1
    <2>1. StagedAfter(c) = Append(staged, c)
        BY <1>3 DEF StagedAfter
    <2>2. /\ Append(staged, c) \in Seq(1 .. N)
          /\ Len(Append(staged, c)) = Len(staged) + 1
          /\ \A d \in 1 .. Len(staged) : Append(staged, c)[d] = staged[d]
          /\ Append(staged, c)[Len(staged) + 1] = c
        BY <1>1, AppendProperties
    <2>3. Len(staged) + 1 = c /\ c <= N
        BY <1>3
    <2>4. \A d \in 1 .. Len(staged) + 1 : d \in 1 .. Len(staged) \/ d = c
        BY <1>1, <2>3
    <2>5. \A d \in 1 .. Len(staged) + 1 : Append(staged, c)[d] = d
        BY <2>2, <2>3, <2>4 DEF Prefix
    <2> QED
        BY <1>1, <1>2, <2>1, <2>2, <2>3, <2>5
<1>4. CASE c # Len(staged) + 1
    <2>1. StagedAfter(c) = staged
        BY <1>4 DEF StagedAfter
    <2> QED
        BY <1>1, <1>2, <1>4, <2>1 DEF Prefix
<1> QED
    BY <1>3, <1>4

\* With all chunks staged the upload is complete.
LEMMA AllStaged ==
    ASSUME TypeOK, Prefix, N <= Len(staged)
    PROVE  staged = [c \in 1 .. N |-> c]
<1>1. staged \in Seq(1 .. N) /\ Len(staged) = N
    BY LenProperties DEF TypeOK
<1>2. staged \in [1 .. N -> 1 .. N]
    BY <1>1, LenProperties
<1> QED
    BY <1>1, <1>2 DEF Prefix

LEMMA NothingStaged ==
    ASSUME staged' = <<>>
    PROVE  staged' \in Seq(1 .. N) /\ Len(staged') <= N /\ Len(staged') = 0 /\ Prefix'
<1>1. <<>> \in Seq(1 .. N) /\ Len(<<>>) = 0
    BY EmptySeq
<1> QED
    BY <1>1 DEF Prefix

-----------------------------------------------------------------------------
\* The client's steps

LEMMA UploadStarts == Init => IInv
<1> SUFFICES ASSUME Init
             PROVE  IInv
    OBVIOUS
<1>1. staged \in Seq(1 .. N) /\ Len(staged) = 0
    BY EmptySeq DEF Init
<1>2. client = At("upload") /\ claiming = NoClaim
    BY DEF Init
<1>3. /\ client \in Client /\ client.pc = "upload" /\ client.next = 1
      /\ claiming \in Claims /\ claiming.pc = "none"
    BY <1>2, AtPlace, NoClaimTyped DEF Places
<1>4. TypeOK
    <2>1. word \in [Tasks -> {Free, Mine, Theirs, MineCommitted, TheirsCommitted}]
        BY DEF Init
    <2>2. staged \in Seq(1 .. N) /\ Len(staged) <= N
        BY <1>1
    <2>3. inflight \subseteq [chunk : 1 .. N, id : 0 .. MaxLosses] /\ train \subseteq Tasks
        BY DEF Init
    <2>4. {accepted, online, taken} \subseteq BOOLEAN
        BY DEF Init
    <2>5. drops \in 0 .. MaxDrops /\ losses \in 0 .. MaxLosses
          /\ releases \in [Tasks -> 0 .. MaxDrops]
        BY DEF Init
    <2>6. finalizing = "none"
        BY DEF Init
    <2> QED
        BY <1>3, <2>1, <2>2, <2>3, <2>4, <2>5, <2>6 DEF TypeOK, Client, Places, Claims
<1>5. Prefix /\ Acknowledged /\ Awaited
    BY <1>1, <1>3 DEF Init, Prefix, Acknowledged, Awaited
<1>6. Committed /\ Taken
    BY DEF Init, Committed, Taken, Mine, MineCommitted, Theirs, TheirsCommitted
<1>7. NeverRejected /\ OutcomeIsTrue
    BY <1>3 DEF NeverRejected, OutcomeIsTrue
<1>8. Released
    BY DEF Init, Released, Mine, Free
<1>9. ClaimInv
    BY <1>3, <1>8 DEF ClaimInv, ClaimAwaited, Current, Decided, Answered
<1> QED
    BY <1>4, <1>5, <1>6, <1>7, <1>9 DEF IInv

\* A step of the client that leaves the staged upload alone: the upload goes on where
\* it was, starts over, or ends without success.
LEMMA ClientMoves ==
    ASSUME IInv, client' \in Client,
           finalizing' \in {"none", "arriving", "check", "publish", "commit"},
           finalizing' # "none" => AwaitsFinalize' \/ client'.pc = "failed",
           \/ client'.pc \notin {"upload", "wait"}
           \/ client'.next = 1
           \/ /\ client.pc \in {"upload", "wait"} /\ client'.next = client.next
              /\ finalizing' # "commit" => finalizing # "commit",
           client'.pc \notin {"done", "rejected"},
           client'.pc = "lost" => Excused \/ client.pc = "lost",
           client.pc = "failed" => client'.pc = "failed", client.pc # "done",
           train' \subseteq Tasks,
           inflight' \subseteq [chunk : 1 .. N, id : 0 .. MaxLosses],
           online' \in BOOLEAN, losses' \in 0 .. MaxLosses,
           UNCHANGED <<staged, accepted, releases, drops, taken>>,
           claiming' \in Claims, ClaimInv',
           word' \in [Tasks -> Words],
           \A t \in Tasks : word'[t] # word[t] => word'[t] = Mine
    PROVE  IInv'
<1>1. TypeOK'
    BY DEF IInv, TypeOK, Client, Places, Words, Claims
<1>2. Prefix'
    BY DEF IInv, Prefix
<1>3. Acknowledged'
    <2>1. Len(staged) \in Nat
        BY LenProperties DEF IInv, TypeOK
    <2> QED
        BY <2>1 DEF IInv, Acknowledged
<1>4. Awaited'
    BY DEF Awaited
<1>5. Committed'
    BY DEF IInv, Committed, Mine, MineCommitted
<1>6. Taken'
    BY DEF IInv, Taken, Mine, Theirs, TheirsCommitted
<1>7. NeverRejected' /\ OutcomeIsTrue'
    BY DEF IInv, NeverRejected, OutcomeIsTrue, Excused
<1> QED
    BY <1>1, <1>2, <1>3, <1>4, <1>5, <1>6, <1>7 DEF IInv

LEMMA InstructMoves ==
    ASSUME TypeOK, Instruct
    PROVE  /\ train' \subseteq Tasks /\ online' \in BOOLEAN
           /\ word' \in [Tasks -> Words]
           /\ \A t \in Tasks : word'[t] # word[t] => word'[t] = Mine
           /\ UNCHANGED <<inflight, finalizing, staged, accepted, claiming, releases, drops,
                          losses, taken>>
<1>1. UNCHANGED <<inflight, finalizing, staged, accepted, claiming, releases, drops, losses,
                  taken>>
    BY DEF Instruct, uploadVars, faultVars
<1>2. word \in [Tasks -> Words] /\ online \in BOOLEAN
    BY DEF TypeOK, Words
<1>3. online' \in BOOLEAN
    BY <1>2 DEF Instruct
<1>4. CASE UNCHANGED word /\ train' = {}
    <2>1. train' \subseteq Tasks /\ word' = word
        BY <1>4
    <2> QED
        BY <1>1, <1>2, <1>3, <2>1
<1>5. CASE \E W \in SUBSET {t \in Tasks : word[t] = Free} :
               word' = [t \in Tasks |-> IF t \in W THEN Mine ELSE word[t]]
    <2>1. word' \in [Tasks -> Words]
        BY <1>2, <1>5 DEF Words
    <2>2. \A t \in Tasks : word'[t] # word[t] => word'[t] = Mine
        BY <1>2, <1>5
    <2>3. train' \subseteq Tasks
        BY <1>5 DEF Instruct
    <2> QED
        BY <1>1, <1>3, <2>1, <2>2, <2>3
<1> QED
    BY <1>4, <1>5 DEF Instruct

LEMMA SendStep ==
    ASSUME IInv, Send
    PROVE  IInv'
<1> USE DEF uploadVars, faultVars
<1>1. /\ client \in Client /\ client.next \in 1 .. Finalize /\ client.pc = "upload"
    BY ClientTyped DEF IInv, Send
<1>2. client' = [client EXCEPT !.pc = "wait"]
    BY DEF Send
<1>3. client' \in Client /\ client'.pc = "wait" /\ client'.next = client.next
    BY <1>1, <1>2, PlaceSet DEF Places
<1>4. finalizing = "none"
    BY <1>1 DEF IInv, Awaited, AwaitsFinalize
<1>5. finalizing' \in {"none", "arriving"} /\ (finalizing' # "none" => AwaitsFinalize')
    BY <1>3, <1>4 DEF Send, AwaitsFinalize
<1>6. inflight' \subseteq [chunk : 1 .. N, id : 0 .. MaxLosses]
    <2>1. client.next # Finalize => client.next \in 1 .. N
        BY <1>1 DEF Finalize
    <2>2. losses \in 0 .. MaxLosses /\ inflight \subseteq [chunk : 1 .. N, id : 0 .. MaxLosses]
        BY DEF IInv, TypeOK
    <2> QED
        BY <2>1, <2>2 DEF Send
<1>7. word \in [Tasks -> Words] /\ train \subseteq Tasks /\ online \in BOOLEAN
      /\ losses \in 0 .. MaxLosses
    BY DEF IInv, TypeOK, Words
<1>8. UNCHANGED <<train, staged, accepted, claiming, word, online, releases, drops, losses,
                  taken>>
    BY DEF Send
<1>9. claiming' \in Claims /\ ClaimInv'
    <2>1. claiming.pc = "none"
        BY <1>1 DEF IInv, ClaimInv, ClaimAwaited
    <2> QED
        BY <1>1, <1>3, <1>8, <2>1, ClaimTyped, ClaimUndisturbed DEF IInv
<1> QED
    BY <1>1, <1>3, <1>4, <1>5, <1>6, <1>7, <1>8, <1>9, ClientMoves

LEMMA GiveUpStep ==
    ASSUME IInv, Timeout \/ Abandon
    PROVE  IInv'
<1> USE DEF uploadVars, faultVars
<1>1. /\ client \in Client /\ client.attempt \in 1 .. Attempts
      /\ client.pc \in {"wait", "connect", "heartbeat", "claim", "claiming", "reconnect"}
    BY ClientTyped DEF IInv, Timeout, Abandon
<1>2. losses' \in 0 .. MaxLosses
    <2>1. losses < MaxLosses /\ losses' = losses + 1
        BY DEF Timeout, Abandon
    <2> QED
        BY <2>1 DEF IInv, TypeOK
<1>3. UNCHANGED <<train, inflight, finalizing, staged, accepted, claiming, word, online,
                  releases, drops, taken>>
    BY DEF Timeout, Abandon
<1>4. word \in [Tasks -> Words] /\ train \subseteq Tasks /\ online \in BOOLEAN
      /\ inflight \subseteq [chunk : 1 .. N, id : 0 .. MaxLosses]
      /\ finalizing \in {"none", "arriving", "check", "publish", "commit"}
      /\ claiming \in Claims
    BY ClaimTyped DEF IInv, TypeOK, Words
<1>5. CASE client' = At("failed")
    <2>1. client' \in Client /\ client'.pc = "failed"
        BY <1>5, AtPlace DEF Places, Ended
    <2>2. ClaimInv'
        BY <1>3, <2>1, ClaimUndisturbed
    <2> QED
        BY <1>1, <1>2, <1>3, <1>4, <2>1, <2>2, ClientMoves
<1>6. CASE client' # At("failed")
    <2>1. /\ client' = [client EXCEPT !.pc = "upload", !.attempt = @ + 1]
          /\ client.pc = "wait" /\ client.next # Finalize /\ client.attempt # Attempts
        BY <1>6 DEF Timeout, Abandon
    <2>2. client.attempt + 1 \in 1 .. Attempts
        BY <1>1, <2>1
    <2>3. client' \in Client /\ client'.pc = "upload" /\ client'.next = client.next
        BY <1>1, <2>1, <2>2 DEF Client, Places
    <2>4. finalizing = "none" /\ claiming.pc = "none"
        BY <2>1 DEF IInv, Awaited, AwaitsFinalize, ClaimInv, ClaimAwaited
    <2>5. ClaimInv'
        BY <1>3, <2>1, <2>3, <2>4, ClaimUndisturbed
    <2> QED
        BY <1>2, <1>3, <1>4, <2>1, <2>3, <2>4, <2>5, ClientMoves
<1> QED
    BY <1>5, <1>6

LEMMA RecoveryStep ==
    ASSUME IInv, Connect \/ Refresh \/ WorkerHeartbeat \/ Claim
    PROVE  IInv'
<1> USE DEF uploadVars, faultVars
<1>1. client \in Client /\ client.pc \notin Ended
    BY ClientTyped DEF IInv, Connect, Refresh, WorkerHeartbeat, Claim, Ended
<1>2. /\ word \in [Tasks -> Words] /\ train \subseteq Tasks /\ online \in BOOLEAN
      /\ inflight \subseteq [chunk : 1 .. N, id : 0 .. MaxLosses]
      /\ finalizing \in {"none", "arriving", "check", "publish", "commit"}
      /\ losses \in 0 .. MaxLosses /\ claiming \in Claims
    BY ClaimTyped DEF IInv, TypeOK, Words
<1>3. finalizing # "none" => AwaitsFinalize
    BY <1>1 DEF IInv, Awaited, Ended
<1>4. CASE Connect
    <2>1. client' \in Client /\ client'.pc \in {"heartbeat", "claim"}
          /\ client.pc \in {"connect", "reconnect"}
        BY <1>4, AtPlace DEF Connect, Places
    <2>2. finalizing = "none" /\ claiming.pc = "none"
        BY <1>3, <2>1 DEF AwaitsFinalize, IInv, ClaimInv, ClaimAwaited
    <2>3. online' \in BOOLEAN
          /\ UNCHANGED <<train, inflight, finalizing, staged, accepted, claiming, word, releases,
                         drops, losses, taken>>
        BY <1>4 DEF Connect
    <2>4. ClaimInv'
        BY <2>1, <2>2, <2>3, ClaimUndisturbed
    <2> QED
        BY <1>2, <2>1, <2>2, <2>3, <2>4, ClientMoves
<1>5. ASSUME Instruct, client' \in Client, client'.pc = client.pc \/ client'.pc = "claim",
             client'.pc = "claim" => client' = client \/ client.pc = "heartbeat",
             client'.pc # "claim" => client' = client
      PROVE  IInv'
    <2>1. /\ train' \subseteq Tasks /\ online' \in BOOLEAN
          /\ word' \in [Tasks -> Words]
          /\ \A t \in Tasks : word'[t] # word[t] => word'[t] = Mine
          /\ UNCHANGED <<inflight, finalizing, staged, accepted, claiming, releases, drops,
                         losses, taken>>
        BY <1>5, InstructMoves DEF IInv
    <2>2. finalizing' # "none" => AwaitsFinalize'
        BY <1>3, <1>5, <2>1 DEF AwaitsFinalize
    <2>3. ClaimInv'
        <3>1. \A t \in Tasks : word'[t] = Free => word[t] = Free
            BY <2>1 DEF Mine, Free
        <3>2. claiming.pc # "none" => client' = client
            BY <1>5 DEF IInv, ClaimInv, ClaimAwaited
        <3>3. claiming.pc # "none" => client'.pc \in {"claiming", "failed"}
            BY <3>2 DEF IInv, ClaimInv, ClaimAwaited
        <3>4. client'.pc = "claiming" => client.pc = "claiming"
            BY <1>5
        <3> QED
            BY <2>1, <3>1, <3>3, <3>4, ClaimUndisturbed
    <2> QED
        BY <1>1, <1>2, <1>5, <2>1, <2>2, <2>3, ClientMoves DEF Ended
<1>6. CASE Refresh
    <2>1. client' \in Client /\ client'.pc = "claim" /\ client.pc = "heartbeat" /\ Instruct
        BY <1>6, AtPlace DEF Refresh, Places
    <2> QED
        BY <1>5, <2>1
<1>7. CASE WorkerHeartbeat
    <2>1. client' = client /\ Instruct
        BY <1>7 DEF WorkerHeartbeat
    <2> QED
        BY <1>1, <1>5, <2>1
<1>8. CASE Claim
    <2>1. client' \in Client /\ client'.pc = "claiming" /\ client.pc = "claim"
        BY <1>8, AtPlace DEF Claim, Places
    <2>2. finalizing = "none"
        BY <1>3, <2>1 DEF AwaitsFinalize
    <2>3. UNCHANGED <<train, inflight, finalizing, staged, accepted, word, online, releases,
                      drops, losses, taken>>
        BY <1>8 DEF Claim
    <2>4. claiming' \in Claims /\ claiming'.pc = "arriving" /\ claiming'.todo = {}
        BY <1>8, NoClaimTyped DEF Claim, Claims
    <2>5. ClaimInv'
        <3>1. ClaimAwaited' /\ Answered' /\ Decided'
            BY <2>1, <2>4 DEF ClaimAwaited, Answered, Decided
        <3>2. Released'
            BY <2>3 DEF IInv, ClaimInv, Released
        <3>3. Current'
            BY <2>4 DEF Current
        <3> QED
            BY <3>1, <3>2, <3>3 DEF ClaimInv
    <2> QED
        BY <1>2, <2>1, <2>2, <2>3, <2>4, <2>5, ClientMoves
<1> QED
    BY <1>4, <1>6, <1>7, <1>8

-----------------------------------------------------------------------------
\* The server's steps

LEMMA Proceeding ==
    ASSUME client \in Client
    PROVE  /\ client.next = Finalize => Proceed("ack") = At("done")
           /\ client.next # Finalize =>
                 Proceed("ack") = [client EXCEPT !.pc = "upload", !.next = @ + 1, !.attempt = 1]
           /\ Proceed("sid_offline") = At("connect")
           /\ Proceed("task_not_pending") = At("connect")
           /\ Proceed("taken_over") = At("lost")
           /\ Proceed("invalid_model_upload") = At("rejected")
           /\ Proceed("task_commit_failed") = At("failed")
BY DEF Proceed

\* A chunk is stored, or was, or is refused to a client that is offline; one the
\* client waits for is never one the store rejects.
LEMMA ChunkStep ==
    ASSUME IInv, NEW r \in inflight, HandleChunk(r)
    PROVE  IInv'
<1> USE DEF faultVars
<1>1. /\ client \in Client /\ client.next \in 1 .. Finalize
      /\ r.chunk \in 1 .. N /\ inflight \subseteq [chunk : 1 .. N, id : 0 .. MaxLosses]
    BY ClientTyped DEF IInv, TypeOK
<1>2. UNCHANGED <<train, finalizing, accepted, claiming, word, online, releases, drops, losses,
                  taken>>
      /\ inflight' \subseteq inflight
    BY DEF HandleChunk
<1>3. /\ staged' \in Seq(1 .. N) /\ Len(staged') <= N
      /\ Len(staged) \in Nat /\ Len(staged') \in Nat
      /\ Len(staged) <= Len(staged') /\ Prefix'
    <2>1. staged \in Seq(1 .. N) /\ Len(staged) <= N
        BY DEF IInv, TypeOK
    <2>2. CASE online
        <3>1. staged' = StagedAfter(r.chunk)
            BY <2>2 DEF HandleChunk
        <3>2. /\ StagedAfter(r.chunk) \in Seq(1 .. N) /\ Len(StagedAfter(r.chunk)) <= N
              /\ Len(staged) <= Len(StagedAfter(r.chunk))
              /\ \A d \in 1 .. Len(StagedAfter(r.chunk)) : StagedAfter(r.chunk)[d] = d
            BY <1>1, ChunkStaged DEF IInv
        <3> QED
            BY <2>1, <3>1, <3>2, LenProperties DEF Prefix
    <2>3. CASE ~online
        <3>1. staged' = staged
            BY <2>3 DEF HandleChunk
        <3> QED
            BY <2>1, <3>1, LenProperties DEF IInv, Prefix
    <2> QED
        BY <2>2, <2>3
<1>4. ASSUME client' \in Client,
             finalizing # "none" => AwaitsFinalize' \/ client'.pc = "failed",
             client'.pc \in {"upload", "wait"} /\ finalizing # "commit" =>
                 client'.next <= Len(staged') + 1,
             client.pc = "failed" => client'.pc = "failed",
             client'.pc # "rejected",
             client'.pc \in {"done", "lost"} => client'.pc = client.pc,
             client.pc = "done" => client'.pc = "done",
             client' = client \/ (client.pc = "wait" /\ client'.pc # "claiming")
      PROVE  IInv'
    <2>1. TypeOK'
        BY <1>1, <1>2, <1>3, <1>4 DEF IInv, TypeOK, Client, Places
    <2>2. Acknowledged' /\ Awaited'
        BY <1>2, <1>4 DEF Acknowledged, Awaited
    <2>3. Committed' /\ Taken'
        BY <1>2, <1>4 DEF IInv, Committed, Taken
    <2>4. NeverRejected' /\ OutcomeIsTrue'
        BY <1>2, <1>4 DEF IInv, NeverRejected, OutcomeIsTrue
    <2>5. ClaimInv'
        <3>1. claiming.pc # "none" => client' = client /\ client.pc \in {"claiming", "failed"}
            BY <1>4 DEF IInv, ClaimInv, ClaimAwaited
        <3> QED
            BY <1>2, <1>4, <3>1, ClaimUndisturbed
    <2> QED
        BY <1>3, <2>1, <2>2, <2>3, <2>4, <2>5 DEF IInv
<1>5. CASE ~Awaits(r)
    <2>1. client' = client
        BY <1>5 DEF HandleChunk
    <2>2. client.pc \in {"upload", "wait"} /\ finalizing # "commit" =>
              client.next <= Len(staged') + 1
        BY <1>1, <1>3 DEF IInv, Acknowledged
    <2>3. finalizing # "none" => AwaitsFinalize' \/ client'.pc = "failed"
        BY <2>1 DEF IInv, Awaited, AwaitsFinalize
    <2> QED
        BY <1>1, <1>4, <2>1, <2>2, <2>3 DEF IInv, NeverRejected
<1>6. CASE Awaits(r)
    <2>1. client.pc = "wait" /\ client.next = r.chunk
        BY <1>6 DEF Awaits
    <2>2. client.next # Finalize /\ client.next + 1 \in 1 .. Finalize
        BY <1>1, <2>1 DEF Finalize
    <2>3. finalizing = "none"
        BY <2>1, <2>2 DEF IInv, Awaited, AwaitsFinalize
    <2>4. CASE ~online
        <3>1. client' = At("connect")
            BY <1>1, <1>6, <2>4, Proceeding DEF HandleChunk
        <3>2. client' \in Client /\ client'.pc = "connect"
            BY <3>1, AtPlace DEF Places
        <3> QED
            BY <1>4, <2>1, <2>3, <3>2
    <2>5. CASE online
        <3>1. r.chunk <= Len(staged) + 1
            BY <2>1, <2>3 DEF IInv, Acknowledged
        <3>2. Acceptable(r.chunk) /\ r.chunk <= Len(StagedAfter(r.chunk))
            BY <1>1, <3>1, ChunkStaged DEF IInv
        <3>3. /\ client' = Proceed("ack") /\ staged' = StagedAfter(r.chunk)
            BY <1>6, <2>5, <3>2 DEF HandleChunk
        <3>4. client' = [client EXCEPT !.pc = "upload", !.next = @ + 1, !.attempt = 1]
            BY <1>1, <2>2, <3>3, Proceeding
        <3>5. client' \in Client /\ client'.pc = "upload" /\ client'.next = client.next + 1
            <4>1. 1 \in 1 .. Attempts /\ "upload" \in Places
                BY DEF Places
            <4> QED
                BY <1>1, <2>2, <3>4, <4>1 DEF Client
        <3>6. client'.next <= Len(staged') + 1
            BY <1>1, <1>3, <2>1, <3>2, <3>3, <3>5
        <3> QED
            BY <1>4, <2>1, <2>3, <3>5, <3>6
    <2> QED
        BY <2>4, <2>5
<1> QED
    BY <1>5, <1>6

\* What the end of the finalize handler leaves, for an answer the client may get: the
\* client that waits takes it, one that gave up stays as it is.
LEMMA AnswerMoves ==
    ASSUME IInv, NEW answer, Answer(answer), finalizing # "none",
           NEW p \in Places, client.next = Finalize => Proceed(answer) = At(p)
    PROVE  /\ client' \in Client /\ finalizing' = "none"
           /\ client'.pc = IF AwaitsFinalize THEN p ELSE "failed"
           /\ client.pc \in {"wait", "failed"}
<1>1. client \in Client
    BY ClientTyped DEF IInv
<1>2. AwaitsFinalize \/ client.pc = "failed"
    BY DEF IInv, Awaited
<1>3. CASE AwaitsFinalize
    <2>1. client' = At(p)
        BY <1>3 DEF Answer, AwaitsFinalize
    <2> QED
        BY <1>3, <2>1, AtPlace DEF Answer, AwaitsFinalize
<1>4. CASE ~AwaitsFinalize
    BY <1>1, <1>2, <1>4 DEF Answer
<1> QED
    BY <1>3, <1>4

\* A finalize step that commits nothing: it goes on for the same client, or ends with
\* an answer that reports no success.
LEMMA FinalizeMoves ==
    ASSUME IInv, finalizing # "none", finalizing # "commit",
           client' \in Client,
           \/ /\ finalizing' \in {"check", "publish", "commit"} /\ client' = client
              /\ staged' = staged \/ finalizing' = "commit"
           \/ /\ finalizing' = "none" /\ client'.pc \in {"connect", "lost", "failed"}
              /\ client'.pc = "lost" => taken
              /\ client.pc = "failed" => client'.pc = "failed",
           staged' = staged \/ staged' = <<>>,
           UNCHANGED <<train, inflight, accepted, claiming, word, online, releases, drops, losses,
                       taken>>
    PROVE  IInv'
<1>1. client.pc \in {"wait", "failed"} /\ client \in Client
    BY ClientTyped DEF IInv, Awaited, AwaitsFinalize
<1>2. staged' \in Seq(1 .. N) /\ Len(staged') <= N /\ Prefix'
    BY NothingStaged DEF IInv, TypeOK, Prefix
<1>3. TypeOK'
    BY <1>2 DEF IInv, TypeOK, Client, Places
<1>4. Acknowledged' /\ Awaited'
    BY <1>1 DEF IInv, Acknowledged, Awaited, AwaitsFinalize
<1>5. Committed' /\ Taken'
    BY <1>1 DEF IInv, Committed, Taken
<1>6. NeverRejected' /\ OutcomeIsTrue'
    BY <1>1 DEF IInv, NeverRejected, OutcomeIsTrue
<1>7. ClaimInv'
    <2>1. claiming.pc # "none" => client.pc = "failed"
        BY <1>1 DEF IInv, ClaimInv, ClaimAwaited
    <2> QED
        BY <1>1, <2>1, ClaimUndisturbed
<1> QED
    BY <1>2, <1>3, <1>4, <1>5, <1>6, <1>7 DEF IInv

LEMMA FinalizeArrivesStep ==
    ASSUME IInv, FinalizeArrives
    PROVE  IInv'
<1> USE DEF faultVars
<1>1. finalizing = "arriving" /\ client \in Client
      /\ UNCHANGED <<train, inflight, staged, accepted, claiming, word, online, releases, drops,
                     losses, taken>>
    BY ClientTyped DEF IInv, FinalizeArrives
<1>2. CASE online
    BY <1>1, <1>2, FinalizeMoves DEF FinalizeArrives
<1>3. CASE ~online
    <2>1. Answer("sid_offline") /\ Proceed("sid_offline") = At("connect")
        BY <1>1, <1>3, Proceeding DEF FinalizeArrives
    <2>2. "connect" \in Places
        BY DEF Places
    <2>3. /\ client' \in Client /\ finalizing' = "none"
          /\ client'.pc = IF AwaitsFinalize THEN "connect" ELSE "failed"
          /\ client.pc \in {"wait", "failed"}
        BY <1>1, <2>1, <2>2, AnswerMoves
    <2> QED
        BY <1>1, <2>3, FinalizeMoves DEF AwaitsFinalize
<1> QED
    BY <1>2, <1>3

LEMMA FinalizeCheckStep ==
    ASSUME IInv, FinalizeCheck
    PROVE  IInv'
<1> USE DEF faultVars
<1>1. finalizing = "check" /\ client \in Client
      /\ UNCHANGED <<train, inflight, accepted, claiming, word, online, releases, drops, losses,
                     taken>>
    BY ClientTyped DEF IInv, FinalizeCheck
<1>2. CASE \A t \in Tasks : word[t] = Mine
    BY <1>1, <1>2, FinalizeMoves DEF FinalizeCheck
<1>3. CASE ~(\A t \in Tasks : word[t] = Mine)
    <2>1. staged' = <<>>
        BY <1>3 DEF FinalizeCheck
    <2>2. \/ Answer("task_not_pending")
          \/ (\E t \in Tasks : word[t] \in {Theirs, TheirsCommitted}) /\ Answer("taken_over")
        BY <1>3 DEF FinalizeCheck
    <2>3. {"connect", "lost"} \subseteq Places
        BY DEF Places, Ended
    <2>4. CASE Answer("task_not_pending")
        <3>1. /\ client' \in Client /\ finalizing' = "none"
              /\ client'.pc = IF AwaitsFinalize THEN "connect" ELSE "failed"
              /\ client.pc \in {"wait", "failed"}
            BY <1>1, <2>3, <2>4, Proceeding, AnswerMoves
        <3> QED
            BY <1>1, <2>1, <3>1, FinalizeMoves DEF AwaitsFinalize
    <2>5. CASE (\E t \in Tasks : word[t] \in {Theirs, TheirsCommitted}) /\ Answer("taken_over")
        <3>1. /\ client' \in Client /\ finalizing' = "none"
              /\ client'.pc = IF AwaitsFinalize THEN "lost" ELSE "failed"
              /\ client.pc \in {"wait", "failed"}
            BY <1>1, <2>3, <2>5, Proceeding, AnswerMoves
        <3>2. taken
            BY <2>5 DEF IInv, Taken
        <3> QED
            BY <1>1, <2>1, <3>1, <3>2, FinalizeMoves DEF AwaitsFinalize
    <2> QED
        BY <2>2, <2>4, <2>5
<1> QED
    BY <1>2, <1>3

LEMMA FinalizePublishStep ==
    ASSUME IInv, FinalizePublish
    PROVE  IInv'
<1> USE DEF faultVars
<1>1. finalizing = "publish" /\ client \in Client
      /\ UNCHANGED <<train, inflight, accepted, claiming, word, online, releases, drops, losses,
                     taken>>
    BY ClientTyped DEF IInv, FinalizePublish
<1>2. CASE staged = [c \in 1 .. N |-> c]
    BY <1>1, <1>2, FinalizeMoves DEF FinalizePublish
<1>3. CASE staged # [c \in 1 .. N |-> c]
    <2>1. ~AwaitsFinalize
        <3>1. ~(N <= Len(staged))
            BY <1>3, AllStaged DEF IInv
        <3>2. Len(staged) \in Nat
            BY LenProperties DEF IInv, TypeOK
        <3> QED
            BY <1>1, <3>1, <3>2 DEF IInv, Acknowledged, AwaitsFinalize, Finalize
    <2>2. client' = client /\ finalizing' = "none" /\ client.pc = "failed"
        BY <1>1, <1>3, <2>1 DEF FinalizePublish, Answer, IInv, Awaited
    <2>3. staged' = staged \/ staged' = <<>>
        BY <1>3 DEF FinalizePublish
    <2> QED
        BY <1>1, <2>2, <2>3, FinalizeMoves
<1> QED
    BY <1>2, <1>3

\* The commit: the only step that commits a task, and that reports success.
LEMMA FinalizeCommitStep ==
    ASSUME IInv, FinalizeCommit
    PROVE  IInv'
<1> USE DEF faultVars
<1>1. finalizing = "commit" /\ client \in Client
      /\ UNCHANGED <<train, inflight, staged, claiming, online, releases, drops, losses, taken>>
    BY ClientTyped DEF IInv, FinalizeCommit
<1>2. word' = [t \in Tasks |-> IF t \in Committable THEN MineCommitted ELSE word[t]]
      /\ accepted' = (Committable = Tasks)
    BY DEF FinalizeCommit
<1>3. Answer(IF Committable = Tasks THEN "ack" ELSE "task_commit_failed")
    BY DEF FinalizeCommit
<1>4. /\ client' \in Client /\ finalizing' = "none" /\ client.pc \in {"wait", "failed"}
      /\ client'.pc \in {"done", "failed"}
      /\ client'.pc = "done" => Committable = Tasks
    <2>1. {"done", "failed"} \subseteq Places
        BY DEF Places, Ended
    <2>2. CASE Committable = Tasks
        <3>1. Answer("ack")
            BY <1>3, <2>2
        <3> QED
            BY <1>1, <2>1, <2>2, <3>1, Proceeding, AnswerMoves
    <2>3. CASE Committable # Tasks
        <3>1. Answer("task_commit_failed")
            BY <1>3, <2>3
        <3> QED
            BY <1>1, <2>1, <3>1, Proceeding, AnswerMoves
    <2> QED
        BY <2>2, <2>3
<1>5. word' \in [Tasks -> Words] /\ accepted' \in BOOLEAN
    BY <1>2 DEF IInv, TypeOK, Words
<1>6. TypeOK'
    BY <1>1, <1>4, <1>5 DEF IInv, TypeOK, Client, Places, Words
<1>7. Prefix' /\ Acknowledged' /\ Awaited'
    BY <1>1, <1>4 DEF IInv, Prefix, Acknowledged, Awaited
<1>8. Committed'
    BY <1>4 DEF Committed
<1>9. Taken'
    BY <1>1, <1>2 DEF IInv, Taken, MineCommitted, Theirs, TheirsCommitted
<1>10. NeverRejected' /\ OutcomeIsTrue'
    BY <1>1, <1>2, <1>4 DEF NeverRejected, OutcomeIsTrue
<1>11. ClaimInv'
    <2>1. claiming.pc # "none" => client'.pc = "failed"
        <3>1. client.pc = "failed" => client' = client
            BY <1>3 DEF Answer, AwaitsFinalize
        <3> QED
            BY <1>4, <3>1 DEF IInv, ClaimInv, ClaimAwaited
    <2>2. \A t \in Tasks : word'[t] = Free => word[t] = Free
        BY <1>2 DEF Free, MineCommitted
    <2> QED
        BY <1>1, <1>4, <2>1, <2>2, ClaimUndisturbed
<1> QED
    BY <1>6, <1>7, <1>8, <1>9, <1>10, <1>11 DEF IInv

-----------------------------------------------------------------------------
\* The claim

\* A step of the claim handler that only reads, or wins a free task.
LEMMA ClaimMoves ==
    ASSUME IInv, claiming.pc # "none",
           client' \in Client,
           client' = client \/ client'.next = 1,
           client'.pc \notin {"wait", "done", "rejected"},
           client'.pc = "lost" => Excused,
           client.pc = "failed" => client' = client,
           UNCHANGED <<train, uploadVars, online, faultVars, taken>>,
           word' \in [Tasks -> Words],
           \A t \in Tasks : word'[t] # word[t] => word'[t] = Mine,
           claiming' \in Claims, ClaimInv'
    PROVE  IInv'
<1> USE DEF uploadVars, faultVars
<1>1. client.pc \in {"claiming", "failed"}
    BY DEF IInv, ClaimInv, ClaimAwaited
<1>2. /\ train \subseteq Tasks /\ online \in BOOLEAN
      /\ inflight \subseteq [chunk : 1 .. N, id : 0 .. MaxLosses]
      /\ finalizing \in {"none", "arriving", "check", "publish", "commit"}
      /\ losses \in 0 .. MaxLosses
    BY DEF IInv, TypeOK
<1>3. finalizing' # "none" => client'.pc = "failed"
    BY <1>1 DEF IInv, Awaited, AwaitsFinalize
<1> QED
    BY <1>1, <1>2, <1>3, ClientMoves

LEMMA ClaimArrivesStep ==
    ASSUME IInv, ClaimArrives
    PROVE  IInv'
<1>1. /\ claiming \in Claims /\ claiming.pc = "arriving" /\ client \in Client
      /\ client.pc \in {"claiming", "failed"} /\ word \in [Tasks -> Words]
    BY ClaimTyped, ClientTyped DEF IInv, ClaimArrives, ClaimInv, ClaimAwaited
<1>2. UNCHANGED <<train, uploadVars, online, faultVars, taken>> /\ word' = word
    BY DEF ClaimArrives
<1>3. Released'
    BY <1>2 DEF IInv, ClaimInv, Released, faultVars
<1>4. CASE online
    <2>1. claiming' = [claiming EXCEPT !.pc = "snapshot", !.todo = Tasks] /\ client' = client
        BY <1>4 DEF ClaimArrives
    <2>2. claiming' \in Claims /\ claiming'.pc = "snapshot" /\ claiming'.todo = Tasks
        BY <1>1, <2>1 DEF Claims
    <2>3. ClaimInv'
        BY <1>1, <1>3, <2>1, <2>2 DEF ClaimInv, ClaimAwaited, Current, Decided, Answered
    <2> QED
        BY <1>1, <1>2, <2>1, <2>2, <2>3, ClaimMoves
<1>5. CASE ~online
    <2>1. claiming' = NoClaim
          /\ client' = IF client.pc = "claiming" THEN At("reconnect") ELSE client
        BY <1>5 DEF ClaimArrives
    <2>2. claiming' \in Claims /\ claiming'.pc = "none" /\ claiming'.todo = {}
        BY <2>1, NoClaimTyped
    <2>3. /\ client' \in Client /\ client'.pc \in {"reconnect", "failed"}
          /\ client' = client \/ client'.next = 1
          /\ client.pc = "failed" => client' = client
        BY <1>1, <2>1, AtPlace DEF Places
    <2>4. ClaimInv'
        BY <1>3, <2>2, <2>3 DEF ClaimInv, ClaimAwaited, Current, Decided, Answered
    <2> QED
        BY <1>1, <1>2, <2>1, <2>2, <2>3, <2>4, ClaimMoves
<1> QED
    BY <1>4, <1>5

\* While the client waits for its claim, a task not its own is free or another's.
LEMMA Whose ==
    ASSUME IInv, client.pc = "claiming", NEW t \in Tasks
    PROVE  word[t] = Mine \/ word[t] = Free \/ taken
<1>1. word[t] \in Words /\ word[t] # MineCommitted
    BY ClaimTyped DEF IInv, Committed
<1> QED
    BY <1>1 DEF IInv, Taken, Words

\* The decision on a task that is the client's, as far as it waits for it.
LEMMA DecideStep ==
    ASSUME IInv, NEW t \in Tasks, NEW won \in BOOLEAN, claiming.pc # "none",
           Deciding(t), Decide(t, won),
           claiming.pc # "arriving",
           client.pc = "claiming" => Excused \/ word[t] = Mine,
           UNCHANGED <<client, train, uploadVars, word, online, faultVars, taken>>
    PROVE  IInv'
<1>1. /\ claiming \in Claims /\ client \in Client /\ word \in [Tasks -> Words]
      /\ client.pc \in {"claiming", "failed"}
      /\ claiming.todo \subseteq Tasks /\ claiming.trained \subseteq Tasks
      /\ claiming.pending \subseteq Tasks
    BY ClaimTyped, ClientTyped DEF IInv, ClaimInv, ClaimAwaited
<1>2. /\ claiming'.pc = IF claiming.todo = {t} THEN "answered" ELSE "snapshot"
      /\ claiming'.todo = claiming.todo \ {t}
      /\ claiming'.won = FALSE
      /\ claiming'.trained = IF won \/ word[t] = Mine
                             THEN claiming.trained \cup {t} ELSE claiming.trained
      /\ claiming'.pending = IF word[t] \in {Mine, Theirs}
                             THEN claiming.pending \cup {t} ELSE claiming.pending
    BY DEF Decide
<1>3. claiming' \in Claims
    <2>1. claiming' = [pc |-> claiming'.pc, todo |-> claiming'.todo, won |-> claiming'.won,
                       trained |-> claiming'.trained, pending |-> claiming'.pending]
        BY DEF Decide
    <2>2. /\ claiming'.pc \in {"answered", "snapshot"} /\ claiming'.todo \subseteq Tasks
          /\ claiming'.won \in BOOLEAN
          /\ claiming'.trained \subseteq Tasks /\ claiming'.pending \subseteq Tasks
        BY <1>1, <1>2
    <2> QED
        BY <2>1, <2>2 DEF Claims
<1>4. ClaimAwaited' /\ Answered' /\ Current'
    BY <1>1, <1>2 DEF ClaimAwaited, Answered, Current
<1>5. Released'
    BY DEF IInv, ClaimInv, Released, faultVars
<1>6. Decided'
    <2> SUFFICES ASSUME client.pc = "claiming", NEW u \in Tasks, u \notin claiming'.todo
                 PROVE  Excused' \/ (u \in claiming'.trained /\ u \in claiming'.pending)
        BY DEF Decided
    <2>1. Excused' <=> Excused
        BY DEF Excused, faultVars
    <2>2. CASE u = t
        BY <1>2, <2>1, <2>2
    <2>3. CASE u # t
        <3>1. u \notin claiming.todo
            BY <1>2, <2>3
        <3>2. Excused \/ (u \in claiming.trained /\ u \in claiming.pending)
            BY <3>1 DEF IInv, ClaimInv, Decided
        <3> QED
            BY <1>2, <2>1, <3>2
    <2> QED
        BY <2>2, <2>3
<1>7. ClaimInv'
    BY <1>4, <1>5, <1>6 DEF ClaimInv
<1> QED
    BY <1>1, <1>3, <1>7, ClaimMoves

LEMMA ClaimSnapshotStep ==
    ASSUME IInv, NEW t \in Tasks, ClaimSnapshot(t)
    PROVE  IInv'
<1>1. /\ claiming \in Claims /\ client \in Client /\ word \in [Tasks -> Words]
      /\ claiming.pc = "snapshot" /\ client.pc \in {"claiming", "failed"}
    BY ClaimTyped, ClientTyped DEF IInv, ClaimInv, ClaimAwaited, ClaimSnapshot
<1>2. UNCHANGED <<client, train, uploadVars, word, online, faultVars, taken>> /\ Deciding(t)
    BY DEF ClaimSnapshot
<1>3. CASE word[t] # Free
    <2>1. Decide(t, FALSE)
        BY <1>3 DEF ClaimSnapshot
    <2>2. client.pc = "claiming" => Excused \/ word[t] = Mine
        BY <1>3, Whose DEF Excused
    <2> QED
        BY <1>1, <1>2, <2>1, <2>2, DecideStep
<1>4. CASE word[t] = Free
    <2>1. claiming' = [claiming EXCEPT !.pc = "claim"]
        BY <1>4 DEF ClaimSnapshot
    <2>2. /\ claiming' \in Claims /\ claiming'.pc = "claim"
          /\ claiming'.todo = claiming.todo
          /\ claiming'.trained = claiming.trained /\ claiming'.pending = claiming.pending
        BY <1>1, <2>1 DEF Claims
    <2>3. Released' /\ ClaimAwaited' /\ Answered' /\ Decided'
        BY <1>1, <1>2, <2>2
           DEF IInv, ClaimInv, Released, ClaimAwaited, Answered, Decided, Excused, faultVars
    <2>4. Current'
        <3> SUFFICES ASSUME NEW u \in Tasks, Deciding(u)'
                     PROVE  taken' \/ releases'[u] < drops'
            BY <2>2 DEF Current
        <3>1. u = t
            <4>1. u \in claiming.todo /\ t \in claiming.todo /\ t <= u /\ u <= t
                BY <1>2, <2>2 DEF Deciding
            <4>2. t \in Nat /\ u \in Nat
                BY SizeAssumption
            <4> QED
                BY <4>1, <4>2
        <3> QED
            BY <1>2, <1>4, <3>1 DEF IInv, ClaimInv, Released, faultVars
    <2> QED
        BY <1>1, <1>2, <2>2, <2>3, <2>4, ClaimMoves DEF ClaimInv
<1> QED
    BY <1>3, <1>4

LEMMA ClaimTryStep ==
    ASSUME IInv, NEW t \in Tasks, ClaimTry(t)
    PROVE  IInv'
<1>1. /\ claiming \in Claims /\ client \in Client /\ word \in [Tasks -> Words]
      /\ claiming.pc = "claim" /\ client.pc \in {"claiming", "failed"}
    BY ClaimTyped, ClientTyped DEF IInv, ClaimInv, ClaimAwaited, ClaimTry
<1>2. UNCHANGED <<client, train, uploadVars, online, faultVars, taken>> /\ Deciding(t)
    BY DEF ClaimTry
<1>3. word' = IF word[t] = Free THEN [word EXCEPT ![t] = Mine] ELSE word
    BY DEF ClaimTry
<1>4. /\ word' \in [Tasks -> Words]
      /\ \A u \in Tasks : word'[u] # word[u] => word'[u] = Mine
      /\ \A u \in Tasks : word[u] # Free => word'[u] = word[u]
      /\ word[t] = Free => word'[t] = Mine
    BY <1>1, <1>3 DEF Words
<1>5. claiming' = [claiming EXCEPT !.pc = "confirm", !.won = (word[t] = Free)]
    BY DEF ClaimTry
<1>6. /\ claiming' \in Claims /\ claiming'.pc = "confirm"
      /\ claiming'.todo = claiming.todo
      /\ claiming'.trained = claiming.trained /\ claiming'.pending = claiming.pending
    BY <1>1, <1>5 DEF Claims
<1>7. ClaimAwaited' /\ Answered' /\ Decided'
    BY <1>1, <1>2, <1>6
       DEF IInv, ClaimInv, ClaimAwaited, Answered, Decided, Excused, faultVars
<1>8. Released'
    BY <1>2, <1>4 DEF IInv, ClaimInv, Released, faultVars, Mine, Free
<1>9. Current'
    <2> SUFFICES ASSUME client.pc = "claiming", NEW u \in Tasks, Deciding(u)'
                 PROVE  /\ taken' \/ releases'[u] < drops'
                        /\ Excused' \/ word'[u] = Mine
        BY <1>2 DEF Current
    <2>1. u = t
        <3>1. u \in claiming.todo /\ t \in claiming.todo /\ t <= u /\ u <= t
            BY <1>2, <1>6 DEF Deciding
        <3>2. t \in Nat /\ u \in Nat
            BY SizeAssumption
        <3> QED
            BY <3>1, <3>2
    <2>2. taken \/ releases[t] < drops
        BY <1>1, <1>2 DEF IInv, ClaimInv, Current
    <2>3. taken \/ word'[t] = Mine
        BY <1>4, Whose
    <2> QED
        BY <1>2, <2>1, <2>2, <2>3 DEF Excused, faultVars
<1> QED
    BY <1>1, <1>2, <1>4, <1>6, <1>7, <1>8, <1>9, ClaimMoves DEF ClaimInv

LEMMA ClaimConfirmStep ==
    ASSUME IInv, NEW t \in Tasks, ClaimConfirm(t)
    PROVE  IInv'
<1>1. claiming.pc = "confirm" /\ claiming.won \in BOOLEAN
    BY ClaimTyped DEF IInv, ClaimConfirm
<1>2. client.pc = "claiming" => Excused \/ word[t] = Mine
    BY <1>1 DEF IInv, ClaimInv, Current, ClaimConfirm
<1> QED
    BY <1>1, <1>2, DecideStep DEF ClaimConfirm

\* The client is answered: unless it is excused, the answer leaves it all its tasks.
LEMMA RecoverStep ==
    ASSUME IInv, Recover
    PROVE  IInv'
<1>1. /\ client \in Client /\ word \in [Tasks -> Words]
      /\ claiming.pc = "answered" /\ client.pc \in {"claiming", "failed"}
    BY ClaimTyped, ClientTyped DEF IInv, ClaimInv, ClaimAwaited, Recover
<1>2. UNCHANGED <<train, uploadVars, online, faultVars, taken>> /\ word' = word
      /\ claiming' = NoClaim
    BY DEF Recover
<1>3. /\ client' \in Client /\ (client' = client \/ client'.next = 1)
      /\ client'.pc \in {"failed", "upload", "lost"}
      /\ client.pc = "failed" => client' = client
      /\ client'.pc = "lost" => client.pc = "claiming" /\ ~Retained
    <2>1. {"failed", "upload", "lost"} \subseteq Places
        BY DEF Places, Ended
    <2>2. CASE client.pc # "claiming"
        BY <1>1, <2>2 DEF Recover
    <2>3. CASE client.pc = "claiming"
        <3>1. \/ client' = At("failed") \/ client' = At("upload")
              \/ client' = At("lost") /\ ~Retained
            BY <2>3 DEF Recover
        <3> QED
            BY <2>1, <2>3, <3>1, AtPlace
    <2> QED
        BY <2>2, <2>3
<1>4. client'.pc = "lost" => Excused
    <2> SUFFICES ASSUME client.pc = "claiming", ~Retained, ~Excused
                 PROVE  FALSE
        BY <1>3
    <2>1. claiming.todo = {}
        BY <1>1 DEF IInv, ClaimInv, Answered
    <2>2. \A t \in Tasks : t \in claiming.trained /\ t \in claiming.pending
        BY <1>1, <2>1 DEF IInv, ClaimInv, Decided
    <2> QED
        BY <2>2 DEF Retained
<1>5. claiming' \in Claims /\ claiming'.pc = "none"
    BY <1>2, NoClaimTyped
<1>6. ClaimInv'
    <2>1. Released'
        BY <1>2 DEF IInv, ClaimInv, Released, faultVars
    <2> QED
        BY <1>3, <1>5, <2>1 DEF ClaimInv, ClaimAwaited, Current, Decided, Answered
<1> QED
    BY <1>1, <1>2, <1>3, <1>4, <1>5, <1>6, ClaimMoves

-----------------------------------------------------------------------------
\* Session timeouts and other clients

\* A session timeout adds one release of every task.
LEMMA ExpireKeepsClaim ==
    ASSUME IInv, Expire
    PROVE  /\ releases' \in [Tasks -> 0 .. MaxDrops] /\ drops' \in 0 .. MaxDrops
           /\ ClaimInv'
<1> USE DEF uploadVars
<1>1. /\ releases \in [Tasks -> 0 .. MaxDrops] /\ drops \in 0 .. MaxDrops /\ drops < MaxDrops
      /\ drops' = drops + 1 /\ releases' = [t \in Tasks |-> releases[t] + 1]
      /\ UNCHANGED <<client, claiming, word, taken>>
    BY ClaimTyped DEF IInv, Expire
<1>2. \A t \in Tasks : releases[t] <= drops /\ releases[t] \in 0 .. MaxDrops
    BY <1>1 DEF IInv, ClaimInv, Released
<1>3. \A t \in Tasks : releases[t] + 1 \in 0 .. MaxDrops /\ releases'[t] = releases[t] + 1
    BY <1>1, <1>2
<1>4. releases' \in [Tasks -> 0 .. MaxDrops] /\ drops' \in 0 .. MaxDrops
    BY <1>1, <1>3
<1>5. \A t \in Tasks : releases'[t] < drops' <=> releases[t] < drops
    BY <1>1, <1>2, <1>3
<1>6. Excused => Excused'
    BY <1>1 DEF Excused
<1>7. Released'
    BY <1>1, <1>2, <1>3, <1>5 DEF IInv, ClaimInv, Released
<1>8. ClaimAwaited' /\ Answered' /\ Decided'
    BY <1>1, <1>6 DEF IInv, ClaimInv, ClaimAwaited, Answered, Decided
<1>9. Current'
    BY <1>1, <1>5, <1>6 DEF IInv, ClaimInv, Current, Deciding
<1> QED
    BY <1>4, <1>7, <1>8, <1>9 DEF ClaimInv

\* A release that frees a task the client has claimed again is not the only one.
LEMMA ReleaseKeepsClaim ==
    ASSUME IInv, NEW t \in Tasks, Release(t)
    PROVE  /\ releases' \in [Tasks -> 0 .. MaxDrops] /\ ClaimInv'
<1> USE DEF uploadVars
<1>1. /\ releases \in [Tasks -> 0 .. MaxDrops] /\ drops \in 0 .. MaxDrops /\ releases[t] > 0
      /\ releases' = [releases EXCEPT ![t] = releases[t] - 1]
      /\ UNCHANGED <<client, claiming, drops, taken>>
      /\ word \in [Tasks -> Words]
      /\ word' = IF word[t] = Mine THEN [word EXCEPT ![t] = Free] ELSE word
    BY ClaimTyped DEF IInv, Release
<1>2. \A u \in Tasks : releases[u] <= drops /\ releases[u] \in 0 .. MaxDrops
    BY <1>1 DEF IInv, ClaimInv, Released
<1>3. /\ releases[t] - 1 \in 0 .. MaxDrops
      /\ \A u \in Tasks : releases'[u] = IF u = t THEN releases[t] - 1 ELSE releases[u]
    BY <1>1, <1>2
<1>4. releases' \in [Tasks -> 0 .. MaxDrops]
    BY <1>1, <1>3
<1>5. \A u \in Tasks : releases'[u] <= releases[u] /\ (u = t => releases'[u] < drops)
    BY <1>1, <1>2, <1>3
<1>6. \A u \in Tasks : u # t => word'[u] = word[u]
    BY <1>1
<1>7. Released'
    <2> SUFFICES ASSUME NEW u \in Tasks
                 PROVE  /\ releases'[u] <= drops
                        /\ word'[u] = Free => taken \/ releases'[u] < drops
        BY <1>1 DEF Released
    <2>1. releases[u] <= drops /\ (word[u] = Free => taken \/ releases[u] < drops)
        BY DEF IInv, ClaimInv, Released
    <2> QED
        BY <1>1, <1>2, <1>3, <1>5, <1>6, <2>1
<1>8. ClaimAwaited' /\ Answered' /\ Decided'
    BY <1>1 DEF IInv, ClaimInv, ClaimAwaited, Answered, Decided, Excused
<1>9. Current'
    <2> SUFFICES ASSUME client.pc = "claiming", NEW u \in Tasks, Deciding(u)
                 PROVE  /\ claiming.pc \in {"claim", "confirm"} => taken \/ releases'[u] < drops
                        /\ claiming.pc = "confirm" => Excused \/ word'[u] = Mine
        BY <1>1 DEF Current, Deciding, Excused
    <2>1. /\ claiming.pc \in {"claim", "confirm"} => taken \/ releases[u] < drops
          /\ claiming.pc = "confirm" => Excused \/ word[u] = Mine
        BY DEF IInv, ClaimInv, Current
    <2>2. CASE u # t
        BY <1>3, <1>6, <2>1, <2>2
    <2>3. CASE u = t
        <3>1. claiming.pc = "confirm" => Excused
            BY <1>1, <1>2, <2>1, <2>3 DEF Excused
        <3> QED
            BY <1>5, <2>3, <3>1
    <2> QED
        BY <2>2, <2>3
<1> QED
    BY <1>4, <1>7, <1>8, <1>9 DEF ClaimInv

\* Steps of the session timeout and of other clients, which never touch the upload.
LEMMA WorldStep ==
    ASSUME IInv, Expire \/ \E t \in Tasks : Release(t) \/ Others(t)
    PROVE  IInv'
<1> USE DEF uploadVars, faultVars
<1>1. UNCHANGED <<client, train, inflight, finalizing, staged, accepted, claiming, losses>>
    BY DEF Expire, Release, Others
<1>2. /\ word' \in [Tasks -> Words]
      /\ \A t \in Tasks : word[t] = MineCommitted <=> word'[t] = MineCommitted
      /\ \A t \in Tasks : word'[t] \in {Theirs, TheirsCommitted} =>
             word[t] \in {Theirs, TheirsCommitted} \/ taken'
      /\ taken => taken'
      /\ taken' \in BOOLEAN
    <2>1. word \in [Tasks -> Words] /\ taken \in BOOLEAN
        BY DEF IInv, TypeOK, Words
    <2> USE DEF Words, Free, Mine, Theirs, MineCommitted, TheirsCommitted
    <2>2. CASE Expire
        BY <2>1, <2>2 DEF Expire
    <2>3. CASE \E t \in Tasks : Release(t)
        BY <2>1, <2>3 DEF Release
    <2>4. CASE \E t \in Tasks : Others(t)
        BY <2>1, <2>4 DEF Others
    <2> QED
        BY <2>2, <2>3, <2>4
<1>3. /\ online' \in BOOLEAN /\ drops' \in 0 .. MaxDrops /\ drops <= drops'
      /\ releases' \in [Tasks -> 0 .. MaxDrops]
      /\ ClaimInv'
    <2>1. online \in BOOLEAN /\ drops \in 0 .. MaxDrops /\ releases \in [Tasks -> 0 .. MaxDrops]
        BY DEF IInv, TypeOK
    <2>2. CASE Expire
        <3>1. drops' = drops + 1 /\ online' = FALSE
            BY <2>2 DEF Expire
        <3>2. releases' \in [Tasks -> 0 .. MaxDrops] /\ drops' \in 0 .. MaxDrops /\ ClaimInv'
            BY <2>2, ExpireKeepsClaim
        <3>3. drops <= drops'
            <4>1. drops \in Nat
                BY <2>1, BoundsAssumption
            <4> QED
                BY <3>1, <4>1
        <3> QED
            BY <3>1, <3>2, <3>3
    <2>3. CASE \E t \in Tasks : Release(t)
        <3>1. online' = online /\ drops' = drops
            BY <2>3 DEF Release
        <3> QED
            BY <2>1, <2>3, <3>1, ReleaseKeepsClaim
    <2>4. CASE \E t \in Tasks : Others(t)
        <3>1. UNCHANGED <<client, claiming, online, releases, drops>> /\ taken' = TRUE
            BY <2>4 DEF Others
        <3>2. ClaimInv'
            BY <3>1, ClaimUndisturbed DEF IInv, ClaimInv, ClaimAwaited
        <3> QED
            BY <2>1, <3>1, <3>2
    <2> QED
        BY <2>2, <2>3, <2>4
<1>4. TypeOK'
    BY <1>1, <1>2, <1>3 DEF IInv, TypeOK, Words
<1>5. Prefix' /\ Acknowledged' /\ Awaited'
    BY <1>1 DEF IInv, Prefix, Acknowledged, Awaited, AwaitsFinalize
<1>6. Committed' /\ Taken'
    BY <1>1, <1>2 DEF IInv, Committed, Taken
<1>7. NeverRejected' /\ OutcomeIsTrue'
    <2>1. drops \in 0 .. MaxDrops
        BY DEF IInv, TypeOK
    <2> QED
        BY <1>1, <1>2, <1>3, <2>1 DEF IInv, NeverRejected, OutcomeIsTrue
<1> QED
    BY <1>3, <1>4, <1>5, <1>6, <1>7 DEF IInv

LEMMA UploadStutters ==
    ASSUME IInv, UNCHANGED vars
    PROVE  IInv'
<1>1. UNCHANGED <<client, train, inflight, finalizing, staged, accepted, claiming, word, online,
                  releases, drops, losses, taken>>
    BY DEF vars, uploadVars, faultVars
<1>2. TypeOK'
    BY <1>1 DEF IInv, TypeOK
<1>3. ClaimInv'
    BY <1>1 DEF IInv, ClaimInv, ClaimAwaited, Released, Current, Deciding, Decided, Answered,
                Excused
<1> QED
    BY <1>1, <1>2, <1>3 DEF IInv, Prefix, Acknowledged, Awaited, AwaitsFinalize, Committed, Taken,
                NeverRejected, OutcomeIsTrue

LEMMA UploadInvariant == Spec => []IInv
<1>1. IInv /\ [Next]_vars => IInv'
    BY SendStep, GiveUpStep, RecoveryStep, ChunkStep, FinalizeArrivesStep, FinalizeCheckStep,
       FinalizePublishStep, FinalizeCommitStep, ClaimArrivesStep, ClaimSnapshotStep, ClaimTryStep,
       ClaimConfirmStep, RecoverStep, WorldStep, UploadStutters
       DEF Next, ClientStep, Handle, FinalizeStep, ClaimStep
<1> QED
    BY UploadStarts, <1>1, PTL DEF Spec

-----------------------------------------------------------------------------
\* Theorems

\* The state of the upload stays in its bounds: no more chunks are staged than the
\* checkpoint has, and the client never asks for one it does not have.
THEOREM UploadTypeCorrect == Spec => []TypeOK
<1>1. IInv => TypeOK
    BY DEF IInv
<1> QED
    BY <1>1, UploadInvariant, PTL

\* The store never rejects a request the client waits for, whatever requests were
\* repeated, given up or handled late: what is staged is a prefix of the checkpoint
\* that has all the client has had acknowledged, and only the finalize request the
\* client waits for or has given up ever discards it.
THEOREM NeverRejectedHolds == Spec => []NeverRejected
<1>1. IInv => NeverRejected
    BY DEF IInv
<1> QED
    BY <1>1, UploadInvariant, PTL

\* What the client reports is true: "done" only with every task COMMITTED by it and the
\* update accepted, "lost" only when another client has held one of its tasks or the
\* session has expired twice.
THEOREM OutcomeIsTrueHolds == Spec => []OutcomeIsTrue
<1>1. IInv => OutcomeIsTrue
    BY DEF IInv
<1> QED
    BY <1>1, UploadInvariant, PTL
=============================================================================
