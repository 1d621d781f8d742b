---------------------------- MODULE GlobalModel ----------------------------
(***************************************************************************)
(* The global model of one round: aggregate requests save the FedAvg       *)
(* result and publish its descriptor (aggregate_model_updates and          *)
(* aggregate_safetensors), while a client downloads it chunk by chunk      *)
(* (download_global_model_from_as) in a session that may expire.           *)
(*                                                                         *)
(* The server reads the descriptor under its lock and the file afterwards, *)
(* by its path; an aggregate request replaces the file first and the       *)
(* descriptor afterwards.  Nothing keeps two aggregate requests apart:     *)
(* they share one temporary file, so files are modelled as inodes.         *)
(***************************************************************************)
EXTENDS Naturals, Sequences, FiniteSetsExt

CONSTANTS
    Aggregators,   \* request threads of aggregate requests
    Models,        \* results of FedAvg, one per set of participants
    Size,          \* per model: the length of its checkpoint, in chunks
    NoFile,        \* no directory entry, no descriptor
    Attempts,      \* GLOBAL_MODEL_CHUNK_TRANSPORT_ATTEMPTS
    MaxSaves       \* bound on the aggregate requests

ASSUME ModelsAssumption ==
    /\ Models \subseteq Nat \ {0} /\ Models # {} /\ IsFiniteSet(Models)
    /\ Size \in [Models -> Nat \ {0}]
ASSUME AggregatorsAssumption == IsFiniteSet(Aggregators)
ASSUME BoundsAssumption == Attempts \in Nat \ {0} /\ MaxSaves \in Nat

VARIABLES
    inode,        \* contents of the files created so far
    temporary,    \* the inode named <output>.tmp, or NoFile
    output,       \* the inode named global_model.safetensors, or NoFile
    aggregator,   \* per thread: its place in the handler and its locals
    global,       \* _global_models[round]: digest and size, or NoFile
    client,       \* the download call and its locals
    handler,      \* the chunk request being handled: its place, its descriptor
    online,       \* the client's session is online
    expired,      \* recovery_deadline has passed
    destination,  \* what earlier downloads left at the destination path
    saves,        \* aggregate requests so far
    overlapped    \* history: two aggregate requests have been in progress at once

fileVars == <<inode, temporary, output>>
serverVars == <<fileVars, aggregator, global, saves, overlapped>>
clientVars == <<client, handler, expired, destination>>
vars == <<serverVars, clientVars, online>>

Hole == 0
Whole(m) == [i \in 1 .. Size[m] |-> m]
MaxSize == Max({Size[m] : m \in Models})
Contents == UNION {[1 .. n -> Models \cup {Hole}] : n \in 0 .. MaxSize}
\* A digest determines the content.
Descriptor == [digest : Contents, bytes : 0 .. MaxSize]
Inodes == 1 .. MaxSaves

ASSUME NoFileAssumption == NoFile \notin Inodes \cup Descriptor \cup Contents

Idle == [pc |-> "idle", model |-> 0, inode |-> NoFile, at |-> 0, digest |-> <<>>, bytes |-> 0]
NoRequest == [pc |-> "none", descriptor |-> NoFile]
NotReading == [pc |-> "idle", descriptor |-> NoFile, part |-> <<>>, attempt |-> 1]

TypeOK ==
    /\ inode \in Seq(Contents) /\ Len(inode) <= MaxSaves
    /\ {temporary, output} \subseteq Inodes \cup {NoFile}
    /\ aggregator \in [Aggregators ->
          [pc : {"idle", "create", "write", "replace", "digest", "stat", "publish"},
           model : Models \cup {0}, inode : Inodes \cup {NoFile}, at : 0 .. MaxSize,
           digest : Contents, bytes : 0 .. MaxSize]]
    /\ global \in Descriptor \cup {NoFile}
    /\ client \in [pc : {"idle", "refresh", "request", "await", "reconnect", "verify"},
                   descriptor : Descriptor \cup {NoFile}, part : Contents,
                   attempt : 1 .. Attempts]
    /\ handler \in [pc : {"none", "lookup", "read"}, descriptor : Descriptor \cup {NoFile}]
    /\ {online, expired, overlapped} \subseteq BOOLEAN
    /\ destination \in Contents \cup {NoFile}
    /\ saves \in 0 .. MaxSaves

Init ==
    /\ inode = <<>>
    /\ temporary = NoFile
    /\ output = NoFile
    /\ aggregator = [a \in Aggregators |-> Idle]
    /\ global = NoFile
    /\ client = NotReading
    /\ handler = NoRequest
    /\ online = TRUE
    /\ expired = FALSE
    /\ destination = NoFile
    /\ saves = 0
    /\ overlapped = FALSE

-----------------------------------------------------------------------------
\* The aggregate handler after its checks

InHandler(a) == aggregator[a].pc # "idle"
At(a, p) == aggregator[a].pc = p
Go(a, p) == aggregator' = [aggregator EXCEPT ![a].pc = p]
Quit(a) == aggregator' = [aggregator EXCEPT ![a] = Idle]
AggregatorOnly == UNCHANGED <<clientVars, online>>

\* The coordinator may repeat a request, for the same or for other participants.
Aggregate(a, m) ==
    /\ At(a, "idle")
    /\ saves < MaxSaves
    /\ saves' = saves + 1
    /\ aggregator' = [aggregator EXCEPT ![a] = [Idle EXCEPT !.pc = "create", !.model = m]]
    /\ overlapped' = (overlapped \/ \E b \in Aggregators \ {a} : InHandler(b))
    /\ UNCHANGED <<fileVars, global>>
    /\ AggregatorOnly

\* Faulty variant of Create: the checkpoint is saved in place.
CreateInPlace(a) ==
    /\ At(a, "create")
    /\ inode' = Append(inode, <<>>)
    /\ output' = Len(inode')
    /\ temporary' = Len(inode')
    /\ aggregator' = [aggregator EXCEPT ![a].pc = "write", ![a].inode = Len(inode')]
    /\ UNCHANGED <<global, saves, overlapped>>
    /\ AggregatorOnly

\* save_file opens the temporary path: what is left there, or still being written
\* by another request, is truncated.
Create(a) ==
    /\ At(a, "create")
    /\ IF temporary = NoFile
       THEN /\ inode' = Append(inode, <<>>)
            /\ temporary' = Len(inode')
       ELSE /\ inode' = [inode EXCEPT ![temporary] = <<>>]
            /\ UNCHANGED temporary
    /\ aggregator' = [aggregator EXCEPT ![a].pc = "write", ![a].inode = temporary']
    /\ UNCHANGED <<output, global, saves, overlapped>>
    /\ AggregatorOnly

\* A write at a position of the file, which may have been truncated meanwhile.
Written(content, i, m) ==
    [j \in 1 .. Max({i, Len(content)}) |->
        IF j = i THEN m ELSE IF j <= Len(content) THEN content[j] ELSE Hole]

\* The next chunk of the checkpoint goes to the file opened above, whatever its
\* name is by now.  A write may fail; the temporary file is left behind.
Write(a) ==
    /\ At(a, "write")
    /\ \/ LET i == aggregator[a].at + 1
              m == aggregator[a].model IN
          /\ inode' = [inode EXCEPT ![aggregator[a].inode] = Written(@, i, m)]
          /\ aggregator' = [aggregator EXCEPT
                ![a].at = i, ![a].pc = IF i = Size[m] THEN "replace" ELSE "write"]
       \/ /\ Quit(a)
          /\ UNCHANGED inode
    /\ UNCHANGED <<temporary, output, global, saves, overlapped>>
    /\ AggregatorOnly

\* temporary_path.replace(output_path), an error when another request has taken
\* the temporary file away.
Replace(a) ==
    /\ At(a, "replace")
    /\ IF temporary = NoFile
       THEN Quit(a) /\ UNCHANGED fileVars
       ELSE /\ output' = temporary
            /\ temporary' = NoFile
            /\ Go(a, "digest")
            /\ UNCHANGED inode
    /\ UNCHANGED <<global, saves, overlapped>>
    /\ AggregatorOnly

\* sha256_file(output_path), then its size.
Digest(a) ==
    /\ At(a, "digest")
    /\ aggregator' = [aggregator EXCEPT ![a].digest = inode[output], ![a].pc = "stat"]
    /\ UNCHANGED <<fileVars, global, saves, overlapped>>
    /\ AggregatorOnly

Stat(a) ==
    /\ At(a, "stat")
    /\ aggregator' = [aggregator EXCEPT ![a].bytes = Len(inode[output]), ![a].pc = "publish"]
    /\ UNCHANGED <<fileVars, global, saves, overlapped>>
    /\ AggregatorOnly

Publish(a) ==
    /\ At(a, "publish")
    /\ global' = [digest |-> aggregator[a].digest, bytes |-> aggregator[a].bytes]
    /\ Quit(a)
    /\ UNCHANGED <<fileVars, saves, overlapped>>
    /\ AggregatorOnly

-----------------------------------------------------------------------------
\* The session

\* The monitor, or the chunk handler itself, finds the lease run out.
Expire ==
    /\ online
    /\ online' = FALSE
    /\ UNCHANGED <<serverVars, clientVars>>

-----------------------------------------------------------------------------
\* The client and the download handler

Reading(p) == client.pc = p
Fail == client' = NotReading
NotServed == UNCHANGED <<handler, destination, expired>>

\* A new call has a new recovery deadline.
Download ==
    /\ Reading("idle")
    /\ client' = [NotReading EXCEPT !.pc = "refresh"]
    /\ expired' = FALSE
    /\ UNCHANGED <<serverVars, handler, destination, online>>

DeadlinePasses ==
    /\ ~Reading("idle")
    /\ ~expired
    /\ expired' = TRUE
    /\ UNCHANGED <<serverVars, client, handler, destination, online>>

\* A synchronous heartbeat brings the session online again.  It ends the call when
\* it is not answered.
Refresh ==
    /\ Reading("refresh")
    /\ \/ online' = TRUE /\ client' = [client EXCEPT !.pc = "request"]
       \/ Fail /\ UNCHANGED online
    /\ NotServed
    /\ UNCHANGED serverVars

\* The next chunk is requested.
Request ==
    /\ Reading("request")
    /\ client' = [client EXCEPT !.pc = "await"]
    /\ handler' = [pc |-> "lookup", descriptor |-> NoFile]
    /\ UNCHANGED <<serverVars, destination, expired, online>>

\* No answer in time: the read is repeated, a bounded number of times.
RequestFails ==
    /\ Reading("await")
    /\ client' = IF client.attempt = Attempts
                 THEN NotReading
                 ELSE [client EXCEPT !.pc = "request", !.attempt = @ + 1]
    /\ handler' = NoRequest
    /\ UNCHANGED <<serverVars, destination, expired, online>>

\* The handler's first part: an online session, then the descriptor.
Lookup ==
    /\ handler.pc = "lookup"
    /\ IF online
       THEN /\ handler' = [pc |-> "read", descriptor |-> global]
            /\ UNCHANGED client
       ELSE /\ handler' = NoRequest
            /\ client' = [client EXCEPT !.pc = "reconnect"]
    /\ UNCHANGED <<serverVars, destination, expired, online>>

\* The chunk of the file at the output path from an offset on, at most one.
Chunk(offset) ==
    IF offset < Len(inode[output]) THEN <<inode[output][offset + 1]>> ELSE <<>>

\* How the client goes on after a chunk that leaves it with part: a changed
\* descriptor, a chunk beyond the size and one without progress end the call.
\* The lease may be refreshed before the next chunk.
Continue(d, part, progress) ==
    IF \/ d.bytes = 0 \/ Len(part) > d.bytes
       \/ client.descriptor \notin {NoFile, d}
       \/ Len(part) < d.bytes /\ ~progress
    THEN NotReading
    ELSE IF Len(part) = d.bytes
    THEN [client EXCEPT !.pc = "verify", !.part = part, !.descriptor = d]
    ELSE [pc |-> "request", descriptor |-> d, part |-> part, attempt |-> 1]

\* The handler's second part reads the file; an offset beyond the size the
\* descriptor gives, or no model, is an error.
Serve ==
    /\ handler.pc = "read"
    /\ LET d == handler.descriptor
           offset == Len(client.part) IN
       IF d = NoFile \/ output = NoFile \/ offset > d.bytes
       THEN Fail
       ELSE \E refresh \in BOOLEAN :
              LET next == Continue(d, client.part \o Chunk(offset), Chunk(offset) # <<>>) IN
              client' = IF next.pc = "request" /\ refresh
                        THEN [next EXCEPT !.pc = "refresh"] ELSE next
    /\ handler' = NoRequest
    /\ UNCHANGED <<serverVars, destination, expired, online>>

\* Faulty variant of Reconnect: without a deadline.
ReconnectForever ==
    /\ Reading("reconnect")
    /\ online' = TRUE
    /\ client' = [client EXCEPT !.pc = "request", !.attempt = 1]
    /\ NotServed
    /\ UNCHANGED serverVars

\* _reconnect_global_model_reader: the same chunk is requested in a new session,
\* until the recovery deadline.
Reconnect ==
    /\ Reading("reconnect")
    /\ IF expired
       THEN Fail /\ UNCHANGED online
       ELSE /\ online' = TRUE
            /\ client' = [client EXCEPT !.pc = "request", !.attempt = 1]
    /\ NotServed
    /\ UNCHANGED serverVars

\* Faulty variant of Verify: the size alone is compared.
VerifySize ==
    /\ Reading("verify")
    /\ destination' = client.part
    /\ client' = NotReading
    /\ UNCHANGED <<serverVars, handler, expired, online>>

\* The temporary file replaces the destination if size and digest are right.
Verify ==
    /\ Reading("verify")
    /\ destination' = IF client.part = client.descriptor.digest
                      THEN client.part ELSE destination
    /\ client' = NotReading
    /\ UNCHANGED <<serverVars, handler, expired, online>>

-----------------------------------------------------------------------------

AggregatorStep(a) ==
    Create(a) \/ Write(a) \/ Replace(a) \/ Digest(a) \/ Stat(a) \/ Publish(a)
ClientStep == Refresh \/ Request \/ Lookup \/ Serve \/ Reconnect \/ Verify

Next ==
    \/ \E a \in Aggregators : AggregatorStep(a) \/ \E m \in Models : Aggregate(a, m)
    \/ Expire
    \/ Download \/ DeadlinePasses \/ RequestFails \/ ClientStep

Spec == Init /\ [][Next]_vars

\* The server's threads and the client keep running and time passes; sessions may
\* expire again and again.
FairSpec ==
    /\ Spec
    /\ WF_vars(ClientStep)
    /\ WF_vars(DeadlinePasses)
    /\ \A a \in Aggregators : WF_vars(AggregatorStep(a))

-----------------------------------------------------------------------------
\* Properties

Quiet == \A a \in Aggregators : ~InHandler(a)
IsWhole(content) == \E m \in Models : content = Whole(m)

\* While no aggregate request is in progress the descriptor describes the file,
\* also after a request that failed half-way through saving, as long as aggregate
\* requests did not overlap.
DescriptorMatchesFile ==
    (Quiet /\ ~overlapped) =>
        IF global = NoFile
        THEN output = NoFile
        ELSE /\ inode[output] = global.digest
             /\ Len(inode[output]) = global.bytes

\* A download that succeeded holds one whole model, although the file was replaced
\* between two of its chunks, or between the descriptor a chunk was announced with
\* and the bytes it was read from.  Overlapping aggregate requests excepted, which
\* may publish a mixed file under its own digest.
DownloadIsWhole ==
    (destination # NoFile /\ ~overlapped) => IsWhole(destination)

\* Every download ends, however often the session expires, sizes change, or an
\* advertised size is never reached.
DownloadEnds == ~Reading("idle") ~> Reading("idle")
=============================================================================
