----------------------- MODULE ProtectedLabels_proofs -----------------------
(***************************************************************************)
(* Proofs about ProtectedLabels, for any Key Servers, clients, threads,    *)
(* keys, records and bounds.                                               *)
(***************************************************************************)
EXTENDS ProtectedLabels, TLAPS

-----------------------------------------------------------------------------
\* The inductive invariant

\* The process that created the key file, until it serves.
Creating(s) == server[s].pc \in {"write", "sync"}
OnDisk(k) == keyFile = Complete(k)

\* The file is the creator's: nobody else writes it or replaces it meanwhile.
KeyFileInv ==
    /\ keyFile.state = "complete" => keyFile.key \in Keys
    /\ \A s \in Servers : ~ServerAt(s, "down") /\ ~ServerAt(s, "load") => server[s].key \in Keys
    /\ \A s \in Servers : ServerAt(s, "write") => keyFile = Partial
    /\ \A s \in Servers : ServerAt(s, "sync") => OnDisk(server[s].key)
    /\ \A s, u \in Servers : Creating(s) /\ Creating(u) => s = u

\* Wherever a label is, in memory, on disk, in a call or in an answer, it was
\* evaluated with the key on disk.
OneKey ==
    ~keyLost =>
        /\ \A c \in Clients, r \in Records :
              /\ labels[c][r] # None => OnDisk(labels[c][r])
              /\ store[c][r] # None => OnDisk(store[c][r])
        /\ \A t \in Threads, r \in Records :
              thread[t].generated[r] # None => OnDisk(thread[t].generated[r])
        /\ \A i \in issued : OnDisk(i.key)

\* What a call knows of the labels it is to return.
Progress ==
    \A t \in Threads, r \in Records :
        /\ (~At(t, "idle") /\ r \in thread[t].batch \ thread[t].missing)
              => labels[ClientOf[t]][r] # None
        /\ (At(t, "merge") \/ At(t, "persist")) /\ r \in thread[t].missing
              => thread[t].generated[r] # None
        /\ At(t, "persist") /\ r \in thread[t].batch => labels[ClientOf[t]][r] # None

\* The lock is held by the one call of the client that writes the store.
Locked ==
    \A t \in Threads, c \in Clients :
        lock[c] = t <=> (ClientOf[t] = c /\ At(t, "persist"))

\* The store is a part of the memory, and holds all of it but what failed calls left
\* there and what the call at work is about to write.
Stored ==
    \A c \in Clients, r \in Records :
        /\ store[c][r] # None => labels[c][r] = store[c][r]
        /\ labels[c][r] # None =>
              \/ store[c][r] = labels[c][r]
              \/ r \in unsaved[c]
              \/ lock[c] # None /\ r \in thread[lock[c]].missing

IInv ==
    /\ TypeOK
    /\ KeyFileInv
    /\ ServingKeyIsOnDisk
    /\ OneKey
    /\ Progress
    /\ Locked
    /\ Stored








USE ClientOfAssumption, NoneAssumption, BoundsAssumption

LEMMA LabelsStart == Init => IInv
<1> SUFFICES ASSUME Init
             PROVE  IInv
    OBVIOUS
<1>1. TypeOK
    <2>1. NoLabels \in Labels
        BY DEF NoLabels, Labels
    <2>2. [t \in Threads |-> Idle] \in
              [Threads -> [pc : {"idle", "evaluate", "merge", "persist"},
                           batch : SUBSET Records, missing : SUBSET Records,
                           generated : Labels]]
        BY <2>1 DEF Idle
    <2>3. [s \in Servers |-> Down] \in
              [Servers -> [pc : {"down", "load", "create", "write", "sync", "serving"},
                           key : Keys \cup {None}]]
        BY DEF Down
    <2>4. [c \in Clients |-> NoLabels] \in [Clients -> Labels]
        BY <2>1
    <2>5. Absent \in [state : {"absent", "partial", "complete"}, key : Keys \cup {None}]
        BY DEF Absent
    <2>6. MaxCrashes \in Nat /\ MaxFailures \in Nat
        OBVIOUS
    <2> HIDE DEF Labels, NoLabels, Idle, Down, Absent
    <2> QED
        <3>1. {labels, store} \subseteq [Clients -> Labels]
            BY <2>4 DEF Init
        <3>2. thread \in [Threads -> [pc : {"idle", "evaluate", "merge", "persist"},
                           batch : SUBSET Records, missing : SUBSET Records,
                           generated : Labels]]
            BY <2>2 DEF Init
        <3>3. server \in [Servers ->
                 [pc : {"down", "load", "create", "write", "sync", "serving"},
                           key : Keys \cup {None}]]
            BY <2>3 DEF Init
        <3>4. /\ keyFile \in [state : {"absent", "partial", "complete"}, key : Keys \cup {None}]
              /\ crashes \in 0 .. MaxCrashes /\ failures \in 0 .. MaxFailures
            BY <2>5, <2>6 DEF Init
        <3>5. lock \in [Clients -> Threads \cup {None}] /\ unsaved \in [Clients -> SUBSET Records]
            BY DEF Init
        <3>6. keyLost \in BOOLEAN
            BY DEF Init
        <3>7. issued \subseteq [client : Clients, record : Records, key : Keys]
            BY DEF Init
        <3> QED
            BY <3>1, <3>2, <3>3, <3>4, <3>5, <3>6, <3>7, Zenon DEF TypeOK
<1>2. KeyFileInv /\ ServingKeyIsOnDisk
    BY DEF Init, KeyFileInv, ServingKeyIsOnDisk, ServerAt, Creating, Down, Absent
<1>3. OneKey
    BY DEF Init, OneKey, Idle, NoLabels
<1>4. Progress /\ Locked /\ Stored
    BY DEF Init, Progress, Locked, Stored, At, Idle, NoLabels
<1> QED
    BY <1>1, <1>2, <1>3, <1>4 DEF IInv

-----------------------------------------------------------------------------
\* The steps of the Key Servers

\* They leave what the clients have alone.
LEMMA ClientsUntouched ==
    ASSUME IInv, UNCHANGED clientVars
    PROVE  Progress' /\ Locked' /\ Stored'
<1>1. Progress'
    BY DEF IInv, Progress, At, clientVars
<1>2. Locked'
    BY DEF IInv, Locked, At, clientVars
<1>3. Stored'
    BY DEF IInv, Stored, clientVars
<1> QED
    BY <1>1, <1>2, <1>3

\* As long as no complete file is lost, no step takes the key on disk away.
LEMMA KeyKept ==
    ASSUME IInv, UNCHANGED clientVars,
           \A k \in Keys : ~keyLost' /\ OnDisk(k) => OnDisk(k)',
           keyLost => keyLost'
    PROVE  OneKey'
<1> SUFFICES ASSUME ~keyLost'
             PROVE  OneKey'
    BY DEF OneKey
<1>1. \A c \in Clients, r \in Records :
          labels[c][r] \in Keys \cup {None} /\ store[c][r] \in Keys \cup {None}
    BY DEF IInv, TypeOK, Labels
<1>2. \A t \in Threads, r \in Records : thread[t].generated[r] \in Keys \cup {None}
    BY DEF IInv, TypeOK, Labels
<1>3. \A i \in issued : i.key \in Keys
    BY DEF IInv, TypeOK
<1>4. /\ \A c \in Clients, r \in Records :
            /\ labels[c][r] # None => OnDisk(labels[c][r])
            /\ store[c][r] # None => OnDisk(store[c][r])
      /\ \A t \in Threads, r \in Records :
            thread[t].generated[r] # None => OnDisk(thread[t].generated[r])
      /\ \A i \in issued : OnDisk(i.key)
    BY DEF IInv, OneKey
<1>5. \A k \in Keys : OnDisk(k) => OnDisk(k)'
    OBVIOUS
<1>6. UNCHANGED <<labels, store, thread, issued>>
    BY DEF clientVars
<1> HIDE DEF OnDisk
<1>7. \A c \in Clients, r \in Records :
          /\ (labels[c][r] # None => OnDisk(labels[c][r]))'
          /\ (store[c][r] # None => OnDisk(store[c][r]))'
    BY <1>1, <1>4, <1>5, <1>6
<1>8. \A t \in Threads, r \in Records :
          (thread[t].generated[r] # None => OnDisk(thread[t].generated[r]))'
    BY <1>2, <1>4, <1>5, <1>6
<1>9. \A i \in issued' : OnDisk(i.key)'
    BY <1>3, <1>4, <1>5, <1>6
<1> QED
    BY <1>7, <1>8, <1>9 DEF OneKey

\* The next place and key of process s.  The key file is written or removed by the
\* process that created it, or created when there is none.
Moving(s, v) ==
    /\ v \in [pc : {"down", "load", "create", "write", "sync", "serving"},
              key : Keys \cup {None}]
    /\ server' = [server EXCEPT ![s] = v]
    /\ v.pc \notin {"down", "load"} => v.key \in Keys
    /\ v.pc = "write" => keyFile' = Partial
    /\ v.pc = "sync" => OnDisk(v.key)'
    /\ v.pc = "serving" => OnDisk(v.key)'
    /\ v.pc \in {"write", "sync"} => Creating(s) \/ keyFile = Absent
    /\ keyFile' = keyFile \/ keyFile = Absent \/ Creating(s)
    /\ keyFile'.state = "complete" => keyFile'.key \in Keys
    /\ \A k \in Keys : ~keyLost' /\ OnDisk(k) => OnDisk(k)'
    /\ keyLost => keyLost'
    /\ keyFile' \in [state : {"absent", "partial", "complete"}, key : Keys \cup {None}]
    /\ keyLost' \in BOOLEAN
    /\ {crashes', failures'} \subseteq Nat /\ crashes' <= MaxCrashes /\ failures' <= MaxFailures
    /\ UNCHANGED clientVars

LEMMA MovingInv ==
    ASSUME IInv, NEW s \in Servers, NEW v, Moving(s, v)
    PROVE  IInv'
<1>1. TypeOK'
    BY DEF IInv, TypeOK, Moving, clientVars
<1>2. KeyFileInv'
    <2>1. \A u \in Servers : server'[u] = IF u = s THEN v ELSE server[u]
        BY DEF IInv, TypeOK, Moving
    <2>2. ASSUME NEW u \in Servers, u # s, Creating(u)
          PROVE  keyFile' = keyFile /\ v.pc \notin {"write", "sync"}
        BY <2>2 DEF IInv, KeyFileInv, Creating, Moving, ServerAt, OnDisk, Complete, Absent,
                    Partial
    <2>3. keyFile'.state = "complete" => keyFile'.key \in Keys
        BY DEF Moving
    <2>4. ASSUME NEW u \in Servers
          PROVE  /\ ~ServerAt(u, "down")' /\ ~ServerAt(u, "load")' => server'[u].key \in Keys
                 /\ ServerAt(u, "write")' => keyFile' = Partial
                 /\ ServerAt(u, "sync")' => OnDisk(server[u].key)'
        BY <2>1, <2>2 DEF IInv, KeyFileInv, Moving, ServerAt, Creating, OnDisk
    <2>5. \A u, q \in Servers : Creating(u)' /\ Creating(q)' => u = q
        BY <2>1, <2>2 DEF IInv, KeyFileInv, Creating
    <2> QED
        BY <2>3, <2>4, <2>5 DEF KeyFileInv
<1>3. ServingKeyIsOnDisk'
    <2> SUFFICES ASSUME NEW u \in Servers, ServerAt(u, "serving")', ~keyLost'
                 PROVE  OnDisk(server[u].key)'
        BY DEF ServingKeyIsOnDisk, OnDisk
    <2>1. CASE u = s
        BY <2>1 DEF IInv, TypeOK, Moving, ServerAt, OnDisk
    <2>2. CASE u # s
        <3>1. server'[u] = server[u]
            BY <2>2 DEF IInv, TypeOK, Moving
        <3>2. OnDisk(server[u].key) /\ server[u].key \in Keys
            BY <3>1 DEF IInv, KeyFileInv, ServingKeyIsOnDisk, ServerAt, OnDisk, Moving
        <3>3. OnDisk(server[u].key) => (keyFile' = Complete(server[u].key))
            BY <3>2 DEF Moving, OnDisk
        <3> QED
            BY <3>1, <3>2, <3>3 DEF OnDisk
    <2> QED
        BY <2>1, <2>2
<1>4. OneKey'
    BY KeyKept DEF Moving
<1> QED
    BY <1>1, <1>2, <1>3, <1>4, ClientsUntouched DEF IInv, Moving

LEMMA StartInv ==
    ASSUME IInv, NEW s \in Servers, Start(s)
    PROVE  IInv'
<1>1. CASE keyFile # Absent
    <2>1. Moving(s, [pc |-> "load", key |-> server[s].key])
        BY <1>1 DEF Start, IInv, KeyFileInv, ServingKeyIsOnDisk, TypeOK, Moving, Creating,
            OnDisk, ServerAt, ServerGo, ServerDown, Down, Absent, Partial, Complete,
            clientVars, faultVars
    <2> QED
        BY <2>1, MovingInv
<1>2. CASE keyFile = Absent
    <2>1. PICK k \in Keys : server' = [server EXCEPT ![s] = [pc |-> "create", key |-> k]]
        BY <1>2 DEF Start
    <2>2. Moving(s, [pc |-> "create", key |-> k])
        BY <1>2, <2>1 DEF Start, IInv, KeyFileInv, ServingKeyIsOnDisk, TypeOK, Moving,
            Creating, OnDisk, ServerAt, ServerGo, ServerDown, Down, Absent, Partial,
            Complete, clientVars, faultVars
    <2> QED
        BY <2>2, MovingInv
<1> QED
    BY <1>1, <1>2

LEMMA LoadInv ==
    ASSUME IInv, NEW s \in Servers, Load(s)
    PROVE  IInv'
<1>1. CASE keyFile.state = "complete"
    <2>1. Moving(s, [pc |-> "serving", key |-> keyFile.key])
        BY <1>1 DEF Load, IInv, KeyFileInv, ServingKeyIsOnDisk, TypeOK, Moving, Creating,
            OnDisk, ServerAt, ServerGo, ServerDown, Down, Absent, Partial, Complete,
            clientVars, faultVars
    <2> QED
        BY <2>1, MovingInv
<1>2. CASE keyFile.state # "complete"
    <2>1. Moving(s, Down)
        BY <1>2 DEF Load, IInv, KeyFileInv, ServingKeyIsOnDisk, TypeOK, Moving, Creating,
            OnDisk, ServerAt, ServerGo, ServerDown, Down, Absent, Partial, Complete,
            clientVars, faultVars
    <2> QED
        BY <2>1, MovingInv
<1> QED
    BY <1>1, <1>2

LEMMA CreateInv ==
    ASSUME IInv, NEW s \in Servers, Create(s)
    PROVE  IInv'
<1>1. CASE keyFile = Absent
    <2>1. Moving(s, [pc |-> "write", key |-> server[s].key])
        BY <1>1 DEF Create, IInv, KeyFileInv, ServingKeyIsOnDisk, TypeOK, Moving, Creating,
            OnDisk, ServerAt, ServerGo, ServerDown, Down, Absent, Partial, Complete,
            clientVars, faultVars
    <2> QED
        BY <2>1, MovingInv
<1>2. CASE keyFile # Absent
    <2>1. Moving(s, [pc |-> "load", key |-> None])
        BY <1>2 DEF Create, IInv, KeyFileInv, ServingKeyIsOnDisk, TypeOK, Moving, Creating,
            OnDisk, ServerAt, ServerGo, ServerDown, Down, Absent, Partial, Complete,
            clientVars, faultVars
    <2> QED
        BY <2>1, MovingInv
<1> QED
    BY <1>1, <1>2

LEMMA WriteInv ==
    ASSUME IInv, NEW s \in Servers, Write(s)
    PROVE  IInv'
<1> DEFINE v == [pc |-> "sync", key |-> server[s].key]
<1>1. server' = [server EXCEPT ![s] = v]
    <2>1. server[s] \in [pc : {"down", "load", "create", "write", "sync", "serving"},
                         key : Keys \cup {None}]
        BY DEF IInv, TypeOK
    <2>2. [server[s] EXCEPT !.pc = "sync"] = v
        BY <2>1
    <2> QED
        BY <2>2 DEF Write, ServerGo
<1>2. server[s].pc = "write" /\ server[s].key \in Keys
    BY DEF Write, IInv, KeyFileInv, ServerAt
<1>3. keyFile' = Complete(server[s].key) /\ (keyFile = Partial \/ keyFile = keyFile')
    BY <1>2 DEF Write, IInv, KeyFileInv, ServerAt, OnDisk
<1>4. \A k \in Keys : ~keyLost' /\ OnDisk(k) => OnDisk(k)'
    BY <1>3 DEF OnDisk, Partial, Complete
<1>5. UNCHANGED <<keyLost, clientVars, faultVars>>
    BY DEF Write
<1>6. Moving(s, v)
    BY <1>1, <1>2, <1>3, <1>4, <1>5
       DEF Moving, IInv, TypeOK, Creating, OnDisk, Complete, faultVars
<1> QED
    BY <1>6, MovingInv

LEMMA SyncInv ==
    ASSUME IInv, NEW s \in Servers, Sync(s)
    PROVE  IInv'
<1> DEFINE v == [pc |-> "serving", key |-> server[s].key]
<1>1. server' = [server EXCEPT ![s] = v]
    <2>1. server[s] \in [pc : {"down", "load", "create", "write", "sync", "serving"},
                         key : Keys \cup {None}]
        BY DEF IInv, TypeOK
    <2>2. [server[s] EXCEPT !.pc = "serving"] = v
        BY <2>1
    <2> QED
        BY <2>2 DEF Sync, ServerGo
<1>2. server[s].pc = "sync" /\ server[s].key \in Keys
    BY DEF Sync, IInv, KeyFileInv, ServerAt
<1>3. keyFile' = Complete(server[s].key) /\ (keyFile = Partial \/ keyFile = keyFile')
    BY <1>2 DEF Sync, IInv, KeyFileInv, ServerAt, OnDisk
<1>4. \A k \in Keys : ~keyLost' /\ OnDisk(k) => OnDisk(k)'
    BY <1>3 DEF OnDisk, Partial, Complete
<1>5. UNCHANGED <<keyLost, clientVars, faultVars>>
    BY DEF Sync
<1>6. Moving(s, v)
    BY <1>1, <1>2, <1>3, <1>4, <1>5
       DEF Moving, IInv, TypeOK, Creating, OnDisk, Complete, faultVars
<1> QED
    BY <1>6, MovingInv

LEMMA WriteFailsInv ==
    ASSUME IInv, NEW s \in Servers, WriteFails(s)
    PROVE  IInv'
<1>1. server' = [server EXCEPT ![s] = Down] /\ Creating(s)
    BY DEF WriteFails, ServerDown, ServerAt, Creating
<1>2. keyFile' \in {Absent, keyFile} /\ UNCHANGED <<clientVars, crashes>>
    BY DEF WriteFails
<1>3. ~keyLost' => ~keyLost /\ ~(keyFile.state = "complete" /\ keyFile' = Absent)
    BY DEF WriteFails
<1>4. \A k \in Keys : ~keyLost' /\ OnDisk(k) => OnDisk(k)'
    BY <1>2, <1>3 DEF OnDisk, Complete
<1>5. failures' \in Nat /\ failures' <= MaxFailures /\ keyLost' \in BOOLEAN
    BY DEF WriteFails, IInv, TypeOK
<1>6. keyFile'.state = "complete" => keyFile'.key \in Keys
    BY <1>2 DEF IInv, KeyFileInv, Absent
<1>7. keyFile' \in [state : {"absent", "partial", "complete"}, key : Keys \cup {None}]
    BY <1>2 DEF IInv, TypeOK, Absent
<1>8. Down.pc = "down" /\ Down.key = None
    BY DEF Down
<1>9. Down \in [pc : {"down", "load", "create", "write", "sync", "serving"},
                key : Keys \cup {None}]
    BY DEF Down
<1>10. crashes' \in Nat /\ crashes' <= MaxCrashes
    BY <1>2 DEF IInv, TypeOK
<1>11. Moving(s, Down)
    BY <1>1, <1>2, <1>3, <1>4, <1>5, <1>6, <1>7, <1>8, <1>9, <1>10 DEF Moving
<1> QED
    BY <1>11, MovingInv

LEMMA ServerCrashesInv ==
    ASSUME IInv, NEW s \in Servers, ServerCrashes(s)
    PROVE  IInv'
<1>1. Moving(s, Down)
    BY DEF ServerCrashes, IInv, KeyFileInv, ServingKeyIsOnDisk, TypeOK, Moving, Creating,
        OnDisk, ServerAt, ServerGo, ServerDown, Down, Absent, Partial, Complete,
        clientVars, faultVars
<1> QED
    BY <1>1, MovingInv

-----------------------------------------------------------------------------
\* The steps of the clients

\* They leave the Key Servers and the key file alone.
LEMMA ServersUntouched ==
    ASSUME IInv, UNCHANGED serverVars
    PROVE  KeyFileInv' /\ ServingKeyIsOnDisk' /\ \A k : OnDisk(k)' = OnDisk(k)
BY DEF IInv, serverVars, KeyFileInv, ServingKeyIsOnDisk, ServerAt, Creating, OnDisk, Complete,
       Partial

CallType == [pc : {"idle", "evaluate", "merge", "persist"},
             batch : SUBSET Records, missing : SUBSET Records, generated : Labels]
LEMMA IdleType == Idle \in CallType /\ NoLabels \in Labels
BY DEF Idle, NoLabels, Labels, CallType

LEMMA GenerateInv ==
    ASSUME IInv, NEW t \in Threads, NEW batch \in SUBSET Records, Generate(t, batch)
    PROVE  IInv'
<1>1. TypeOK'
    BY DEF IInv, TypeOK, Labels, Generate, At, NoLabels, serverVars, faultVars
<1>2. UNCHANGED serverVars
    BY DEF Generate
<1>3. OneKey'
    BY <1>2, ServersUntouched DEF IInv, OneKey, TypeOK, Labels, Generate, At, NoLabels, serverVars
<1>4. Progress'
    BY DEF IInv, Progress, TypeOK, Labels, Generate, At, NoLabels
<1>5. Locked'
    BY DEF IInv, Locked, TypeOK, Generate, At
<1>6. Stored'
    BY DEF IInv, Stored, Locked, TypeOK, Labels, Generate, At, MayLock
<1> QED
    BY <1>1, <1>2, <1>3, <1>4, <1>5, <1>6, ServersUntouched DEF IInv

\* After the evaluation a call has a label for every record it missed, or has failed.
Evaluating(t, v) ==
    /\ v \in CallType
    /\ thread' = [thread EXCEPT ![t] = v]
    /\ v.pc \in {"idle", "merge"}
    /\ v.pc = "merge" => v.batch = thread[t].batch /\ v.missing = thread[t].missing
    /\ v.pc = "merge" => \A r \in v.missing : v.generated[r] # None
    /\ ~keyLost => \A r \in Records : v.generated[r] # None => OnDisk(v.generated[r])

LEMMA EvaluateEffect ==
    ASSUME IInv, NEW t \in Threads, Evaluate(t)
    PROVE  \E v : Evaluating(t, v)
<1> thread[t] \in CallType
    BY DEF IInv, TypeOK, CallType
<1>0. ~keyLost => \A r \in Records :
          thread[t].generated[r] # None => OnDisk(thread[t].generated[r])
    BY DEF IInv, OneKey
<1>1. CASE thread[t].missing = {} /\ thread' = [thread EXCEPT ![t].pc = "merge"]
    <2> DEFINE v == [thread[t] EXCEPT !.pc = "merge"]
    <2>1. Evaluating(t, v)
        BY <1>0, <1>1 DEF Evaluating, CallType
    <2> QED
        BY <2>1
<1>2. ASSUME NEW s \in Servers, ServerAt(s, "serving"),
             thread' = [thread EXCEPT ![t].pc = "merge",
                  ![t].generated = [r \in Records |->
                      IF r \in thread[t].missing THEN server[s].key ELSE None]]
      PROVE  \E v : Evaluating(t, v)
    <2> DEFINE G == [r \in Records |->
                        IF r \in thread[t].missing THEN server[s].key ELSE None]
               v == [thread[t] EXCEPT !.pc = "merge", !.generated = G]
    <2>1. server[s].key \in Keys /\ (~keyLost => OnDisk(server[s].key))
        BY <1>2 DEF IInv, KeyFileInv, ServingKeyIsOnDisk, ServerAt, OnDisk
    <2>2. G \in Labels
        BY <2>1 DEF Labels
    <2>3. thread[t].missing \subseteq Records
        BY DEF CallType
    <2>4. \A r \in thread[t].missing : G[r] # None
        BY <2>1, <2>3
    <2>5. ~keyLost => \A r \in Records : G[r] # None => OnDisk(G[r])
        BY <2>1
    <2>6. thread' = [thread EXCEPT ![t] = v]
        BY <1>2
    <2> HIDE DEF G
    <2>7. /\ v \in CallType /\ v.pc = "merge" /\ v.batch = thread[t].batch
          /\ v.missing = thread[t].missing /\ v.generated = G
        BY <2>2 DEF CallType
    <2> HIDE DEF v
    <2>8. Evaluating(t, v)
        BY <2>4, <2>5, <2>6, <2>7 DEF Evaluating
    <2> QED
        BY <2>8
<1>3. CASE Finish(t)
    <2>1. Evaluating(t, Idle)
        BY <1>3, IdleType DEF Evaluating, Finish, Idle, NoLabels
    <2> QED
        BY <2>1
<1> QED
    BY <1>1, <1>2, <1>3 DEF Evaluate

LEMMA EvaluateInv ==
    ASSUME IInv, NEW t \in Threads, Evaluate(t)
    PROVE  IInv'
<1>1. PICK v : Evaluating(t, v)
    BY EvaluateEffect
<1>2. UNCHANGED <<serverVars, labels, store, lock, unsaved, issued, faultVars>>
    BY DEF Evaluate
<1>3. \A u \in Threads : thread'[u] = IF u = t THEN v ELSE thread[u]
    BY <1>1 DEF IInv, TypeOK, Evaluating
<1>4. ~At(t, "persist") /\ v.pc # "persist" /\ At(t, "evaluate")
    BY <1>1 DEF Evaluate, At, Evaluating
<1>5. TypeOK'
    BY <1>1, <1>2 DEF IInv, TypeOK, Evaluating, CallType, serverVars, faultVars
<1>6. OneKey'
    BY <1>1, <1>2, <1>3, ServersUntouched DEF IInv, OneKey, Evaluating, serverVars
<1>7. Progress'
    BY <1>1, <1>2, <1>3, <1>4 DEF IInv, Progress, Evaluating, At
<1>8. Locked'
    BY <1>2, <1>3, <1>4 DEF IInv, Locked, At
<1>9. Stored'
    BY <1>2, <1>3, <1>4 DEF IInv, Stored, Locked, TypeOK, At
<1> QED
    BY <1>2, <1>5, <1>6, <1>7, <1>8, <1>9, ServersUntouched DEF IInv

\* What Merge writes to the memory of the client: labels the call has generated, for
\* the records R that have none.
Merging(t, R) ==
    /\ R \subseteq Added(t)
    /\ labels' = [labels EXCEPT ![ClientOf[t]] = Merged(t, R)]

LEMMA MergeEffect ==
    ASSUME IInv, NEW t \in Threads, NEW R, At(t, "merge"), Merging(t, R)
    PROVE  /\ R \subseteq thread[t].missing
           /\ labels' \in [Clients -> Labels]
           /\ \A c \in Clients, r \in Records :
                 labels'[c][r] = IF c = ClientOf[t] /\ r \in R
                                 THEN thread[t].generated[r] ELSE labels[c][r]
           /\ \A r \in R : labels[ClientOf[t]][r] = None /\ thread[t].generated[r] # None
<1>1. thread[t] \in CallType /\ labels \in [Clients -> Labels] /\ ClientOf[t] \in Clients
    BY DEF IInv, TypeOK, CallType
<1>2. Merged(t, R) \in Labels
    BY <1>1 DEF Merged, Labels, CallType
<1>3. R \subseteq thread[t].missing /\ R \subseteq Records
    BY <1>1 DEF Merging, Added, CallType
<1>4. \A r \in R : labels[ClientOf[t]][r] = None /\ thread[t].generated[r] # None
    BY <1>3 DEF Merging, Added, IInv, Progress
<1>5. \A r \in Records : Merged(t, R)[r] = IF r \in R THEN thread[t].generated[r]
                                           ELSE labels[ClientOf[t]][r]
    BY DEF Merged
<1>6. labels' \in [Clients -> Labels]
    BY <1>1, <1>2 DEF Merging
<1>7. \A c \in Clients, r \in Records :
          labels'[c][r] = IF c = ClientOf[t] /\ r \in R
                          THEN thread[t].generated[r] ELSE labels[c][r]
    BY <1>1, <1>5 DEF Merging
<1> QED
    BY <1>3, <1>4, <1>6, <1>7

\* Labels are only added, and only under the key on disk.
LEMMA MergedOneKey ==
    ASSUME IInv, NEW t \in Threads, NEW R, At(t, "merge"), Merging(t, R),
           UNCHANGED <<serverVars, store, issued>>,
           \A u \in Threads : thread'[u] \in {thread[u], Idle, [thread[u] EXCEPT !.pc = "persist"]}
    PROVE  OneKey'
<1> SUFFICES ASSUME ~keyLost
             PROVE  OneKey'
    BY DEF OneKey, serverVars
<1>1. \A u \in Threads : thread'[u].generated \in {thread[u].generated, NoLabels}
    BY DEF IInv, TypeOK, Idle
<1>2. \A r \in Records : NoLabels[r] = None
    BY DEF NoLabels
<1>3. \A u \in Threads, r \in Records :
          thread'[u].generated[r] # None => OnDisk(thread'[u].generated[r])
    BY <1>1, <1>2 DEF IInv, OneKey
<1>4. \A c \in Clients, r \in Records :
          labels'[c][r] # None => OnDisk(labels'[c][r])
    BY MergeEffect DEF IInv, OneKey
<1> QED
    BY <1>3, <1>4, ServersUntouched DEF IInv, OneKey, serverVars

\* What a call leaves when it ends: its place is free again.
LEMMA FinishEffect ==
    ASSUME IInv, NEW t \in Threads, Finish(t)
    PROVE  /\ thread' \in [Threads -> CallType]
           /\ \A u \in Threads : thread'[u] = IF u = t THEN Idle ELSE thread[u]
BY IdleType DEF IInv, TypeOK, Finish, CallType

\* The labels of its batch that a call returns are all known.
LEMMA IssueEffect ==
    ASSUME IInv, NEW t \in Threads, Issue(t, labels[ClientOf[t]]),
           \A r \in thread[t].batch : labels[ClientOf[t]][r] # None
    PROVE  /\ issued' \subseteq [client : Clients, record : Records, key : Keys]
           /\ \A i \in issued' \ issued :
                 /\ i.client = ClientOf[t] /\ i.record \in Records
                 /\ i.key = labels[ClientOf[t]][i.record] /\ i.key # None
<1>1. thread[t].batch \subseteq Records /\ ClientOf[t] \in Clients
    BY DEF IInv, TypeOK
<1>2. \A r \in thread[t].batch : labels[ClientOf[t]][r] \in Keys
    BY <1>1 DEF IInv, TypeOK, Labels
<1> QED
    BY <1>1, <1>2 DEF IInv, TypeOK, Issue

LEMMA IssuedOneKey ==
    ASSUME IInv, NEW t \in Threads, Issue(t, labels[ClientOf[t]]),
           \A r \in thread[t].batch : labels[ClientOf[t]][r] # None, ~keyLost
    PROVE  \A i \in issued' : OnDisk(i.key)
<1>1. ASSUME NEW i \in issued' \ issued
      PROVE  OnDisk(i.key)
    <2>1. i.record \in Records /\ i.key = labels[ClientOf[t]][i.record] /\ i.key # None
        BY IssueEffect
    <2>2. ClientOf[t] \in Clients
        OBVIOUS
    <2> QED
        BY <2>1, <2>2 DEF IInv, OneKey
<1>2. \A i \in issued : OnDisk(i.key)
    BY DEF IInv, OneKey
<1> QED
    BY <1>1, <1>2

LEMMA MergeConflictInv ==
    ASSUME IInv, NEW t \in Threads, NEW R, At(t, "merge"), lock[ClientOf[t]] = None,
           Merging(t, R), unsaved' = [unsaved EXCEPT ![ClientOf[t]] = @ \cup R],
           Finish(t), UNCHANGED <<lock, issued, serverVars, store, faultVars>>
    PROVE  IInv'
<1>1. /\ thread' \in [Threads -> CallType]
      /\ \A u \in Threads : thread'[u] = IF u = t THEN Idle ELSE thread[u]
    BY FinishEffect
<1>2. /\ R \subseteq thread[t].missing
      /\ labels' \in [Clients -> Labels]
      /\ \A c \in Clients, r \in Records :
            labels'[c][r] = IF c = ClientOf[t] /\ r \in R
                            THEN thread[t].generated[r] ELSE labels[c][r]
      /\ \A r \in R : labels[ClientOf[t]][r] = None /\ thread[t].generated[r] # None
    BY MergeEffect
<1>3. R \subseteq Records
    BY <1>2 DEF IInv, TypeOK
<1>4. TypeOK'
    BY <1>1, <1>2, <1>3 DEF IInv, TypeOK, CallType, serverVars, faultVars
<1>5. OneKey'
    BY <1>1, MergedOneKey
<1>6. Progress'
    BY <1>1, <1>2 DEF IInv, Progress, TypeOK, At, Idle
<1>7. Locked'
    BY <1>1 DEF IInv, Locked, At, Idle
<1>8. Stored'
    <2>1. \A c \in Clients : unsaved'[c] = IF c = ClientOf[t] THEN unsaved[c] \cup R
                                           ELSE unsaved[c]
        BY DEF IInv, TypeOK
    <2>2. \A c \in Clients : lock[c] # None => lock[c] \in Threads /\ lock[c] # t
        BY DEF IInv, TypeOK, Locked, At
    <2> SUFFICES ASSUME NEW c \in Clients, NEW r \in Records
                 PROVE  /\ store[c][r] # None => labels'[c][r] = store[c][r]
                        /\ labels'[c][r] # None =>
                              \/ store[c][r] = labels'[c][r]
                              \/ r \in unsaved'[c]
                              \/ lock[c] # None /\ r \in thread'[lock[c]].missing
        BY DEF Stored
    <2>3. CASE c = ClientOf[t] /\ r \in R
        <3>1. labels[ClientOf[t]][r] = None
            BY <1>2, <2>3
        <3>2. r \in unsaved'[ClientOf[t]]
            BY <2>1, <2>3
        <3>3. store[c][r] = None
            BY <2>3, <3>1 DEF IInv, Stored
        <3> QED
            BY <2>3, <3>2, <3>3
    <2>4. CASE ~(c = ClientOf[t] /\ r \in R)
        <3>1. labels'[c][r] = labels[c][r]
            BY <1>2, <2>4
        <3>2. lock[c] # None => thread'[lock[c]] = thread[lock[c]]
            BY <1>1, <2>2
        <3>3. r \in unsaved[c] => r \in unsaved'[c]
            BY <2>1
        <3> QED
            BY <3>1, <3>2, <3>3 DEF IInv, Stored
    <2> QED
        BY <2>3, <2>4
<1> QED
    BY <1>4, <1>5, <1>6, <1>7, <1>8, ServersUntouched DEF IInv

LEMMA MergeKnownInv ==
    ASSUME IInv, NEW t \in Threads, At(t, "merge"), Added(t) = {}, Finish(t),
           Issue(t, labels[ClientOf[t]]),
           UNCHANGED <<labels, lock, unsaved, serverVars, store, faultVars>>
    PROVE  IInv'
<1>1. /\ thread' \in [Threads -> CallType]
      /\ \A u \in Threads : thread'[u] = IF u = t THEN Idle ELSE thread[u]
    BY FinishEffect
<1>2. \A r \in thread[t].batch : labels[ClientOf[t]][r] # None
    BY DEF IInv, TypeOK, Progress, At, Added
<1>3. TypeOK'
    BY <1>1, <1>2, IssueEffect DEF IInv, TypeOK, CallType, serverVars, faultVars
<1>4. OneKey'
    BY <1>1, <1>2, IssuedOneKey, ServersUntouched
       DEF IInv, OneKey, serverVars, Idle, NoLabels
<1>5. Progress'
    BY <1>1 DEF IInv, Progress, At, Idle
<1>6. Locked'
    BY <1>1 DEF IInv, Locked, At, Idle
<1>7. Stored'
    <2>1. \A c \in Clients : lock[c] # None => lock[c] \in Threads /\ lock[c] # t
        BY DEF IInv, TypeOK, Locked, At
    <2> QED
        BY <1>1, <2>1 DEF IInv, Stored
<1> QED
    BY <1>3, <1>4, <1>5, <1>6, <1>7, ServersUntouched DEF IInv

LEMMA MergeNewInv ==
    ASSUME IInv, NEW t \in Threads, At(t, "merge"), lock[ClientOf[t]] = None,
           Merging(t, Added(t)), lock' = [lock EXCEPT ![ClientOf[t]] = t],
           thread' = [thread EXCEPT ![t].pc = "persist"],
           UNCHANGED <<unsaved, issued, serverVars, store, faultVars>>
    PROVE  IInv'
<1>1. /\ thread' \in [Threads -> CallType]
      /\ \A u \in Threads : thread'[u] = IF u = t THEN [thread[t] EXCEPT !.pc = "persist"]
                                         ELSE thread[u]
    <2>1. thread \in [Threads -> CallType]
        BY DEF IInv, TypeOK, CallType
    <2>2. [thread[t] EXCEPT !.pc = "persist"] \in CallType
        BY <2>1 DEF CallType
    <2> QED
        BY <2>1, <2>2
<1>2. /\ Added(t) \subseteq thread[t].missing
      /\ labels' \in [Clients -> Labels]
      /\ \A c \in Clients, r \in Records :
            labels'[c][r] = IF c = ClientOf[t] /\ r \in Added(t)
                            THEN thread[t].generated[r] ELSE labels[c][r]
      /\ \A r \in Added(t) : labels[ClientOf[t]][r] = None /\ thread[t].generated[r] # None
    BY MergeEffect
<1>3. /\ lock' \in [Clients -> Threads \cup {None}]
      /\ \A c \in Clients : lock'[c] = IF c = ClientOf[t] THEN t ELSE lock[c]
    BY DEF IInv, TypeOK
<1>4. TypeOK'
    BY <1>1, <1>2, <1>3 DEF IInv, TypeOK, CallType, serverVars, faultVars
<1>5. OneKey'
    BY <1>1, MergedOneKey
<1>6. thread'[t].pc = "persist" /\ thread'[t].batch = thread[t].batch
      /\ thread'[t].missing = thread[t].missing /\ thread'[t].generated = thread[t].generated
    BY <1>1 DEF IInv, TypeOK
<1>7. Progress'
    <2> SUFFICES ASSUME NEW u \in Threads, NEW r \in Records
                 PROVE  /\ (~At(u, "idle") /\ r \in thread[u].batch \ thread[u].missing
                              => labels[ClientOf[u]][r] # None)'
                        /\ ((At(u, "merge") \/ At(u, "persist")) /\ r \in thread[u].missing
                              => thread[u].generated[r] # None)'
                        /\ (At(u, "persist") /\ r \in thread[u].batch
                              => labels[ClientOf[u]][r] # None)'
        BY DEF Progress
    <2>1. /\ ClientOf[u] \in Clients
          /\ labels[ClientOf[u]][r] # None => labels'[ClientOf[u]][r] # None
        BY <1>2
    <2>2. CASE u # t
        <3>1. thread'[u] = thread[u]
            BY <1>1, <2>2
        <3> QED
            BY <2>1, <3>1 DEF IInv, Progress, At
    <2>3. CASE u = t
        <3>1. /\ r \in thread[t].batch \ thread[t].missing => labels[ClientOf[t]][r] # None
              /\ r \in thread[t].missing => thread[t].generated[r] # None
            BY DEF IInv, Progress, At
        <3>2. r \in thread[t].missing => labels'[ClientOf[t]][r] # None
            BY <1>2, <2>1, <3>1 DEF Added
        <3> QED
            BY <1>6, <2>1, <2>3, <3>1, <3>2
    <2> QED
        BY <2>2, <2>3
<1>8. Locked'
    <2>1. \A u \in Threads : ClientOf[u] = ClientOf[t] => ~At(u, "persist")
        BY DEF IInv, Locked
    <2>2. \A u \in Threads : u # t => thread'[u] = thread[u]
        BY <1>1
    <2> QED
        BY <1>3, <1>6, <2>1, <2>2 DEF IInv, Locked, At
<1>9. Stored'
    <2>1. \A c \in Clients : c # ClientOf[t] /\ lock[c] # None
              => lock[c] \in Threads /\ lock[c] # t
        BY DEF IInv, TypeOK, Locked, At
    <2>2. \A u \in Threads : thread'[u].missing = thread[u].missing
        BY <1>1, <1>6
    <2> QED
        BY <1>2, <1>3, <2>1, <2>2 DEF IInv, Stored
<1> QED
    BY <1>4, <1>5, <1>7, <1>8, <1>9, ServersUntouched DEF IInv

LEMMA MergeInv ==
    ASSUME IInv, NEW t \in Threads, Merge(t)
    PROVE  IInv'
<1>1. At(t, "merge") /\ lock[ClientOf[t]] = None
    BY DEF Merge, MayLock
<1>2. UNCHANGED <<serverVars, store, faultVars>>
    BY DEF Merge
<1>3. ASSUME NEW R \in SUBSET Added(t),
             labels' = [labels EXCEPT ![ClientOf[t]] = Merged(t, R)],
             unsaved' = [unsaved EXCEPT ![ClientOf[t]] = @ \cup R],
             Finish(t), UNCHANGED <<lock, issued>>
      PROVE  IInv'
    BY <1>1, <1>2, <1>3, MergeConflictInv DEF Merging
<1>4. CASE /\ Added(t) = {} /\ Finish(t) /\ Issue(t, labels[ClientOf[t]])
           /\ UNCHANGED <<labels, lock, unsaved>>
    BY <1>1, <1>2, <1>4, MergeKnownInv
<1>5. CASE /\ labels' = [labels EXCEPT ![ClientOf[t]] = Merged(t, Added(t))]
           /\ lock' = [lock EXCEPT ![ClientOf[t]] = t]
           /\ thread' = [thread EXCEPT ![t].pc = "persist"]
           /\ UNCHANGED <<unsaved, issued>>
    BY <1>1, <1>2, <1>5, MergeNewInv DEF Merging
<1> QED
    BY <1>3, <1>4, <1>5 DEF Merge

LEMMA PersistInv ==
    ASSUME IInv, NEW t \in Threads, Persist(t)
    PROVE  IInv'
<1>1. /\ thread' \in [Threads -> CallType]
      /\ \A u \in Threads : thread'[u] = IF u = t THEN Idle ELSE thread[u]
    BY FinishEffect DEF Persist
<1>2. \A r \in thread[t].batch : labels[ClientOf[t]][r] # None
    BY DEF IInv, TypeOK, Progress, Persist
<1>3. Issue(t, labels[ClientOf[t]]) /\ ClientOf[t] \in Clients
    BY DEF Persist
<1>4. /\ store' \in [Clients -> Labels]
      /\ \A c \in Clients : store'[c] = IF c = ClientOf[t] THEN labels[c] ELSE store[c]
    BY DEF IInv, TypeOK, Persist
<1>5. /\ lock' \in [Clients -> Threads \cup {None}]
      /\ \A c \in Clients : lock'[c] = IF c = ClientOf[t] THEN None ELSE lock[c]
    BY DEF IInv, TypeOK, Persist
<1>6. /\ unsaved' \in [Clients -> SUBSET Records]
      /\ \A c \in Clients : unsaved'[c] = IF c = ClientOf[t] THEN {} ELSE unsaved[c]
    BY DEF IInv, TypeOK, Persist
<1>7. UNCHANGED <<serverVars, labels, faultVars>>
    BY DEF Persist
<1>8. TypeOK'
    BY <1>1, <1>2, <1>3, <1>4, <1>5, <1>6, <1>7, IssueEffect
       DEF IInv, TypeOK, CallType, serverVars, faultVars
<1>9. OneKey'
    <2> SUFFICES ASSUME ~keyLost
                 PROVE  OneKey'
        BY <1>7 DEF OneKey, serverVars
    <2>1. \A i \in issued' : OnDisk(i.key)
        BY <1>2, <1>3, IssuedOneKey
    <2>2. \A c \in Clients, r \in Records : store'[c][r] # None => OnDisk(store'[c][r])
        BY <1>4 DEF IInv, OneKey
    <2>3. \A u \in Threads, r \in Records :
              thread'[u].generated[r] # None => OnDisk(thread'[u].generated[r])
        BY <1>1 DEF IInv, OneKey, Idle, NoLabels
    <2> QED
        BY <1>7, <2>1, <2>2, <2>3, ServersUntouched DEF IInv, OneKey, serverVars
<1>10. Progress'
    BY <1>1, <1>7 DEF IInv, Progress, At, Idle
<1>11. Locked'
    BY <1>1, <1>5 DEF IInv, Locked, At, Idle, Persist
<1>12. Stored'
    <2>1. \A c \in Clients : c # ClientOf[t] /\ lock[c] # None
              => lock[c] \in Threads /\ lock[c] # t
        BY DEF IInv, TypeOK, Locked, At
    <2> QED
        BY <1>1, <1>4, <1>5, <1>6, <1>7, <2>1 DEF IInv, Stored
<1> QED
    BY <1>7, <1>8, <1>9, <1>10, <1>11, <1>12, ServersUntouched DEF IInv

LEMMA PersistFailsInv ==
    ASSUME IInv, NEW t \in Threads, PersistFails(t)
    PROVE  IInv'
<1>1. /\ thread' \in [Threads -> CallType]
      /\ \A u \in Threads : thread'[u] = IF u = t THEN Idle ELSE thread[u]
    BY FinishEffect DEF PersistFails
<1>2. /\ lock' \in [Clients -> Threads \cup {None}]
      /\ \A c \in Clients : lock'[c] = IF c = ClientOf[t] THEN None ELSE lock[c]
    BY DEF IInv, TypeOK, PersistFails
<1>3. /\ unsaved' \in [Clients -> SUBSET Records]
      /\ \A c \in Clients : unsaved'[c] = IF c = ClientOf[t]
                                          THEN unsaved[c] \cup thread[t].missing ELSE unsaved[c]
    BY DEF IInv, TypeOK, PersistFails
<1>4. UNCHANGED <<serverVars, labels, store, issued, crashes>>
    BY DEF PersistFails
<1>5. failures' \in 0 .. MaxFailures
    BY DEF IInv, TypeOK, PersistFails
<1>6. TypeOK'
    BY <1>1, <1>2, <1>3, <1>4, <1>5 DEF IInv, TypeOK, CallType, serverVars
<1>7. OneKey'
    BY <1>1, <1>4, ServersUntouched DEF IInv, OneKey, serverVars, Idle, NoLabels
<1>8. Progress'
    BY <1>1, <1>4 DEF IInv, Progress, At, Idle
<1>9. Locked'
    BY <1>1, <1>2 DEF IInv, Locked, At, Idle, PersistFails
<1>10. Stored'
    <2>1. \A c \in Clients : c # ClientOf[t] /\ lock[c] # None
              => lock[c] \in Threads /\ lock[c] # t
        BY DEF IInv, TypeOK, Locked, At
    <2>2. lock[ClientOf[t]] = t
        BY DEF IInv, Locked, PersistFails
    <2> QED
        BY <1>1, <1>2, <1>3, <1>4, <2>1, <2>2 DEF IInv, Stored
<1> QED
    BY <1>4, <1>6, <1>7, <1>8, <1>9, <1>10, ServersUntouched DEF IInv

LEMMA ClientRestartsInv ==
    ASSUME IInv, NEW c \in Clients, ClientRestarts(c)
    PROVE  IInv'
<1>1. /\ thread' \in [Threads -> CallType]
      /\ \A u \in Threads : thread'[u] = IF ClientOf[u] = c THEN Idle ELSE thread[u]
    BY IdleType DEF IInv, TypeOK, ClientRestarts, CallType
<1>2. /\ lock' \in [Clients -> Threads \cup {None}]
      /\ \A d \in Clients : lock'[d] = IF d = c THEN None ELSE lock[d]
    BY DEF IInv, TypeOK, ClientRestarts
<1>3. /\ unsaved' \in [Clients -> SUBSET Records]
      /\ \A d \in Clients : unsaved'[d] = IF d = c THEN {} ELSE unsaved[d]
    BY DEF IInv, TypeOK, ClientRestarts
<1>4. /\ labels' \in [Clients -> Labels]
      /\ \A d \in Clients : labels'[d] = IF d = c THEN store[d] ELSE labels[d]
    BY DEF IInv, TypeOK, ClientRestarts
<1>5. UNCHANGED <<serverVars, store, issued, failures>>
    BY DEF ClientRestarts
<1>6. crashes' \in 0 .. MaxCrashes
    BY DEF IInv, TypeOK, ClientRestarts
<1>7. TypeOK'
    BY <1>1, <1>2, <1>3, <1>4, <1>5, <1>6 DEF IInv, TypeOK, CallType, serverVars
<1>8. OneKey'
    BY <1>1, <1>4, <1>5, ServersUntouched DEF IInv, OneKey, serverVars, Idle, NoLabels
<1>9. Progress'
    BY <1>1, <1>4 DEF IInv, Progress, At, Idle
<1>10. Locked'
    BY <1>1, <1>2 DEF IInv, Locked, At, Idle
<1>11. Stored'
    <2>1. \A d \in Clients : d # c /\ lock[d] # None
              => lock[d] \in Threads /\ ClientOf[lock[d]] # c
        BY DEF IInv, TypeOK, Locked
    <2> QED
        BY <1>1, <1>2, <1>3, <1>4, <1>5, <2>1 DEF IInv, Stored
<1> QED
    BY <1>5, <1>7, <1>8, <1>9, <1>10, <1>11, ServersUntouched DEF IInv

-----------------------------------------------------------------------------
\* The invariant, and the properties it carries

LEMMA LabelsStutter ==
    ASSUME IInv, UNCHANGED vars
    PROVE  IInv'
<1>1. TypeOK'
    BY DEF IInv, TypeOK, vars, serverVars, clientVars, faultVars
<1>2. OneKey'
    BY ServersUntouched DEF IInv, OneKey, vars, serverVars, clientVars
<1> QED
    BY <1>1, <1>2, ClientsUntouched, ServersUntouched DEF IInv, vars

LEMMA LabelsNextInv ==
    ASSUME IInv, [Next]_vars
    PROVE  IInv'
<1>1. ASSUME NEW s \in Servers,
             Start(s) \/ ServerStep(s) \/ WriteFails(s) \/ ServerCrashes(s)
      PROVE  IInv'
    BY <1>1, StartInv, LoadInv, CreateInv, WriteInv, SyncInv, WriteFailsInv,
       ServerCrashesInv DEF ServerStep
<1>2. ASSUME NEW t \in Threads, NEW batch \in (SUBSET Records) \ {{}}, Generate(t, batch)
      PROVE  IInv'
    BY <1>2, GenerateInv
<1>3. ASSUME NEW t \in Threads, Call(t) \/ PersistFails(t)
      PROVE  IInv'
    BY <1>3, EvaluateInv, MergeInv, PersistInv, PersistFailsInv DEF Call
<1> QED
    BY <1>1, <1>2, <1>3, ClientRestartsInv, LabelsStutter DEF Next

LEMMA LabelsInvariant == Spec => []IInv
<1>1. IInv /\ [Next]_vars => IInv'
    BY LabelsNextInv
<1> QED
    BY LabelsStart, <1>1, PTL DEF Spec

\* The key file, the places of the processes and the label stores have their types.
THEOREM LabelsTypeCorrect == Spec => []TypeOK
<1>1. IInv => TypeOK
    BY DEF IInv
<1> QED
    BY <1>1, LabelsInvariant, PTL

\* Every process that serves uses the key on disk, however many race to create it
\* and wherever they crash.
THEOREM ServingKeyIsOnDiskHolds == Spec => []ServingKeyIsOnDisk
<1>1. IInv => ServingKeyIsOnDisk
    BY DEF IInv
<1> QED
    BY <1>1, LabelsInvariant, PTL

\* The same record always gets the same label, for any number of Key Servers,
\* clients, threads, crashes and failed writes.
THEOREM OneLabelPerRecordHolds == Spec => []OneLabelPerRecord
<1>1. IInv => OneLabelPerRecord
    BY DEF IInv, OneKey, OneLabelPerRecord, OnDisk, Complete
<1> QED
    BY <1>1, LabelsInvariant, PTL

\* What a step that leaves a client's store alone does to it.
LEMMA StoreStep ==
    ASSUME IInv, [Next]_vars
    PROVE  \/ UNCHANGED store
           \/ \E t \in Threads : Persist(t)
BY DEF Next, ServerStep, Call, Start, Load, Create, Write, Sync, WriteFails, ServerCrashes,
       Generate, Evaluate, Merge, PersistFails, ClientRestarts, clientVars, vars

\* No step takes a label away that is on disk.
THEOREM StoreKeepsLabelsHolds == Spec => StoreKeepsLabels
<1>1. IInv /\ [Next]_vars => [\A c \in Clients, r \in Records :
          store[c][r] # None => store'[c][r] = store[c][r]]_vars
    <2> SUFFICES ASSUME IInv, [Next]_vars, NEW c \in Clients, NEW r \in Records,
                        store[c][r] # None
                 PROVE  store'[c][r] = store[c][r]
        OBVIOUS
    <2>1. ASSUME NEW t \in Threads, Persist(t)
          PROVE  store'[c][r] = store[c][r]
        <3>1. store'[c] = IF c = ClientOf[t] THEN labels[c] ELSE store[c]
            BY <2>1 DEF IInv, TypeOK, Persist
        <3> QED
            BY <3>1 DEF IInv, Stored
    <2> QED
        BY <2>1, StoreStep
<1> QED
    BY <1>1, LabelsInvariant, PTL DEF Spec, StoreKeepsLabels

\* What a step that returns labels is.
LEMMA IssueStep ==
    ASSUME IInv, [Next]_vars
    PROVE  \/ UNCHANGED issued
           \/ \E t \in Threads : \/ Persist(t)
                                 \/ /\ At(t, "merge") /\ lock[ClientOf[t]] = None
                                    /\ Added(t) = {} /\ Issue(t, labels[ClientOf[t]])
                                    /\ UNCHANGED store
BY DEF Next, ServerStep, Call, Start, Load, Create, Write, Sync, WriteFails, ServerCrashes,
       Generate, Evaluate, Merge, PersistFails, ClientRestarts, clientVars, vars, MayLock

\* A label that is returned is on disk, unless a failed call left it in memory only.
THEOREM IssuedIsStoredHolds == Spec => IssuedIsStored
<1>1. IInv /\ [Next]_vars => [\A i \in issued' \ issued :
          \/ store'[i.client][i.record] = i.key
          \/ i.record \in unsaved[i.client]]_vars
    <2> SUFFICES ASSUME IInv, [Next]_vars, NEW i \in issued' \ issued
                 PROVE  \/ store'[i.client][i.record] = i.key
                        \/ i.record \in unsaved[i.client]
        OBVIOUS
    <2>1. ASSUME NEW t \in Threads, Persist(t)
          PROVE  store'[i.client][i.record] = i.key
        <3>1. store'[ClientOf[t]] = labels[ClientOf[t]]
            BY <2>1 DEF IInv, TypeOK, Persist
        <3>2. \A r \in thread[t].batch : labels[ClientOf[t]][r] # None
            BY <2>1 DEF IInv, TypeOK, Progress, Persist
        <3>3. i.client = ClientOf[t] /\ i.key = labels[ClientOf[t]][i.record]
            BY <2>1, <3>2, IssueEffect DEF Persist
        <3> QED
            BY <3>1, <3>3
    <2>2. ASSUME NEW t \in Threads, At(t, "merge"), lock[ClientOf[t]] = None,
                 Added(t) = {}, Issue(t, labels[ClientOf[t]]), UNCHANGED store
          PROVE  \/ store'[i.client][i.record] = i.key
                 \/ i.record \in unsaved[i.client]
        <3>1. \A r \in thread[t].batch : labels[ClientOf[t]][r] # None
            BY <2>2 DEF IInv, TypeOK, Progress, At, Added
        <3>2. /\ i.client = ClientOf[t] /\ i.record \in Records
              /\ i.key = labels[ClientOf[t]][i.record] /\ i.key # None
            BY <2>2, <3>1, IssueEffect
        <3> QED
            BY <2>2, <3>2 DEF IInv, Stored
    <2> QED
        BY <2>1, <2>2, IssueStep
<1> QED
    BY <1>1, LabelsInvariant, PTL DEF Spec, IssuedIsStored

=============================================================================
