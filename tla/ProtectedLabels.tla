-------------------------- MODULE ProtectedLabels --------------------------
(***************************************************************************)
(* Where protected labels come from and where they are kept.  Key Server   *)
(* processes load or create the one OPRF key of a host                     *)
(* (src/dbtfl/oprf/keystore.py); clients turn records into labels through  *)
(* them and keep the labels in a file of their own                         *)
(* (generate_protected_labels in src/dbtfl/entities/client.py).  Both      *)
(* kinds of processes crash and restart, and writes fail.                  *)
(*                                                                         *)
(* A label is determined by its record and the key, so the model keeps the *)
(* key each record was evaluated with: equal records have equal labels     *)
(* exactly when their keys are equal.                                      *)
(***************************************************************************)
EXTENDS Naturals

CONSTANTS
    Servers,     \* Key Server processes that use the same key path
    Keys,        \* OPRF keys
    Clients,     \* clients, each with its own label store
    Threads,     \* threads that generate labels
    ClientOf,    \* per thread: the client it runs in
    Records,     \* normalized records
    None,        \* no key, no label, nobody
    MaxCrashes,  \* bound on crashes
    MaxFailures  \* bound on failed writes

ASSUME ClientOfAssumption == ClientOf \in [Threads -> Clients]
ASSUME NoneAssumption == None \notin Keys \cup Threads
ASSUME BoundsAssumption == {MaxCrashes, MaxFailures} \subseteq Nat

VARIABLES
    keyFile,    \* "absent", "partial", or "complete" with its key
    server,     \* per Key Server process: its place in load_or_create, its key
    labels,     \* per client: _labels_by_record, in memory
    store,      \* per client: the label store on disk
    lock,       \* per client: the thread that holds the client's lock, or None
    thread,     \* per thread: its place in generate_protected_labels, its locals
    crashes,    \* crashes so far
    failures,   \* failed writes so far
    keyLost,    \* history: a complete key file has been removed
    unsaved,    \* history, per client: records a failed call left in memory only
    issued      \* history: labels returned to callers

serverVars == <<keyFile, server, keyLost>>
clientVars == <<labels, store, lock, thread, unsaved, issued>>
faultVars == <<crashes, failures>>
vars == <<serverVars, clientVars, faultVars>>

Labels == [Records -> Keys \cup {None}]
NoLabels == [r \in Records |-> None]
Down == [pc |-> "down", key |-> None]
Idle == [pc |-> "idle", batch |-> {}, missing |-> {}, generated |-> NoLabels]

TypeOK ==
    /\ keyFile \in [state : {"absent", "partial", "complete"}, key : Keys \cup {None}]
    /\ server \in [Servers -> [pc : {"down", "load", "create", "write", "sync", "serving"},
                               key : Keys \cup {None}]]
    /\ {labels, store} \subseteq [Clients -> Labels]
    /\ lock \in [Clients -> Threads \cup {None}]
    /\ thread \in [Threads -> [pc : {"idle", "evaluate", "merge", "persist"},
                               batch : SUBSET Records, missing : SUBSET Records,
                               generated : Labels]]
    /\ crashes \in 0 .. MaxCrashes
    /\ failures \in 0 .. MaxFailures
    /\ keyLost \in BOOLEAN
    /\ unsaved \in [Clients -> SUBSET Records]
    /\ issued \subseteq [client : Clients, record : Records, key : Keys]

Absent == [state |-> "absent", key |-> None]
Partial == [state |-> "partial", key |-> None]
Complete(k) == [state |-> "complete", key |-> k]

Init ==
    /\ keyFile = Absent
    /\ server = [s \in Servers |-> Down]
    /\ labels = [c \in Clients |-> NoLabels]
    /\ store = [c \in Clients |-> NoLabels]
    /\ lock = [c \in Clients |-> None]
    /\ thread = [t \in Threads |-> Idle]
    /\ crashes = 0
    /\ failures = 0
    /\ keyLost = FALSE
    /\ unsaved = [c \in Clients |-> {}]
    /\ issued = {}

-----------------------------------------------------------------------------
\* OprfKeyStore.load_or_create

ServerAt(s, p) == server[s].pc = p
ServerGo(s, p) == server' = [server EXCEPT ![s].pc = p]
ServerDown(s) == server' = [server EXCEPT ![s] = Down]

\* self.path.exists(); otherwise random_scalar().
Start(s) ==
    /\ ServerAt(s, "down")
    /\ IF keyFile # Absent
       THEN ServerGo(s, "load")
       ELSE \E k \in Keys : server' = [server EXCEPT ![s] = [pc |-> "create", key |-> k]]
    /\ UNCHANGED <<keyFile, keyLost, clientVars, faultVars>>

\* Faulty variant of Load: a malformed key file is replaced.
LoadOrReplace(s) ==
    /\ ServerAt(s, "load")
    /\ IF keyFile.state = "complete"
       THEN /\ server' = [server EXCEPT ![s] = [pc |-> "serving", key |-> keyFile.key]]
            /\ UNCHANGED keyFile
       ELSE \E k \in Keys :
              /\ server' = [server EXCEPT ![s] = [pc |-> "write", key |-> k]]
              /\ keyFile' = Partial
    /\ UNCHANGED <<keyLost, clientVars, faultVars>>

\* _load_existing: a malformed key file, or one removed meanwhile, ends the
\* process and is never replaced.
Load(s) ==
    /\ ServerAt(s, "load")
    /\ IF keyFile.state = "complete"
       THEN server' = [server EXCEPT ![s] = [pc |-> "serving", key |-> keyFile.key]]
       ELSE ServerDown(s)
    /\ UNCHANGED <<keyFile, keyLost, clientVars, faultVars>>

\* Faulty variant of Create: without O_EXCL.
CreateShared(s) ==
    /\ ServerAt(s, "create")
    /\ keyFile' = Partial
    /\ ServerGo(s, "write")
    /\ UNCHANGED <<keyLost, clientVars, faultVars>>

\* os.open with O_CREAT and O_EXCL: of two processes that both saw no file one
\* creates it and the other loads it.
Create(s) ==
    /\ ServerAt(s, "create")
    /\ IF keyFile = Absent
       THEN keyFile' = Partial /\ ServerGo(s, "write")
       ELSE UNCHANGED keyFile /\ server' = [server EXCEPT ![s] = [pc |-> "load", key |-> None]]
    /\ UNCHANGED <<keyLost, clientVars, faultVars>>

\* The file is written and flushed, then forced to disk.
Write(s) ==
    /\ ServerAt(s, "write")
    /\ keyFile' = Complete(server[s].key)
    /\ ServerGo(s, "sync")
    /\ UNCHANGED <<keyLost, clientVars, faultVars>>

Sync(s) ==
    /\ ServerAt(s, "sync")
    /\ ServerGo(s, "serving")
    /\ UNCHANGED <<keyFile, keyLost, clientVars, faultVars>>

\* The write or fsync fails: the process removes the file, if it can, and ends.
WriteFails(s) ==
    /\ ServerAt(s, "write") \/ ServerAt(s, "sync")
    /\ failures < MaxFailures
    /\ failures' = failures + 1
    /\ keyFile' \in {Absent, keyFile}
    /\ keyLost' = (keyLost \/ (keyFile.state = "complete" /\ keyFile' = Absent))
    /\ ServerDown(s)
    /\ UNCHANGED <<clientVars, crashes>>

ServerCrashes(s) ==
    /\ ~ServerAt(s, "down")
    /\ crashes < MaxCrashes
    /\ crashes' = crashes + 1
    /\ ServerDown(s)
    /\ UNCHANGED <<keyFile, keyLost, clientVars, failures>>

-----------------------------------------------------------------------------
\* generate_protected_labels

At(t, p) == thread[t].pc = p
MayLock(t) == lock[ClientOf[t]] = None
Finish(t) == thread' = [thread EXCEPT ![t] = Idle]

\* All labels of the batch are returned, in the memory they are read from.
Issue(t, known) ==
    issued' = issued \cup {[client |-> ClientOf[t], record |-> r, key |-> known[r]] :
                              r \in thread[t].batch}

\* The first lock section collects the records without a label.
Generate(t, batch) ==
    /\ At(t, "idle")
    /\ MayLock(t)
    /\ thread' = [thread EXCEPT ![t] =
          [pc |-> "evaluate", batch |-> batch, generated |-> NoLabels,
           missing |-> {r \in batch : labels[ClientOf[t]][r] = None}]]
    /\ UNCHANGED <<serverVars, labels, store, lock, unsaved, issued, faultVars>>

\* The missing labels are evaluated by a Key Server, outside the lock.  Without an
\* answer the call fails.
Evaluate(t) ==
    /\ At(t, "evaluate")
    /\ \/ /\ thread[t].missing = {}
          /\ thread' = [thread EXCEPT ![t].pc = "merge"]
       \/ \E s \in Servers :
            /\ thread[t].missing # {} /\ ServerAt(s, "serving")
            /\ thread' = [thread EXCEPT ![t].pc = "merge",
                  ![t].generated = [r \in Records |->
                      IF r \in thread[t].missing THEN server[s].key ELSE None]]
       \/ thread[t].missing # {} /\ Finish(t)
    /\ UNCHANGED <<serverVars, labels, store, lock, unsaved, issued, faultVars>>

\* The labels still unknown to the client, and those it knows otherwise.
Added(t) == {r \in thread[t].missing : labels[ClientOf[t]][r] = None}
Conflicts(t) ==
    {r \in thread[t].missing : labels[ClientOf[t]][r] \notin {None, thread[t].generated[r]}}
Merged(t, R) ==
    [r \in Records |-> IF r \in R THEN thread[t].generated[r] ELSE labels[ClientOf[t]][r]]

\* Faulty variant of Merge: the lock is not held while the store is written.
MergeUnlocked(t) ==
    LET c == ClientOf[t] IN
    /\ At(t, "merge")
    /\ MayLock(t)
    /\ labels' = [labels EXCEPT ![c] = Merged(t, Added(t))]
    /\ IF Added(t) # {}
       THEN thread' = [thread EXCEPT ![t].pc = "persist"] /\ UNCHANGED issued
       ELSE Finish(t) /\ Issue(t, labels[c])
    /\ UNCHANGED <<serverVars, store, lock, unsaved, faultVars>>

\* The second lock section.  A label that differs from the known one is an error,
\* raised when some of the new labels are already in memory; labels that are all
\* known by now need not be persisted.
Merge(t) ==
    LET c == ClientOf[t] IN
    /\ At(t, "merge")
    /\ MayLock(t)
    /\ \/ /\ Conflicts(t) # {}
          /\ \E R \in SUBSET Added(t) :
                /\ labels' = [labels EXCEPT ![c] = Merged(t, R)]
                /\ unsaved' = [unsaved EXCEPT ![c] = @ \cup R]
          /\ Finish(t)
          /\ UNCHANGED <<lock, issued>>
       \/ /\ Conflicts(t) = {} /\ Added(t) = {}
          /\ Finish(t)
          /\ Issue(t, labels[c])
          /\ UNCHANGED <<labels, lock, unsaved>>
       \/ /\ Conflicts(t) = {} /\ Added(t) # {}
          /\ labels' = [labels EXCEPT ![c] = Merged(t, Added(t))]
          /\ lock' = [lock EXCEPT ![c] = t]
          /\ thread' = [thread EXCEPT ![t].pc = "persist"]
          /\ UNCHANGED <<unsaved, issued>>
    /\ UNCHANGED <<serverVars, store, faultVars>>

\* Faulty variant of Persist: only what this call generated is written.
PersistGenerated(t) ==
    LET c == ClientOf[t] IN
    /\ At(t, "persist")
    /\ store' = [store EXCEPT ![c] = thread[t].generated]
    /\ lock' = [lock EXCEPT ![c] = None]
    /\ Finish(t)
    /\ Issue(t, labels[c])
    /\ UNCHANGED <<serverVars, labels, unsaved, faultVars>>

\* _persist_store writes all labels to a temporary file of its own, forces it to
\* disk and renames it; then the labels are returned.
Persist(t) ==
    LET c == ClientOf[t] IN
    /\ At(t, "persist")
    /\ store' = [store EXCEPT ![c] = labels[c]]
    /\ unsaved' = [unsaved EXCEPT ![c] = {}]
    /\ lock' = [lock EXCEPT ![c] = None]
    /\ Finish(t)
    /\ Issue(t, labels[c])
    /\ UNCHANGED <<serverVars, labels, faultVars>>

\* The temporary file cannot be written or renamed: the call fails, but the labels
\* stay in memory.
PersistFails(t) ==
    /\ At(t, "persist")
    /\ failures < MaxFailures
    /\ failures' = failures + 1
    /\ unsaved' = [unsaved EXCEPT ![ClientOf[t]] = @ \cup thread[t].missing]
    /\ lock' = [lock EXCEPT ![ClientOf[t]] = None]
    /\ Finish(t)
    /\ UNCHANGED <<serverVars, labels, store, issued, crashes>>

\* The client's process dies, anywhere in its calls, and a new one loads the store.
ClientRestarts(c) ==
    /\ crashes < MaxCrashes
    /\ crashes' = crashes + 1
    /\ labels' = [labels EXCEPT ![c] = store[c]]
    /\ lock' = [lock EXCEPT ![c] = None]
    /\ thread' = [t \in Threads |-> IF ClientOf[t] = c THEN Idle ELSE thread[t]]
    /\ unsaved' = [unsaved EXCEPT ![c] = {}]
    /\ UNCHANGED <<serverVars, store, issued, failures>>

-----------------------------------------------------------------------------

ServerStep(s) == Load(s) \/ Create(s) \/ Write(s) \/ Sync(s)
Call(t) == Evaluate(t) \/ Merge(t) \/ Persist(t)

Next ==
    \/ \E s \in Servers : Start(s) \/ ServerStep(s) \/ WriteFails(s) \/ ServerCrashes(s)
    \/ \E t \in Threads :
          \/ \E batch \in (SUBSET Records) \ {{}} : Generate(t, batch)
          \/ Call(t) \/ PersistFails(t)
    \/ \E c \in Clients : ClientRestarts(c)

Spec == Init /\ [][Next]_vars

-----------------------------------------------------------------------------
\* Properties

\* Deduplication rests on this: whichever clients ask, through whichever Key
\* Server process, before or after crashes and failed writes, the same record
\* always gets the same label.  The exception is a key file that was complete and
\* was removed because its fsync failed: another process may have loaded it.
OneLabelPerRecord ==
    \A i, j \in issued : (i.record = j.record /\ ~keyLost) => i.key = j.key

\* Every process that serves uses the key on disk, so that a restart serves the
\* same one.
ServingKeyIsOnDisk ==
    \A s \in Servers :
        (ServerAt(s, "serving") /\ ~keyLost) => keyFile = Complete(server[s].key)

\* A label is on disk when it is returned, whoever generated it ("atomically
\* persist new correspondences"), so that a restarted client returns it again
\* without a Key Server.  Labels a failed call left in memory are the exception:
\* later calls return them although no file has them.
IssuedIsStored ==
    [][\A i \in issued' \ issued :
          \/ store'[i.client][i.record] = i.key
          \/ i.record \in unsaved[i.client]]_vars

\* The store only grows: no interleaving of two calls, failed write or crash takes
\* a label away that was on disk.
StoreKeepsLabels ==
    [][\A c \in Clients, r \in Records :
          store[c][r] # None => store'[c][r] = store[c][r]]_vars
=============================================================================
