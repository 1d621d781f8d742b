---------------------------- MODULE NativeIndex ----------------------------
(***************************************************************************)
(* The concurrent label index of native/atomic_word.cpp: an open-addressed *)
(* hash table of task slots that is only ever filled, a pool of owner      *)
(* edges that is only ever drawn from, and two linked lists through each   *)
(* edge, the owners of a task and the tasks of a client.  Threads register *)
(* labels and look labels up at the same time; only the owner list of one  *)
(* task is guarded, by a per-task spin gate.                               *)
(***************************************************************************)
EXTENDS Naturals, FiniteSets

CONSTANTS Threads,     \* threads inside the native library
          Labels,      \* canonical protected labels
          Tokens,      \* client tokens 1..max_clients
          None,        \* no label, no token
          Capacity,    \* number of task slots
          MaxEdges,    \* size of the edge pool
          Home,        \* hash_label(l) % capacity, for every label
          MaxCalls     \* bound on the calls each thread makes

ASSUME CapacityAssumption == Capacity \in Nat \ {0} /\ MaxEdges \in Nat \ {0}
ASSUME HomeAssumption == Home \in [Labels -> 0 .. Capacity - 1]
ASSUME NoneAssumption == None \notin Labels \cup Tokens
ASSUME BoundsAssumption == MaxCalls \in Nat

VARIABLES
    lifecycle,    \* per slot: EMPTY, WRITING or READY
    slotLabel,    \* per slot: the label stored in it
    ownerHead,    \* per slot: first edge of its owner list
    gate,         \* per slot: owner_append_in_progress
    inverseHead,  \* per token: first edge of its task list
    edges,        \* the edge pool
    nextEdge,     \* the next free edge
    thread,       \* per thread: the call it is inside and its locals
    calls,        \* per thread: calls started so far
    registered    \* history: registrations that returned 1

slotVars == <<lifecycle, slotLabel, ownerHead, gate>>
edgeVars == <<inverseHead, edges, nextEdge>>
vars == <<slotVars, edgeVars, thread, calls, registered>>

Slots == 0 .. Capacity - 1
EdgeIds == 0 .. MaxEdges - 1
NoLink == MaxEdges
Links == EdgeIds \cup {NoLink}

Registering == {"probe", "claimSlot", "fill", "publish", "gate", "check",
                "reserve", "ownerLoad", "ownerPush", "userLoad", "userPush",
                "return", "fail"}
LookingUp == {"lookup", "found", "missed"}

\* owed is history: the label was registered before this lookup began.
Thread == [pc : {"idle"} \cup Registering \cup LookingUp,
           label : Labels \cup {None}, token : Tokens \cup {None},
           slot : Slots, edge : Links, head : Links, owed : BOOLEAN]
Idle == [pc |-> "idle", label |-> None, token |-> None, slot |-> 0,
         edge |-> NoLink, head |-> NoLink, owed |-> FALSE]
Edge == [token : Tokens \cup {None}, task : Slots,
         nextTask : Links, nextUser : Links]

TypeOK ==
    /\ lifecycle \in [Slots -> {"EMPTY", "WRITING", "READY"}]
    /\ slotLabel \in [Slots -> Labels \cup {None}]
    /\ ownerHead \in [Slots -> Links]
    /\ gate \in [Slots -> BOOLEAN]
    /\ inverseHead \in [Tokens -> Links]
    /\ edges \in [EdgeIds -> Edge]
    /\ nextEdge \in 0 .. MaxEdges
    /\ thread \in [Threads -> Thread]
    /\ calls \in [Threads -> 0 .. MaxCalls]
    /\ registered \subseteq [label : Labels, token : Tokens, task : Slots]

Init ==
    /\ lifecycle = [s \in Slots |-> "EMPTY"]
    /\ slotLabel = [s \in Slots |-> None]
    /\ ownerHead = [s \in Slots |-> NoLink]
    /\ gate = [s \in Slots |-> FALSE]
    /\ inverseHead = [k \in Tokens |-> NoLink]
    /\ edges = [e \in EdgeIds |-> [token |-> None, task |-> 0,
                                   nextTask |-> NoLink, nextUser |-> NoLink]]
    /\ nextEdge = 0
    /\ thread = [th \in Threads |-> Idle]
    /\ calls = [th \in Threads |-> 0]
    /\ registered = {}

-----------------------------------------------------------------------------
\* The linked lists, walked from a head.  next is one of the two link fields.

NextTask(e) == edges[e].nextTask
NextUser(e) == edges[e].nextUser

\* The n-th link of the list that starts at h.
Link(h, next(_), n) ==
    LET walk[i \in 0 .. n] ==
            IF i = 0 THEN h
            ELSE IF walk[i - 1] = NoLink THEN NoLink ELSE next(walk[i - 1])
    IN  walk[n]
ListOf(h, next(_)) == {Link(h, next, n) : n \in 0 .. MaxEdges} \ {NoLink}

Owners(s) == {edges[e].token : e \in ListOf(ownerHead[s], NextTask)}
ClientTasks(k) == {edges[e].task : e \in ListOf(inverseHead[k], NextUser)}
HasOwner(s, k) == lifecycle[s] = "READY" /\ k \in Owners(s)

-----------------------------------------------------------------------------

At(th, p) == thread[th].pc = p
Go(th, p) == thread' = [thread EXCEPT ![th].pc = p]

Begin(th, first) ==
    /\ At(th, "idle")
    /\ calls[th] < MaxCalls
    /\ calls' = [calls EXCEPT ![th] = @ + 1]
    /\ thread' = [thread EXCEPT ![th] = first]
    /\ UNCHANGED <<slotVars, edgeVars, registered>>

BeginRegister(th, l, k) ==
    Begin(th, [Idle EXCEPT !.pc = "probe", !.label = l, !.token = k,
                           !.slot = Home[l]])

BeginLookup(th, l) ==
    Begin(th, [Idle EXCEPT !.pc = "lookup", !.label = l, !.slot = Home[l],
                           !.owed = \E r \in registered : r.label = l])

\* Linear probing: the next slot, or the end of the table.
Advance(th, exhausted) ==
    LET next == (thread[th].slot + 1) % Capacity IN
    IF next = Home[thread[th].label]
    THEN Go(th, exhausted)
    ELSE thread' = [thread EXCEPT ![th].slot = next]

\* find_or_insert: one load of a slot's lifecycle.  A WRITING slot is spun on.
Probe(th) ==
    /\ At(th, "probe")
    /\ LET s == thread[th].slot IN
       \/ /\ lifecycle[s] = "READY"
          /\ IF slotLabel[s] = thread[th].label
             THEN Go(th, "gate")
             ELSE Advance(th, "fail")
       \/ /\ lifecycle[s] = "EMPTY"
          /\ Go(th, "claimSlot")
    /\ UNCHANGED <<slotVars, edgeVars, calls, registered>>

\* Faulty variants of ClaimSlot: the loser of the swap probes on, or the slot is
\* taken by a plain store.
ClaimSlotElsewhere(th) ==
    /\ At(th, "claimSlot")
    /\ LET s == thread[th].slot IN
       IF lifecycle[s] = "EMPTY"
       THEN /\ lifecycle' = [lifecycle EXCEPT ![s] = "WRITING"]
            /\ Go(th, "fill")
       ELSE /\ UNCHANGED lifecycle
            /\ thread' = [thread EXCEPT ![th].pc = "probe",
                                        ![th].slot = (s + 1) % Capacity]
    /\ UNCHANGED <<slotLabel, ownerHead, gate, edgeVars, calls, registered>>
ClaimSlotByStore(th) ==
    /\ At(th, "claimSlot")
    /\ lifecycle' = [lifecycle EXCEPT ![thread[th].slot] = "WRITING"]
    /\ Go(th, "fill")
    /\ UNCHANGED <<slotLabel, ownerHead, gate, edgeVars, calls, registered>>

\* The compare-and-swap EMPTY -> WRITING; the loser looks at the slot again.
ClaimSlot(th) ==
    /\ At(th, "claimSlot")
    /\ LET s == thread[th].slot IN
       IF lifecycle[s] = "EMPTY"
       THEN /\ lifecycle' = [lifecycle EXCEPT ![s] = "WRITING"]
            /\ Go(th, "fill")
       ELSE /\ UNCHANGED lifecycle
            /\ Go(th, "probe")
    /\ UNCHANGED <<slotLabel, ownerHead, gate, edgeVars, calls, registered>>

\* Plain stores into the claimed slot, before it is published.
Fill(th) ==
    /\ At(th, "fill")
    /\ slotLabel' = [slotLabel EXCEPT ![thread[th].slot] = thread[th].label]
    /\ ownerHead' = [ownerHead EXCEPT ![thread[th].slot] = NoLink]
    /\ Go(th, "publish")
    /\ UNCHANGED <<lifecycle, gate, edgeVars, calls, registered>>

Publish(th) ==
    /\ At(th, "publish")
    /\ lifecycle' = [lifecycle EXCEPT ![thread[th].slot] = "READY"]
    /\ Go(th, "gate")
    /\ UNCHANGED <<slotLabel, ownerHead, gate, edgeVars, calls, registered>>

\* Faulty variant of AcquireGate: nobody waits for the gate.
AcquireGateAlways(th) ==
    /\ At(th, "gate")
    /\ gate' = [gate EXCEPT ![thread[th].slot] = TRUE]
    /\ Go(th, "check")
    /\ UNCHANGED <<lifecycle, slotLabel, ownerHead, edgeVars, calls, registered>>

\* OwnerAppendGuard: spin until the gate of the task is won.
AcquireGate(th) ==
    /\ At(th, "gate")
    /\ ~gate[thread[th].slot]
    /\ gate' = [gate EXCEPT ![thread[th].slot] = TRUE]
    /\ Go(th, "check")
    /\ UNCHANGED <<lifecycle, slotLabel, ownerHead, edgeVars, calls, registered>>

\* A token that already owns the task returns without a new edge.
CheckOwner(th) ==
    /\ At(th, "check")
    /\ Go(th, IF HasOwner(thread[th].slot, thread[th].token)
              THEN "return" ELSE "reserve")
    /\ UNCHANGED <<slotVars, edgeVars, calls, registered>>

\* Faulty variant of Reserve: a failed call leaves the gate closed.
ReserveKeepsGate(th) ==
    /\ At(th, "reserve")
    /\ IF nextEdge < MaxEdges
       THEN /\ nextEdge' = nextEdge + 1
            /\ edges' = [edges EXCEPT ![nextEdge].token = thread[th].token,
                                      ![nextEdge].task = thread[th].slot]
            /\ thread' = [thread EXCEPT ![th].pc = "ownerLoad",
                                        ![th].edge = nextEdge]
       ELSE /\ Go(th, "fail")
            /\ UNCHANGED <<edges, nextEdge>>
    /\ UNCHANGED <<slotVars, inverseHead, calls, registered>>

\* reserve_edge, whose retry loop touches nothing but the counter, and the
\* plain stores into the reserved edge, which no other thread can reach yet.
\* An exhausted pool fails the call and, with it, releases the gate.
Reserve(th) ==
    /\ At(th, "reserve")
    /\ \/ /\ nextEdge < MaxEdges
          /\ nextEdge' = nextEdge + 1
          /\ edges' = [edges EXCEPT ![nextEdge].token = thread[th].token,
                                    ![nextEdge].task = thread[th].slot]
          /\ thread' = [thread EXCEPT ![th].pc = "ownerLoad",
                                      ![th].edge = nextEdge]
          /\ UNCHANGED gate
       \/ /\ nextEdge >= MaxEdges
          /\ gate' = [gate EXCEPT ![thread[th].slot] = FALSE]
          /\ Go(th, "fail")
          /\ UNCHANGED <<edges, nextEdge>>
    /\ UNCHANGED <<lifecycle, slotLabel, ownerHead, inverseHead, calls, registered>>

\* Faulty variant of LinkTo: both lists go through the same next field.
LinkToOneField(th, h, push, taskList) ==
    /\ thread' = [thread EXCEPT ![th].head = h, ![th].pc = push]
    /\ edges' = [edges EXCEPT ![thread[th].edge].nextTask = h]

\* append_edge_id stores the head it observed, first by a load and then by a
\* failed swap, in the next field of the edge it is about to push.
LinkTo(th, h, push, taskList) ==
    /\ thread' = [thread EXCEPT ![th].head = h, ![th].pc = push]
    /\ edges' = IF taskList
                THEN [edges EXCEPT ![thread[th].edge].nextTask = h]
                ELSE [edges EXCEPT ![thread[th].edge].nextUser = h]

\* The owner list of the task, whose pushes the gate serializes.
OwnerLoad(th) ==
    /\ At(th, "ownerLoad")
    /\ LinkTo(th, ownerHead[thread[th].slot], "ownerPush", TRUE)
    /\ UNCHANGED <<slotVars, inverseHead, nextEdge, calls, registered>>

OwnerPush(th) ==
    /\ At(th, "ownerPush")
    /\ IF ownerHead[thread[th].slot] = thread[th].head
       THEN /\ ownerHead' = [ownerHead EXCEPT ![thread[th].slot] = thread[th].edge]
            /\ Go(th, "userLoad")
            /\ UNCHANGED edges
       ELSE /\ UNCHANGED ownerHead
            /\ LinkTo(th, ownerHead[thread[th].slot], "ownerPush", TRUE)
    /\ UNCHANGED <<lifecycle, slotLabel, gate, inverseHead, nextEdge, calls, registered>>

\* The inverse list, where registrations of the same client for other tasks
\* compete.
UserLoad(th) ==
    /\ At(th, "userLoad")
    /\ LinkTo(th, inverseHead[thread[th].token], "userPush", FALSE)
    /\ UNCHANGED <<slotVars, inverseHead, nextEdge, calls, registered>>

\* Faulty variant of UserPush: the head is overwritten.
UserPushByStore(th) ==
    /\ At(th, "userPush")
    /\ inverseHead' = [inverseHead EXCEPT ![thread[th].token] = thread[th].edge]
    /\ Go(th, "return")
    /\ UNCHANGED <<slotVars, edges, nextEdge, calls, registered>>

UserPush(th) ==
    /\ At(th, "userPush")
    /\ IF inverseHead[thread[th].token] = thread[th].head
       THEN /\ inverseHead' = [inverseHead EXCEPT ![thread[th].token] = thread[th].edge]
            /\ Go(th, "return")
            /\ UNCHANGED edges
       ELSE /\ UNCHANGED inverseHead
            /\ LinkTo(th, inverseHead[thread[th].token], "userPush", FALSE)
    /\ UNCHANGED <<slotVars, nextEdge, calls, registered>>

\* The guard's destructor opens the gate; the call returns 1.
ReturnRegistered(th) ==
    /\ At(th, "return")
    /\ gate' = [gate EXCEPT ![thread[th].slot] = FALSE]
    /\ registered' = registered \cup {[label |-> thread[th].label,
                                       token |-> thread[th].token,
                                       task |-> thread[th].slot]}
    /\ thread' = [thread EXCEPT ![th] = Idle]
    /\ UNCHANGED <<lifecycle, slotLabel, ownerHead, edgeVars, calls>>

\* find_existing: probing stops at an EMPTY slot and spins on a WRITING one.
Lookup(th) ==
    /\ At(th, "lookup")
    /\ LET s == thread[th].slot IN
       \/ /\ lifecycle[s] = "EMPTY"
          /\ Go(th, "missed")
       \/ /\ lifecycle[s] = "READY"
          /\ IF slotLabel[s] = thread[th].label
             THEN Go(th, "found")
             ELSE Advance(th, "missed")
    /\ UNCHANGED <<slotVars, edgeVars, calls, registered>>

\* A failed registration returns 0, a lookup its slot or nothing.
Return(th) ==
    /\ thread[th].pc \in {"fail", "found", "missed"}
    /\ thread' = [thread EXCEPT ![th] = Idle]
    /\ UNCHANGED <<slotVars, edgeVars, calls, registered>>

Step(th) ==
    \/ Probe(th) \/ ClaimSlot(th) \/ Fill(th) \/ Publish(th)
    \/ AcquireGate(th) \/ CheckOwner(th) \/ Reserve(th)
    \/ OwnerLoad(th) \/ OwnerPush(th) \/ UserLoad(th) \/ UserPush(th)
    \/ ReturnRegistered(th) \/ Lookup(th) \/ Return(th)

Next ==
    \E th \in Threads :
        \/ \E l \in Labels, k \in Tokens : BeginRegister(th, l, k)
        \/ \E l \in Labels : BeginLookup(th, l)
        \/ Step(th)

Spec == Init /\ [][Next]_vars

\* A thread inside the library keeps running; callers may stop calling.
FairSpec == Spec /\ \A th \in Threads : WF_vars(Step(th))

-----------------------------------------------------------------------------
\* Properties

\* Two threads that insert the same label at the same time agree on its slot:
\* no label is ever published in two slots, whatever the collisions.
UniqueSlot ==
    \A s, t \in Slots :
        (/\ lifecycle[s] = "READY"
         /\ lifecycle[t] = "READY"
         /\ slotLabel[s] = slotLabel[t]) => s = t

\* Concurrent retries of one client's registration draw at most one edge
\* ("The per-task admission gate prevents duplicate edges").
OneEdgePerOwner ==
    \A d, e \in 0 .. nextEdge - 1 :
        (edges[d].task = edges[e].task /\ edges[d].token = edges[e].token)
        => d = e

\* A registration that returned is visible to every later reader in both
\* directions: the pushes of competing threads never lose an edge, and heartbeat
\* dispatch and drop recovery, which walk the inverse list, see the task.
RegisteredIsVisible ==
    \A r \in registered :
        /\ slotLabel[r.task] = r.label
        /\ HasOwner(r.task, r.token)
        /\ r.task \in ClientTasks(r.token)

\* The inverse list never names a task whose owner list lacks the client, so a
\* client is never handed work claim_tasks would reject as not owned.
InverseImpliesOwner ==
    \A k \in Tokens : \A s \in ClientTasks(k) : HasOwner(s, k)

\* A lookup finds every label whose registration had returned before it began:
\* no interleaving leaves a hole in the label's probe sequence.
LookupFindsRegistered ==
    \A th \in Threads : At(th, "missed") => ~thread[th].owed

\* Every call returns: a WRITING slot is published and a gate is opened, also by
\* the registrations that fail because the edge pool is exhausted.
EveryCallReturns ==
    \A th \in Threads : ~At(th, "idle") ~> At(th, "idle")
=============================================================================
