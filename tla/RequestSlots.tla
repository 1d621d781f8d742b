---------------------------- MODULE RequestSlots ----------------------------
(***************************************************************************)
(* _ResizableRequestSlots of src/dbtfl/communication/http.py: the number   *)
(* of requests the JSON server works on at a time, which the evaluator     *)
(* changes while requests run and wait.  A request thread acquires a slot  *)
(* before its handler and releases it in a finally.                        *)
(*                                                                         *)
(* The waiting threads are those of a threading.Condition: notify takes    *)
(* the one that waits longest off the list, but it has to take the lock    *)
(* and check the limit again, and a newcomer may be faster.                *)
(***************************************************************************)
EXTENDS Integers, FiniteSets, Sequences, Functions

CONSTANTS
    Requests,  \* request threads
    Limits,    \* the limits the evaluator may set
    FirstLimit \* max_concurrent_requests of the server's configuration

ASSUME RequestsAssumption == IsFiniteSet(Requests)
ASSUME LimitsAssumption == Limits \subseteq Nat \ {0} /\ FirstLimit \in Limits

VARIABLES
    limit,     \* _limit
    active,    \* _active
    waiting,   \* the threads that wait on _condition, the longest first
    woken,     \* threads notified that have not checked the limit again
    holding    \* threads between acquire and release

slotVars == <<limit, active, waiting, woken, holding>>

Waiting == Range(waiting)

SlotsTypeOK ==
    /\ limit \in Limits
    /\ active \in Nat
    /\ waiting \in Seq(Requests)
    /\ woken \subseteq Requests
    /\ holding \subseteq Requests

SlotsInit ==
    /\ limit = FirstLimit
    /\ active = 0
    /\ waiting = <<>>
    /\ woken = {}
    /\ holding = {}

-----------------------------------------------------------------------------

\* The loop of acquire: take a slot below the limit, otherwise wait.
TakeOrWait(r) ==
    \/ /\ active < limit
       /\ active' = active + 1
       /\ holding' = holding \cup {r}
       /\ UNCHANGED waiting
    \/ /\ active >= limit
       /\ waiting' = Append(waiting, r)
       /\ UNCHANGED <<active, holding>>

Acquire(r) ==
    /\ r \notin Waiting \cup woken \cup holding
    /\ TakeOrWait(r)
    /\ UNCHANGED <<limit, woken>>

Recheck(r) ==
    /\ r \in woken
    /\ TakeOrWait(r)
    /\ woken' = woken \ {r}
    /\ UNCHANGED limit

\* Faulty variant of Notify: nobody is told.
NotifyNobody == UNCHANGED <<waiting, woken>>

\* Condition.notify wakes the thread that waits longest, if there is one.
Notify ==
    \/ /\ waiting = <<>>
       /\ UNCHANGED <<waiting, woken>>
    \/ /\ waiting # <<>>
       /\ woken' = woken \cup {Head(waiting)}
       /\ waiting' = Tail(waiting)

Release(r) ==
    /\ r \in holding
    /\ active' = active - 1
    /\ holding' = holding \ {r}
    /\ Notify
    /\ UNCHANGED limit

\* set_limit: all waiting threads check the new limit.  Running requests go on,
\* so that more than the limit may be active for a while.
SetLimit(n) ==
    /\ limit' = n
    /\ woken' = woken \cup Waiting
    /\ waiting' = <<>>
    /\ UNCHANGED <<active, holding>>

SlotsNext ==
    \/ \E r \in Requests : Acquire(r) \/ Recheck(r) \/ Release(r)
    \/ \E n \in Limits : SetLimit(n)

SlotsSpec == SlotsInit /\ [][SlotsNext]_slotVars

-----------------------------------------------------------------------------
\* Properties

\* No wake-up is lost: while a thread waits, every free slot is on its way to
\* a thread that was notified.  Releases, a growing and a shrinking limit and
\* newcomers that take the slot of a notified thread all keep this balance.
NoLostWakeup == waiting # <<>> => limit - active <= Cardinality(woken)
=============================================================================
