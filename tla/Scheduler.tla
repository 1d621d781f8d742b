----------------------------- MODULE Scheduler -----------------------------
(***************************************************************************)
(* run_client_training_jobs (src/dbtfl/training/scheduler.py): worker      *)
(* threads, a fixed number per GPU, drain their GPU's queue of jobs.  A    *)
(* worker runs one child process at a time: it tells the evaluator, starts *)
(* the child, polls it for its end, a cancellation and the timeout, and    *)
(* terminates it, or kills it if it will not go.  The callbacks and the    *)
(* start of the child may raise; the exception ends the worker's thread.   *)
(***************************************************************************)
EXTENDS Naturals, Sequences, FiniteSets

CONSTANTS
    NumGpus,     \* gpu_ids are numbered from 0
    Slots,       \* slot indices of one GPU, clients_per_gpu of them
    NumJobs,     \* jobs are numbered 1 .. NumJobs
    NoJob,       \* no job
    MaxErrors    \* bound on the exceptions

ASSUME GpusAssumption == NumGpus \in Nat \ {0}
ASSUME SlotsAssumption == IsFiniteSet(Slots)
ASSUME JobsAssumption == NumJobs \in Nat /\ NoJob \notin 1 .. NumJobs
ASSUME ErrorsAssumption == MaxErrors \in Nat

VARIABLES
    queue,     \* per GPU: the jobs waiting
    worker,    \* per thread: its place, its job, and why it stopped the child
    child,     \* per job: its process
    results,   \* the results, sorted only when the call returns
    deadline,  \* the jobs whose timeout has passed
    returned,  \* the call has returned
    errors     \* exceptions so far

vars == <<queue, worker, child, results, deadline, returned, errors>>

Gpus == 0 .. NumGpus - 1
Jobs == 1 .. NumJobs
JobsOf(g) == {j \in Jobs : (j - 1) % NumGpus = g}
Workers == Gpus \X Slots
Gpu(w) == w[1]
Waiting == [pc |-> "next", job |-> NoJob, stopped |-> "no"]

TypeOK ==
    /\ queue \in [Gpus -> Seq(Jobs)]
    /\ worker \in [Workers ->
          [pc : {"next", "notify", "launch", "poll", "cancel", "time", "grace", "kill",
                 "reap", "ended", "dead"},
           job : Jobs \cup {NoJob}, stopped : {"no", "cancelled", "timeout"}]]
    /\ child \in [Jobs -> {"none", "running", "exited", "reaped"}]
    /\ results \subseteq [job : Jobs, stopped : {"no", "cancelled", "timeout"}]
    /\ deadline \subseteq Jobs
    /\ returned \in BOOLEAN
    /\ errors \in 0 .. MaxErrors

\* The queues after the first n jobs: jobs are dealt to the GPUs in turn.
Dealt[n \in 0 .. NumJobs] ==
    IF n = 0 THEN [g \in Gpus |-> <<>>]
    ELSE [Dealt[n - 1] EXCEPT ![(n - 1) % NumGpus] = Append(@, n)]

Init ==
    /\ queue = Dealt[NumJobs]
    /\ worker = [w \in Workers |-> Waiting]
    /\ child = [j \in Jobs |-> "none"]
    /\ results = {}
    /\ deadline = {}
    /\ returned = FALSE
    /\ errors = 0

-----------------------------------------------------------------------------

At(w, p) == worker[w].pc = p
Go(w, p) == worker' = [worker EXCEPT ![w].pc = p]
Job(w) == worker[w].job
Running(j) == child[j] = "running"

\* Stops the child for a reason.
Terminate(w, reason) ==
    worker' = [worker EXCEPT ![w].pc = "grace", ![w].stopped = reason]

\* An exception leaves the loop; task_done is all the worker still does.
Die(w) ==
    /\ errors < MaxErrors
    /\ errors' = errors + 1
    /\ Go(w, "dead")

\* pending.get_nowait()
TakeJob(w) ==
    /\ At(w, "next")
    /\ IF queue[Gpu(w)] = <<>>
       THEN Go(w, "ended") /\ UNCHANGED queue
       ELSE /\ worker' = [worker EXCEPT ![w].pc = "notify", ![w].job = Head(queue[Gpu(w)])]
            /\ queue' = [queue EXCEPT ![Gpu(w)] = Tail(@)]
    /\ UNCHANGED <<child, results, deadline, returned, errors>>

\* Faulty variant of Notify: the worker swallows the exception with its job.
NotifySkips(w) ==
    /\ At(w, "notify")
    /\ \/ Go(w, "launch") /\ UNCHANGED errors
       \/ /\ errors < MaxErrors
          /\ errors' = errors + 1
          /\ worker' = [worker EXCEPT ![w] = Waiting]
    /\ UNCHANGED <<queue, child, results, deadline, returned>>

\* on_job_start
Notify(w) ==
    /\ At(w, "notify")
    /\ \/ Go(w, "launch") /\ UNCHANGED errors
       \/ Die(w)
    /\ UNCHANGED <<queue, child, results, deadline, returned>>

\* The log file is opened and the process started.
Launch(w) ==
    /\ At(w, "launch")
    /\ \/ /\ Go(w, "poll")
          /\ child' = [child EXCEPT ![Job(w)] = "running"]
          /\ UNCHANGED errors
       \/ Die(w) /\ UNCHANGED child
    /\ UNCHANGED <<queue, results, deadline, returned>>

\* process.poll() at the head of the loop.
Poll(w) ==
    /\ At(w, "poll")
    /\ Go(w, IF Running(Job(w)) THEN "cancel" ELSE "reap")
    /\ UNCHANGED <<queue, child, results, deadline, returned, errors>>

\* cancel_requested
Cancel(w) ==
    /\ At(w, "cancel")
    /\ \/ Go(w, "time") /\ UNCHANGED errors
       \/ Terminate(w, "cancelled") /\ UNCHANGED errors
       \/ Die(w)
    /\ UNCHANGED <<queue, child, results, deadline, returned>>

\* The timeout, counted from before the start.
Time(w) ==
    /\ At(w, "time")
    /\ IF Job(w) \in deadline THEN Terminate(w, "timeout") ELSE Go(w, "poll")
    /\ UNCHANGED <<queue, child, results, deadline, returned, errors>>

\* Faulty variants of Grace: nobody waits for the terminated child, or nobody
\* kills it.
GraceSkipped(w) ==
    /\ At(w, "grace")
    /\ Go(w, "reap")
    /\ UNCHANGED <<queue, child, results, deadline, returned, errors>>
GraceWithoutKill(w) ==
    /\ At(w, "grace")
    /\ ~Running(Job(w))
    /\ Go(w, "reap")
    /\ UNCHANGED <<queue, child, results, deadline, returned, errors>>

\* A terminated child that does not end within five seconds is killed.
Grace(w) ==
    /\ At(w, "grace")
    /\ Go(w, IF Running(Job(w)) THEN "kill" ELSE "reap")
    /\ UNCHANGED <<queue, child, results, deadline, returned, errors>>

\* process.kill(), which no process survives, and process.wait().
Kill(w) ==
    /\ At(w, "kill")
    /\ child' = [child EXCEPT ![Job(w)] = "exited"]
    /\ Go(w, "reap")
    /\ UNCHANGED <<queue, results, deadline, returned, errors>>

\* Faulty variant of Report: a child that was stopped by the timeout gives no
\* result.
ReportUnlessStopped(w) ==
    /\ At(w, "reap")
    /\ child' = [child EXCEPT ![Job(w)] = IF Running(Job(w)) THEN @ ELSE "reaped"]
    /\ results' = IF worker[w].stopped = "timeout" THEN results
                   ELSE results \cup {[job |-> Job(w), stopped |-> worker[w].stopped]}
    /\ worker' = [worker EXCEPT ![w] = Waiting]
    /\ UNCHANGED <<queue, deadline, returned, errors>>

\* The exit status is collected, the result appended under its lock, and the worker
\* takes its next job.
Report(w) ==
    /\ At(w, "reap")
    /\ child' = [child EXCEPT ![Job(w)] = IF Running(Job(w)) THEN @ ELSE "reaped"]
    /\ results' = results \cup {[job |-> Job(w), stopped |-> worker[w].stopped]}
    /\ worker' = [worker EXCEPT ![w] = Waiting]
    /\ UNCHANGED <<queue, deadline, returned, errors>>

\* A training process ends by itself, or on the termination signal.
Exit(j) ==
    /\ Running(j)
    /\ child' = [child EXCEPT ![j] = "exited"]
    /\ UNCHANGED <<queue, worker, results, deadline, returned, errors>>

\* Time passes for a job that has started.
DeadlinePasses(j) ==
    /\ Running(j)
    /\ j \notin deadline
    /\ deadline' = deadline \cup {j}
    /\ UNCHANGED <<queue, worker, child, results, returned, errors>>

\* The caller joins all workers; a thread that died of an exception has ended, too.
Return ==
    /\ ~returned
    /\ \A w \in Workers : At(w, "ended") \/ At(w, "dead")
    /\ returned' = TRUE
    /\ UNCHANGED <<queue, worker, child, results, deadline, errors>>

Step(w) ==
    \/ TakeJob(w) \/ Notify(w) \/ Launch(w) \/ Poll(w) \/ Cancel(w) \/ Time(w)
    \/ Grace(w) \/ Kill(w) \/ Report(w)

Next ==
    \/ \E w \in Workers : Step(w)
    \/ \E j \in Jobs : Exit(j) \/ DeadlinePasses(j)
    \/ Return

Spec == Init /\ [][Next]_vars

\* Threads run and time passes; a training process need never end by itself.
FairSpec ==
    /\ Spec
    /\ \A w \in Workers : WF_vars(Step(w))
    /\ \A j \in Jobs : WF_vars(DeadlinePasses(j))
    /\ WF_vars(Return)

-----------------------------------------------------------------------------
\* Properties

\* A GPU never runs more processes than it has slots ("bounded"), not even when a
\* worker has given a child up or died on it.
SlotsBounded ==
    \A g \in Gpus : Cardinality({j \in JobsOf(g) : Running(j)}) <= Cardinality(Slots)

Reported(j) == \E r \in results : r.job = j

\* When the call returns, no process is left running unless a callback or a
\* start raised, and every job has exactly one result.  An exception costs no
\* more than its worker: as long as a GPU keeps a worker, the only jobs without a
\* result are those that workers died with.  The results of all the jobs behind
\* it are lost silently when it was the last worker of its GPU.
ResultsComplete ==
    returned =>
        /\ Cardinality(results) = Cardinality({r.job : r \in results})
        /\ errors = 0 => \A j \in Jobs : ~Running(j)
        /\ \A g \in Gpus :
             (\E k \in Slots : At(<<g, k>>, "ended")) =>
                 \A j \in JobsOf(g) :
                     \/ Reported(j)
                     \/ \E k \in Slots : At(<<g, k>>, "dead") /\ Job(<<g, k>>) = j

\* The call returns, also when training processes hang and ignore termination.
CallReturns == <>returned
=============================================================================
