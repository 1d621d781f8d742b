------------------------- MODULE Scheduler_proofs -------------------------
(***************************************************************************)
(* Proofs about Scheduler, for any numbers of GPUs, slots, jobs and        *)
(* exceptions: no GPU runs more processes than it has slots, and what the  *)
(* results of a call that has returned may leave out.                      *)
(*                                                                         *)
(* A job is in its GPU's queue, with one of the GPU's workers, or has its  *)
(* one result, and a process runs only while the worker that started it    *)
(* holds its job, be it dead.                                              *)
(***************************************************************************)
EXTENDS Scheduler, FiniteSetTheorems, SequenceTheorems, TLAPS

\* A worker has a job from taking it to its report, or for ever.
Holds(w) == worker[w].pc \notin {"next", "ended"}
Queued(g) == {queue[g][i] : i \in 1 .. Len(queue[g])}

\* The places of a worker whose process may still run.
Attending == {"poll", "cancel", "time", "grace", "kill", "dead"}

\* The queue of a GPU holds jobs of it, once, that have no result.
Queues ==
    \A g \in Gpus :
        /\ Queued(g) \subseteq JobsOf(g)
        /\ \A i, k \in 1 .. Len(queue[g]) : queue[g][i] = queue[g][k] => i = k
        /\ \A j \in Queued(g) : ~Reported(j)

\* A job is with one worker, of its GPU, and then neither queued nor reported.
Held ==
    /\ \A w \in Workers :
          Holds(w) => /\ Job(w) \in JobsOf(Gpu(w))
                      /\ Job(w) \notin Queued(Gpu(w))
                      /\ ~Reported(Job(w))
    /\ \A v, w \in Workers : Holds(v) /\ Holds(w) /\ Job(v) = Job(w) => v = w

\* And it is in one of these places.
NoJobLost ==
    \A g \in Gpus : \A j \in JobsOf(g) :
        \/ j \in Queued(g)
        \/ Reported(j)
        \/ \E k \in Slots : Holds(<<g, k>>) /\ Job(<<g, k>>) = j

\* Only the worker that holds a job has a process running for it.
Attended ==
    /\ \A j \in Jobs : Running(j) => \E w \in Workers : worker[w].pc \in Attending /\ Job(w) = j
    /\ \A w \in Workers : At(w, "reap") => ~Running(Job(w))

\* A job has one result.
OneResult == \A r, s \in results : r.job = s.job => r = s

\* Workers end when their queue is empty, or of an exception, before the call returns.
Ends ==
    /\ \A w \in Workers : At(w, "ended") => queue[Gpu(w)] = <<>>
    /\ \A w \in Workers : At(w, "dead") => errors > 0
    /\ returned => \A w \in Workers : At(w, "ended") \/ At(w, "dead")

IInv ==
    /\ TypeOK
    /\ Queues
    /\ Held
    /\ NoJobLost
    /\ Attended
    /\ OneResult
    /\ Ends

-----------------------------------------------------------------------------
\* Dealing the jobs

\* Induction over the naturals, about a set.
LEMMA CountUp ==
    ASSUME NEW S, 0 \in S, \A n \in Nat : n \in S => n + 1 \in S
    PROVE  Nat \subseteq S
<1> DEFINE T == Nat \ S
           R == OpToRel(<, Nat)
<1> SUFFICES ASSUME T # {}
             PROVE  FALSE
  OBVIOUS
<1>1. IsWellFoundedOn(R, Nat)
  BY NatLessThanWellFounded
<1>2. \A x, y \in Nat : y < x => <<y, x>> \in R
  BY DEF OpToRel
<1> HIDE DEF R
<1>3. PICK x \in T : \A y \in T : ~(<<y, x>> \in R)
  <2>1. T \subseteq Nat
    OBVIOUS
  <2> HIDE DEF T
  <2> QED
    BY <1>1, <2>1, WFMin
<1>4. x # 0 /\ x - 1 \in Nat /\ x - 1 < x
  BY <1>3
<1>5. x - 1 \in S
  BY <1>2, <1>3, <1>4
<1> QED
  BY <1>3, <1>4, <1>5

\* f deals the first n jobs.
Deal(q, n) == [q EXCEPT ![(n - 1) % NumGpus] = Append(@, n)]
Deals(f, n) ==
    f = [m \in 0 .. n |-> IF m = 0 THEN [g \in Gpus |-> <<>>] ELSE Deal(f[m - 1], m)]

\* There is such an f for any number of jobs,
LEMMA DealsExist ==
    ASSUME NEW n \in Nat
    PROVE  \E f : Deals(f, n)
<1> DEFINE N == {m \in Nat : \E f : Deals(f, m)}
           e == [g \in Gpus |-> <<>>]
<1>1. 0 \in N
  <2> DEFINE f == [m \in 0 .. 0 |-> e]
  <2>1. f = [m \in 0 .. 0 |-> IF m = 0 THEN e ELSE Deal(f[m - 1], m)]
    OBVIOUS
  <2> HIDE DEF f
  <2>2. Deals(f, 0)
    BY <2>1 DEF Deals
  <2> QED
    BY <2>2
<1>2. ASSUME NEW m \in Nat, m \in N
      PROVE  m + 1 \in N
  <2>1. PICK f : Deals(f, m)
    BY <1>2
  <2> DEFINE next(k) == IF k = 0 THEN e ELSE Deal(f[k - 1], k)
             g == [k \in 0 .. m + 1 |-> next(k)]
  <2>2. \A k \in 0 .. m : f[k] = next(k)
    BY <2>1 DEF Deals
  <2>3. \A k \in 0 .. m : g[k] = f[k]
    BY <2>2
  <2>4. \A k \in 0 .. m + 1 : k # 0 => k - 1 \in 0 .. m
    OBVIOUS
  <2>5. \A k \in 0 .. m + 1 : g[k] = IF k = 0 THEN e ELSE Deal(g[k - 1], k)
    BY <2>3, <2>4
  <2>6. g = [k \in 0 .. m + 1 |-> g[k]]
    OBVIOUS
  <2> HIDE DEF g
  <2>7. Deals(g, m + 1)
    BY <2>5, <2>6 DEF Deals
  <2> QED
    BY <2>7
<1> HIDE DEF N
<1>3. Nat \subseteq N
  BY <1>1, <1>2, CountUp
<1> QED
  BY <1>3 DEF N

\* and so Dealt is one.
LEMMA DealtIs ==
    /\ Dealt[0] = [g \in Gpus |-> <<>>]
    /\ \A n \in Jobs : Dealt[n] = Deal(Dealt[n - 1], n)
<1>1. NumJobs \in Nat
  BY JobsAssumption
<1>2. PICK f : Deals(f, NumJobs)
  BY <1>1, DealsExist
<1>3. Deals(Dealt, NumJobs)
  BY <1>2 DEF Deals, Dealt, Deal
<1>4. 0 \in 0 .. NumJobs /\ \A n \in Jobs : n \in 0 .. NumJobs /\ n # 0
  BY <1>1 DEF Jobs
<1> QED
  BY <1>3, <1>4 DEF Deals

\* The queues hold every job dealt once, at its GPU.
IsDealt(q, n) ==
    /\ q \in [Gpus -> Seq(Jobs)]
    /\ \A g \in Gpus : \A i \in 1 .. Len(q[g]) : q[g][i] \in JobsOf(g) /\ q[g][i] <= n
    /\ \A g \in Gpus : \A i, k \in 1 .. Len(q[g]) : q[g][i] = q[g][k] => i = k
    /\ \A g \in Gpus : \A j \in JobsOf(g) :
          j <= n => \E i \in 1 .. Len(q[g]) : q[g][i] = j

\* One more job goes to the end of the queue of its GPU.
LEMMA DealOne ==
    ASSUME NEW n \in Jobs, NEW q, IsDealt(q, n - 1)
    PROVE  IsDealt(Deal(q, n), n)
<1> DEFINE h == (n - 1) % NumGpus
           r == Deal(q, n)
<1>1. n \in Nat \ {0} /\ h \in Gpus /\ Jobs \subseteq Nat
  BY GpusAssumption, JobsAssumption DEF Jobs, Gpus
<1>2. n \in JobsOf(h) /\ \A g \in Gpus : n \in JobsOf(g) => g = h
  BY DEF JobsOf
<1>3. r = [q EXCEPT ![h] = Append(q[h], n)]
  BY <1>1 DEF Deal, IsDealt
<1> HIDE DEF h, r
<1>4. q \in [Gpus -> Seq(Jobs)] /\ q[h] \in Seq(Jobs)
  BY <1>1 DEF IsDealt
<1>5. r[h] = Append(q[h], n) /\ \A g \in Gpus : g # h => r[g] = q[g]
  BY <1>1, <1>3, <1>4
<1>6. /\ r[h] \in Seq(Jobs) /\ Len(q[h]) \in Nat /\ Len(r[h]) = Len(q[h]) + 1
      /\ \A i \in 1 .. Len(q[h]) : r[h][i] = q[h][i]
      /\ r[h][Len(q[h]) + 1] = n
  BY <1>4, <1>5, AppendProperties, LenProperties
<1>7. r \in [Gpus -> Seq(Jobs)]
  BY <1>3, <1>4, <1>5, <1>6
<1>8. \A g \in Gpus : JobsOf(g) \subseteq Nat
  BY <1>1 DEF JobsOf
<1>9. ASSUME NEW g \in Gpus
      PROVE  /\ \A i \in 1 .. Len(r[g]) : r[g][i] \in JobsOf(g) /\ r[g][i] <= n
             /\ \A i, k \in 1 .. Len(r[g]) : r[g][i] = r[g][k] => i = k
             /\ \A j \in JobsOf(g) : j <= n => \E i \in 1 .. Len(r[g]) : r[g][i] = j
  <2>1. /\ \A i \in 1 .. Len(q[g]) : q[g][i] \in JobsOf(g) /\ q[g][i] <= n - 1
        /\ \A i, k \in 1 .. Len(q[g]) : q[g][i] = q[g][k] => i = k
        /\ \A j \in JobsOf(g) : j <= n - 1 => \E i \in 1 .. Len(q[g]) : q[g][i] = j
    BY DEF IsDealt
  <2>2. CASE g # h
    <3>1. r[g] = q[g]
      BY <1>5, <2>2
    <3>2. \A j \in JobsOf(g) : j <= n => j <= n - 1
      BY <1>1, <1>2, <1>8, <2>2
    <3>3. \A i \in 1 .. Len(q[g]) : q[g][i] <= n
      BY <1>1, <1>8, <2>1
    <3> QED
      BY <2>1, <3>1, <3>2, <3>3
  <2>3. CASE g = h
    <3>1. \A i \in 1 .. Len(r[g]) : i \in 1 .. Len(q[g]) \/ i = Len(q[g]) + 1
      BY <1>6, <2>3
    <3>2. \A i \in 1 .. Len(q[g]) : i \in 1 .. Len(r[g]) /\ r[g][i] = q[g][i]
      BY <1>6, <2>3
    <3>3. Len(q[g]) + 1 \in 1 .. Len(r[g]) /\ r[g][Len(q[g]) + 1] = n
      BY <1>6, <2>3
    <3>4. \A i \in 1 .. Len(q[g]) : q[g][i] # n /\ q[g][i] <= n
      BY <1>1, <1>8, <2>1
    <3>5. \A j \in JobsOf(g) : j <= n => j = n \/ j <= n - 1
      BY <1>1, <1>8
    <3>6. \A i \in 1 .. Len(r[g]) : r[g][i] \in JobsOf(g) /\ r[g][i] <= n
      BY <1>1, <1>2, <2>1, <2>3, <3>1, <3>2, <3>3, <3>4
    <3>7. \A i, k \in 1 .. Len(r[g]) : r[g][i] = r[g][k] => i = k
      BY <2>1, <3>1, <3>2, <3>3, <3>4
    <3>8. \A j \in JobsOf(g) : j <= n => \E i \in 1 .. Len(r[g]) : r[g][i] = j
      BY <2>1, <3>2, <3>3, <3>5
    <3> QED
      BY <3>6, <3>7, <3>8
  <2> QED
    BY <2>2, <2>3
<1>10. IsDealt(r, n)
  BY <1>7, <1>9 DEF IsDealt
<1> QED
  BY <1>10 DEF r

\* So all jobs are in the initial queues.
LEMMA AllDealt == IsDealt(Dealt[NumJobs], NumJobs)
<1> DEFINE N == {n \in Nat : n <= NumJobs => IsDealt(Dealt[n], n)}
<1>1. 0 \in N
  <2>1. \A g \in Gpus : Dealt[0][g] = <<>>
    BY DealtIs
  <2>2. \A g \in Gpus : JobsOf(g) \subseteq Nat \ {0}
    BY JobsAssumption DEF JobsOf, Jobs
  <2>3. Dealt[0] \in [Gpus -> Seq(Jobs)]
    BY DealtIs, EmptySeq
  <2>4. Len(<<>>) = 0
    BY EmptySeq
  <2>5. \A g \in Gpus : ~\E i \in 1 .. Len(Dealt[0][g]) : TRUE
    BY <2>1, <2>4
  <2>6. \A g \in Gpus : ~\E j \in JobsOf(g) : j <= 0
    BY <2>2
  <2> QED
    BY <2>3, <2>5, <2>6 DEF IsDealt
<1>2. ASSUME NEW n \in Nat, n \in N
      PROVE  n + 1 \in N
  <2> SUFFICES ASSUME n + 1 <= NumJobs
               PROVE  IsDealt(Dealt[n + 1], n + 1)
    OBVIOUS
  <2>1. n + 1 \in Jobs /\ n <= NumJobs /\ (n + 1) - 1 = n
    BY JobsAssumption DEF Jobs
  <2>2. IsDealt(Dealt[n], n)
    BY <1>2, <2>1
  <2>3. Dealt[n + 1] = Deal(Dealt[n], n + 1)
    BY <2>1, DealtIs
  <2> QED
    BY <2>1, <2>2, <2>3, DealOne
<1> HIDE DEF N
<1>3. Nat \subseteq N
  BY <1>1, <1>2, CountUp
<1>4. NumJobs \in N /\ NumJobs <= NumJobs
  BY <1>3, JobsAssumption
<1> QED
  BY <1>4 DEF N

-----------------------------------------------------------------------------
\* The steps of a worker

Local == [pc : {"next", "notify", "launch", "poll", "cancel", "time", "grace", "kill",
                "reap", "ended", "dead"},
          job : Jobs \cup {NoJob}, stopped : {"no", "cancelled", "timeout"}]

\* Workers are pairs of a GPU and a slot.
LEMMA Pairs ==
    /\ \A w \in Workers : Gpu(w) \in Gpus /\ w[2] \in Slots /\ w = <<Gpu(w), w[2]>>
    /\ \A g \in Gpus, k \in Slots : <<g, k>> \in Workers /\ Gpu(<<g, k>>) = g
BY DEF Workers, Gpu

\* A job belongs to one GPU.
LEMMA OneGpu ==
    ASSUME NEW g \in Gpus, NEW h \in Gpus, NEW j \in JobsOf(g), j \in JobsOf(h)
    PROVE  g = h /\ j \in Jobs
BY DEF JobsOf

\* The worker that moves, and the others.
LEMMA WorkerMoves ==
    ASSUME IInv, NEW w \in Workers, NEW R \in Local, worker' = [worker EXCEPT ![w] = R]
    PROVE  /\ worker' \in [Workers -> Local] /\ worker'[w] = R
           /\ \A v \in Workers \ {w} : worker'[v] = worker[v]
BY DEF IInv, TypeOK, Local

\* A worker goes on with its job: it alone may start, stop or kill that job's process.
LEMMA GoesOn ==
    ASSUME IInv, NEW w \in Workers, NEW R \in Local, worker' = [worker EXCEPT ![w] = R],
           Holds(w), worker[w].pc # "dead",
           R.pc \notin {"next", "ended"}, R.job = Job(w),
           child' \in [Jobs -> {"none", "running", "exited", "reaped"}],
           \A j \in Jobs \ {Job(w)} : child'[j] = child[j],
           child'[Job(w)] = "running" => R.pc \in Attending,
           UNCHANGED <<queue, results, deadline, returned>>,
           errors' \in 0 .. MaxErrors, errors <= errors', R.pc = "dead" => errors' > 0
    PROVE  IInv'
<1>1. /\ worker' \in [Workers -> Local] /\ worker'[w] = R
      /\ \A v \in Workers \ {w} : worker'[v] = worker[v]
  BY WorkerMoves
<1>2. /\ \A g \in Gpus : Queued(g)' = Queued(g)
      /\ \A j : Reported(j)' = Reported(j)
  BY DEF Queued, Reported
<1>3. TypeOK'
  BY <1>1 DEF IInv, TypeOK, Local
<1>4. Queues'
  BY <1>2 DEF IInv, Queues
<1>5. \A v \in Workers : Holds(v)' = Holds(v) /\ (Holds(v) => Job(v)' = Job(v))
  BY <1>1 DEF Holds, Job
<1>6. Held'
  <2>1. \A v \in Workers : Gpu(v) \in Gpus
    BY Pairs
  <2> QED
    BY <1>2, <1>5, <2>1 DEF IInv, Held
<1>7. NoJobLost'
  <2> SUFFICES ASSUME NEW g \in Gpus, NEW j \in JobsOf(g),
                      ~(j \in Queued(g) \/ Reported(j))
               PROVE  \E k \in Slots : Holds(<<g, k>>)' /\ Job(<<g, k>>)' = j
    BY <1>2 DEF NoJobLost
  <2>1. PICK k \in Slots : Holds(<<g, k>>) /\ Job(<<g, k>>) = j
    BY DEF IInv, NoJobLost
  <2> QED
    BY <1>5, <2>1, Pairs
<1>8. Attended'
  <2>1. ASSUME NEW j \in Jobs, child'[j] = "running"
        PROVE  \E v \in Workers : worker'[v].pc \in Attending /\ worker'[v].job = j
    <3>1. CASE j = Job(w)
      BY <1>1, <2>1, <3>1
    <3>2. CASE j # Job(w)
      <4>1. PICK v \in Workers : worker[v].pc \in Attending /\ Job(v) = j
        BY <2>1, <3>2 DEF IInv, Attended, Running
      <4>2. v # w
        BY <3>2, <4>1
      <4> QED
        BY <1>1, <4>1, <4>2 DEF Job
    <3> QED
      BY <3>1, <3>2
  <2>2. ASSUME NEW v \in Workers, worker'[v].pc = "reap"
        PROVE  child'[worker'[v].job] # "running"
    <3>1. CASE v = w
      BY <1>1, <2>2, <3>1 DEF Attending
    <3>2. CASE v # w
      <4>1. worker'[v] = worker[v] /\ Holds(v) /\ Job(v) # Job(w)
        BY <1>1, <2>2, <3>2 DEF IInv, Held, Holds
      <4>2. child[Job(v)] # "running"
        BY <2>2, <4>1 DEF IInv, Attended, At, Running
      <4>3. Job(v) \in Jobs
        BY <4>1 DEF IInv, Held, JobsOf
      <4> QED
        BY <4>1, <4>2, <4>3 DEF Job
    <3> QED
      BY <3>1, <3>2
  <2> QED
    BY <2>1, <2>2 DEF Attended, Running, At, Job
<1>9. OneResult'
  BY DEF IInv, OneResult
<1>10. Ends'
  <2>1. ~returned
    BY DEF IInv, Ends, At, Holds
  <2>2. \A v \in Workers : worker'[v].pc = "ended" => queue[Gpu(v)] = <<>>
    BY <1>1 DEF IInv, Ends, At
  <2>3. \A v \in Workers : worker'[v].pc = "dead" => errors' > 0
    <3>1. errors \in Nat /\ errors' \in Nat
      BY ErrorsAssumption DEF IInv, TypeOK
    <3> QED
      BY <1>1, <3>1 DEF IInv, Ends, At
  <2> QED
    BY <2>1, <2>2, <2>3 DEF Ends, At
<1> QED
  BY <1>3, <1>4, <1>6, <1>7, <1>8, <1>9, <1>10 DEF IInv

\* Callbacks, polling and stopping.
LEMMA HoldingStep ==
    ASSUME IInv, NEW w \in Workers,
           Notify(w) \/ Launch(w) \/ Poll(w) \/ Cancel(w) \/ Time(w) \/ Grace(w) \/ Kill(w)
    PROVE  IInv'
<1> DEFINE r == worker[w]
           To(pc) == [r EXCEPT !.pc = pc]
           Stop(reason) == [r EXCEPT !.pc = "grace", !.stopped = reason]
<1>1. /\ UNCHANGED <<queue, results, deadline, returned>>
      /\ Holds(w) /\ r.pc \notin {"dead", "reap"} /\ r \in Local
      /\ errors \in Nat /\ child \in [Jobs -> {"none", "running", "exited", "reaped"}]
  BY ErrorsAssumption
  DEF IInv, TypeOK, Local, Notify, Launch, Poll, Cancel, Time, Grace, Kill, Holds, At
<1>2. Job(w) \in Jobs
  BY <1>1 DEF IInv, Held, JobsOf
<1>3. errors' \in 0 .. MaxErrors /\ errors <= errors'
  BY <1>1, ErrorsAssumption
  DEF IInv, TypeOK, Notify, Launch, Poll, Cancel, Time, Grace, Kill, Die
<1>4. ASSUME NEW R \in Local, worker' = [worker EXCEPT ![w] = R],
             R.pc \notin {"next", "ended"}, R.job = Job(w),
             child' \in [Jobs -> {"none", "running", "exited", "reaped"}],
             \A j \in Jobs \ {Job(w)} : child'[j] = child[j],
             child'[Job(w)] = "running" => R.pc \in Attending,
             R.pc = "dead" => errors' > 0
      PROVE  IInv'
  BY <1>1, <1>3, <1>4, GoesOn
<1>5. ASSUME NEW pc \in {"launch", "poll", "cancel", "time", "grace", "kill", "reap", "dead"}
      PROVE  /\ To(pc) \in Local /\ To(pc).pc = pc /\ To(pc).job = Job(w)
             /\ Go(w, pc) => worker' = [worker EXCEPT ![w] = To(pc)]
  BY <1>1 DEF Local, Job, Go, IInv, TypeOK
<1>6. ASSUME NEW reason \in {"cancelled", "timeout"}
      PROVE  /\ Stop(reason) \in Local /\ Stop(reason).pc = "grace"
             /\ Stop(reason).job = Job(w)
             /\ Terminate(w, reason) => worker' = [worker EXCEPT ![w] = Stop(reason)]
  BY <1>1 DEF Local, Job, Terminate, IInv, TypeOK
<1> HIDE DEF To, Stop
<1>7. CASE \/ Die(w) /\ UNCHANGED child
  <2>1. errors' > 0 /\ worker' = [worker EXCEPT ![w] = To("dead")]
    BY <1>1, <1>5, <1>7 DEF Die
  <2> QED
    BY <1>1, <1>4, <1>5, <1>7, <2>1 DEF Attending
<1>8. CASE \E reason \in {"cancelled", "timeout"} : Terminate(w, reason) /\ UNCHANGED child
  BY <1>1, <1>4, <1>6, <1>8 DEF Attending
<1>9. CASE UNCHANGED child /\ \E pc \in Attending \ {"dead"} : Go(w, pc)
  BY <1>1, <1>4, <1>5, <1>9 DEF Attending
<1>10. CASE UNCHANGED child /\ ~Running(Job(w)) /\ \E pc \in {"launch", "reap"} : Go(w, pc)
  BY <1>1, <1>4, <1>5, <1>10 DEF Running
<1>11. CASE Launch(w) /\ Go(w, "poll") /\ child' = [child EXCEPT ![Job(w)] = "running"]
  BY <1>1, <1>2, <1>4, <1>5, <1>11 DEF Attending
<1>12. CASE Kill(w)
  <2>1. /\ child' \in [Jobs -> {"none", "running", "exited", "reaped"}]
        /\ \A j \in Jobs \ {Job(w)} : child'[j] = child[j]
        /\ child'[Job(w)] = "exited" /\ Go(w, "reap")
    BY <1>1, <1>2, <1>12 DEF Kill
  <2> QED
    BY <1>4, <1>5, <2>1
<1>13. CASE Notify(w) /\ Go(w, "launch") /\ UNCHANGED child
  <2>1. ~Running(Job(w))
    <3> SUFFICES ASSUME Running(Job(w))
                 PROVE  FALSE
      OBVIOUS
    <3>1. PICK v \in Workers : worker[v].pc \in Attending /\ Job(v) = Job(w)
      BY <1>2 DEF IInv, Attended
    <3>2. v = w
      BY <1>1, <3>1 DEF IInv, Held, Holds, Attending
    <3> QED
      BY <1>13, <3>1, <3>2 DEF Notify, At, Attending
  <2> QED
    BY <1>10, <1>13, <2>1
<1>14. CASE Notify(w)
  BY <1>7, <1>13, <1>14 DEF Notify
<1>15. CASE Launch(w)
  BY <1>7, <1>11, <1>15 DEF Launch
<1>16. CASE Poll(w)
  BY <1>9, <1>10, <1>16 DEF Poll, Attending
<1>17. CASE Cancel(w)
  BY <1>7, <1>8, <1>9, <1>17 DEF Cancel, Attending
<1>18. CASE Time(w)
  BY <1>8, <1>9, <1>18 DEF Time, Attending
<1>19. CASE Grace(w)
  BY <1>9, <1>10, <1>19 DEF Grace, Attending
<1> QED
  BY <1>12, <1>14, <1>15, <1>16, <1>17, <1>18, <1>19

\* The next job leaves its queue, from then on the worker holds it.
LEMMA TakeJobStep ==
    ASSUME IInv, NEW w \in Workers, TakeJob(w)
    PROVE  IInv'
<1> DEFINE r == worker[w]
           q == queue[Gpu(w)]
<1>1. /\ r.pc = "next" /\ UNCHANGED <<child, results, deadline, returned, errors>>
      /\ r \in Local /\ Gpu(w) \in Gpus /\ q \in Seq(Jobs)
  BY Pairs DEF TakeJob, At, IInv, TypeOK, Local
<1>2. ~returned
  BY <1>1 DEF IInv, Ends, At
<1>3. \A j : Reported(j)' = Reported(j)
  BY <1>1 DEF Reported
<1>4. CASE q = <<>> /\ Go(w, "ended") /\ UNCHANGED queue
  <2> DEFINE R == [r EXCEPT !.pc = "ended"]
  <2>1. R \in Local /\ R.pc = "ended"
    BY <1>1 DEF Local
  <2>2. worker' = [worker EXCEPT ![w] = R]
    BY <1>4 DEF Go, IInv, TypeOK
  <2> HIDE DEF R
  <2>3. /\ worker' \in [Workers -> Local] /\ worker'[w] = R
        /\ \A v \in Workers \ {w} : worker'[v] = worker[v]
    BY <2>1, <2>2, WorkerMoves
  <2>4. TypeOK' /\ Queues' /\ OneResult'
    BY <1>1, <1>3, <1>4, <2>3 DEF IInv, TypeOK, Local, Queues, Queued, OneResult
  <2>5. \A v \in Workers : Holds(v)' = Holds(v) /\ (Holds(v) => Job(v)' = Job(v))
    BY <1>1, <2>1, <2>3 DEF Holds, Job
  <2>6. \A g \in Gpus : Queued(g)' = Queued(g)
    BY <1>4 DEF Queued
  <2>7. Held'
    <3>1. \A v \in Workers : Gpu(v) \in Gpus
      BY Pairs
    <3> QED
      BY <1>3, <2>5, <2>6, <3>1 DEF IInv, Held
  <2>8. NoJobLost'
    <3> SUFFICES ASSUME NEW g \in Gpus, NEW j \in JobsOf(g),
                        ~(j \in Queued(g) \/ Reported(j))
                 PROVE  \E k \in Slots : Holds(<<g, k>>)' /\ Job(<<g, k>>)' = j
      BY <1>3, <2>6 DEF NoJobLost
    <3>1. PICK k \in Slots : Holds(<<g, k>>) /\ Job(<<g, k>>) = j
      BY DEF IInv, NoJobLost
    <3> QED
      BY <2>5, <3>1, Pairs
  <2>9. Attended'
    <3>1. \A j \in Jobs : Running(j) =>
              \E v \in Workers : v # w /\ worker[v].pc \in Attending /\ Job(v) = j
      BY <1>1 DEF IInv, Attended, Attending
    <3> QED
      BY <1>1, <2>1, <2>3, <3>1 DEF IInv, Attended, Running, At, Job
  <2>10. Ends'
    BY <1>1, <1>2, <1>4, <2>1, <2>3 DEF IInv, Ends, At
  <2> QED
    BY <2>4, <2>7, <2>8, <2>9, <2>10 DEF IInv
<1>5. CASE /\ q # <<>>
           /\ worker' = [worker EXCEPT ![w].pc = "notify", ![w].job = Head(q)]
           /\ queue' = [queue EXCEPT ![Gpu(w)] = Tail(@)]
  <2> DEFINE x == Head(q)
             R == [r EXCEPT !.pc = "notify", !.job = x]
             G == Gpu(w)
  <2>1. /\ Len(q) \in Nat \ {0} /\ x = q[1] /\ x \in Jobs
        /\ Tail(q) \in Seq(Jobs) /\ Len(Tail(q)) = Len(q) - 1
        /\ \A i \in 1 .. Len(Tail(q)) : Tail(q)[i] = q[i + 1]
    BY <1>1, <1>5
  <2>2. /\ queue' \in [Gpus -> Seq(Jobs)] /\ queue'[G] = Tail(q)
        /\ \A g \in Gpus : g # G => queue'[g] = queue[g]
    BY <1>1, <1>5, <2>1 DEF IInv, TypeOK
  <2>3. R \in Local /\ R.pc = "notify" /\ R.job = x
    BY <1>1, <2>1 DEF Local
  <2>4. worker' = [worker EXCEPT ![w] = R]
    BY <1>5 DEF IInv, TypeOK
  <2>5. \A i, k \in 1 .. Len(q) : q[i] = q[k] => i = k
    BY <1>1 DEF IInv, Queues
  <2>6. x \in Queued(G) /\ x \in JobsOf(G) /\ ~Reported(x)
    BY <1>1, <2>1 DEF IInv, Queues, Queued
  <2> HIDE DEF x, R
  <2>7. /\ worker' \in [Workers -> Local] /\ worker'[w] = R
        /\ \A v \in Workers \ {w} : worker'[v] = worker[v]
    BY <2>3, <2>4, WorkerMoves
  <2>8. /\ Queued(G)' = Queued(G) \ {x}
        /\ \A g \in Gpus : g # G => Queued(g)' = Queued(g)
    <3>1. ASSUME NEW j
          PROVE  (\E i \in 1 .. Len(Tail(q)) : Tail(q)[i] = j) <=>
                     (j # x /\ \E i \in 1 .. Len(q) : q[i] = j)
      <4>1. ASSUME NEW i \in 1 .. Len(Tail(q)), Tail(q)[i] = j
            PROVE  j # x /\ \E k \in 1 .. Len(q) : q[k] = j
        <5>1. i + 1 \in 1 .. Len(q) /\ 1 \in 1 .. Len(q) /\ i + 1 # 1 /\ q[i + 1] = j
          BY <2>1, <4>1
        <5> QED
          BY <2>1, <2>5, <5>1
      <4>2. ASSUME j # x, NEW i \in 1 .. Len(q), q[i] = j
            PROVE  \E k \in 1 .. Len(Tail(q)) : Tail(q)[k] = j
        <5>1. i # 1
          BY <2>1, <4>2
        <5>2. i - 1 \in 1 .. Len(Tail(q)) /\ (i - 1) + 1 = i
          BY <2>1, <5>1
        <5> QED
          BY <2>1, <4>2, <5>2
      <4> QED
        BY <4>1, <4>2
    <3>2. Queued(G) = {q[i] : i \in 1 .. Len(q)}
      BY DEF Queued
    <3>3. Queued(G)' = {Tail(q)[i] : i \in 1 .. Len(Tail(q))}
      BY <2>2 DEF Queued
    <3>4. Queued(G)' = Queued(G) \ {x}
      BY <3>1, <3>2, <3>3
    <3>5. \A g \in Gpus : g # G => Queued(g)' = Queued(g)
      BY <2>2 DEF Queued
    <3> QED
      BY <3>4, <3>5
  <2>9. TypeOK' /\ OneResult'
    BY <1>1, <2>2, <2>7 DEF IInv, TypeOK, Local, OneResult
  <2>10. \A g \in Gpus : Queued(g)' \subseteq Queued(g)
    BY <2>8
  <2>11. Queues'
    <3>1. \A g \in Gpus : \A i, k \in 1 .. Len(queue'[g]) :
              queue'[g][i] = queue'[g][k] => i = k
      <4> SUFFICES ASSUME NEW i \in 1 .. Len(Tail(q)), NEW k \in 1 .. Len(Tail(q)),
                          Tail(q)[i] = Tail(q)[k]
                   PROVE  i = k
        BY <2>2 DEF IInv, Queues
      <4>1. /\ i + 1 \in 1 .. Len(q) /\ k + 1 \in 1 .. Len(q)
            /\ q[i + 1] = q[k + 1]
        BY <2>1
      <4> QED
        BY <2>5, <4>1
    <3> QED
      BY <1>3, <2>10, <3>1 DEF IInv, Queues
  <2>12. /\ \A v \in Workers \ {w} : Holds(v)' = Holds(v) /\ Job(v)' = Job(v)
         /\ Holds(w)' /\ Job(w)' = x
    BY <2>3, <2>7 DEF Holds, Job
  <2>13. \A v \in Workers : Holds(v) => Job(v) # x /\ v # w
    <3>1. \A v \in Workers : Gpu(v) \in Gpus
      BY Pairs
    <3>2. \A v \in Workers : Holds(v) /\ Job(v) = x => Gpu(v) = G
      BY <1>1, <2>6, <3>1, OneGpu DEF IInv, Held
    <3> QED
      BY <1>1, <2>6, <3>2 DEF IInv, Held, Holds
  <2>14. Held'
    <3>1. ASSUME NEW v \in Workers, Holds(v)'
          PROVE  /\ Job(v)' \in JobsOf(Gpu(v)) /\ Job(v)' \notin Queued(Gpu(v))'
                 /\ ~Reported(Job(v)')
      <4>1. CASE v = w
        BY <2>6, <2>8, <2>12, <4>1
      <4>2. CASE v # w
        <5>1. Holds(v) /\ Job(v)' = Job(v) /\ Gpu(v) \in Gpus
          BY <2>12, <3>1, <4>2, Pairs
        <5> QED
          BY <2>10, <5>1 DEF IInv, Held
      <4> QED
        BY <4>1, <4>2
    <3>2. ASSUME NEW u \in Workers, NEW v \in Workers, Holds(u)', Holds(v)', Job(u)' = Job(v)'
          PROVE  u = v
      <4>1. CASE u # w /\ v # w
        BY <2>12, <3>2, <4>1 DEF IInv, Held
      <4>2. CASE ~(u # w /\ v # w)
        BY <2>12, <2>13, <3>2, <4>2
      <4> QED
        BY <4>1, <4>2
    <3>3. \A v \in Workers : Reported(Job(v)') = Reported(Job(v))'
      BY <1>1 DEF Reported, Job
    <3> QED
      BY <3>1, <3>2, <3>3 DEF Held
  <2>15. NoJobLost'
    <3> SUFFICES ASSUME NEW g \in Gpus, NEW j \in JobsOf(g),
                        ~(j \in Queued(g)' \/ Reported(j))
                 PROVE  \E k \in Slots : Holds(<<g, k>>)' /\ Job(<<g, k>>)' = j
      BY <1>3 DEF NoJobLost
    <3>1. CASE j \in Queued(g)
      <4>1. g = G /\ j = x
        BY <2>8, <3>1
      <4> QED
        BY <1>1, <2>12, <4>1, Pairs
    <3>2. CASE j \notin Queued(g)
      <4>1. PICK k \in Slots : Holds(<<g, k>>) /\ Job(<<g, k>>) = j
        BY <3>2 DEF IInv, NoJobLost
      <4> QED
        BY <2>12, <2>13, <4>1, Pairs
    <3> QED
      BY <3>1, <3>2
  <2>16. Attended'
    <3>1. \A j \in Jobs : Running(j) =>
              \E v \in Workers : v # w /\ worker[v].pc \in Attending /\ Job(v) = j
      BY <1>1 DEF IInv, Attended, Attending
    <3> QED
      BY <1>1, <2>3, <2>7, <3>1 DEF IInv, Attended, Running, At, Job
  <2>17. Ends'
    <3>1. \A v \in Workers : worker'[v].pc = "ended" => queue'[Gpu(v)] = <<>>
      <4>1. \A v \in Workers : worker'[v].pc = "ended" => queue[Gpu(v)] = <<>> /\ Gpu(v) # G
        BY <1>5, <2>3, <2>7 DEF IInv, Ends, At
      <4> QED
        BY <2>2, <4>1, Pairs
    <3> QED
      BY <1>1, <1>2, <2>3, <2>7, <3>1 DEF IInv, Ends, At
  <2> QED
    BY <2>9, <2>11, <2>14, <2>15, <2>16, <2>17 DEF IInv
<1> QED
  BY <1>4, <1>5 DEF TakeJob

\* The job of a worker that has waited for its child gets its result.
LEMMA ReportStep ==
    ASSUME IInv, NEW w \in Workers, Report(w)
    PROVE  IInv'
<1> DEFINE x == Job(w)
           y == [job |-> x, stopped |-> worker[w].stopped]
<1>1. /\ worker[w].pc = "reap" /\ UNCHANGED <<queue, deadline, returned, errors>>
      /\ child' = [child EXCEPT ![x] = IF Running(x) THEN @ ELSE "reaped"]
      /\ results' = results \cup {y}
      /\ worker' = [worker EXCEPT ![w] = Waiting]
  BY DEF Report, At
<1>2. ~Running(x)
  BY <1>1 DEF IInv, Attended, At
<1>3. /\ x \in JobsOf(Gpu(w)) /\ x \in Jobs /\ x \notin Queued(Gpu(w)) /\ ~Reported(x)
      /\ Gpu(w) \in Gpus /\ Holds(w)
  BY <1>1, Pairs DEF IInv, Held, Holds, JobsOf
<1>4. y.job = x /\ y \in [job : Jobs, stopped : {"no", "cancelled", "timeout"}]
  BY <1>3 DEF IInv, TypeOK
<1>5. Waiting \in Local /\ Waiting.pc = "next"
  BY DEF Waiting, Local
<1>6. /\ worker' \in [Workers -> Local] /\ worker'[w] = Waiting
      /\ \A v \in Workers \ {w} : worker'[v] = worker[v]
  BY <1>1, <1>5, WorkerMoves
<1>7. /\ child' \in [Jobs -> {"none", "running", "exited", "reaped"}]
      /\ \A j \in Jobs : Running(j)' <=> Running(j)
  BY <1>1, <1>2, <1>3 DEF IInv, TypeOK, Running
<1> HIDE DEF x, y
<1>8. /\ \A g \in Gpus : Queued(g)' = Queued(g)
      /\ \A j : Reported(j)' <=> Reported(j) \/ j = x
  BY <1>1, <1>4 DEF Queued, Reported
<1>9. /\ \A v \in Workers \ {w} : Holds(v)' = Holds(v) /\ Job(v)' = Job(v)
      /\ ~Holds(w)'
  BY <1>5, <1>6 DEF Holds, Job
<1>10. TypeOK'
  BY <1>1, <1>4, <1>6, <1>7 DEF IInv, TypeOK, Local
<1>11. Queues'
  <2>1. \A g \in Gpus : x \notin Queued(g)
    BY <1>3, OneGpu DEF IInv, Queues
  <2> QED
    BY <1>1, <1>8, <2>1 DEF IInv, Queues
<1>12. Held'
  <2>1. \A v \in Workers \ {w} : Holds(v) => Job(v) # x
    BY <1>3 DEF IInv, Held, x
  <2>2. ASSUME NEW v \in Workers, Holds(v)'
        PROVE  /\ Job(v)' \in JobsOf(Gpu(v)) /\ Job(v)' \notin Queued(Gpu(v))'
               /\ ~Reported(Job(v))'
    <3>1. v # w /\ Holds(v) /\ Job(v)' = Job(v) /\ Gpu(v) \in Gpus
      BY <1>9, <2>2, Pairs
    <3>2. Reported(Job(v))' <=> Reported(Job(v)) \/ Job(v) = x
      BY <1>8, <3>1 DEF Reported
    <3> QED
      BY <1>8, <2>1, <3>1, <3>2 DEF IInv, Held
  <2>3. ASSUME NEW u \in Workers, NEW v \in Workers, Holds(u)', Holds(v)', Job(u)' = Job(v)'
        PROVE  u = v
    BY <1>9, <2>3 DEF IInv, Held
  <2> QED
    BY <2>2, <2>3 DEF Held
<1>13. NoJobLost'
  <2> SUFFICES ASSUME NEW g \in Gpus, NEW j \in JobsOf(g),
                      ~(j \in Queued(g) \/ Reported(j)), j # x
               PROVE  \E k \in Slots : Holds(<<g, k>>)' /\ Job(<<g, k>>)' = j
    BY <1>8 DEF NoJobLost
  <2>1. PICK k \in Slots : Holds(<<g, k>>) /\ Job(<<g, k>>) = j
    BY DEF IInv, NoJobLost
  <2>2. <<g, k>> \in Workers /\ <<g, k>> # w
    BY <2>1, Pairs DEF x
  <2> QED
    BY <1>9, <2>1, <2>2
<1>14. Attended'
  <2>1. \A j \in Jobs : Running(j) =>
            \E v \in Workers : v # w /\ worker[v].pc \in Attending /\ Job(v) = j
    BY <1>1 DEF IInv, Attended, Attending
  <2>2. ASSUME NEW v \in Workers, worker'[v].pc = "reap"
        PROVE  ~Running(Job(v))'
    <3>1. v # w /\ worker'[v] = worker[v] /\ Job(v)' = Job(v)
      BY <1>5, <1>6, <2>2 DEF Job
    <3>2. ~Running(Job(v)) /\ Job(v) \in Jobs
      BY <2>2, <3>1 DEF IInv, Attended, Held, Holds, At, JobsOf
    <3> QED
      BY <1>7, <3>1, <3>2 DEF Running
  <2> QED
    BY <1>6, <1>7, <2>1, <2>2 DEF Attended, Running, At, Job
<1>15. OneResult'
  BY <1>1, <1>3, <1>4 DEF IInv, OneResult, Reported
<1>16. Ends'
  <2>1. ~returned
    BY <1>1 DEF IInv, Ends, At
  <2> QED
    BY <1>1, <1>5, <1>6, <2>1 DEF IInv, Ends, At
<1> QED
  BY <1>10, <1>11, <1>12, <1>13, <1>14, <1>15, <1>16 DEF IInv

\* Processes that end, time, and the return of the call take nothing from a worker.
LEMMA OutsideStep ==
    ASSUME IInv,
           \/ \E j \in Jobs : Exit(j) \/ DeadlinePasses(j)
           \/ Return
           \/ UNCHANGED vars
    PROVE  IInv'
<1>1. /\ UNCHANGED <<queue, worker, results, errors>>
      /\ child' \in [Jobs -> {"none", "running", "exited", "reaped"}]
      /\ deadline' \subseteq Jobs /\ returned' \in BOOLEAN
      /\ \A j \in Jobs : Running(j)' => Running(j)
      /\ returned' => returned \/ \A w \in Workers : At(w, "ended") \/ At(w, "dead")
  <2>1. /\ child \in [Jobs -> {"none", "running", "exited", "reaped"}]
        /\ deadline \subseteq Jobs /\ returned \in BOOLEAN
    BY DEF IInv, TypeOK
  <2>2. ASSUME NEW j \in Jobs, Exit(j)
        PROVE  /\ UNCHANGED <<queue, worker, results, errors, deadline, returned>>
               /\ child' = [child EXCEPT ![j] = "exited"]
    BY <2>2 DEF Exit
  <2>3. CASE \E j \in Jobs : Exit(j)
    BY <2>1, <2>2, <2>3 DEF Running
  <2>4. CASE \E j \in Jobs : DeadlinePasses(j)
    BY <2>1, <2>4 DEF DeadlinePasses, Running
  <2>5. CASE Return
    BY <2>1, <2>5 DEF Return, Running
  <2>6. CASE UNCHANGED vars
    BY <2>1, <2>6 DEF vars, Running
  <2> QED
    BY <2>3, <2>4, <2>5, <2>6
<1>2. TypeOK'
  BY <1>1 DEF IInv, TypeOK
<1>3. /\ \A g \in Gpus : Queued(g)' = Queued(g)
      /\ \A j : Reported(j)' = Reported(j)
      /\ \A w \in Workers : Holds(w)' = Holds(w) /\ Job(w)' = Job(w)
  BY <1>1 DEF Queued, Reported, Holds, Job
<1>4. Queues' /\ NoJobLost' /\ OneResult'
  <2>1. Queues' /\ OneResult'
    BY <1>1, <1>3 DEF IInv, Queues, OneResult
  <2>2. NoJobLost'
    BY <1>3, Pairs DEF IInv, NoJobLost
  <2> QED
    BY <2>1, <2>2
<1>5. Held'
  <2>1. \A w \in Workers : Gpu(w) \in Gpus
    BY Pairs
  <2> QED
    BY <1>3, <2>1 DEF IInv, Held
<1>6. Attended'
  <2>1. \A w \in Workers : At(w, "reap") => Job(w) \in Jobs
    BY DEF IInv, Held, Holds, At, JobsOf
  <2> QED
    BY <1>1, <2>1 DEF IInv, Attended, At, Job, Running
<1>7. Ends'
  BY <1>1 DEF IInv, Ends, At
<1> QED
  BY <1>2, <1>4, <1>5, <1>6, <1>7 DEF IInv

-----------------------------------------------------------------------------
\* The invariant and the theorems

\* The invariant holds initially,
LEMMA InitInvariant == Init => IInv
<1> SUFFICES ASSUME Init
             PROVE  IInv
  OBVIOUS
<1>1. IsDealt(queue, NumJobs)
  BY AllDealt DEF Init
<1>2. \A w \in Workers : worker[w] = Waiting
  BY DEF Init
<1>3. Waiting.pc = "next" /\ Waiting \in Local
  BY DEF Waiting, Local
<1>4. \A j \in Jobs : ~Running(j) /\ ~Reported(j)
  BY DEF Init, Running, Reported
<1>5. \A g \in Gpus : JobsOf(g) \subseteq Jobs /\ \A j \in JobsOf(g) : j <= NumJobs
  BY JobsAssumption DEF JobsOf, Jobs
<1>6. TypeOK
  <2>1. 0 \in 0 .. MaxErrors
    BY ErrorsAssumption
  <2>2. worker \in [Workers -> Local]
    BY <1>3 DEF Init
  <2> QED
    BY <1>1, <2>1, <2>2 DEF Init, TypeOK, IsDealt, Local
<1>7. \A g \in Gpus : Queued(g) = JobsOf(g)
  BY <1>1, <1>5 DEF IsDealt, Queued
<1>8. Queues
  BY <1>1, <1>4, <1>5, <1>7 DEF Queues, IsDealt
<1>9. Held /\ Ends
  BY <1>2, <1>3 DEF Init, Held, Holds, Ends, At
<1>10. NoJobLost
  BY <1>7 DEF NoJobLost
<1>11. Attended /\ OneResult
  BY <1>2, <1>3, <1>4 DEF Init, Attended, OneResult, At
<1> QED
  BY <1>6, <1>8, <1>9, <1>10, <1>11 DEF IInv

\* every step keeps it,
LEMMA NextInvariant ==
    ASSUME IInv, [Next]_vars
    PROVE  IInv'
<1>1. ASSUME NEW w \in Workers, Step(w)
      PROVE  IInv'
  BY <1>1, TakeJobStep, HoldingStep, ReportStep DEF Step
<1> QED
  BY <1>1, OutsideStep DEF Next

\* and so it holds always.
LEMMA Invariant == Spec => []IInv
BY InitInvariant, NextInvariant, PTL DEF Spec

\* Type correctness, for any numbers of GPUs, slots, jobs and exceptions.
THEOREM SchedulerTypeCorrect == Spec => []TypeOK
<1>1. IInv => TypeOK
  BY DEF IInv
<1> QED
  BY <1>1, Invariant, PTL

\* The running processes of a GPU have different workers of that GPU.
LEMMA RunningByWorker ==
    ASSUME IInv, NEW g \in Gpus
    PROVE  Cardinality({j \in JobsOf(g) : Running(j)}) <= Cardinality(Slots)
<1> DEFINE R == {j \in JobsOf(g) : Running(j)}
           f == [j \in R |-> CHOOSE k \in Slots : Job(<<g, k>>) = j]
<1>1. \A j \in R : \E k \in Slots : Job(<<g, k>>) = j
  <2> SUFFICES ASSUME NEW j \in R
               PROVE  \E k \in Slots : Job(<<g, k>>) = j
    OBVIOUS
  <2>1. PICK w \in Workers : worker[w].pc \in Attending /\ Job(w) = j
    BY DEF IInv, Attended, JobsOf
  <2>2. j \in JobsOf(Gpu(w)) /\ Gpu(w) \in Gpus /\ w = <<Gpu(w), w[2]>> /\ w[2] \in Slots
    BY <2>1, Pairs DEF IInv, Held, Holds, Attending
  <2>3. Gpu(w) = g
    BY <2>2, OneGpu
  <2> QED
    BY <2>1, <2>2, <2>3
<1>2. \A j \in R : f[j] \in Slots /\ Job(<<g, f[j]>>) = j
  BY <1>1
<1>3. f \in [R -> Slots]
  BY <1>1
<1> HIDE DEF f, R
<1>4. \A i, j \in R : f[i] = f[j] => i = j
  BY <1>2
<1>5. f \in Injection(R, Slots)
  BY <1>3, <1>4 DEF Injection, IsInjective
<1>6. Cardinality(R) <= Cardinality(Slots)
  BY <1>5, SlotsAssumption, FS_Injection
<1> QED
  BY <1>6 DEF R

\* A GPU never runs more processes than it has slots: every process that runs is held
\* by a worker of its GPU, also after the worker has died of an exception.
THEOREM SlotsBoundedHolds == Spec => []SlotsBounded
<1>1. IInv => SlotsBounded
  BY RunningByWorker DEF SlotsBounded
<1> QED
  BY <1>1, Invariant, PTL

\* There are as many results as jobs with a result.
LEMMA ResultsCounted ==
    ASSUME IInv
    PROVE  Cardinality(results) = Cardinality({r.job : r \in results})
<1> DEFINE S == {r.job : r \in results}
           f == [r \in results |-> r.job]
<1>1. f \in [results -> S] /\ \A r, s \in results : f[r] = f[s] => r = s
  BY DEF IInv, OneResult
<1>2. \A x \in S : \E r \in results : f[r] = x
  OBVIOUS
<1>3. S \subseteq Jobs /\ IsFiniteSet(Jobs)
  BY JobsAssumption, FS_Interval DEF IInv, TypeOK, Jobs
<1> HIDE DEF S, f
<1>4. IsFiniteSet(S)
  BY <1>3, FS_Subset
<1>5. f \in Injection(results, S) /\ f \in Surjection(results, S)
  BY <1>1, <1>2 DEF Injection, IsInjective, Surjection
<1>6. Cardinality(results) = Cardinality(S)
  BY <1>4, <1>5, FS_Injection
<1> QED
  BY <1>6 DEF S

\* When the call has returned every result is there once, no process runs unless an
\* exception was raised, and a GPU that kept a worker misses only the results of the jobs
\* its workers died with.
THEOREM ResultsCompleteHolds == Spec => []ResultsComplete
<1>1. IInv => ResultsComplete
  <2> SUFFICES ASSUME IInv, returned
               PROVE  /\ errors = 0 => \A j \in Jobs : ~Running(j)
                      /\ \A g \in Gpus :
                           (\E k \in Slots : At(<<g, k>>, "ended")) =>
                               \A j \in JobsOf(g) :
                                   \/ Reported(j)
                                   \/ \E k \in Slots :
                                         At(<<g, k>>, "dead") /\ Job(<<g, k>>) = j
    BY ResultsCounted DEF ResultsComplete
  <2>1. \A w \in Workers : At(w, "ended") \/ At(w, "dead")
    BY DEF IInv, Ends
  <2>2. ASSUME errors = 0, NEW j \in Jobs, Running(j)
        PROVE  FALSE
    <3>1. PICK w \in Workers : worker[w].pc \in Attending
      BY <2>2 DEF IInv, Attended
    <3>2. At(w, "dead")
      BY <2>1, <3>1 DEF At, Attending
    <3> QED
      BY <2>2, <3>2 DEF IInv, Ends
  <2>3. ASSUME NEW g \in Gpus, NEW n \in Slots, At(<<g, n>>, "ended"), NEW j \in JobsOf(g),
               ~Reported(j)
        PROVE  \E k \in Slots : At(<<g, k>>, "dead") /\ Job(<<g, k>>) = j
    <3>1. queue[g] = <<>>
      BY <2>3, Pairs DEF IInv, Ends
    <3>2. Len(<<>>) = 0
      BY EmptySeq
    <3>3. j \notin Queued(g)
      BY <3>1, <3>2 DEF Queued
    <3>4. PICK k \in Slots : Holds(<<g, k>>) /\ Job(<<g, k>>) = j
      BY <2>3, <3>3 DEF IInv, NoJobLost
    <3>5. At(<<g, k>>, "dead")
      BY <2>1, <3>4, Pairs DEF At, Holds
    <3> QED
      BY <3>4, <3>5
  <2> QED
    BY <2>2, <2>3
<1> QED
  BY <1>1, Invariant, PTL
=============================================================================
