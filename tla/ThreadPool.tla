----------------------------- MODULE ThreadPool -----------------------------
(***************************************************************************)
(* The thread pool of the SDK (compa/src/threadutil/ThreadPool.cpp).       *)
(*                                                                         *)
(* Every critical section of the code (from ithread_mutex_lock, or from    *)
(* the return of a cond_wait, to the next cond_wait or unlock) is one      *)
(* action; the mutex itself is therefore not a variable.  The two          *)
(* condition variables are wait sets: "wait" in wpc for tp->condition,     *)
(* and sleeping for tp->start_and_shutdown.                                *)
(***************************************************************************)
EXTENDS Integers, Sequences, FiniteSets

CONSTANTS
    Worker,         \* identities of pool threads (reused when one exits)
    Client,         \* threads outside the pool that call its functions
    Job,            \* the jobs that can be submitted
    PersistentJob,  \* those submitted with ThreadPoolAddPersistent()
    Recycled,       \* jobs submitted again and again
    JobPriority,    \* the field priority of each job
    NoJob,          \* the null pointer
    Owner,          \* the client that runs ThreadPoolInit()
    Scenarios,      \* who calls what, with which attributes and jobs, and how
                    \* far their waiting times are told apart
    Attrs,          \* the attributes given to ThreadPoolSetAttr()
    Faults,         \* which system resources may run out
    MaxAge,         \* bound: the largest age of a scenario
    IdModulus       \* bound: width of the job identifiers

Thread == Client \cup Worker
Priority == {"low", "med", "high"}
Op == {"add", "pers", "remove", "getattr", "setattr", "shutdown"}
Fault == {"job", "node", "thread"}
INFINITE_THREADS == -1
AttrType == [minThreads: Nat, maxThreads: Nat \cup {INFINITE_THREADS},
             jobsPerThread: Nat, maxJobsTotal: Nat,
             starvationTime: Nat, maxIdleTime: Nat]

ASSUME ConstantsAssumption ==
    /\ IsFiniteSet(Worker)
    /\ Worker \cap Client = {}
    /\ Client \cap Job = {}
    /\ Owner \in Client
    /\ PersistentJob \subseteq Job
    /\ Recycled \subseteq Job \ PersistentJob
    /\ JobPriority \in [Job -> Priority]
    /\ NoJob \notin Job
    /\ Scenarios \subseteq [calls: [Client \cup Job -> SUBSET Op],
                         attr: AttrType, jobs: SUBSET Job, age: 0..MaxAge]
    /\ Attrs \subseteq AttrType
    /\ Faults \subseteq Fault
    /\ MaxAge \in Nat
    /\ IdModulus \in Nat \ {0}

VARIABLES
    (* the fields of struct ThreadPool *)
    attr, lastJobId, shutdown, totalThreads, pendingWorkerThreadStart,
    busyThreads, persistentThreads, jobQ, persistentJob,
    phase,      \* "init" | "up" | "stuck" (mutex never unlocked) | "destroyed"
    attrReset,  \* TRUE once ThreadPoolSetAttr() has changed the attributes
    scenario,   \* the functions each client and job may call, the attributes
                \* of ThreadPoolInit(), the jobs and the bound on their
                \* ages, chosen at the start
    (* worker threads *)
    wpc,        \* where each worker is
    wjob,       \* its local variable job
    (* calls in progress *)
    cpc,        \* where each thread is inside a function of the pool
    call,       \* the local variables of that function
    sleeping,   \* threads blocked on tp->start_and_shutdown
    (* what the callers see of their jobs *)
    told,       \* result of the submission
    retId,      \* the *jobId handed back
    ended,      \* what became of the job
    wanted      \* jobs whose removal was asked for

poolVars == <<lastJobId, shutdown, totalThreads, pendingWorkerThreadStart,
              busyThreads, persistentThreads, jobQ, persistentJob>>
attrVars == <<attr, attrReset, scenario>>
workVars == <<wpc, wjob>>
callVars == <<cpc, call, sleeping>>
jobVars  == <<told, retId, ended, wanted>>
vars == <<poolVars, attrVars, phase, workVars, callVars, jobVars>>

-----------------------------------------------------------------------------
(* Jobs and queues *)

\* A job copied into the pool; age is the time since its requestTime.
ThreadPoolJob(S) == [job: S, id: Nat, age: 0..MaxAge]
NullJob == [job |-> NoJob, id |-> 0, age |-> 0]
\* Mutant: the identifier is the previous one.
CreateThreadPoolJobEarlyId(j) == [job |-> j, id |-> lastJobId - 1, age |-> 0]

CreateThreadPoolJob(j) == [job |-> j, id |-> lastJobId, age |-> 0]

\* The locals of a call: threads is AddWorker()'s local, or the loop counter
\* i of ThreadPoolInit() and ThreadPoolSetAttr(); ok: the job was queued.
NoCall == [op |-> "none", job |-> NoJob, jobs |-> 0, threads |-> 0, ok |-> TRUE]

QueuedJobs == Len(jobQ["high"]) + Len(jobQ["low"]) + Len(jobQ["med"])

\* How many jobs at the front of q have all waited at least limit.
Starving(q, limit) ==
    Cardinality({n \in 1..Len(q) : \A i \in 1..n : q[i].age >= limit})

\* Mutant: starving jobs are left where they are.
BumpPriorityNever == jobQ

\* The loop moves the starving head of the medium queue to the tail of the
\* high one, else the starving head of the low queue to the tail of the
\* medium one, until neither head is starving.
BumpPriority ==
    LET fromLow == Starving(jobQ["low"], attr.maxIdleTime)
        med     == jobQ["med"] \o SubSeq(jobQ["low"], 1, fromLow)
        fromMed == Starving(med, attr.starvationTime)
    IN  [p \in Priority |->
            CASE p = "low"  -> SubSeq(jobQ["low"], fromLow + 1, Len(jobQ["low"]))
              [] p = "med"  -> SubSeq(med, fromMed + 1, Len(med))
              [] p = "high" -> jobQ["high"] \o SubSeq(med, 1, fromMed)]

NoWork ==
    /\ \A p \in Priority : jobQ[p] = <<>>
    /\ persistentJob = NullJob

-----------------------------------------------------------------------------
(* Condition variables *)

\* ithread_cond_signal(&tp->condition): one waiting worker, if there is one.
Signalled(f) ==
    LET waiting == {w \in Worker : f[w] = "wait"}
    IN  IF waiting = {} THEN {f} ELSE {[f EXCEPT ![w] = "woken"] : w \in waiting}

\* ithread_cond_broadcast(&tp->condition).
AllSignalled(f) == [w \in Worker |-> IF f[w] = "wait" THEN "woken" ELSE f[w]]

\* ithread_cond_wait(&tp->start_and_shutdown, &tp->mutex) at point pc.
Sleep(t, pc, c) ==
    /\ cpc' = [cpc EXCEPT ![t] = pc]
    /\ call' = [call EXCEPT ![t] = c]
    /\ sleeping' = sleeping \cup {t}

Return(t) ==
    /\ cpc' = [cpc EXCEPT ![t] = "out"]
    /\ call' = [call EXCEPT ![t] = NoCall]
    /\ UNCHANGED sleeping

-----------------------------------------------------------------------------
(* WorkerThread() *)

Running == phase \in {"init", "up"}

\* Mutant: the new thread does not report that it has started.
WorkerStartSilent(w) ==
    /\ Running
    /\ wpc[w] = "created"
    /\ totalThreads' = totalThreads + 1
    /\ pendingWorkerThreadStart' = FALSE
    /\ wpc' = [wpc EXCEPT ![w] = "ready"]
    /\ UNCHANGED <<lastJobId, shutdown, busyThreads, persistentThreads, jobQ,
                   persistentJob, attrVars, phase, wjob, callVars, jobVars>>

\* A new thread counts itself and reports that it has started.
WorkerStart(w) ==
    /\ Running
    /\ wpc[w] = "created"
    /\ totalThreads' = totalThreads + 1
    /\ pendingWorkerThreadStart' = FALSE
    /\ sleeping' = {}
    /\ wpc' = [wpc EXCEPT ![w] = "ready"]
    /\ UNCHANGED <<lastJobId, shutdown, busyThreads, persistentThreads, jobQ,
                   persistentJob, attrVars, phase, wjob, cpc, call, jobVars>>

\* The worker holds the mutex at the head of the inner loop: it has just
\* started, its job has returned, or its timed wait has.
AtLoop(w) ==
    /\ Running
    /\ \/ wpc[w] \in {"ready", "woken", "timedout"}
       \/ wpc[w] = "run" /\ cpc[w] = "out"

\* Mutant: a worker forgets to count itself regular again.
ReturnedPersistentForgotten(w) == 0

\* Lines 473-487: what a worker that comes back from a job undoes first.
Returned(w)           == IF wpc[w] = "run" THEN 1 ELSE 0
ReturnedPersistent(w) == IF wpc[w] = "run" /\ wjob[w] \in PersistentJob THEN 1 ELSE 0
JobReturned(w) ==
    ended' = IF wpc[w] = "run" THEN [ended EXCEPT ![wjob[w]] = "ran"] ELSE ended

\* Mutant: the last of minThreads retires too.
RetiresTooMany(w) ==
    \/ wpc[w] = "timedout" /\ totalThreads >= attr.minThreads
    \/ attr.maxThreads # INFINITE_THREADS /\ totalThreads > attr.maxThreads

Retires(w) ==
    \/ wpc[w] = "timedout" /\ totalThreads > attr.minThreads
    \/ attr.maxThreads # INFINITE_THREADS /\ totalThreads > attr.maxThreads

WorkerWait(w) ==
    /\ AtLoop(w)
    /\ NoWork /\ ~shutdown /\ ~Retires(w)
    /\ busyThreads' = busyThreads - Returned(w)
    /\ persistentThreads' = persistentThreads - ReturnedPersistent(w)
    /\ wpc' = [wpc EXCEPT ![w] = "wait"]
    /\ wjob' = [wjob EXCEPT ![w] = NoJob]
    /\ JobReturned(w)
    /\ UNCHANGED <<lastJobId, shutdown, totalThreads, pendingWorkerThreadStart,
                   jobQ, persistentJob, attrVars, phase, callVars, told, retId,
                   wanted>>

\* exit_function
WorkerExit(w) ==
    /\ busyThreads' = busyThreads - Returned(w)
    /\ persistentThreads' = persistentThreads - ReturnedPersistent(w)
    /\ totalThreads' = totalThreads - 1
    /\ sleeping' = {}
    /\ wpc' = [wpc EXCEPT ![w] = "none"]
    /\ wjob' = [wjob EXCEPT ![w] = NoJob]
    /\ JobReturned(w)
    /\ UNCHANGED <<lastJobId, shutdown, pendingWorkerThreadStart, persistentJob,
                   attrVars, phase, cpc, call, told, retId, wanted>>

WorkerRetire(w) ==
    /\ AtLoop(w)
    /\ NoWork /\ ~shutdown /\ Retires(w)
    /\ WorkerExit(w)
    /\ UNCHANGED jobQ

WorkerStop(w) ==
    /\ AtLoop(w)
    /\ shutdown
    /\ jobQ' = BumpPriority
    /\ WorkerExit(w)

\* The worker leaves the inner loop with job j.
Run(w, j) ==
    /\ busyThreads' = busyThreads - Returned(w) + 1
    /\ wpc' = [wpc EXCEPT ![w] = "run"]
    /\ wjob' = [wjob EXCEPT ![w] = j]
    /\ JobReturned(w)
    /\ UNCHANGED <<lastJobId, shutdown, totalThreads, pendingWorkerThreadStart,
                   attrVars, phase, cpc, call, told, retId, wanted>>

\* Mutant: tp->persistentJob is not reset.
WorkerTakePersistentTwice(w) ==
    /\ AtLoop(w)
    /\ ~shutdown /\ persistentJob # NullJob
    /\ jobQ' = BumpPriority
    /\ persistentThreads' = persistentThreads - ReturnedPersistent(w) + 1
    /\ sleeping' = {}
    /\ Run(w, persistentJob.job)
    /\ UNCHANGED persistentJob

WorkerTakePersistent(w) ==
    /\ AtLoop(w)
    /\ ~shutdown /\ persistentJob # NullJob
    /\ jobQ' = BumpPriority
    /\ persistentJob' = NullJob
    /\ persistentThreads' = persistentThreads - ReturnedPersistent(w) + 1
    /\ sleeping' = {}
    /\ Run(w, persistentJob.job)

\* The highest priority queue that is not empty.
Highest(q) ==
    IF q["high"] # <<>> THEN "high" ELSE IF q["med"] # <<>> THEN "med" ELSE "low"

WorkerTake(w) ==
    /\ AtLoop(w)
    /\ ~shutdown /\ persistentJob = NullJob
    /\ LET q == BumpPriority
           p == Highest(q)
       IN  /\ q[p] # <<>>
           /\ jobQ' = [q EXCEPT ![p] = Tail(@)]
           /\ Run(w, Head(q[p]).job)
    /\ persistentThreads' = persistentThreads - ReturnedPersistent(w)
    /\ UNCHANGED <<persistentJob, sleeping>>

WorkerStep(w) ==
    \/ WorkerWait(w) \/ WorkerRetire(w) \/ WorkerStop(w)
    \/ WorkerTakePersistent(w) \/ WorkerTake(w)

\* ithread_cond_timedwait() returns: the idle time is over, or spuriously.
WaitReturns(w) ==
    /\ Running
    /\ wpc[w] = "wait"
    /\ \E r \in {"timedout", "woken"} : wpc' = [wpc EXCEPT ![w] = r]
    /\ UNCHANGED <<poolVars, attrVars, phase, wjob, callVars, jobVars>>

\* Time passes for the queued jobs.
Tick ==
    /\ Running
    /\ jobQ' = [p \in Priority |-> [i \in DOMAIN jobQ[p] |->
                  [jobQ[p][i] EXCEPT !.age = IF @ < scenario.age THEN @ + 1 ELSE @]]]
    /\ UNCHANGED <<lastJobId, shutdown, totalThreads, pendingWorkerThreadStart,
                   busyThreads, persistentThreads, persistentJob, attrVars,
                   phase, workVars, callVars, jobVars>>

-----------------------------------------------------------------------------
(* What the calling functions do after CreateWorker(), by function *)

\* Mutant: no waiting thread is notified.
FinishAddSilent(t, c) ==
    /\ c.op = "add"
    /\ lastJobId' = (lastJobId + 1) % IdModulus
    /\ retId' = [retId EXCEPT ![c.job] = lastJobId]
    /\ told' = [told EXCEPT ![c.job] = IF c.ok THEN "ok" ELSE "err"]
    /\ Return(t)
    /\ UNCHANGED <<wpc, pendingWorkerThreadStart, persistentJob, phase>>

\* ThreadPoolAdd() from its signal on.
FinishAdd(t, c) ==
    /\ c.op = "add"
    /\ wpc' \in IF c.ok THEN Signalled(wpc) ELSE {wpc}
    /\ lastJobId' = (lastJobId + 1) % IdModulus
    /\ retId' = [retId EXCEPT ![c.job] = lastJobId]
    /\ told' = [told EXCEPT ![c.job] = IF c.ok THEN "ok" ELSE "err"]
    /\ Return(t)
    /\ UNCHANGED <<pendingWorkerThreadStart, persistentJob, phase>>

\* ThreadPoolAddPersistent() from CreateThreadPoolJob() to its wait.
SchedulePersistent(t, c) ==
    /\ c.op = "pers"
    /\ \/ /\ "job" \in Faults
          /\ told' = [told EXCEPT ![c.job] = "err"]
          /\ Return(t)
          /\ UNCHANGED <<persistentJob, wpc>>
       \/ /\ persistentJob' = CreateThreadPoolJob(c.job)
          /\ wpc' \in Signalled(wpc)
          /\ Sleep(t, "pers", c)
          /\ UNCHANGED told
    /\ UNCHANGED <<lastJobId, retId, pendingWorkerThreadStart, phase>>

\* The ends of ThreadPoolInit() and ThreadPoolSetAttr(): on failure both go
\* on to ThreadPoolShutdown().
FinishAttr(t, c, ok) ==
    /\ c.op \in {"init", "setattr"}
    /\ wpc' \in IF c.op = "setattr" THEN Signalled(wpc) ELSE {wpc}
    /\ phase' = IF c.op = "init" /\ ok THEN "up" ELSE phase
    /\ IF ok THEN Return(t)
             ELSE /\ cpc' = [cpc EXCEPT ![t] = "shut"]
                  /\ call' = [call EXCEPT ![t] = c]
                  /\ UNCHANGED sleeping
    /\ UNCHANGED <<lastJobId, told, retId, pendingWorkerThreadStart, persistentJob>>

Done(t, c, ok) == FinishAdd(t, c) \/ SchedulePersistent(t, c) \/ FinishAttr(t, c, ok)

-----------------------------------------------------------------------------
(* CreateWorker() and the loops that call it; a is tp->attr *)

CreateThread(t, c) ==
    \E w \in Worker :
        /\ wpc[w] = "none"
        /\ wpc' = [wpc EXCEPT ![w] = "created"]
        /\ pendingWorkerThreadStart' = TRUE
        /\ Sleep(t, "start", c)
        /\ UNCHANGED <<lastJobId, told, retId, persistentJob, phase>>

CreateNow(t, c, a) ==
    LET atMax == a.maxThreads # INFINITE_THREADS /\ totalThreads + 1 > a.maxThreads
    IN  \/ ~atMax /\ CreateThread(t, c)
        \/ /\ atMax \/ "thread" \in Faults \/ \A w \in Worker : wpc[w] # "none"
           /\ Done(t, c, FALSE)

\* Mutant: a pending start is not waited for.
CreateWorkerAtOnce(t, c, a) == CreateNow(t, c, a)

CreateWorker(t, c, a) ==
    IF pendingWorkerThreadStart
    THEN /\ Sleep(t, "create", c)
         /\ UNCHANGED <<wpc, pendingWorkerThreadStart, lastJobId, told, retId,
                        persistentJob, phase>>
    ELSE CreateNow(t, c, a)

\* AddWorker()'s loop condition, and that of the loops over minThreads.
WantsWorker(c, a) ==
    CASE c.op = "add"  -> \/ c.threads = 0
                          \/ c.jobs \div c.threads >= a.jobsPerThread
                          \/ totalThreads = busyThreads
      [] c.op = "pers" -> FALSE
      [] OTHER         -> c.threads < a.minThreads

AddWorkers(t, c, a) ==
    IF WantsWorker(c, a) THEN CreateWorker(t, c, a) ELSE Done(t, c, TRUE)

\* threads++ (i++): beyond the bound no loop condition tells values apart,
\* and a worker that retires at once can make AddWorker() count for ever.
Incremented(c) ==
    IF c.threads > c.jobs + attr.minThreads THEN c.threads ELSE c.threads + 1

\* What no part of a call above touches.
callFrame == <<shutdown, totalThreads, busyThreads, persistentThreads, wjob,
               ended, wanted>>

\* The first cond_wait loop of CreateWorker() returns.
WakeCreate(t) ==
    /\ Running
    /\ cpc[t] = "create" /\ t \notin sleeping
    /\ CreateWorker(t, call[t], attr)
    /\ UNCHANGED <<callFrame, attrVars, jobQ>>

\* The second one, and with it CreateWorker() with result 0.
WakeStart(t) ==
    /\ Running
    /\ cpc[t] = "start" /\ t \notin sleeping
    /\ IF pendingWorkerThreadStart
       THEN /\ Sleep(t, "start", call[t])
            /\ UNCHANGED <<wpc, pendingWorkerThreadStart, lastJobId, told,
                           retId, persistentJob, phase>>
       ELSE AddWorkers(t, [call[t] EXCEPT !.threads = Incremented(call[t])], attr)
    /\ UNCHANGED <<callFrame, attrVars, jobQ>>

-----------------------------------------------------------------------------
(* The functions of the interface *)

\* Thread t, a client or a worker inside a job, may call op now.
CanCall(t, op) ==
    /\ phase = "up"
    /\ cpc[t] = "out"
    /\ \/ t \in Client /\ op \in scenario.calls[t]
       \/ t \in Worker /\ wpc[t] = "run" /\ op \in scenario.calls[wjob[t]]

ThreadPoolInit ==
    /\ phase = "init" /\ cpc[Owner] = "out"
    /\ AddWorkers(Owner, [NoCall EXCEPT !.op = "init"], attr)
    /\ UNCHANGED <<callFrame, attrVars, jobQ>>

\* Job j can be submitted: each job is handed over once.
Fresh(j) == j \in scenario.jobs /\ told[j] = "new" /\ \A t \in Thread : call[t].job # j

SubmissionFails(j) ==
    /\ told' = [told EXCEPT ![j] = "err"]
    /\ UNCHANGED <<poolVars, attrVars, phase, workVars, callVars, retId, ended, wanted>>

ThreadPoolAdd(t, j) ==
    /\ CanCall(t, "add")
    /\ j \notin PersistentJob /\ Fresh(j)
    /\ \/ /\ QueuedJobs >= attr.maxJobsTotal \/ "job" \in Faults
          /\ SubmissionFails(j)
       \/ /\ QueuedJobs < attr.maxJobsTotal
          /\ \E ok \in IF "node" \in Faults THEN BOOLEAN ELSE {TRUE} :
                /\ jobQ' = IF ok THEN [jobQ EXCEPT ![JobPriority[j]] =
                                         Append(@, CreateThreadPoolJob(j))]
                                 ELSE jobQ
                /\ AddWorkers(t, [op |-> "add", job |-> j,
                                  jobs |-> QueuedJobs + (IF ok THEN 1 ELSE 0),
                                  threads |-> totalThreads - persistentThreads,
                                  ok |-> ok], attr)
          /\ UNCHANGED <<callFrame, attrVars>>

ThreadPoolAddPersistent(t, j) ==
    LET c == [NoCall EXCEPT !.op = "pers", !.job = j]
    IN  /\ CanCall(t, "pers")
        /\ j \in PersistentJob /\ Fresh(j)
        /\ \/ /\ totalThreads < attr.maxThreads
              /\ CreateWorker(t, c, attr)
              /\ UNCHANGED <<callFrame, attrVars, jobQ>>
           \/ /\ totalThreads >= attr.maxThreads
              /\ totalThreads - persistentThreads - 1 = 0
              /\ SubmissionFails(j)
           \/ /\ totalThreads >= attr.maxThreads
              /\ totalThreads - persistentThreads - 1 # 0
              /\ SchedulePersistent(t, c)
              /\ UNCHANGED <<callFrame, attrVars, jobQ>>

\* The wait until the persistent job has been picked up returns.
WakePersistent(t) ==
    /\ Running
    /\ cpc[t] = "pers" /\ t \notin sleeping
    /\ IF persistentJob # NullJob
       THEN Sleep(t, "pers", call[t]) /\ UNCHANGED <<lastJobId, retId, told>>
       ELSE /\ lastJobId' = (lastJobId + 1) % IdModulus
            /\ retId' = [retId EXCEPT ![call[t].job] = lastJobId]
            /\ told' = [told EXCEPT ![call[t].job] = "ok"]
            /\ Return(t)
    /\ UNCHANGED <<callFrame, attrVars, jobQ, persistentJob, phase, wpc,
                   pendingWorkerThreadStart>>

\* The queues are searched from high to low, then the persistent job, which
\* is dropped without waking the thread that waits for its pick-up.
ThreadPoolRemove(t, j) ==
    LET id == retId[j]
        found(p) == {i \in DOMAIN jobQ[p] : jobQ[p][i].id = id}
        from == IF found("high") # {} THEN "high"
                ELSE IF found("med") # {} THEN "med" ELSE "low"
    IN  /\ CanCall(t, "remove")
        /\ told[j] = "ok"
        /\ wanted' = wanted \cup {j}
        /\ \/ /\ \E i \in found(from) :
                    /\ \A k \in found(from) : i <= k
                    /\ jobQ' = [jobQ EXCEPT ![from] =
                                  SubSeq(@, 1, i - 1) \o SubSeq(@, i + 1, Len(@))]
                    /\ ended' = [ended EXCEPT ![jobQ[from][i].job] = "removed"]
              /\ UNCHANGED persistentJob
           \/ /\ found(from) = {}
              /\ persistentJob # NullJob /\ persistentJob.id = id
              /\ ended' = [ended EXCEPT ![persistentJob.job] = "removed"]
              /\ persistentJob' = NullJob
              /\ UNCHANGED jobQ
        /\ UNCHANGED <<lastJobId, shutdown, totalThreads, pendingWorkerThreadStart,
                       busyThreads, persistentThreads, attrVars, phase, workVars,
                       callVars, told, retId>>

\* ThreadPoolGetAttr() and ThreadPoolGetStats(): tp->shutdown decides, each
\* time it is read, whether the mutex is locked and whether it is unlocked.
ThreadPoolGetAttr(t) ==
    /\ CanCall(t, "getattr")
    /\ ~shutdown
    /\ cpc' = [cpc EXCEPT ![t] = "get"]
    /\ UNCHANGED <<poolVars, attrVars, phase, workVars, call, sleeping, jobVars>>

GetAttrLocked(t) ==
    /\ Running
    /\ cpc[t] = "get"
    /\ phase' = IF shutdown THEN "stuck" ELSE phase
    /\ Return(t)
    /\ UNCHANGED <<poolVars, attrVars, workVars, jobVars>>

ThreadPoolSetAttr(t, a) ==
    /\ CanCall(t, "setattr")
    /\ attr' = a
    /\ attrReset' = TRUE
    /\ AddWorkers(t, [NoCall EXCEPT !.op = "setattr", !.threads = totalThreads], a)
    /\ UNCHANGED <<callFrame, jobQ, scenario>>

\* Mutant: the last thread is not waited for.
AwaitThreadsButOne(t) ==
    IF totalThreads > 1
    THEN Sleep(t, "term", [NoCall EXCEPT !.op = "shutdown"]) /\ UNCHANGED phase
    ELSE Return(t) /\ phase' = "destroyed"

\* The wait for the end of all threads: over at once, or to be repeated.
AwaitThreads(t) ==
    IF totalThreads > 0
    THEN Sleep(t, "term", [NoCall EXCEPT !.op = "shutdown"]) /\ UNCHANGED phase
    ELSE Return(t) /\ phase' = "destroyed"

\* Queued jobs are freed and the workers told to stop; also called by
\* ThreadPoolInit() and ThreadPoolSetAttr() when they fail.
ThreadPoolShutdown(t) ==
    /\ Running
    /\ CanCall(t, "shutdown") \/ cpc[t] = "shut"
    /\ ended' = [j \in Job |->
                   IF persistentJob.job = j \/
                      \E p \in Priority : \E i \in DOMAIN jobQ[p] : jobQ[p][i].job = j
                   THEN "freed" ELSE ended[j]]
    /\ jobQ' = [p \in Priority |-> <<>>]
    /\ persistentJob' = NullJob
    /\ shutdown' = TRUE
    /\ wpc' = AllSignalled(wpc)
    /\ AwaitThreads(t)
    /\ UNCHANGED <<lastJobId, totalThreads, pendingWorkerThreadStart, busyThreads,
                   persistentThreads, attrVars, wjob, told, retId, wanted>>

WakeShutdown(t) ==
    /\ Running
    /\ cpc[t] = "term" /\ t \notin sleeping
    /\ AwaitThreads(t)
    /\ UNCHANGED <<poolVars, attrVars, workVars, jobVars>>

\* A job that is over, or was refused, is submitted anew.
Recycle(j) ==
    /\ Running
    /\ told[j] = "err" \/ (told[j] = "ok" /\ ended[j] # "no")
    /\ told' = [told EXCEPT ![j] = "new"]
    /\ ended' = [ended EXCEPT ![j] = "no"]
    /\ wanted' = wanted \ {j}
    /\ UNCHANGED <<poolVars, attrVars, phase, workVars, callVars, retId>>

-----------------------------------------------------------------------------
Init ==
    /\ scenario \in Scenarios
    /\ attr = scenario.attr
    /\ lastJobId = 0
    /\ shutdown = FALSE
    /\ totalThreads = 0
    /\ pendingWorkerThreadStart = FALSE
    /\ busyThreads = 0
    /\ persistentThreads = 0
    /\ jobQ = [p \in Priority |-> <<>>]
    /\ persistentJob = NullJob
    /\ phase = "init"
    /\ attrReset = FALSE
    /\ wpc = [w \in Worker |-> "none"]
    /\ wjob = [w \in Worker |-> NoJob]
    /\ cpc = [t \in Thread |-> "out"]
    /\ call = [t \in Thread |-> NoCall]
    /\ sleeping = {}
    /\ told = [j \in Job |-> "new"]
    /\ retId = [j \in Job |-> 0]
    /\ ended = [j \in Job |-> "no"]
    /\ wanted = {}

Wake(t) == WakeCreate(t) \/ WakeStart(t) \/ WakePersistent(t) \/ WakeShutdown(t)

Call(t) ==
    \/ \E j \in Job : ThreadPoolAdd(t, j)
    \/ \E j \in Job : ThreadPoolAddPersistent(t, j)
    \/ \E j \in Job : ThreadPoolRemove(t, j)
    \/ \E a \in Attrs : ThreadPoolSetAttr(t, a)
    \/ ThreadPoolGetAttr(t) \/ GetAttrLocked(t)
    \/ ThreadPoolShutdown(t)

Next ==
    \/ ThreadPoolInit
    \/ \E w \in Worker : WorkerStart(w) \/ WorkerStep(w) \/ WaitReturns(w)
    \/ \E t \in Thread : Call(t) \/ Wake(t)
    \/ Tick
    \/ \E j \in Recycled : Recycle(j)

\* A worker step that is not the return of a persistent job, which may run
\* for as long as the program does.
PromptStep(w) ==
    /\ ~(wpc[w] = "run" /\ wjob[w] \in PersistentJob)
    /\ WorkerStep(w)

\* The scheduler lets a thread that can go on go on, a thread waiting for the
\* mutex gets it, jobs other than persistent ones return, time passes.
\* Nothing forces a client to call, nor a timed wait to time out.
Fairness ==
    /\ WF_vars(ThreadPoolInit)
    /\ \A w \in Worker : WF_vars(WorkerStart(w)) /\ WF_vars(PromptStep(w))
    /\ \A t \in Thread : WF_vars(Wake(t)) /\ WF_vars(GetAttrLocked(t))
    /\ \A t \in Thread : WF_vars(cpc[t] = "shut" /\ ThreadPoolShutdown(t))
    /\ WF_vars(Tick)

Spec == Init /\ [][Next]_vars
FairSpec == Spec /\ Fairness

-----------------------------------------------------------------------------
(* Properties *)

\* Every variable keeps its type; the queues hold no persistent job, and
\* persistentJob and the calls of ThreadPoolAddPersistent() no other.
TypeOK ==
    /\ attr \in AttrType
    /\ attrReset \in BOOLEAN
    /\ scenario \in Scenarios
    /\ lastJobId \in Nat
    /\ shutdown \in BOOLEAN
    /\ pendingWorkerThreadStart \in BOOLEAN
    /\ totalThreads \in Int /\ busyThreads \in Int /\ persistentThreads \in Int
    /\ jobQ \in [Priority -> Seq(ThreadPoolJob(Job \ PersistentJob))]
    /\ persistentJob \in ThreadPoolJob(PersistentJob) \cup {NullJob}
    /\ phase \in {"init", "up", "stuck", "destroyed"}
    /\ wpc \in [Worker -> {"none", "created", "ready", "wait", "woken", "timedout", "run"}]
    /\ wjob \in [Worker -> Job \cup {NoJob}]
    /\ cpc \in [Thread -> {"out", "create", "start", "pers", "get", "shut", "term"}]
    /\ call \in [Thread -> [op: Op \cup {"none", "init"}, job: Job \cup {NoJob},
                            jobs: Nat, threads: Int, ok: BOOLEAN]]
    /\ \A t \in Thread : call[t].op = "pers" => call[t].job \in PersistentJob
    /\ sleeping \in SUBSET Thread
    /\ told \in [Job -> {"new", "ok", "err"}]
    /\ retId \in [Job -> Nat]
    /\ ended \in [Job -> {"no", "ran", "removed", "freed"}]
    /\ wanted \in SUBSET Job

Workers(S) == {w \in Worker : wpc[w] \in S}
Started == {"ready", "wait", "woken", "timedout", "run"}
PersistentWorkers == {w \in Workers({"run"}) : wjob[w] \in PersistentJob}

\* The counters that decide about new threads, retirement and shutdown are
\* the numbers of threads they stand for, at every point where the mutex is
\* free: each thread adds and takes away its share exactly once on every path
\* through WorkerThread(), and a pending start is one thread someone waits for.
Accounting ==
    /\ totalThreads = Cardinality(Workers(Started))
    /\ busyThreads = Cardinality(Workers({"run"}))
    /\ persistentThreads = Cardinality(PersistentWorkers)
    /\ Cardinality(Workers({"created"})) = IF pendingWorkerThreadStart THEN 1 ELSE 0

\* maxThreads, "never more than this number of threads": a thread that is
\* being started counts as well, so that several callers inside
\* CreateWorker() at once cannot overshoot.  Only new attributes may make the
\* pool too large, as WorkerThread() notes.
NeverMoreThanMax ==
    attr.maxThreads # INFINITE_THREADS /\ ~attrReset =>
        totalThreads + Cardinality(Workers({"created"})) <= attr.maxThreads

\* minThreads, "at least this many threads": once the pool is up, idle
\* workers that time out together never leave fewer, and new attributes have
\* raised the number when the call that sets them has returned.
NeverLessThanMin ==
    phase = "up" /\ ~shutdown /\ (\A t \in Thread : call[t].op # "setattr") =>
        \/ totalThreads >= attr.minThreads
        \/ attr.maxThreads # INFINITE_THREADS /\ attr.maxThreads < attr.minThreads

\* No wake-up is lost although a submitter gives up the mutex between queueing
\* its job and signalling: while a worker sleeps, every waiting job has an
\* awake worker of its own, or a submitter that has still to signal.
NoLostWakeup ==
    ~shutdown /\ Workers({"wait"}) # {} =>
        QueuedJobs + (IF persistentJob = NullJob THEN 0 ELSE 1)
          <= Cardinality(Workers({"ready", "woken", "timedout"}))
             + Cardinality({t \in Thread : /\ cpc[t] \in {"create", "start"}
                                           /\ call[t].op = "add"})

\* In how many places of the pool job j is.
Places(j) ==
    Cardinality({x \in Priority \X (1..(QueuedJobs + 1)) :
                    x[2] \in DOMAIN jobQ[x[1]] /\ jobQ[x[1]][x[2]].job = j})
    + Cardinality({w \in Worker : wjob[w] = j})
    + (IF persistentJob.job = j THEN 1 ELSE 0)

\* An accepted job of ThreadPoolAdd() is in exactly one place until it has
\* run, was removed or was freed, each of which happens once; a refused one is
\* in none.  A job in two places would be freed twice.
JobInOnePlace ==
    \A j \in Job :
        /\ Places(j) <= 1
        /\ ended[j] # "no" \/ told[j] = "err" => Places(j) = 0
        /\ j \notin PersistentJob /\ told[j] = "ok" /\ ended[j] = "no" => Places(j) = 1

\* A caller that removes the job it got an identifier for removes that job.
RemovesWhatWasAsked ==
    \A j \in Job : ended[j] = "removed" => j \in wanted

\* ThreadPoolShutdown() destroys the mutex and the condition variables only
\* when no worker exists any more and no thread is inside the pool.  (Only a
\* failed ThreadPoolSetAttr() shuts the pool down while others use it.)
DestroyedUnused ==
    phase = "destroyed" /\ ~attrReset =>
        /\ Workers({"none"}) = Worker
        /\ \A t \in Thread : cpc[t] = "out"

\* No worker can take a job any more: none is left, or each runs a persistent
\* job or waits in ThreadPoolAddPersistent() itself.
NoTaker ==
    \A w \in Worker : wpc[w] = "none" \/ wjob[w] \in PersistentJob \/ cpc[w] = "pers"

IsQueued(j) == \E p \in Priority : \E i \in DOMAIN jobQ[p] : jobQ[p][i].job = j

\* No job stays in its queue for ever while jobs of a higher priority keep
\* coming, and none needs the idle timeout to be found, unless nobody serves
\* the queues any more: the pool is shut down, its mutex is never unlocked, or
\* no worker is left to take a job.
NoStarvation ==
    \A j \in Job \ PersistentJob :
        <>[]IsQueued(j) => <>[](shutdown \/ phase = "stuck" \/ NoTaker)

\* The comment in ThreadPoolAddPersistent(), "if there is more than one worker
\* thread available then schedule job, otherwise fail": a pool that is full
\* accepts a persistent job only when a worker remains for the other jobs.
ScheduledWhenAvailable ==
    [][\A t \in Thread :
          totalThreads >= attr.maxThreads /\ cpc[t] = "out" /\ cpc'[t] = "pers"
            => totalThreads - persistentThreads > 1]_vars

\* The calls that never return, as long as nothing changes:
\* - any call, once ThreadPoolGetAttr() or ThreadPoolGetStats() has kept the
\*   mutex, or a failed ThreadPoolSetAttr() has destroyed it;
\* - ThreadPoolAddPersistent() whose job no worker is left to take (its test
\*   for available workers misses the case that all are persistent, and no
\*   other path of it fails for lack of workers), or whose job was removed, or
\*   freed by the shutdown, without waking it;
\* - ThreadPoolShutdown() while a persistent job runs, or a job that waits in
\*   ThreadPoolAddPersistent().
WaitsInVain(t) ==
    \/ phase \in {"stuck", "destroyed"}
    \/ /\ cpc[t] = "pers"
       /\ IF persistentJob = NullJob THEN t \in sleeping ELSE NoTaker
    \/ /\ cpc[t] = "term"
       /\ \E w \in Workers({"run"}) : wjob[w] \in PersistentJob \/ cpc[w] = "pers"

\* From some time on no worker leaves.  Otherwise AddWorker()'s loop can go on
\* for ever: it waits for a thread to start and compares totalThreads with
\* busyThreads again, but the new thread may have left by then, because it was
\* idle too long or, in a pool that is shut down, at once; a shutdown that
\* waits for the job with that loop does not end either.
WorkersStay == <>[][totalThreads' >= totalThreads]_vars

\* Every call of an interface function that does not return, ThreadPoolInit()
\* and ThreadPoolShutdown() included, is one of those that wait in vain: no
\* wake-up of the callers is lost, neither that of CreateWorker() nor those for
\* the pick-up of a persistent job and for the end of the last worker.
CallsReturn ==
    \A t \in Thread : WorkersStay /\ <>[](cpc[t] # "out") => <>[]WaitsInVain(t)

=============================================================================
