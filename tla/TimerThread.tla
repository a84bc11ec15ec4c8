----------------------------- MODULE TimerThread -----------------------------
(***************************************************************************)
(* The timer of the SDK (compa/src/threadutil/TimerThread.cpp).            *)
(*                                                                         *)
(* As in ThreadPool every critical section is one action.  The one section *)
(* that may block with the mutex held is the worker's call of              *)
(* ThreadPoolAddPersistent(); while it lasts wpc is "adding" and no other  *)
(* section is enabled.  Waiting on timer->condition is membership in       *)
(* waiting, for the worker and for the caller of TimerThreadShutdown().    *)
(*                                                                         *)
(* The thread pool is external here: it takes a job or refuses it, runs at *)
(* most PoolThreads jobs at once, and a running job may call the timer.    *)
(***************************************************************************)
EXTENDS Integers, Sequences, FiniteSets, SequencesExt

CONSTANTS
    Client,         \* threads outside the pool that use the timer
    Job,            \* the jobs that are scheduled
    PersistentJob,  \* those scheduled with duration LONG_TERM
    TimerUser,      \* jobs that schedule and remove events while they run
    Owner,          \* the client that starts the timer and shuts it down
    WorkerId,       \* the thread that runs TimerThreadWorker()
    Timeouts,       \* the values of the argument timeout
    PoolThreads,    \* threads of the pool besides the timer's own
    Faults,         \* which resources may run out
    MaxTime,        \* bound: the clock stops there
    MaxEvents       \* bound: number of events scheduled

Caller == Client \cup TimerUser
TimeoutType == {"ABS_SEC", "REL_SEC"}
Fault == {"event", "node", "pool"}
NoId == -1

ASSUME TimerAssumption ==
    /\ Owner \in Client
    /\ Client \cap Job = {}
    /\ WorkerId \notin Client
    /\ PersistentJob \subseteq Job
    /\ TimerUser \subseteq Job
    /\ Timeouts \subseteq Nat
    /\ PoolThreads \in Nat
    /\ Faults \subseteq Fault
    /\ MaxTime \in Nat
    /\ MaxEvents \in Nat

VARIABLES
    (* the fields of struct TimerThread *)
    lastEventId, eventQ, shutdown,
    phase,      \* "none" | "up" | "failed" | "destroyed"
    (* TimerThreadWorker() *)
    wpc,        \* "none" | "loop" | "wait" | "timedwait" | "adding" | "done"
    timeToWait, \* its local, the end of a timed wait
    waiting,    \* threads blocked on timer->condition
    (* the callers *)
    cpc,        \* "out" | "schedule" (before the lock) | "shutdown" (in the wait)
    call,       \* the arguments of TimerThreadSchedule()
    eventId,    \* the *id each job was last scheduled under
    (* the thread pool *)
    pooled,     \* jobs in its queues
    running,    \* jobs that its threads run
    (* observations *)
    now,        \* time(NULL)
    owed,       \* how often each job was scheduled with result 0, less how
                \* often its argument was handed on, given back or freed
    lateFrom    \* lastEventId when TimerThreadShutdown() took the mutex

timerVars == <<lastEventId, eventQ, shutdown, phase>>
workVars == <<wpc, timeToWait>>
callVars == <<cpc, call, eventId>>
poolVars == <<pooled, running>>
seenVars == <<owed, lateFrom>>
vars == <<timerVars, workVars, waiting, callVars, poolVars, now, seenVars>>

TimerEvent == [job: Job, eventTime: Nat, id: Nat]
NoCall == [job |-> WorkerId, timeout |-> 0]

-----------------------------------------------------------------------------
(* The mutex, the condition variable and the calling threads *)

\* timer->mutex can be locked.  (Locking it once it is destroyed fails
\* without effect, and the code goes on.)
MutexFree == phase \in {"up", "destroyed"} /\ wpc # "adding"

\* ithread_cond_signal(&timer->condition): one waiting thread, if there is one.
Signalled == IF waiting = {} THEN {{}} ELSE {waiting \ {t} : t \in waiting}

\* The thread c can call the timer now: a client, or a job that runs.
Active(c) == cpc[c] = "out" /\ (c \in Client \/ c \in running)

\* Nobody uses the job: whoever schedules it builds it anew.
Unused(j) ==
    /\ j \notin pooled \cup running
    /\ \A i \in DOMAIN eventQ : eventQ[i].job # j
    /\ \A c \in Caller : call[c].job # j

\* The argument is handed to the pool, given back or released with free_func.
Dispose(j) == owed' = [owed EXCEPT ![j] = @ - 1]

-----------------------------------------------------------------------------
(* TimerThreadWorker() *)

AtLoop ==
    /\ phase = "up"
    /\ wpc \in {"loop", "wait", "timedwait"}
    /\ WorkerId \notin waiting

\* Mutant: the caller of TimerThreadShutdown() is not told.
WorkerStopSilent ==
    /\ AtLoop /\ shutdown
    /\ shutdown' = FALSE
    /\ wpc' = "done"
    /\ UNCHANGED <<lastEventId, eventQ, phase, timeToWait, waiting, callVars,
                   poolVars, now, seenVars>>

WorkerStop ==
    /\ AtLoop /\ shutdown
    /\ shutdown' = FALSE
    /\ wpc' = "done"
    /\ waiting' \in Signalled
    /\ UNCHANGED <<lastEventId, eventQ, phase, timeToWait, callVars, poolVars,
                   now, seenVars>>

Due == eventQ # <<>> /\ now >= Head(eventQ).eventTime

\* Mutant: an event whose job the pool has refused stays in the queue.
HandOverKeeps ==
    /\ AtLoop /\ ~shutdown /\ Due
    /\ LET j == Head(eventQ).job
       IN  \/ /\ pooled' = pooled \cup {j}
              /\ eventQ' = Tail(eventQ)
           \/ /\ "pool" \in Faults
              /\ UNCHANGED <<pooled, eventQ>>
    /\ Dispose(Head(eventQ).job)
    /\ wpc' = "loop"
    /\ UNCHANGED <<lastEventId, shutdown, phase, timeToWait, waiting, callVars,
                   running, now, lateFrom>>

\* The head is due and of short duration: ThreadPoolAdd() takes its job, or
\* the worker frees the argument; either way the event is gone.
HandOver ==
    /\ AtLoop /\ ~shutdown /\ Due
    /\ LET j == Head(eventQ).job
       IN  /\ j \notin PersistentJob
           /\ \/ pooled' = pooled \cup {j}
              \/ "pool" \in Faults /\ UNCHANGED pooled
           /\ Dispose(j)
    /\ eventQ' = Tail(eventQ)
    /\ wpc' = "loop"
    /\ UNCHANGED <<lastEventId, shutdown, phase, timeToWait, waiting, callVars,
                   running, now, lateFrom>>

\* The head is due and persistent: ThreadPoolAddPersistent() refuses it, or
\* keeps the worker, and with it the mutex, until a thread of the pool takes it.
HandOverPersistent ==
    /\ AtLoop /\ ~shutdown /\ Due
    /\ Head(eventQ).job \in PersistentJob
    /\ \/ /\ wpc' = "adding"
          /\ UNCHANGED <<eventQ, owed>>
       \/ /\ "pool" \in Faults
          /\ Dispose(Head(eventQ).job)
          /\ eventQ' = Tail(eventQ)
          /\ wpc' = "loop"
    /\ UNCHANGED <<lastEventId, shutdown, phase, timeToWait, waiting, callVars,
                   poolVars, now, lateFrom>>

PersistentTaken ==
    /\ wpc = "adding"
    /\ Cardinality(running) < PoolThreads
    /\ running' = running \cup {Head(eventQ).job}
    /\ Dispose(Head(eventQ).job)
    /\ eventQ' = Tail(eventQ)
    /\ wpc' = "loop"
    /\ UNCHANGED <<lastEventId, shutdown, phase, timeToWait, waiting, callVars,
                   pooled, now, lateFrom>>

\* Mutant: the worker always waits for a signal.
WorkerWaitForever ==
    /\ AtLoop /\ ~shutdown /\ ~Due
    /\ wpc' = "wait"
    /\ waiting' = waiting \cup {WorkerId}
    /\ UNCHANGED <<timerVars, timeToWait, callVars, poolVars, now, seenVars>>

WorkerWait ==
    /\ AtLoop /\ ~shutdown /\ ~Due
    /\ IF eventQ = <<>>
       THEN wpc' = "wait" /\ UNCHANGED timeToWait
       ELSE wpc' = "timedwait" /\ timeToWait' = Head(eventQ).eventTime
    /\ waiting' = waiting \cup {WorkerId}
    /\ UNCHANGED <<timerVars, callVars, poolVars, now, seenVars>>

WaitTimesOut ==
    /\ wpc = "timedwait" /\ WorkerId \in waiting
    /\ now >= timeToWait
    /\ waiting' = waiting \ {WorkerId}
    /\ UNCHANGED <<timerVars, workVars, callVars, poolVars, now, seenVars>>

WorkerStep ==
    \/ WorkerStop
    \/ HandOver
    \/ HandOverPersistent
    \/ PersistentTaken
    \/ WorkerWait
    \/ WaitTimesOut

-----------------------------------------------------------------------------
(* The interface *)

\* The worker's job is added with the mutex held, so that its loop begins
\* when all fields are set.
TimerThreadInit ==
    /\ phase = "none"
    /\ \/ phase' = "up" /\ wpc' = "loop"
       \/ "pool" \in Faults /\ phase' = "failed" /\ UNCHANGED wpc
    /\ UNCHANGED <<lastEventId, eventQ, shutdown, timeToWait, waiting, callVars,
                   poolVars, now, seenVars>>

\* Mutant: one second is taken off for the time the call takes.
CalculateEventTimeEarly(timeout, type) ==
    IF type = "ABS_SEC" THEN timeout ELSE timeout + now - 1

CalculateEventTime(timeout, type) ==
    IF type = "ABS_SEC" THEN timeout ELSE timeout + now

\* TimerThreadSchedule() up to the lock: the clock is read without the mutex.
TimerThreadSchedule(c) ==
    /\ phase \in {"up", "destroyed"}
    /\ Active(c)
    /\ lastEventId + Cardinality({x \in Caller : cpc[x] = "schedule"}) < MaxEvents
    /\ \E j \in {x \in Job : Unused(x)}, timeout \in Timeouts, type \in TimeoutType :
          /\ CalculateEventTime(timeout, type) <= MaxTime
          /\ call' = [call EXCEPT ![c] =
                [job |-> j, timeout |-> CalculateEventTime(timeout, type)]]
    /\ cpc' = [cpc EXCEPT ![c] = "schedule"]
    /\ UNCHANGED <<timerVars, workVars, waiting, eventId, poolVars, now, seenVars>>

\* Mutant: new events always go to the tail.
PlaceAtTail(timeout) == Len(eventQ) + 1

\* Before the first event that is not earlier, or at the tail.
Place(timeout) ==
    LET NotEarlier(e) == e.eventTime >= timeout
        first == SelectInSeq(eventQ, NotEarlier)
    IN  IF first = 0 THEN Len(eventQ) + 1 ELSE first

\* Mutant: the identifier is incremented before it is returned.
ReturnedIdLate == lastEventId + 1

ReturnedId == lastEventId

\* From the lock on.  Without memory for the event the call fails before it
\* uses up an identifier, without memory for the list node after.
ScheduleLocked(c) ==
    /\ cpc[c] = "schedule" /\ MutexFree
    /\ LET j == call[c].job
           n == Place(call[c].timeout)
           newEvent == [job |-> j, eventTime |-> call[c].timeout, id |-> lastEventId]
       IN  \/ /\ eventQ' = InsertAt(eventQ, n, newEvent)
              /\ waiting' \in Signalled
              /\ owed' = [owed EXCEPT ![j] = @ + 1]
              /\ eventId' = [eventId EXCEPT ![j] = ReturnedId]
              /\ lastEventId' = lastEventId + 1
           \/ /\ "node" \in Faults
              /\ eventId' = [eventId EXCEPT ![j] = ReturnedId]
              /\ lastEventId' = lastEventId + 1
              /\ UNCHANGED <<eventQ, waiting, owed>>
           \/ /\ "event" \in Faults
              /\ eventId' = [eventId EXCEPT ![j] = NoId]
              /\ UNCHANGED <<lastEventId, eventQ, waiting, owed>>
    /\ cpc' = [cpc EXCEPT ![c] = "out"]
    /\ call' = [call EXCEPT ![c] = NoCall]
    /\ UNCHANGED <<shutdown, phase, workVars, poolVars, now, lateFrom>>

\* TimerThreadRemove() with the identifier kept for some job, stale or not.
\* The job goes back to the caller.
TimerThreadRemove(c) ==
    /\ MutexFree
    /\ Active(c)
    /\ \E j \in Job :
          LET Named(e) == e.id = eventId[j]
              n == SelectInSeq(eventQ, Named)
          IN  /\ n # 0
              /\ Dispose(eventQ[n].job)
              /\ eventQ' = RemoveAt(eventQ, n)
    /\ UNCHANGED <<lastEventId, shutdown, phase, workVars, waiting, callVars,
                   poolVars, now, lateFrom>>

\* TimerThreadShutdown() up to its wait: every event is freed.
TimerThreadShutdown(c) ==
    /\ phase = "up" /\ MutexFree
    /\ c = Owner /\ Active(c)
    /\ shutdown' = TRUE
    /\ owed' = [j \in Job |->
          owed[j] - Cardinality({i \in DOMAIN eventQ : eventQ[i].job = j})]
    /\ eventQ' = <<>>
    /\ lateFrom' = lastEventId
    /\ waiting' = {c}
    /\ cpc' = [cpc EXCEPT ![c] = "shutdown"]
    /\ UNCHANGED <<lastEventId, phase, workVars, call, eventId, poolVars, now>>

\* Its wait has returned: it waits again or destroys condition and mutex.
ShutdownWoken(c) ==
    /\ MutexFree
    /\ cpc[c] = "shutdown" /\ c \notin waiting
    /\ IF shutdown
       THEN waiting' = waiting \cup {c} /\ UNCHANGED <<phase, cpc>>
       ELSE /\ phase' = "destroyed"
            /\ cpc' = [cpc EXCEPT ![c] = "out"]
            /\ UNCHANGED waiting
    /\ UNCHANGED <<lastEventId, eventQ, shutdown, workVars, call, eventId,
                   poolVars, now, seenVars>>

-----------------------------------------------------------------------------
(* The thread pool (external) and the clock *)

PoolRuns(j) ==
    /\ j \in pooled
    /\ Cardinality(running) < PoolThreads
    /\ pooled' = pooled \ {j}
    /\ running' = running \cup {j}
    /\ UNCHANGED <<timerVars, workVars, waiting, callVars, now, seenVars>>

JobEnds(j) ==
    /\ j \in running
    /\ j \in TimerUser => cpc[j] = "out"
    /\ running' = running \ {j}
    /\ UNCHANGED <<timerVars, workVars, waiting, callVars, pooled, now, seenVars>>

Tick ==
    /\ now < MaxTime
    /\ now' = now + 1
    /\ UNCHANGED <<timerVars, workVars, waiting, callVars, poolVars, seenVars>>

-----------------------------------------------------------------------------
Init ==
    /\ lastEventId = 0
    /\ eventQ = <<>>
    /\ shutdown = FALSE
    /\ phase = "none"
    /\ wpc = "none"
    /\ timeToWait = 0
    /\ waiting = {}
    /\ cpc = [c \in Caller |-> "out"]
    /\ call = [c \in Caller |-> NoCall]
    /\ eventId = [j \in Job |-> NoId]
    /\ pooled = {}
    /\ running = {}
    /\ now = 0
    /\ owed = [j \in Job |-> 0]
    /\ lateFrom = NoId

CallStep(c) == ScheduleLocked(c) \/ ShutdownWoken(c)

Next ==
    \/ TimerThreadInit
    \/ WorkerStep
    \/ \E c \in Caller :
          \/ TimerThreadSchedule(c)
          \/ TimerThreadRemove(c)
          \/ TimerThreadShutdown(c)
          \/ CallStep(c)
    \/ \E j \in Job : PoolRuns(j) \/ JobEnds(j)
    \/ Tick

Spec == Init /\ [][Next]_vars

\* Threads that can go on do, jobs of short duration end, and the clock runs.
\* Nobody need call the timer.
FairSpec ==
    /\ Spec
    /\ WF_vars(WorkerStep)
    /\ \A c \in Caller : WF_vars(CallStep(c))
    /\ \A j \in Job : WF_vars(PoolRuns(j))
    /\ \A j \in Job \ PersistentJob : WF_vars(JobEnds(j))
    /\ WF_vars(Tick)

-----------------------------------------------------------------------------
(* Properties *)

\* The type of every variable of struct TimerThread and of the threads around it.
TypeOK ==
    /\ lastEventId \in 0..MaxEvents
    /\ eventQ \in Seq(TimerEvent)
    /\ shutdown \in BOOLEAN
    /\ phase \in {"none", "up", "failed", "destroyed"}
    /\ wpc \in {"none", "loop", "wait", "timedwait", "adding", "done"}
    /\ timeToWait \in Nat
    /\ waiting \subseteq Client \cup {WorkerId}
    /\ cpc \in [Caller -> {"out", "schedule", "shutdown"}]
    /\ call \in [Caller -> [job: Job, timeout: Nat] \cup {NoCall}]
    /\ eventId \in [Job -> Nat \cup {NoId}]
    /\ pooled \subseteq Job /\ running \subseteq Job
    /\ now \in 0..MaxTime
    /\ owed \in [Job -> Int]
    /\ lateFrom \in Nat \cup {NoId}

Events(j) == Cardinality({i \in DOMAIN eventQ : eventQ[i].job = j})

\* Each time a job was scheduled with result 0 its argument is in the queue or
\* was, exactly once, handed to the pool, given back by TimerThreadRemove() or
\* released with free_func: neither leaked nor freed twice, whether the pool
\* refuses the job, the removal races the worker or the timer is shut down.
ArgumentConserved ==
    \A j \in Job : owed[j] = Events(j)

\* A worker that sleeps, and whom nobody has signalled, will wake up in time
\* for every event in the queue, and is not needed for a shutdown.  Events may
\* have been inserted or removed since the worker computed timeToWait from the
\* head, and the head is the earliest only as the queue stays ordered although
\* callers compute the event times before they take the mutex.
NoMissedEvent ==
    phase = "up" /\ WorkerId \in waiting =>
        /\ ~shutdown
        /\ \A i \in DOMAIN eventQ :
              wpc = "timedwait" /\ timeToWait <= eventQ[i].eventTime

\* The identifier that a caller keeps names its own event or none, also when it
\* is stale: TimerThreadRemove() never takes away the event of another caller
\* (client_table.cpp and gena_ctrlpt.cpp keep RenewEventId for long).
IdNamesItsEvent ==
    \A j \in Job : \A i \in DOMAIN eventQ :
        eventQ[i].id = eventId[j] => eventQ[i].job = j

\* Every event leaves the queue, unless it was scheduled when
\* TimerThreadShutdown() had begun.  Jobs that call the timer themselves do
\* not keep the worker, which holds the mutex while it adds a persistent job,
\* waiting for ever as long as the pool has more threads than such jobs.
EventLeaves ==
    \A j \in Job : Events(j) > 0 ~> (Events(j) = 0 \/ lateFrom # NoId)

\* TimerThreadShutdown() returns: its broadcast reaches the worker wherever it
\* is, and the worker's answer, on the same condition, reaches the caller.
ShutdownReturns == (cpc[Owner] = "shutdown") ~> (phase = "destroyed")

=============================================================================
