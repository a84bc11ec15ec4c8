-------------------------- MODULE ThreadPoolProofs --------------------------
(***************************************************************************)
(* Theorems about ThreadPool for every number of workers, clients and jobs *)
(* and all attributes.                                                     *)
(***************************************************************************)
EXTENDS ThreadPool, FiniteSetTheorems, SequenceTheorems, TLAPS

RegularJob == ThreadPoolJob(Job \ PersistentJob)
WorkerPc == {"none", "created", "ready", "wait", "woken", "timedout", "run"}
CallPc == {"out", "create", "start", "pers", "get", "shut", "term"}
CallType == [op: Op \cup {"none", "init"}, job: Job \cup {NoJob},
             jobs: Nat, threads: Int, ok: BOOLEAN]

-----------------------------------------------------------------------------
(* Queues *)

\* Starving() counts a prefix of the queue.
LEMMA StarvingType ==
    ASSUME NEW S, NEW q \in Seq(S), NEW limit
    PROVE  Starving(q, limit) \in 0..Len(q)
  <1> DEFINE P == {n \in 1..Len(q) : \A i \in 1..n : q[i].age >= limit}
  <1>1. Len(q) \in Nat
    BY LenProperties
  <1>2. IsFiniteSet(1..Len(q)) /\ Cardinality(1..Len(q)) = Len(q)
    BY <1>1, FS_Interval
  <1>3. IsFiniteSet(P) /\ Cardinality(P) <= Len(q)
    BY <1>2, FS_Subset
  <1>4. Cardinality(P) \in Nat
    BY <1>3, FS_CardinalityType
  <1> QED
    BY <1>1, <1>3, <1>4 DEF Starving

\* Taking a part of a queue keeps the type of its elements.
LEMMA PartType ==
    ASSUME NEW S, NEW q \in Seq(S), NEW m \in Int, NEW n \in Int, m >= 1, n <= Len(q)
    PROVE  SubSeq(q, m, n) \in Seq(S)
  <1>1. \A i \in m..n : q[i] \in S
    BY LenProperties, ElementOfSeq
  <1> QED
    BY <1>1, SubSeqProperties

\* BumpPriority() moves jobs between the queues and creates none.
LEMMA BumpType ==
    ASSUME TypeOK
    PROVE  BumpPriority \in [Priority -> Seq(RegularJob)]
  <1> DEFINE fromLow == Starving(jobQ["low"], attr.maxIdleTime)
             med     == jobQ["med"] \o SubSeq(jobQ["low"], 1, fromLow)
             fromMed == Starving(med, attr.starvationTime)
  <1>1. \A p \in Priority : jobQ[p] \in Seq(RegularJob)
    BY DEF TypeOK, RegularJob
  <1>2. /\ jobQ["low"] \in Seq(RegularJob)
        /\ jobQ["med"] \in Seq(RegularJob)
        /\ jobQ["high"] \in Seq(RegularJob)
    BY <1>1 DEF Priority
  <1>3. fromLow \in 0..Len(jobQ["low"]) /\ Len(jobQ["low"]) \in Nat
    BY <1>2, StarvingType, LenProperties
  <1>4. /\ SubSeq(jobQ["low"], 1, fromLow) \in Seq(RegularJob)
        /\ SubSeq(jobQ["low"], fromLow + 1, Len(jobQ["low"])) \in Seq(RegularJob)
    <2> HIDE DEF fromLow
    <2> QED BY <1>2, <1>3, PartType
  <1>5. med \in Seq(RegularJob)
    BY <1>2, <1>4, ConcatProperties
  <1>6. fromMed \in 0..Len(med) /\ Len(med) \in Nat
    <2> HIDE DEF med
    <2> QED BY <1>5, StarvingType, LenProperties
  <1>7. /\ SubSeq(med, 1, fromMed) \in Seq(RegularJob)
        /\ SubSeq(med, fromMed + 1, Len(med)) \in Seq(RegularJob)
    <2> HIDE DEF fromMed, med
    <2> QED BY <1>5, <1>6, PartType
  <1>8. jobQ["high"] \o SubSeq(med, 1, fromMed) \in Seq(RegularJob)
    <2> HIDE DEF fromMed, med
    <2> QED BY <1>2, <1>7, ConcatProperties
  <1> DEFINE bumped == [p \in Priority |->
            CASE p = "low"  -> SubSeq(jobQ["low"], fromLow + 1, Len(jobQ["low"]))
              [] p = "med"  -> SubSeq(med, fromMed + 1, Len(med))
              [] p = "high" -> jobQ["high"] \o SubSeq(med, 1, fromMed)]
  <1>9. BumpPriority = bumped
    BY DEF BumpPriority
  <1>10. bumped \in [Priority -> Seq(RegularJob)]
    <2> HIDE DEF fromMed, med, fromLow
    <2> QED BY <1>4, <1>7, <1>8 DEF Priority
  <1> QED
    BY <1>9, <1>10

-----------------------------------------------------------------------------
(* Counting workers *)

\* When two sets of workers differ at most in w, so do their sizes.
LEMMA OneMoves ==
    ASSUME NEW F \in SUBSET Worker, NEW G \in SUBSET Worker, NEW w,
           F \ {w} = G \ {w}
    PROVE  /\ Cardinality(F) \in Nat /\ Cardinality(G) \in Nat
           /\ Cardinality(G) = Cardinality(F) - (IF w \in F THEN 1 ELSE 0)
                                              + (IF w \in G THEN 1 ELSE 0)
  <1>1. IsFiniteSet(F) /\ IsFiniteSet(G)
    BY FS_Subset, ConstantsAssumption
  <1>2. Cardinality(F) \in Nat /\ Cardinality(G) \in Nat
    BY <1>1, FS_CardinalityType
  <1>3. Cardinality(F \ {w}) = IF w \in F THEN Cardinality(F) - 1 ELSE Cardinality(F)
    BY <1>1, FS_RemoveElement, Zenon
  <1>4. Cardinality(G \ {w}) = IF w \in G THEN Cardinality(G) - 1 ELSE Cardinality(G)
    BY <1>1, FS_RemoveElement, Zenon
  <1> DEFINE f == Cardinality(F)
             g == Cardinality(G)
             both == Cardinality(F \ {w})
  <1>5. /\ f \in Nat /\ g \in Nat
        /\ both = IF w \in F THEN f - 1 ELSE f
        /\ both = IF w \in G THEN g - 1 ELSE g
    BY <1>2, <1>3, <1>4, Zenon
  <1> HIDE DEF f, g, both
  <1>6. g = f - (IF w \in F THEN 1 ELSE 0) + (IF w \in G THEN 1 ELSE 0)
    BY <1>5
  <1> QED BY <1>2, <1>6 DEF f, g

\* The sets that Accounting counts.
Counted == <<Workers(Started), Workers({"run"}), PersistentWorkers, Workers({"created"})>>

\* Signals on tp->condition change none of them.
LEMMA SignalKeepsCounts ==
    ASSUME TypeOK, wpc' \in Signalled(wpc) \cup {wpc, AllSignalled(wpc)}, UNCHANGED wjob
    PROVE  /\ wpc' \in [Worker -> WorkerPc]
           /\ UNCHANGED Counted
  <1>1. wpc \in [Worker -> WorkerPc]
    BY DEF TypeOK, WorkerPc
  <1>2. CASE wpc' = wpc
    BY <1>1, <1>2 DEF Counted, Workers, PersistentWorkers
  <1>3. CASE wpc' = AllSignalled(wpc)
    <2>1. wpc' \in [Worker -> WorkerPc]
      BY <1>1, <1>3 DEF AllSignalled, WorkerPc
    <2>2. \A u \in Worker : \/ wpc'[u] = wpc[u]
                            \/ wpc[u] = "wait" /\ wpc'[u] = "woken"
      BY <1>1, <1>3 DEF AllSignalled
    <2> QED BY <1>1, <2>1, <2>2 DEF Counted, Workers, PersistentWorkers, Started
  <1>4. CASE wpc' \in Signalled(wpc) /\ wpc' # wpc
    <2>1. PICK w \in Worker : wpc[w] = "wait" /\ wpc' = [wpc EXCEPT ![w] = "woken"]
      BY <1>4 DEF Signalled
    <2>2. wpc' \in [Worker -> WorkerPc]
      BY <1>1, <2>1 DEF WorkerPc
    <2>3. \A u \in Worker : \/ wpc'[u] = wpc[u]
                            \/ wpc[u] = "wait" /\ wpc'[u] = "woken"
      BY <1>1, <2>1
    <2> QED BY <1>1, <2>2, <2>3 DEF Counted, Workers, PersistentWorkers, Started
  <1> QED BY <1>2, <1>3, <1>4

-----------------------------------------------------------------------------
(* What one critical section of a caller does *)

\* The types of the variables that the parts of a call change.
CallTypes ==
    /\ cpc \in [Thread -> CallPc]
    /\ call \in [Thread -> CallType]
    /\ \A t \in Thread : call[t].op = "pers" => call[t].job \in PersistentJob
    /\ sleeping \in SUBSET Thread
    /\ pendingWorkerThreadStart \in BOOLEAN
    /\ wpc \in [Worker -> WorkerPc]
    /\ lastJobId \in Nat
    /\ told \in [Job -> {"new", "ok", "err"}]
    /\ retId \in [Job -> Nat]
    /\ persistentJob \in ThreadPoolJob(PersistentJob) \cup {NullJob}
    /\ phase \in {"init", "up", "stuck", "destroyed"}

\* A step that starts no thread.
Quiet ==
    /\ wpc' \in Signalled(wpc) \cup {wpc}
    /\ UNCHANGED pendingWorkerThreadStart

\* A step that creates a thread within the limits of attributes a.
Creates(a) ==
    /\ ~pendingWorkerThreadStart /\ pendingWorkerThreadStart'
    /\ a.maxThreads = INFINITE_THREADS \/ totalThreads + 1 <= a.maxThreads
    /\ \E w \in Worker : wpc[w] = "none" /\ wpc' = [wpc EXCEPT ![w] = "created"]

CallRecord(c) ==
    /\ c \in CallType
    /\ c.op = "pers" => c.job \in PersistentJob

\* What the lemmas on calls need of the type invariant.
LEMMA TypeParts == TypeOK => CallTypes /\ totalThreads \in Int /\ attr \in AttrType
  BY DEF TypeOK, CallTypes, CallPc, CallType, WorkerPc

\* cond_wait keeps the types.
LEMMA SleepTypes ==
    ASSUME CallTypes, NEW t \in Thread, NEW pc \in CallPc, NEW c, CallRecord(c),
           Sleep(t, pc, c)
    PROVE  /\ cpc' \in [Thread -> CallPc]
           /\ call' \in [Thread -> CallType]
           /\ \A u \in Thread : call'[u].op = "pers" => call'[u].job \in PersistentJob
           /\ sleeping' \in SUBSET Thread
  BY DEF CallTypes, Sleep, CallRecord

\* So does returning from a call.
LEMMA ReturnTypes ==
    ASSUME CallTypes, NEW t \in Thread, Return(t)
    PROVE  /\ cpc' \in [Thread -> CallPc]
           /\ call' \in [Thread -> CallType]
           /\ \A u \in Thread : call'[u].op = "pers" => call'[u].job \in PersistentJob
           /\ sleeping' \in SUBSET Thread
  <1>1. NoCall \in CallType /\ NoCall.op # "pers"
    BY DEF NoCall, CallType
  <1> QED BY <1>1 DEF CallTypes, Return, CallPc

\* Neither does what the functions do when no thread is to be created.
LEMMA DoneEffect ==
    ASSUME TypeOK, NEW t \in Thread, NEW c, CallRecord(c), NEW ok \in BOOLEAN,
           Done(t, c, ok)
    PROVE  CallTypes' /\ Quiet
  <1>1. CallTypes
    BY TypeParts
  <1>2. wpc' \in Signalled(wpc) \cup {wpc} /\ UNCHANGED pendingWorkerThreadStart
    BY DEF Done, FinishAdd, SchedulePersistent, FinishAttr
  <1>3. wpc' \in [Worker -> WorkerPc]
    BY <1>1, <1>2 DEF CallTypes, Signalled, WorkerPc
  <1>4. CASE FinishAdd(t, c)
    <2>1. (lastJobId + 1) % IdModulus \in Nat
      BY <1>1, ConstantsAssumption DEF CallTypes
    <2> QED
      BY <1>1, <1>2, <1>3, <1>4, <2>1, ReturnTypes DEF FinishAdd, CallTypes, Quiet
  <1>5. CASE SchedulePersistent(t, c)
    <2>1. c.job \in PersistentJob
      BY <1>5 DEF SchedulePersistent, CallRecord
    <2>2. CreateThreadPoolJob(c.job) \in ThreadPoolJob(PersistentJob)
      BY <1>1, <2>1, ConstantsAssumption DEF CreateThreadPoolJob, ThreadPoolJob, CallTypes
    <2>3. Return(t) \/ Sleep(t, "pers", c)
      BY <1>5 DEF SchedulePersistent
    <2>4. /\ cpc' \in [Thread -> CallPc]
          /\ call' \in [Thread -> CallType]
          /\ \A u \in Thread : call'[u].op = "pers" => call'[u].job \in PersistentJob
          /\ sleeping' \in SUBSET Thread
      BY <1>1, <2>3, ReturnTypes, SleepTypes DEF CallPc
    <2>5. /\ told' \in [Job -> {"new", "ok", "err"}]
          /\ persistentJob' \in ThreadPoolJob(PersistentJob) \cup {NullJob}
          /\ UNCHANGED <<lastJobId, retId, phase>>
      BY <1>1, <1>5, <2>1, <2>2 DEF SchedulePersistent, CallTypes
    <2> QED
      BY <1>1, <1>2, <1>3, <2>4, <2>5 DEF CallTypes, Quiet
  <1>6. CASE FinishAttr(t, c, ok)
    <2>1. /\ cpc' \in [Thread -> CallPc]
          /\ call' \in [Thread -> CallType]
          /\ \A u \in Thread : call'[u].op = "pers" => call'[u].job \in PersistentJob
          /\ sleeping' \in SUBSET Thread
      <3>1. CASE ok
        BY <1>1, <1>6, <3>1, ReturnTypes DEF FinishAttr
      <3>2. CASE ~ok
        BY <1>1, <1>6, <3>2 DEF FinishAttr, CallTypes, CallPc, CallRecord
      <3> QED BY <3>1, <3>2
    <2>2. phase' \in {"init", "up", "stuck", "destroyed"}
      BY <1>1, <1>6 DEF FinishAttr, CallTypes
    <2> QED
      BY <1>1, <1>2, <1>3, <1>6, <2>1, <2>2 DEF FinishAttr, CallTypes, Quiet
  <1> QED BY <1>4, <1>5, <1>6 DEF Done

\* CreateWorker() either sleeps, creates one thread or gives up.
LEMMA CreateEffect ==
    ASSUME TypeOK, NEW t \in Thread, NEW c, CallRecord(c), NEW a \in AttrType,
           CreateWorker(t, c, a)
    PROVE  CallTypes' /\ (Quiet \/ Creates(a))
  <1>1. CallTypes /\ totalThreads \in Int
    BY TypeParts
  <1>2. CASE pendingWorkerThreadStart
    <2>1. /\ Sleep(t, "create", c)
          /\ UNCHANGED <<wpc, pendingWorkerThreadStart, lastJobId, told, retId,
                         persistentJob, phase>>
      BY <1>2 DEF CreateWorker
    <2>2. "create" \in CallPc
      BY DEF CallPc
    <2> QED BY <1>1, <2>1, <2>2, SleepTypes DEF CallTypes, Quiet
  <1>3. CASE ~pendingWorkerThreadStart
    <2>1. CreateNow(t, c, a)
      BY <1>3 DEF CreateWorker
    <2> DEFINE atMax == a.maxThreads # INFINITE_THREADS /\ totalThreads + 1 > a.maxThreads
    <2>2. CASE ~atMax /\ CreateThread(t, c)
      <3>1. PICK w \in Worker :
                /\ wpc[w] = "none"
                /\ wpc' = [wpc EXCEPT ![w] = "created"]
                /\ pendingWorkerThreadStart' = TRUE
                /\ Sleep(t, "start", c)
                /\ UNCHANGED <<lastJobId, told, retId, persistentJob, phase>>
        BY <2>2 DEF CreateThread
      <3>2. "start" \in CallPc
        BY DEF CallPc
      <3>3. wpc' \in [Worker -> WorkerPc]
        BY <1>1, <3>1 DEF CallTypes, WorkerPc
      <3>4. CallTypes'
        BY <1>1, <3>1, <3>2, <3>3, SleepTypes DEF CallTypes
      <3>5. a.maxThreads = INFINITE_THREADS \/ totalThreads + 1 <= a.maxThreads
        BY <1>1, <2>2 DEF AttrType, INFINITE_THREADS
      <3> QED BY <1>3, <3>1, <3>4, <3>5 DEF Creates
    <2>3. CASE Done(t, c, FALSE)
      BY <2>3, DoneEffect
    <2> QED BY <2>1, <2>2, <2>3 DEF CreateNow
  <1> QED BY <1>2, <1>3

\* The loops around CreateWorker() have no further effect.
LEMMA AddWorkersEffect ==
    ASSUME TypeOK, NEW t \in Thread, NEW c, CallRecord(c), NEW a \in AttrType,
           AddWorkers(t, c, a)
    PROVE  CallTypes' /\ (Quiet \/ Creates(a))
  <1>1. CASE WantsWorker(c, a)
    BY <1>1, CreateEffect DEF AddWorkers
  <1>2. CASE ~WantsWorker(c, a)
    BY <1>2, DoneEffect DEF AddWorkers
  <1> QED BY <1>1, <1>2

-----------------------------------------------------------------------------
(* Type correctness *)

\* The steps of a call touch the rest of the pool only as stated here.
CallStep ==
    /\ CallTypes' /\ UNCHANGED callFrame
    /\ jobQ' \in [Priority -> Seq(RegularJob)]
    /\ UNCHANGED scenario
    /\ \/ UNCHANGED attrVars /\ (Quiet \/ Creates(attr))
       \/ attr' \in AttrType /\ attrReset' /\ (Quiet \/ Creates(attr'))

\* The queues hold regular jobs only.
LEMMA QueueType == TypeOK => jobQ \in [Priority -> Seq(RegularJob)]
  BY DEF TypeOK, RegularJob

\* A step of a call keeps every type.
LEMMA CallStepTypes == TypeOK /\ CallStep /\ attrReset' \in BOOLEAN => TypeOK'
  <1> SUFFICES ASSUME TypeOK, CallStep, attrReset' \in BOOLEAN PROVE TypeOK'
    OBVIOUS
  <1>1. CallTypes' /\ jobQ' \in [Priority -> Seq(RegularJob)]
    BY DEF CallStep
  <1>2. UNCHANGED callFrame /\ UNCHANGED scenario
    BY DEF CallStep
  <1>3. attr' \in AttrType
    BY DEF CallStep, attrVars, TypeOK
  <1>4. /\ scenario' \in Scenarios
        /\ shutdown' \in BOOLEAN
        /\ totalThreads' \in Int /\ busyThreads' \in Int /\ persistentThreads' \in Int
        /\ wjob' \in [Worker -> Job \cup {NoJob}]
        /\ ended' \in [Job -> {"no", "ran", "removed", "freed"}]
        /\ wanted' \in SUBSET Job
    BY <1>2 DEF TypeOK, callFrame
  <1> QED
    BY <1>1, <1>3, <1>4 DEF TypeOK, CallTypes, RegularJob, CallPc, CallType, WorkerPc

\* The record of no call is a call record.
LEMMA NoCallType == NoCall \in CallType
  BY DEF NoCall, CallType

\* A call that goes on after a wait still has its local variables.
LEMMA CallOf ==
    ASSUME TypeOK, NEW t \in Thread
    PROVE  /\ CallRecord(call[t])
           /\ CallRecord([call[t] EXCEPT !.threads = Incremented(call[t])])
  <1>1. call[t] \in CallType /\ attr.minThreads \in Int
    BY DEF TypeOK, CallType, AttrType
  <1>2. call[t].op = "pers" => call[t].job \in PersistentJob
    BY DEF TypeOK
  <1>3. Incremented(call[t]) \in Int
    BY <1>1 DEF Incremented, CallType
  <1> QED
    BY <1>1, <1>2, <1>3 DEF CallRecord, CallType

\* The number of queued jobs is a natural number.
LEMMA QueuedJobsType == TypeOK => QueuedJobs \in Nat
  <1> SUFFICES ASSUME TypeOK PROVE QueuedJobs \in Nat
    OBVIOUS
  <1>1. \A p \in Priority : Len(jobQ[p]) \in Nat
    BY QueueType, LenProperties
  <1>2. {"high", "low", "med"} \subseteq Priority
    BY DEF Priority
  <1>3. Len(jobQ["high"]) \in Nat /\ Len(jobQ["low"]) \in Nat /\ Len(jobQ["med"]) \in Nat
    BY <1>1, <1>2
  <1>4. \A x, y, z \in Nat : x + y + z \in Nat
    OBVIOUS
  <1> QED BY <1>3, <1>4, Zenon DEF QueuedJobs

\* ThreadPoolInit(), ThreadPoolAdd() and so on, each in its first critical
\* section and in those after a wait, take CallSteps.
LEMMA CallsAreCallSteps ==
    ASSUME TypeOK, NEW t \in Thread,
           \/ ThreadPoolInit /\ t = Owner
           \/ WakeCreate(t) \/ WakeStart(t) \/ WakePersistent(t)
           \/ \E a \in Attrs : ThreadPoolSetAttr(t, a)
    PROVE  CallStep
  <1>0. CallTypes /\ jobQ \in [Priority -> Seq(RegularJob)] /\ attr \in AttrType
    BY TypeParts, QueueType
  <1>1. CASE ThreadPoolInit /\ t = Owner
    <2>1. CallRecord([NoCall EXCEPT !.op = "init"])
      BY NoCallType DEF CallRecord, CallType
    <2>2. AddWorkers(t, [NoCall EXCEPT !.op = "init"], attr)
      BY <1>1 DEF ThreadPoolInit
    <2> QED
      BY <1>0, <1>1, <2>1, <2>2, AddWorkersEffect DEF ThreadPoolInit, CallStep, attrVars
  <1>2. CASE WakeCreate(t)
    <2>1. CreateWorker(t, call[t], attr)
      BY <1>2 DEF WakeCreate
    <2> QED
      BY <1>0, <1>2, <2>1, CallOf, CreateEffect DEF WakeCreate, CallStep, attrVars
  <1>3. CASE WakeStart(t)
    <2>1. CASE pendingWorkerThreadStart
      <3>1. /\ Sleep(t, "start", call[t])
            /\ UNCHANGED <<wpc, pendingWorkerThreadStart, lastJobId, told,
                           retId, persistentJob, phase>>
            /\ UNCHANGED <<callFrame, attrVars, jobQ>>
        BY <1>3, <2>1 DEF WakeStart
      <3>2. "start" \in CallPc /\ CallRecord(call[t])
        BY CallOf DEF CallPc
      <3>3. CallTypes'
        BY <1>0, <3>1, <3>2, SleepTypes DEF CallTypes
      <3> QED
        BY <1>0, <3>1, <3>3 DEF CallStep, Quiet, attrVars
    <2>2. CASE ~pendingWorkerThreadStart
      <3>1. AddWorkers(t, [call[t] EXCEPT !.threads = Incremented(call[t])], attr)
        BY <1>3, <2>2 DEF WakeStart
      <3> QED
        BY <1>0, <1>3, <3>1, CallOf, AddWorkersEffect DEF WakeStart, CallStep, attrVars
    <2> QED BY <2>1, <2>2
  <1>4. CASE WakePersistent(t)
    <2>1. UNCHANGED <<callFrame, attrVars, jobQ, persistentJob, phase, wpc,
                      pendingWorkerThreadStart>>
      BY <1>4 DEF WakePersistent
    <2>2. CallTypes'
      <3>1. CASE persistentJob # NullJob
        <4>1. Sleep(t, "pers", call[t]) /\ UNCHANGED <<lastJobId, retId, told>>
          BY <1>4, <3>1 DEF WakePersistent
        <4>2. "pers" \in CallPc /\ CallRecord(call[t])
          BY CallOf DEF CallPc
        <4> QED BY <1>0, <2>1, <4>1, <4>2, SleepTypes DEF CallTypes
      <3>2. CASE persistentJob = NullJob
        <4>1. /\ lastJobId' = (lastJobId + 1) % IdModulus
              /\ retId' = [retId EXCEPT ![call[t].job] = lastJobId]
              /\ told' = [told EXCEPT ![call[t].job] = "ok"]
              /\ Return(t)
          BY <1>4, <3>2 DEF WakePersistent
        <4>2. (lastJobId + 1) % IdModulus \in Nat
          BY <1>0, ConstantsAssumption DEF CallTypes
        <4> QED BY <1>0, <2>1, <4>1, <4>2, ReturnTypes DEF CallTypes
      <3> QED BY <3>1, <3>2
    <2> QED
      BY <1>0, <2>1, <2>2 DEF CallStep, Quiet, attrVars
  <1>5. CASE \E a \in Attrs : ThreadPoolSetAttr(t, a)
    <2>1. PICK a \in Attrs : ThreadPoolSetAttr(t, a)
      BY <1>5
    <2> DEFINE c == [NoCall EXCEPT !.op = "setattr", !.threads = totalThreads]
    <2>2. a \in AttrType
      BY ConstantsAssumption
    <2>3. CallRecord(c)
      BY DEF CallRecord, NoCall, CallType, TypeOK, Op
    <2>4. AddWorkers(t, c, a) /\ attr' = a /\ attrReset' = TRUE
          /\ UNCHANGED <<callFrame, jobQ, scenario>>
      BY <2>1 DEF ThreadPoolSetAttr
    <2>5. CallTypes' /\ (Quiet \/ Creates(a))
      <3> HIDE DEF c
      <3> QED BY <2>2, <2>3, <2>4, AddWorkersEffect
    <2> QED
      BY <1>0, <2>2, <2>4, <2>5 DEF CallStep
  <1> QED BY <1>1, <1>2, <1>3, <1>4, <1>5

\* A submission either fails without a trace or takes a CallStep.
LEMMA SubmissionIsCallStep ==
    ASSUME TypeOK, NEW t \in Thread, NEW j \in Job,
           ThreadPoolAdd(t, j) \/ ThreadPoolAddPersistent(t, j)
    PROVE  CallStep \/ SubmissionFails(j)
  <1>0. CallTypes /\ jobQ \in [Priority -> Seq(RegularJob)] /\ attr \in AttrType
    BY TypeParts, QueueType
  <1>1. CASE ThreadPoolAdd(t, j)
    <2> SUFFICES ASSUME ~SubmissionFails(j) PROVE CallStep
      OBVIOUS
    <2>1. PICK ok \in BOOLEAN :
            /\ jobQ' = IF ok THEN [jobQ EXCEPT ![JobPriority[j]] =
                                     Append(@, CreateThreadPoolJob(j))]
                             ELSE jobQ
            /\ AddWorkers(t, [op |-> "add", job |-> j,
                              jobs |-> QueuedJobs + (IF ok THEN 1 ELSE 0),
                              threads |-> totalThreads - persistentThreads,
                              ok |-> ok], attr)
      BY <1>1 DEF ThreadPoolAdd
    <2>2. UNCHANGED <<callFrame, attrVars>> /\ j \notin PersistentJob
      BY <1>1 DEF ThreadPoolAdd
    <2> DEFINE c == [op |-> "add", job |-> j,
                     jobs |-> QueuedJobs + (IF ok THEN 1 ELSE 0),
                     threads |-> totalThreads - persistentThreads, ok |-> ok]
    <2>3. CallRecord(c)
      <3>1. QueuedJobs + (IF ok THEN 1 ELSE 0) \in Nat
        BY QueuedJobsType
      <3>2. totalThreads - persistentThreads \in Int
        BY DEF TypeOK
      <3> QED BY <3>1, <3>2 DEF CallRecord, CallType, Op
    <2>4. CallTypes' /\ (Quiet \/ Creates(attr))
      <3>1. AddWorkers(t, c, attr)
        BY <2>1
      <3> HIDE DEF c
      <3> QED BY <1>0, <2>3, <3>1, AddWorkersEffect
    <2>5. jobQ' \in [Priority -> Seq(RegularJob)]
      <3>1. CreateThreadPoolJob(j) \in RegularJob
        BY <1>0, <2>2, ConstantsAssumption DEF CreateThreadPoolJob, RegularJob, ThreadPoolJob, CallTypes
      <3>2. \A p \in Priority : Append(jobQ[p], CreateThreadPoolJob(j)) \in Seq(RegularJob)
        BY <1>0, <3>1, AppendProperties
      <3>3. CASE ok
        BY <1>0, <2>1, <3>2, <3>3
      <3>4. CASE ~ok
        BY <1>0, <2>1, <3>4
      <3> QED BY <3>3, <3>4
    <2> QED BY <2>2, <2>4, <2>5 DEF CallStep, attrVars
  <1>2. CASE ThreadPoolAddPersistent(t, j)
    <2> DEFINE c == [NoCall EXCEPT !.op = "pers", !.job = j]
    <2> SUFFICES ASSUME ~SubmissionFails(j) PROVE CallStep
      OBVIOUS
    <2>1. /\ CreateWorker(t, c, attr) \/ SchedulePersistent(t, c)
          /\ UNCHANGED <<callFrame, attrVars, jobQ>>
          /\ j \in PersistentJob
      BY <1>2 DEF ThreadPoolAddPersistent
    <2>2. CallRecord(c)
      BY <2>1, NoCallType DEF CallRecord, CallType, Op
    <2>3. CallTypes' /\ (Quiet \/ Creates(attr))
      <3>1. CASE CreateWorker(t, c, attr)
        <4> HIDE DEF c
        <4> QED BY <1>0, <2>2, <3>1, CreateEffect
      <3>2. CASE SchedulePersistent(t, c)
        <4> HIDE DEF c
        <4>1. Done(t, c, TRUE)
          BY <3>2 DEF Done
        <4> QED BY <2>2, <4>1, DoneEffect
      <3> QED BY <2>1, <3>1, <3>2
    <2> QED BY <1>0, <2>1, <2>3 DEF CallStep, attrVars
  <1> QED BY <1>1, <1>2

\* The steps of a worker keep the types: each of the counters changes by an
\* integer, and the queues only by BumpPriority() and by taking a head.
LEMMA WorkerTypes ==
    ASSUME TypeOK, NEW w \in Worker, WorkerStart(w) \/ WorkerStep(w) \/ WaitReturns(w)
    PROVE  TypeOK'
  <1>1. CASE WorkerStart(w)
    <2>1. totalThreads' \in Int
      BY <1>1 DEF WorkerStart, TypeOK
    <2>2. pendingWorkerThreadStart' \in BOOLEAN /\ sleeping' \in SUBSET Thread
      BY <1>1 DEF WorkerStart
    <2>3. wpc' \in [Worker -> {"none", "created", "ready", "wait", "woken", "timedout", "run"}]
      BY <1>1 DEF WorkerStart, TypeOK
    <2>4. UNCHANGED <<lastJobId, shutdown, busyThreads, persistentThreads, jobQ,
                   persistentJob, attrVars, phase, wjob, cpc, call, jobVars>>
      BY <1>1 DEF WorkerStart
    <2> QED BY <2>1, <2>2, <2>3, <2>4 DEF TypeOK, attrVars, jobVars
  <1>2. CASE WaitReturns(w)
    BY <1>2 DEF WaitReturns, TypeOK, poolVars, attrVars, callVars, jobVars
  <1>3. CASE WorkerStep(w)
    <2>1. /\ busyThreads - Returned(w) \in Int
          /\ persistentThreads - ReturnedPersistent(w) \in Int
      BY DEF TypeOK, Returned, ReturnedPersistent
    <2>2. ASSUME JobReturned(w)
          PROVE  ended' \in [Job -> {"no", "ran", "removed", "freed"}]
      BY <2>2 DEF JobReturned, TypeOK
    <2>3. ASSUME WorkerExit(w), jobQ' \in [Priority -> Seq(RegularJob)]
          PROVE  TypeOK'
      <3>1. /\ busyThreads' \in Int /\ persistentThreads' \in Int /\ totalThreads' \in Int
            /\ sleeping' \in SUBSET Thread
        BY <2>1, <2>3 DEF WorkerExit, TypeOK
      <3>2. /\ wpc' \in [Worker -> WorkerPc] /\ wjob' \in [Worker -> Job \cup {NoJob}]
            /\ ended' \in [Job -> {"no", "ran", "removed", "freed"}]
        BY <2>2, <2>3 DEF WorkerExit, TypeOK, WorkerPc
      <3>3. UNCHANGED <<lastJobId, shutdown, pendingWorkerThreadStart, persistentJob,
                        attrVars, phase, cpc, call, told, retId, wanted>>
        BY <2>3 DEF WorkerExit
      <3> QED BY <2>3, <3>1, <3>2, <3>3 DEF TypeOK, attrVars, RegularJob, WorkerPc
    <2>4. ASSUME NEW j \in Job, Run(w, j), jobQ' \in [Priority -> Seq(RegularJob)],
                 persistentJob' \in {NullJob, persistentJob}, sleeping' \in {{}, sleeping},
                 persistentThreads' \in Int
          PROVE  TypeOK'
      <3>1. busyThreads' \in Int
        BY <2>1, <2>4 DEF Run
      <3>2. /\ wpc' \in [Worker -> WorkerPc] /\ wjob' \in [Worker -> Job \cup {NoJob}]
            /\ ended' \in [Job -> {"no", "ran", "removed", "freed"}]
        BY <2>2, <2>4 DEF Run, TypeOK, WorkerPc
      <3>3. UNCHANGED <<lastJobId, shutdown, totalThreads, pendingWorkerThreadStart,
                        attrVars, phase, cpc, call, told, retId, wanted>>
        BY <2>4 DEF Run
      <3>4. /\ persistentJob' \in ThreadPoolJob(PersistentJob) \cup {NullJob}
            /\ sleeping' \in SUBSET Thread
        BY <2>4 DEF TypeOK
      <3> QED BY <2>4, <3>1, <3>2, <3>3, <3>4 DEF TypeOK, attrVars, RegularJob, WorkerPc
    <2>5. CASE WorkerWait(w)
      BY <2>1, <2>2, <2>5 DEF WorkerWait, TypeOK, attrVars, callVars
    <2>6. CASE WorkerRetire(w)
      BY <2>3, <2>6, QueueType DEF WorkerRetire
    <2>7. CASE WorkerStop(w)
      BY <2>3, <2>7, BumpType DEF WorkerStop
    <2>8. CASE WorkerTakePersistent(w)
      <3>1. persistentJob.job \in Job /\ jobQ' \in [Priority -> Seq(RegularJob)]
        BY <2>8, BumpType, ConstantsAssumption DEF WorkerTakePersistent, TypeOK, ThreadPoolJob
      <3>2. /\ Run(w, persistentJob.job)
            /\ persistentJob' = NullJob /\ sleeping' = {}
            /\ persistentThreads' \in Int
        BY <2>1, <2>8 DEF WorkerTakePersistent
      <3> QED
        BY <2>8, <2>4, <3>1, <3>2
    <2>9. CASE WorkerTake(w)
      <3> DEFINE q == BumpPriority
                 p == Highest(q)
      <3>1. /\ q[p] # <<>>
            /\ jobQ' = [q EXCEPT ![p] = Tail(@)]
            /\ Run(w, Head(q[p]).job)
            /\ persistentThreads' = persistentThreads - ReturnedPersistent(w)
            /\ UNCHANGED <<persistentJob, sleeping>>
        BY <2>9 DEF WorkerTake
      <3>2. Highest(q) \in Priority
        BY DEF Highest, Priority
      <3>3. q \in [Priority -> Seq(RegularJob)]
        BY BumpType
      <3> HIDE DEF q
      <3>4. q[p] \in Seq(RegularJob)
        BY <3>2, <3>3
      <3>5. Head(q[p]) \in RegularJob /\ Tail(q[p]) \in Seq(RegularJob)
        BY <3>1, <3>4, HeadTailProperties
      <3>6. Head(q[p]).job \in Job
        BY <3>5 DEF RegularJob, ThreadPoolJob
      <3>7. jobQ' \in [Priority -> Seq(RegularJob)]
        BY <3>1, <3>3, <3>5
      <3> HIDE DEF p
      <3> QED
        BY <2>1, <2>4, <3>1, <3>6, <3>7
    <2> QED BY <1>3, <2>5, <2>6, <2>7, <2>8, <2>9 DEF WorkerStep
  <1> QED BY <1>1, <1>2, <1>3

\* So do the functions that neither create nor signal single threads.
LEMMA OtherTypes ==
    ASSUME TypeOK, NEW t, NEW j,
           \/ j \in Job /\ ThreadPoolRemove(t, j)
           \/ /\ t \in Thread
              /\ \/ ThreadPoolGetAttr(t) \/ GetAttrLocked(t)
                 \/ ThreadPoolShutdown(t) \/ WakeShutdown(t)
    PROVE  TypeOK'
  <1>0. CallTypes /\ jobQ \in [Priority -> Seq(RegularJob)]
    BY TypeParts, QueueType
  <1>1. CASE j \in Job /\ ThreadPoolRemove(t, j)
    <2> DEFINE id == retId[j]
               found(p) == {i \in DOMAIN jobQ[p] : jobQ[p][i].id = id}
               from == IF found("high") # {} THEN "high"
                       ELSE IF found("med") # {} THEN "med" ELSE "low"
               cut(q, i) == SubSeq(q, 1, i - 1) \o SubSeq(q, i + 1, Len(q))
    <2>1. UNCHANGED <<lastJobId, shutdown, totalThreads, pendingWorkerThreadStart,
                      busyThreads, persistentThreads, attrVars, phase, workVars,
                      callVars, told, retId>> /\ wanted' = wanted \cup {j}
      BY <1>1 DEF ThreadPoolRemove
    <2>2. \/ /\ \E i \in found(from) :
                  /\ jobQ' = [jobQ EXCEPT ![from] = cut(jobQ[from], i)]
                  /\ ended' = [ended EXCEPT ![jobQ[from][i].job] = "removed"]
             /\ UNCHANGED persistentJob
          \/ /\ ended' = [ended EXCEPT ![persistentJob.job] = "removed"]
             /\ persistentJob' = NullJob
             /\ UNCHANGED jobQ
      BY <1>1 DEF ThreadPoolRemove
    <2>3. from \in Priority
      BY DEF Priority
    <2>4. ASSUME NEW i \in found(from) PROVE cut(jobQ[from], i) \in Seq(RegularJob)
      <3>1. jobQ[from] \in Seq(RegularJob)
        BY <1>0, <2>3
      <3>2. Len(jobQ[from]) \in Nat /\ i \in 1..Len(jobQ[from])
        BY <2>4, <3>1, LenProperties
      <3> HIDE DEF from, found
      <3>3. SubSeq(jobQ[from], 1, i - 1) \in Seq(RegularJob)
        BY <3>1, <3>2, PartType
      <3>4. SubSeq(jobQ[from], i + 1, Len(jobQ[from])) \in Seq(RegularJob)
        BY <3>1, <3>2, PartType
      <3> QED BY <3>3, <3>4, ConcatProperties
    <2> HIDE DEF cut, from, found
    <2>5. jobQ' \in [Priority -> Seq(RegularJob)]
      BY <1>0, <2>2, <2>3, <2>4
    <2>6. /\ ended' \in [Job -> {"no", "ran", "removed", "freed"}]
          /\ persistentJob' \in ThreadPoolJob(PersistentJob) \cup {NullJob}
      BY <2>2 DEF TypeOK
    <2> QED
      BY <1>1, <2>1, <2>5, <2>6 DEF TypeOK, RegularJob, attrVars, workVars, callVars
  <1>3. CASE t \in Thread /\ ThreadPoolGetAttr(t)
    BY <1>3 DEF ThreadPoolGetAttr, TypeOK, poolVars, attrVars, workVars, jobVars
  <1>4. CASE t \in Thread /\ GetAttrLocked(t)
    <2>1. /\ UNCHANGED <<poolVars, attrVars, workVars, jobVars>>
          /\ phase' \in {"init", "up", "stuck", "destroyed"}
          /\ Return(t)
      BY <1>4 DEF GetAttrLocked, TypeOK
    <2> QED
      BY <1>0, <1>4, <2>1, ReturnTypes DEF TypeOK, poolVars, attrVars, workVars, jobVars, CallPc, CallType
  <1>5. ASSUME t \in Thread, AwaitThreads(t)
        PROVE  /\ phase' \in {"init", "up", "stuck", "destroyed"}
               /\ cpc' \in [Thread -> CallPc]
               /\ call' \in [Thread -> CallType]
               /\ \A u \in Thread : call'[u].op = "pers" => call'[u].job \in PersistentJob
               /\ sleeping' \in SUBSET Thread
    <2> DEFINE c == [NoCall EXCEPT !.op = "shutdown"]
    <2>1. CallRecord(c) /\ "term" \in CallPc
      BY NoCallType DEF CallRecord, CallType, Op, CallPc
    <2>2. /\ Sleep(t, "term", c) \/ Return(t)
          /\ phase' \in {phase, "destroyed"}
      BY <1>5 DEF AwaitThreads
    <2> HIDE DEF c
    <2> QED
      BY <1>0, <1>5, <2>1, <2>2, SleepTypes, ReturnTypes DEF CallTypes
  <1>6. CASE t \in Thread /\ ThreadPoolShutdown(t)
    <2>1. jobQ' \in [Priority -> Seq(RegularJob)]
      <3>1. <<>> \in Seq(RegularJob)
        OBVIOUS
      <3> QED BY <1>6, <3>1 DEF ThreadPoolShutdown
    <2>2. ended' \in [Job -> {"no", "ran", "removed", "freed"}]
      BY <1>6 DEF ThreadPoolShutdown, TypeOK
    <2>3. wpc' \in [Worker -> WorkerPc]
      BY <1>0, <1>6 DEF ThreadPoolShutdown, AllSignalled, CallTypes, WorkerPc
    <2>4. /\ AwaitThreads(t)
          /\ shutdown' = TRUE
          /\ persistentJob' = NullJob
          /\ UNCHANGED <<lastJobId, totalThreads, pendingWorkerThreadStart, busyThreads,
                         persistentThreads, attrVars, wjob, told, retId, wanted>>
      BY <1>6 DEF ThreadPoolShutdown
    <2> QED
      BY <1>5, <1>6, <2>1, <2>2, <2>3, <2>4 DEF TypeOK, attrVars, CallPc, CallType, WorkerPc, RegularJob
  <1>7. CASE t \in Thread /\ WakeShutdown(t)
    BY <1>5, <1>7 DEF WakeShutdown, TypeOK, poolVars, attrVars, workVars, jobVars, CallPc, CallType
  <1> QED BY <1>1, <1>3, <1>4, <1>6, <1>7

\* A refused job and one that is submitted again leave the pool as it is.
LEMMA JobTypes ==
    ASSUME TypeOK, NEW j \in Job, SubmissionFails(j) \/ Recycle(j)
    PROVE  TypeOK'
  BY DEF SubmissionFails, Recycle, TypeOK, poolVars, attrVars, workVars, callVars

\* Waiting jobs grow older.
LEMMA TickTypes == TypeOK /\ Tick => TypeOK'
  <1> SUFFICES ASSUME TypeOK, Tick PROVE TypeOK'
    OBVIOUS
  <1>1. ASSUME NEW p \in Priority
        PROVE  [i \in DOMAIN jobQ[p] |-> [jobQ[p][i] EXCEPT !.age =
                  IF @ < scenario.age THEN @ + 1 ELSE @]] \in Seq(RegularJob)
    <2>1. jobQ[p] \in Seq(RegularJob)
      BY QueueType
    <2>2. /\ Len(jobQ[p]) \in Nat /\ DOMAIN jobQ[p] = 1..Len(jobQ[p])
          /\ \A i \in 1..Len(jobQ[p]) : jobQ[p][i] \in RegularJob
      BY <2>1, LenProperties, ElementOfSeq
    <2>3. \A x \in RegularJob : [x EXCEPT !.age = IF @ < scenario.age THEN @ + 1 ELSE @] \in RegularJob
      <3>1. scenario.age \in 0..MaxAge
        BY ConstantsAssumption DEF TypeOK
      <3> QED BY <3>1, ConstantsAssumption DEF RegularJob, ThreadPoolJob
    <2> DEFINE older == [i \in 1..Len(jobQ[p]) |-> [jobQ[p][i] EXCEPT !.age =
                  IF @ < scenario.age THEN @ + 1 ELSE @]]
    <2>4. older \in [1..Len(jobQ[p]) -> RegularJob]
      BY <2>2, <2>3
    <2>5. older \in Seq(RegularJob)
      <3> HIDE DEF older
      <3> QED BY <2>2, <2>4
    <2> QED BY <2>2, <2>5
  <1>2. jobQ' \in [Priority -> Seq(RegularJob)]
    BY <1>1 DEF Tick
  <1>3. UNCHANGED <<lastJobId, shutdown, totalThreads, pendingWorkerThreadStart,
                 busyThreads, persistentThreads, persistentJob, attrVars,
                 phase, workVars, callVars, jobVars>>
    BY DEF Tick
  <1> QED
    BY <1>2, <1>3 DEF TypeOK, attrVars, workVars, callVars, jobVars, RegularJob

\* The fields that ThreadPoolInit() sets have their types.
LEMMA InitTypes == Init => TypeOK
  <1> SUFFICES ASSUME Init PROVE TypeOK
    OBVIOUS
  <1>1. NoCall \in CallType /\ NoCall.op # "pers"
    BY DEF NoCall, CallType
  <1>2. jobQ \in [Priority -> Seq(RegularJob)]
    <2>1. <<>> \in Seq(RegularJob)
      OBVIOUS
    <2> QED BY <2>1 DEF Init
  <1>3. call \in [Thread -> CallType] /\ \A t \in Thread : call[t].op # "pers"
    BY <1>1 DEF Init
  <1>4. attr \in AttrType /\ sleeping \in SUBSET Thread /\ wanted \in SUBSET Job
    BY ConstantsAssumption DEF Init
  <1>5. lastJobId \in Nat /\ totalThreads \in Int /\ busyThreads \in Int /\ persistentThreads \in Int
    BY DEF Init
  <1> QED
    BY <1>2, <1>3, <1>4, <1>5 DEF Init, TypeOK, CallType, RegularJob

\* Every step keeps the types: one case per action of Next.
LEMMA NextTypes == TypeOK /\ [Next]_vars => TypeOK'
  <1> SUFFICES ASSUME TypeOK, [Next]_vars PROVE TypeOK'
    OBVIOUS
  <1>1. CASE ThreadPoolInit
    <2>1. Owner \in Thread
      BY ConstantsAssumption DEF Thread
    <2>2. CallStep
      BY <1>1, <2>1, CallsAreCallSteps
    <2>3. attrReset' \in BOOLEAN
      BY <1>1 DEF ThreadPoolInit, attrVars, TypeOK
    <2> QED BY <2>2, <2>3, CallStepTypes
  <1>2. CASE \E w \in Worker : WorkerStart(w) \/ WorkerStep(w) \/ WaitReturns(w)
    BY <1>2, WorkerTypes
  <1>3. ASSUME NEW t \in Thread, Call(t) \/ Wake(t)
        PROVE  TypeOK'
    <2>1. ASSUME NEW j \in Job, ThreadPoolAdd(t, j) \/ ThreadPoolAddPersistent(t, j)
          PROVE  TypeOK'
      <3>1. CASE SubmissionFails(j)
        BY <3>1, JobTypes
      <3>2. CASE CallStep /\ ~SubmissionFails(j)
        <4>1. UNCHANGED attrVars
          BY <2>1, <3>2 DEF ThreadPoolAdd, ThreadPoolAddPersistent
        <4>2. attrReset' \in BOOLEAN
          BY <4>1 DEF attrVars, TypeOK
        <4> QED BY <3>2, <4>2, CallStepTypes
      <3> QED BY <2>1, <3>1, <3>2, SubmissionIsCallStep
    <2>2. ASSUME NEW j \in Job, ThreadPoolRemove(t, j)
          PROVE  TypeOK'
      BY <2>2, OtherTypes
    <2>3. ASSUME NEW a \in Attrs, ThreadPoolSetAttr(t, a)
          PROVE  TypeOK'
      <3>1. CallStep
        BY <2>3, CallsAreCallSteps
      <3>2. attrReset' \in BOOLEAN
        BY <2>3 DEF ThreadPoolSetAttr
      <3> QED BY <3>1, <3>2, CallStepTypes
    <2>4. CASE ThreadPoolGetAttr(t) \/ GetAttrLocked(t) \/ ThreadPoolShutdown(t) \/ WakeShutdown(t)
      BY <2>4, OtherTypes
    <2>5. CASE WakeCreate(t) \/ WakeStart(t) \/ WakePersistent(t)
      <3>1. CallStep
        BY <2>5, CallsAreCallSteps
      <3>2. UNCHANGED attrVars
        BY <2>5 DEF WakeCreate, WakeStart, WakePersistent
      <3>3. attrReset' \in BOOLEAN
        BY <3>2 DEF attrVars, TypeOK
      <3> QED BY <3>1, <3>3, CallStepTypes
    <2> QED BY <1>3, <2>1, <2>2, <2>3, <2>4, <2>5 DEF Call, Wake
  <1>4. CASE Tick
    BY <1>4, TickTypes
  <1>5. CASE \E j \in Recycled : Recycle(j)
    <2>1. \A j \in Recycled : j \in Job
      BY ConstantsAssumption
    <2> QED BY <1>5, <2>1, JobTypes
  <1>6. CASE UNCHANGED vars
    BY <1>6 DEF vars, poolVars, attrVars, workVars, callVars, jobVars, TypeOK
  <1> QED
    BY <1>1, <1>2, <1>3, <1>4, <1>5, <1>6 DEF Next

\* Every variable keeps its type, for any number of workers, clients and jobs.
THEOREM TypeCorrect == Spec => []TypeOK
  BY InitTypes, NextTypes, PTL DEF Spec

-----------------------------------------------------------------------------
(* Accounting and the maximum of threads *)

\* How the counted sets change when only worker w changes.
LEMMA WorkerMoves ==
    ASSUME TypeOK, NEW w \in Worker, NEW pc \in WorkerPc, NEW j,
           wpc' = [wpc EXCEPT ![w] = pc], wjob' = [wjob EXCEPT ![w] = j]
    PROVE  /\ Cardinality(Workers(Started)) \in Nat
           /\ Cardinality(Workers({"run"})) \in Nat
           /\ Cardinality(PersistentWorkers) \in Nat
           /\ Cardinality(Workers({"created"})) \in Nat
           /\ Cardinality(Workers(Started))' = Cardinality(Workers(Started))
                - (IF wpc[w] \in Started THEN 1 ELSE 0) + (IF pc \in Started THEN 1 ELSE 0)
           /\ Cardinality(Workers({"run"}))' = Cardinality(Workers({"run"}))
                - Returned(w) + (IF pc = "run" THEN 1 ELSE 0)
           /\ Cardinality(PersistentWorkers)' = Cardinality(PersistentWorkers)
                - ReturnedPersistent(w) + (IF pc = "run" /\ j \in PersistentJob THEN 1 ELSE 0)
           /\ Cardinality(Workers({"created"}))' = Cardinality(Workers({"created"}))
                - (IF wpc[w] = "created" THEN 1 ELSE 0) + (IF pc = "created" THEN 1 ELSE 0)
  <1>1. wpc \in [Worker -> WorkerPc] /\ wjob \in [Worker -> Job \cup {NoJob}]
    BY DEF TypeOK, WorkerPc
  <1>2. \A u \in Worker \ {w} : wpc'[u] = wpc[u] /\ wjob'[u] = wjob[u]
    BY <1>1
  <1>3. wpc'[w] = pc /\ wjob'[w] = j
    BY <1>1
  <1>4. ASSUME NEW S
        PROVE  /\ Workers(S) \in SUBSET Worker /\ Workers(S)' \in SUBSET Worker
               /\ Workers(S) \ {w} = Workers(S)' \ {w}
               /\ w \in Workers(S) <=> wpc[w] \in S
               /\ w \in Workers(S)' <=> pc \in S
    BY <1>2, <1>3 DEF Workers
  <1>5. /\ PersistentWorkers \in SUBSET Worker /\ PersistentWorkers' \in SUBSET Worker
        /\ PersistentWorkers \ {w} = PersistentWorkers' \ {w}
        /\ w \in PersistentWorkers <=> wpc[w] = "run" /\ wjob[w] \in PersistentJob
        /\ w \in PersistentWorkers' <=> pc = "run" /\ j \in PersistentJob
    BY <1>2, <1>3 DEF Workers, PersistentWorkers
  <1>6. ASSUME NEW S
        PROVE  /\ Cardinality(Workers(S)) \in Nat
               /\ Cardinality(Workers(S)') = Cardinality(Workers(S))
                    - (IF wpc[w] \in S THEN 1 ELSE 0) + (IF pc \in S THEN 1 ELSE 0)
    <2>1. /\ Cardinality(Workers(S)) \in Nat
          /\ Cardinality(Workers(S)') = Cardinality(Workers(S))
                - (IF w \in Workers(S) THEN 1 ELSE 0) + (IF w \in Workers(S)' THEN 1 ELSE 0)
      BY <1>4, OneMoves
    <2> QED BY <1>4, <2>1
  <1>7. /\ Cardinality(PersistentWorkers) \in Nat
        /\ Cardinality(PersistentWorkers') = Cardinality(PersistentWorkers)
              - (IF w \in PersistentWorkers THEN 1 ELSE 0)
              + (IF w \in PersistentWorkers' THEN 1 ELSE 0)
    BY <1>5, OneMoves
  <1>8. /\ Cardinality(Workers(Started)) \in Nat
        /\ Cardinality(Workers(Started)') = Cardinality(Workers(Started))
             - (IF wpc[w] \in Started THEN 1 ELSE 0) + (IF pc \in Started THEN 1 ELSE 0)
    BY <1>6
  <1>9. /\ Cardinality(Workers({"run"})) \in Nat
        /\ Cardinality(Workers({"run"})') = Cardinality(Workers({"run"}))
             - Returned(w) + (IF pc = "run" THEN 1 ELSE 0)
    BY <1>6 DEF Returned
  <1>10. /\ Cardinality(Workers({"created"})) \in Nat
         /\ Cardinality(Workers({"created"})') = Cardinality(Workers({"created"}))
             - (IF wpc[w] = "created" THEN 1 ELSE 0) + (IF pc = "created" THEN 1 ELSE 0)
    BY <1>6
  <1>11. /\ Cardinality(PersistentWorkers) \in Nat
         /\ Cardinality(PersistentWorkers') = Cardinality(PersistentWorkers)
             - ReturnedPersistent(w) + (IF pc = "run" /\ j \in PersistentJob THEN 1 ELSE 0)
    BY <1>5, <1>7 DEF ReturnedPersistent
  <1> QED BY <1>8, <1>9, <1>10, <1>11

\* The inductive invariant: NeverMoreThanMax needs Accounting, since only the
\* number of threads that are being started says that totalThreads, which
\* CreateWorker() compares, leaves room for exactly one more.
IInv == TypeOK /\ Accounting /\ NeverMoreThanMax

\* ThreadPoolInit() starts without threads and with all counters 0.
LEMMA InitIInv == Init => IInv
  <1> SUFFICES ASSUME Init PROVE IInv
    OBVIOUS
  <1>1. Workers(Started) = {} /\ Workers({"run"}) = {} /\ Workers({"created"}) = {}
    BY DEF Init, Workers, Started
  <1>2. PersistentWorkers = {}
    BY <1>1 DEF PersistentWorkers
  <1>3. Cardinality({}) = 0
    BY FS_EmptySet
  <1>4. Accounting
    BY <1>1, <1>2, <1>3 DEF Accounting, Init
  <1>5. NeverMoreThanMax
    <2>1. attr.maxThreads # INFINITE_THREADS => attr.maxThreads \in Nat
      BY InitTypes DEF TypeOK, AttrType
    <2>2. totalThreads = 0 /\ Cardinality(Workers({"created"})) = 0
      BY <1>1, <1>3 DEF Init
    <2> QED BY <2>1, <2>2 DEF NeverMoreThanMax
  <1> QED BY <1>4, <1>5, InitTypes DEF IInv

\* A step that changes none of the counted sets nor their counters.
LEMMA CountsUnchanged ==
    ASSUME IInv, UNCHANGED Counted,
           UNCHANGED <<totalThreads, busyThreads, persistentThreads, pendingWorkerThreadStart>>,
           UNCHANGED attrVars \/ attrReset'
    PROVE  Accounting' /\ NeverMoreThanMax'
  <1>1. Accounting'
    BY DEF IInv, Accounting, Counted
  <1>2. NeverMoreThanMax'
    BY DEF IInv, NeverMoreThanMax, Counted, attrVars
  <1> QED BY <1>1, <1>2

\* CreateWorker() starts a thread only while none is pending, so it can rely
\* on totalThreads; every other step of a call moves no worker.
LEMMA CallStepCounts ==
    ASSUME IInv, CallStep
    PROVE  Accounting' /\ NeverMoreThanMax'
  <1>1. UNCHANGED <<totalThreads, busyThreads, persistentThreads, wjob>> /\ TypeOK
    BY DEF CallStep, callFrame, IInv
  <1>2. CASE Quiet
    <2>1. UNCHANGED Counted
      BY <1>1, <1>2, SignalKeepsCounts DEF Quiet
    <2>2. UNCHANGED attrVars \/ attrReset'
      BY DEF CallStep
    <2> QED BY <1>1, <1>2, <2>1, <2>2, CountsUnchanged DEF Quiet
  <1>3. CASE \E a : Creates(a) /\ (attrReset' \/ (UNCHANGED attrVars /\ a = attr))
    <2>1. PICK a : Creates(a) /\ (attrReset' \/ (UNCHANGED attrVars /\ a = attr))
      BY <1>3
    <2>2. PICK w \in Worker : wpc[w] = "none" /\ wpc' = [wpc EXCEPT ![w] = "created"]
      BY <2>1 DEF Creates
    <2>3. /\ ~pendingWorkerThreadStart /\ pendingWorkerThreadStart'
          /\ a.maxThreads = INFINITE_THREADS \/ totalThreads + 1 <= a.maxThreads
      BY <2>1 DEF Creates
    <2>4. wjob' = [wjob EXCEPT ![w] = wjob[w]] /\ "created" \in WorkerPc
      BY <1>1 DEF TypeOK, WorkerPc
    <2>5. /\ Cardinality(Workers(Started)) \in Nat
          /\ Cardinality(Workers({"run"})) \in Nat
          /\ Cardinality(PersistentWorkers) \in Nat
          /\ Cardinality(Workers({"created"})) \in Nat
          /\ Cardinality(Workers(Started))' = Cardinality(Workers(Started))
          /\ Cardinality(Workers({"run"}))' = Cardinality(Workers({"run"}))
          /\ Cardinality(PersistentWorkers)' = Cardinality(PersistentWorkers)
          /\ Cardinality(Workers({"created"}))' = Cardinality(Workers({"created"})) + 1
      <3>1. /\ Returned(w) = 0 /\ ReturnedPersistent(w) = 0
            /\ wpc[w] \notin Started /\ "created" \notin Started
        BY <2>2 DEF Returned, ReturnedPersistent, Started
      <3>2. /\ Cardinality(Workers(Started)) \in Nat
            /\ Cardinality(Workers({"run"})) \in Nat
            /\ Cardinality(PersistentWorkers) \in Nat
            /\ Cardinality(Workers({"created"})) \in Nat
            /\ Cardinality(Workers(Started))' = Cardinality(Workers(Started)) - 0 + 0
            /\ Cardinality(Workers({"run"}))' = Cardinality(Workers({"run"})) - 0 + 0
            /\ Cardinality(PersistentWorkers)' = Cardinality(PersistentWorkers) - 0 + 0
            /\ Cardinality(Workers({"created"}))' = Cardinality(Workers({"created"})) - 0 + 1
        BY <1>1, <2>2, <2>4, <3>1, WorkerMoves
      <3> QED BY <3>2
    <2>6. Cardinality(Workers({"created"})) = 0
      BY <2>3 DEF IInv, Accounting
    <2>7. Accounting'
      BY <1>1, <2>3, <2>5, <2>6 DEF IInv, Accounting
    <2>8. NeverMoreThanMax'
      BY <1>1, <2>1, <2>3, <2>5, <2>6 DEF NeverMoreThanMax, attrVars
    <2> QED BY <2>7, <2>8
  <1> QED BY <1>2, <1>3 DEF CallStep

\* Each path through WorkerThread() keeps the counters in step with the
\* workers: the share of a job that has returned is taken back before the
\* worker waits, exits or takes the next job.
LEMMA WorkerCounts ==
    ASSUME IInv, NEW w \in Worker, WorkerStart(w) \/ WorkerStep(w) \/ WaitReturns(w)
    PROVE  Accounting' /\ NeverMoreThanMax'
  <1>0. TypeOK /\ wpc \in [Worker -> WorkerPc] /\ wjob \in [Worker -> Job \cup {NoJob}]
    BY DEF IInv, TypeOK, WorkerPc
  <1>1. UNCHANGED attrVars
    BY DEF WorkerStart, WorkerStep, WaitReturns, WorkerWait, WorkerRetire, WorkerStop,
           WorkerExit, WorkerTakePersistent, WorkerTake, Run
  <1> DEFINE started == Cardinality(Workers(Started))
             run     == Cardinality(Workers({"run"}))
             pers    == Cardinality(PersistentWorkers)
             created == Cardinality(Workers({"created"}))
  <1>2. /\ totalThreads = started /\ busyThreads = run /\ persistentThreads = pers
        /\ created = IF pendingWorkerThreadStart THEN 1 ELSE 0
    BY DEF IInv, Accounting
  <1>3. CASE WorkerStart(w)
    <2>1. /\ wpc' = [wpc EXCEPT ![w] = "ready"] /\ wpc[w] = "created"
          /\ wjob' = [wjob EXCEPT ![w] = wjob[w]] /\ "ready" \in WorkerPc
      BY <1>0, <1>3 DEF WorkerStart, WorkerPc
    <2>2. /\ started \in Nat /\ run \in Nat /\ pers \in Nat /\ created \in Nat
          /\ started' = started + 1 /\ run' = run /\ pers' = pers /\ created' = created - 1
      <3>1. /\ Returned(w) = 0 /\ ReturnedPersistent(w) = 0
            /\ wpc[w] \notin Started /\ "ready" \in Started
        BY <2>1 DEF Returned, ReturnedPersistent, Started
      <3>2. /\ started \in Nat /\ run \in Nat /\ pers \in Nat /\ created \in Nat
            /\ started' = started - 0 + 1 /\ run' = run - 0 + 0
            /\ pers' = pers - 0 + 0 /\ created' = created - 1 + 0
        BY <1>0, <2>1, <3>1, WorkerMoves
      <3> HIDE DEF started, run, pers, created
      <3> QED BY <3>2
    <2>3. created = 1
      <3>1. w \in Workers({"created"}) /\ IsFiniteSet(Workers({"created"}))
        BY <2>1, ConstantsAssumption, FS_Subset DEF Workers
      <3>2. created # 0
        BY <3>1, FS_EmptySet
      <3> QED BY <1>2, <3>2
    <2>4. /\ totalThreads' = totalThreads + 1 /\ ~pendingWorkerThreadStart'
          /\ UNCHANGED <<busyThreads, persistentThreads>>
      BY <1>3 DEF WorkerStart
    <2>5. /\ totalThreads' = started' /\ busyThreads' = run' /\ persistentThreads' = pers'
          /\ created' = 0
      <3> HIDE DEF started, run, pers, created
      <3> QED BY <1>2, <2>2, <2>3, <2>4
    <2>6. totalThreads' + created' = totalThreads + created
      <3> HIDE DEF started, run, pers, created
      <3> QED BY <1>2, <2>2, <2>4
    <2>7. Accounting'
      BY <2>4, <2>5 DEF Accounting
    <2>8. NeverMoreThanMax'
      BY <1>1, <2>6 DEF IInv, NeverMoreThanMax, attrVars
    <2> QED BY <2>7, <2>8
  <1>4. CASE WaitReturns(w)
    <2>1. PICK r \in {"timedout", "woken"} : wpc' = [wpc EXCEPT ![w] = r]
      BY <1>4 DEF WaitReturns
    <2>2. \A u \in Worker : \/ wpc'[u] = wpc[u]
                            \/ wpc[u] = "wait" /\ wpc'[u] \in {"timedout", "woken"}
      BY <1>0, <1>4, <2>1 DEF WaitReturns
    <2>3. UNCHANGED <<wjob, totalThreads, busyThreads, persistentThreads,
                      pendingWorkerThreadStart>>
      BY <1>4 DEF WaitReturns, poolVars
    <2>4. UNCHANGED Counted
      BY <1>0, <2>2, <2>3 DEF Counted, Workers, PersistentWorkers, Started
    <2> QED BY <1>1, <2>3, <2>4, CountsUnchanged
  <1>5. CASE WorkerStep(w)
    <2>1. wpc[w] \in Started /\ wpc[w] # "created"
      BY <1>5 DEF WorkerStep, WorkerWait, WorkerRetire, WorkerStop,
                  WorkerTakePersistent, WorkerTake, AtLoop, Started
    <2>2. UNCHANGED pendingWorkerThreadStart
      BY <1>5 DEF WorkerStep, WorkerWait, WorkerRetire, WorkerStop, WorkerExit,
                  WorkerTakePersistent, WorkerTake, Run
    <2>3. ASSUME NEW pc \in WorkerPc, NEW j, pc # "created",
                 wpc' = [wpc EXCEPT ![w] = pc], wjob' = [wjob EXCEPT ![w] = j],
                 totalThreads' = totalThreads - (IF pc \in Started THEN 0 ELSE 1),
                 busyThreads' = busyThreads - Returned(w) + (IF pc = "run" THEN 1 ELSE 0),
                 persistentThreads' = persistentThreads - ReturnedPersistent(w)
                     + (IF pc = "run" /\ j \in PersistentJob THEN 1 ELSE 0)
          PROVE  Accounting' /\ NeverMoreThanMax'
      <3>1. /\ started \in Nat /\ run \in Nat /\ pers \in Nat /\ created \in Nat
            /\ started' = started - 1 + (IF pc \in Started THEN 1 ELSE 0)
            /\ run' = run - Returned(w) + (IF pc = "run" THEN 1 ELSE 0)
            /\ pers' = pers - ReturnedPersistent(w)
                     + (IF pc = "run" /\ j \in PersistentJob THEN 1 ELSE 0)
            /\ created' = created
        <4>1. /\ started \in Nat /\ run \in Nat /\ pers \in Nat /\ created \in Nat
              /\ started' = started - (IF wpc[w] \in Started THEN 1 ELSE 0)
                                    + (IF pc \in Started THEN 1 ELSE 0)
              /\ run' = run - Returned(w) + (IF pc = "run" THEN 1 ELSE 0)
              /\ pers' = pers - ReturnedPersistent(w)
                     + (IF pc = "run" /\ j \in PersistentJob THEN 1 ELSE 0)
              /\ created' = created - (IF wpc[w] = "created" THEN 1 ELSE 0)
                                    + (IF pc = "created" THEN 1 ELSE 0)
          BY <1>0, <2>3, WorkerMoves
        <4> HIDE DEF started, run, pers, created
        <4> QED BY <2>1, <2>3, <4>1
      <3>2. /\ totalThreads' = started' /\ busyThreads' = run' /\ persistentThreads' = pers'
            /\ totalThreads' <= totalThreads
        <4> HIDE DEF started, run, pers, created
        <4> QED BY <1>2, <2>3, <3>1
      <3>3. Accounting'
        BY <1>2, <2>2, <3>1, <3>2 DEF Accounting
      <3>4. NeverMoreThanMax'
        <4> SUFFICES ASSUME attr.maxThreads # INFINITE_THREADS, ~attrReset
                     PROVE  totalThreads' + created' <= attr.maxThreads
          BY <1>1 DEF NeverMoreThanMax, attrVars
        <4>1. totalThreads + created <= attr.maxThreads
          BY DEF IInv, NeverMoreThanMax
        <4>2. /\ attr.maxThreads \in Int /\ totalThreads \in Int /\ totalThreads' \in Int
          BY <1>0, <2>3 DEF TypeOK, AttrType, INFINITE_THREADS
        <4> HIDE DEF started, run, pers, created
        <4> QED BY <3>1, <3>2, <4>1, <4>2
      <3> QED BY <3>3, <3>4
    <2>4. CASE WorkerWait(w)
      <3>1. /\ wpc' = [wpc EXCEPT ![w] = "wait"] /\ wjob' = [wjob EXCEPT ![w] = NoJob]
            /\ totalThreads' = totalThreads - 0
            /\ busyThreads' = busyThreads - Returned(w) + 0
            /\ persistentThreads' = persistentThreads - ReturnedPersistent(w) + 0
        BY <1>0, <2>4 DEF WorkerWait, TypeOK, Returned, ReturnedPersistent
      <3>2. "wait" \in WorkerPc /\ "wait" \in Started
        BY DEF WorkerPc, Started
      <3> QED BY <2>3, <3>1, <3>2
    <2>5. CASE WorkerRetire(w) \/ WorkerStop(w)
      <3>1. WorkerExit(w)
        BY <2>5 DEF WorkerRetire, WorkerStop
      <3>2. /\ wpc' = [wpc EXCEPT ![w] = "none"] /\ wjob' = [wjob EXCEPT ![w] = NoJob]
            /\ totalThreads' = totalThreads - 1
            /\ busyThreads' = busyThreads - Returned(w) + 0
            /\ persistentThreads' = persistentThreads - ReturnedPersistent(w) + 0
        BY <1>0, <3>1 DEF WorkerExit, TypeOK, Returned, ReturnedPersistent
      <3>3. "none" \in WorkerPc /\ "none" \notin Started
        BY DEF WorkerPc, Started
      <3> QED BY <2>3, <3>2, <3>3
    <2>6. ASSUME NEW j, Run(w, j),
                 persistentThreads' = persistentThreads - ReturnedPersistent(w)
                     + (IF j \in PersistentJob THEN 1 ELSE 0)
          PROVE  Accounting' /\ NeverMoreThanMax'
      <3>1. /\ wpc' = [wpc EXCEPT ![w] = "run"] /\ wjob' = [wjob EXCEPT ![w] = j]
            /\ totalThreads' = totalThreads - 0
            /\ busyThreads' = busyThreads - Returned(w) + 1
        BY <1>0, <2>6 DEF Run, TypeOK
      <3>2. "run" \in WorkerPc /\ "run" \in Started
        BY DEF WorkerPc, Started
      <3> QED BY <2>3, <2>6, <3>1, <3>2
    <2>7. CASE WorkerTakePersistent(w)
      <3>1. persistentJob.job \in PersistentJob
        BY <1>0, <2>7 DEF WorkerTakePersistent, TypeOK, ThreadPoolJob
      <3>2. /\ Run(w, persistentJob.job)
            /\ persistentThreads' = persistentThreads - ReturnedPersistent(w) + 1
        BY <2>7 DEF WorkerTakePersistent
      <3> QED BY <2>6, <3>1, <3>2
    <2>8. CASE WorkerTake(w)
      <3> DEFINE q == BumpPriority
                 j == Head(q[Highest(q)]).job
      <3>1. /\ q[Highest(q)] # <<>>
            /\ Run(w, j)
            /\ persistentThreads' = persistentThreads - ReturnedPersistent(w)
        BY <2>8 DEF WorkerTake
      <3>2. Highest(q) \in Priority
        BY DEF Highest, Priority
      <3>3. q[Highest(q)] \in Seq(RegularJob)
        BY <1>0, <3>2, BumpType
      <3> HIDE DEF q
      <3>4. Head(q[Highest(q)]) \in RegularJob
        BY <3>1, <3>3, HeadTailProperties
      <3>5. j \notin PersistentJob
        BY <3>4 DEF RegularJob, ThreadPoolJob
      <3> HIDE DEF j
      <3>6. persistentThreads' = persistentThreads - ReturnedPersistent(w) + 0
        BY <1>0, <3>1 DEF TypeOK, ReturnedPersistent
      <3> QED BY <2>6, <3>1, <3>5, <3>6
    <2> QED BY <1>5, <2>4, <2>5, <2>7, <2>8 DEF WorkerStep
  <1> QED BY <1>3, <1>4, <1>5

\* Every step keeps the inductive invariant.
LEMMA NextIInv == IInv /\ [Next]_vars => IInv'
  <1> SUFFICES ASSUME IInv, [Next]_vars PROVE IInv'
    OBVIOUS
  <1>1. TypeOK /\ TypeOK'
    BY NextTypes DEF IInv
  <1>2. ASSUME CallStep PROVE Accounting' /\ NeverMoreThanMax'
    BY <1>2, CallStepCounts
  <1>3. ASSUME UNCHANGED <<wpc, wjob, attrVars>>,
               UNCHANGED <<totalThreads, busyThreads, persistentThreads, pendingWorkerThreadStart>>
        PROVE  Accounting' /\ NeverMoreThanMax'
    <2>1. UNCHANGED Counted
      BY <1>3 DEF Counted, Workers, PersistentWorkers
    <2> QED BY <1>3, <2>1, CountsUnchanged
  <1>4. CASE ThreadPoolInit
    <2>1. Owner \in Thread
      BY ConstantsAssumption DEF Thread
    <2>2. CallStep
      BY <1>1, <1>4, <2>1, CallsAreCallSteps
    <2> QED BY <1>1, <1>2, <2>2 DEF IInv
  <1>5. CASE \E w \in Worker : WorkerStart(w) \/ WorkerStep(w) \/ WaitReturns(w)
    BY <1>1, <1>5, WorkerCounts DEF IInv
  <1>6. ASSUME NEW t \in Thread, Call(t) \/ Wake(t)
        PROVE  Accounting' /\ NeverMoreThanMax'
    <2>1. ASSUME NEW j \in Job, ThreadPoolAdd(t, j) \/ ThreadPoolAddPersistent(t, j)
          PROVE  Accounting' /\ NeverMoreThanMax'
      <3>1. CASE SubmissionFails(j)
        BY <1>3, <3>1 DEF SubmissionFails, workVars, poolVars
      <3> QED BY <1>1, <1>2, <2>1, <3>1, SubmissionIsCallStep
    <2>2. ASSUME NEW j \in Job, ThreadPoolRemove(t, j)
          PROVE  Accounting' /\ NeverMoreThanMax'
      BY <1>3, <2>2 DEF ThreadPoolRemove, workVars
    <2>3. CASE \/ \E a \in Attrs : ThreadPoolSetAttr(t, a)
               \/ WakeCreate(t) \/ WakeStart(t) \/ WakePersistent(t)
      BY <1>1, <1>2, <2>3, CallsAreCallSteps
    <2>4. CASE ThreadPoolGetAttr(t) \/ GetAttrLocked(t) \/ WakeShutdown(t)
      BY <1>3, <2>4 DEF ThreadPoolGetAttr, GetAttrLocked, WakeShutdown, workVars, poolVars
    <2>5. CASE ThreadPoolShutdown(t)
      <3>1. /\ wpc' = AllSignalled(wpc)
            /\ UNCHANGED <<totalThreads, pendingWorkerThreadStart, busyThreads,
                           persistentThreads, attrVars, wjob>>
        BY <2>5 DEF ThreadPoolShutdown
      <3>2. UNCHANGED Counted
        BY <1>1, <3>1, SignalKeepsCounts
      <3> QED BY <3>1, <3>2, CountsUnchanged
    <2> QED BY <1>6, <2>1, <2>2, <2>3, <2>4, <2>5 DEF Call, Wake
  <1>7. CASE Tick \/ (\E j \in Recycled : Recycle(j)) \/ UNCHANGED vars
    <2>1. /\ UNCHANGED <<wpc, wjob, attrVars>>
          /\ UNCHANGED <<totalThreads, busyThreads, persistentThreads, pendingWorkerThreadStart>>
      BY <1>7 DEF Tick, Recycle, vars, workVars, poolVars
    <2> QED BY <1>1, <1>3, <2>1 DEF IInv
  <1> QED
    BY <1>1, <1>4, <1>5, <1>6, <1>7 DEF Next, IInv

\* The inductive invariant holds in every state.
LEMMA Invariance == Spec => []IInv
  BY InitIInv, NextIInv, PTL DEF Spec

\* The counters of the pool are the numbers of threads they stand for, for
\* any number of threads, any interleaving and all attributes.
THEOREM AccountingCorrect == Spec => []Accounting
  <1>1. IInv => Accounting
    BY DEF IInv
  <1> QED BY <1>1, Invariance, PTL

\* However many callers are inside CreateWorker(), there are never more than
\* maxThreads threads, those that are being started included, as long as the
\* attributes are those of ThreadPoolInit().
THEOREM MaximumCorrect == Spec => []NeverMoreThanMax
  <1>1. IInv => NeverMoreThanMax
    BY DEF IInv
  <1> QED BY <1>1, Invariance, PTL

-----------------------------------------------------------------------------
(* The length of the queues *)

QueuedOf(q) == Len(q["high"]) + Len(q["low"]) + Len(q["med"])

\* A queue that is cut in two loses nothing.
LEMMA CutLength ==
    ASSUME NEW S, NEW q \in Seq(S), NEW n \in 0..Len(q)
    PROVE  /\ Len(q) \in Nat
           /\ SubSeq(q, 1, n) \in Seq(S) /\ SubSeq(q, n + 1, Len(q)) \in Seq(S)
           /\ Len(SubSeq(q, 1, n)) = n
           /\ Len(SubSeq(q, n + 1, Len(q))) = Len(q) - n
  <1>1. Len(q) \in Nat /\ n \in Int /\ n + 1 \in Int
    BY LenProperties
  <1>2. (\A i \in 1..n : q[i] \in S) /\ (\A i \in (n + 1)..Len(q) : q[i] \in S)
    BY <1>1, ElementOfSeq
  <1>3. Len(SubSeq(q, 1, n)) = IF 1 <= n THEN n - 1 + 1 ELSE 0
    BY <1>1, <1>2, SubSeqProperties
  <1>4. Len(SubSeq(q, n + 1, Len(q))) = IF n + 1 <= Len(q) THEN Len(q) - (n + 1) + 1 ELSE 0
    BY <1>1, <1>2, SubSeqProperties
  <1>5. SubSeq(q, 1, n) \in Seq(S) /\ SubSeq(q, n + 1, Len(q)) \in Seq(S)
    BY <1>1, <1>2, SubSeqProperties
  <1> QED BY <1>1, <1>3, <1>4, <1>5

\* BumpPriority() neither adds nor drops a job.
LEMMA BumpLength == TypeOK => QueuedOf(BumpPriority) = QueuedJobs
  <1> SUFFICES ASSUME TypeOK PROVE QueuedOf(BumpPriority) = QueuedJobs
    OBVIOUS
  <1> DEFINE fromLow == Starving(jobQ["low"], attr.maxIdleTime)
             low1    == SubSeq(jobQ["low"], 1, fromLow)
             low2    == SubSeq(jobQ["low"], fromLow + 1, Len(jobQ["low"]))
             med     == jobQ["med"] \o low1
             fromMed == Starving(med, attr.starvationTime)
             med1    == SubSeq(med, 1, fromMed)
             med2    == SubSeq(med, fromMed + 1, Len(med))
  <1>1. /\ jobQ["low"] \in Seq(RegularJob)
        /\ jobQ["med"] \in Seq(RegularJob)
        /\ jobQ["high"] \in Seq(RegularJob)
    BY QueueType DEF Priority
  <1>2. fromLow \in 0..Len(jobQ["low"])
    BY <1>1, StarvingType
  <1>3. /\ low1 \in Seq(RegularJob) /\ low2 \in Seq(RegularJob)
        /\ Len(low1) = fromLow /\ Len(low2) = Len(jobQ["low"]) - fromLow
    <2> HIDE DEF fromLow
    <2> QED BY <1>1, <1>2, CutLength
  <1>4. med \in Seq(RegularJob) /\ Len(med) = Len(jobQ["med"]) + fromLow
    <2> HIDE DEF low1, fromLow
    <2> QED BY <1>1, <1>3, ConcatProperties
  <1>5. fromMed \in 0..Len(med)
    <2> HIDE DEF med
    <2> QED BY <1>4, StarvingType
  <1>6. /\ med1 \in Seq(RegularJob) /\ med2 \in Seq(RegularJob)
        /\ Len(med1) = fromMed /\ Len(med2) = Len(med) - fromMed
    <2> HIDE DEF fromMed, med
    <2> QED BY <1>4, <1>5, CutLength
  <1>7. Len(jobQ["high"] \o med1) = Len(jobQ["high"]) + fromMed
    <2> HIDE DEF med1, fromMed
    <2> QED BY <1>1, <1>6, ConcatProperties
  <1>8. /\ BumpPriority["low"] = low2 /\ BumpPriority["med"] = med2
        /\ BumpPriority["high"] = jobQ["high"] \o med1
    BY DEF BumpPriority, Priority
  <1>9. Len(jobQ["low"]) \in Nat /\ Len(jobQ["med"]) \in Nat /\ Len(jobQ["high"]) \in Nat
    BY <1>1, LenProperties
  <1> HIDE DEF fromLow, low1, low2, med, fromMed, med1, med2
  <1>10. /\ Len(BumpPriority["low"]) = Len(jobQ["low"]) - fromLow
         /\ Len(BumpPriority["med"]) = Len(jobQ["med"]) + fromLow - fromMed
         /\ Len(BumpPriority["high"]) = Len(jobQ["high"]) + fromMed
    BY <1>3, <1>4, <1>6, <1>7, <1>8
  <1>11. fromLow \in Int /\ fromMed \in Int
    BY <1>2, <1>4, <1>5, <1>9
  <1> DEFINE h == Len(jobQ["high"])
             l == Len(jobQ["low"])
             m == Len(jobQ["med"])
  <1>12. /\ Len(BumpPriority["low"]) = l - fromLow
         /\ Len(BumpPriority["med"]) = m + fromLow - fromMed
         /\ Len(BumpPriority["high"]) = h + fromMed
         /\ h \in Nat /\ l \in Nat /\ m \in Nat
         /\ QueuedJobs = h + l + m
    BY <1>9, <1>10 DEF QueuedJobs
  <1> HIDE DEF h, l, m
  <1>13. h + l + m = (h + fromMed) + (l - fromLow) + (m + fromLow - fromMed)
    BY <1>11, <1>12
  <1> QED BY <1>12, <1>13, Zenon DEF QueuedOf

\* A queue that is not empty has a positive length.
LEMMA QueueLength ==
    ASSUME NEW q \in [Priority -> Seq(RegularJob)], NEW p \in Priority
    PROVE  /\ QueuedOf(q) \in Nat /\ Len(q[p]) \in Nat
           /\ \A s : Len(s) = Len(q[p]) - 1 => QueuedOf([q EXCEPT ![p] = s]) = QueuedOf(q) - 1
           /\ \A s : Len(s) = Len(q[p]) + 1 => QueuedOf([q EXCEPT ![p] = s]) = QueuedOf(q) + 1
  <1> DEFINE h == Len(q["high"])
             l == Len(q["low"])
             m == Len(q["med"])
  <1>1. /\ h \in Nat /\ l \in Nat /\ m \in Nat
        /\ p \in {"low", "med", "high"} /\ Len(q[p]) \in Nat
        /\ QueuedOf(q) = h + l + m
    BY LenProperties DEF Priority, QueuedOf
  <1>2. ASSUME NEW s, NEW d \in Int, Len(s) = Len(q[p]) + d
        PROVE  QueuedOf([q EXCEPT ![p] = s]) = QueuedOf(q) + d
    <2>1. /\ Len([q EXCEPT ![p] = s]["high"]) = IF p = "high" THEN h + d ELSE h
          /\ Len([q EXCEPT ![p] = s]["low"]) = IF p = "low" THEN l + d ELSE l
          /\ Len([q EXCEPT ![p] = s]["med"]) = IF p = "med" THEN m + d ELSE m
      BY <1>2 DEF Priority
    <2> HIDE DEF h, l, m
    <2>2. (IF p = "high" THEN h + d ELSE h) + (IF p = "low" THEN l + d ELSE l)
            + (IF p = "med" THEN m + d ELSE m) = h + l + m + d
      BY <1>1
    <2> QED BY <1>1, <2>1, <2>2, Zenon DEF QueuedOf
  <1>3. QueuedOf(q) \in Nat
    <2> HIDE DEF h, l, m
    <2> QED BY <1>1
  <1>4. ASSUME NEW s, Len(s) = Len(q[p]) - 1
        PROVE  QueuedOf([q EXCEPT ![p] = s]) = QueuedOf(q) - 1
    <2>1. Len(s) = Len(q[p]) + (-1) /\ -1 \in Int
      BY <1>1, <1>4
    <2>2. QueuedOf([q EXCEPT ![p] = s]) = QueuedOf(q) + (-1)
      BY <1>2, <2>1, Zenon
    <2> QED BY <1>3, <2>2
  <1>5. ASSUME NEW s, Len(s) = Len(q[p]) + 1
        PROVE  QueuedOf([q EXCEPT ![p] = s]) = QueuedOf(q) + 1
    <2>1. 1 \in Int
      OBVIOUS
    <2> QED BY <1>2, <1>5, <2>1, Zenon
  <1> QED BY <1>1, <1>3, <1>4, <1>5

-----------------------------------------------------------------------------
(* Wake-ups *)

\* The submitters between queueing and signalling, and those of them who will
\* signal: a job for which no node was left is not in a queue.
Adding == {t \in Thread : cpc[t] \in {"create", "start"} /\ call[t].op = "add"}
Signallers == {t \in Adding : call[t].ok}
Awake == Workers({"ready", "woken", "timedout"})
Waiting == Workers({"wait"})
PersistentLoad == IF persistentJob = NullJob THEN 0 ELSE 1

\* NoLostWakeup counts every submitter; only with those who signal alone it
\* is kept when a submitter leaves without a signal.
WakeKept ==
    /\ IsFiniteSet(Adding)
    /\ ~shutdown /\ Waiting # {} =>
         QueuedJobs + PersistentLoad <= Cardinality(Awake) + Cardinality(Signallers)



\* Call t will see to it that there are minThreads threads: its loop counter
\* is not ahead of totalThreads, or it goes on to ThreadPoolShutdown().
SeesToMin(t) ==
    /\ call[t].op \in {"init", "setattr"}
    /\ \/ cpc[t] = "shut"
       \/ cpc[t] \in {"create", "start"} /\ totalThreads >= call[t].threads
             /\ (cpc[t] = "start" /\ ~pendingWorkerThreadStart => totalThreads >= call[t].threads + 1)

\* Before the first critical section of ThreadPoolInit().
Untouched == phase = "init" /\ cpc[Owner] = "out"

MinKept ==
    Running /\ ~shutdown =>
        \/ Untouched
        \/ totalThreads >= attr.minThreads
        \/ attr.maxThreads # INFINITE_THREADS /\ attr.maxThreads < attr.minThreads
        \/ \E t \in Thread : SeesToMin(t)

\* ThreadPoolInit() is alone until it has returned.
InitAlone ==
    /\ phase = "init" => \A t \in Thread : t # Owner => cpc[t] = "out" /\ call[t] = NoCall
    /\ phase = "up" => \A t \in Thread : call[t].op # "init"
    /\ \A t \in Thread : cpc[t] = "out" => call[t] = NoCall
\* What a signal on tp->condition does: no worker sleeps any more, or one more
\* is awake.
LEMMA SignalWakes ==
    ASSUME TypeOK, wpc' \in Signalled(wpc)
    PROVE  /\ Cardinality(Awake) \in Nat /\ Cardinality(Awake)' \in Nat
           /\ \/ Waiting' = {}
              \/ Waiting # {} /\ Cardinality(Awake)' = Cardinality(Awake) + 1
  <1>1. wpc \in [Worker -> WorkerPc]
    BY DEF TypeOK, WorkerPc
  <1>2. CASE Waiting = {}
    <2>1. wpc' = wpc
      BY <1>2 DEF Signalled, Waiting, Workers
    <2>2. Waiting' = {} /\ Awake' = Awake
      BY <1>2, <2>1 DEF Waiting, Awake, Workers
    <2>3. Cardinality(Awake) \in Nat
      BY FS_Subset, FS_CardinalityType, ConstantsAssumption DEF Awake, Workers
    <2> QED BY <2>2, <2>3
  <1>3. CASE Waiting # {}
    <2>1. PICK w \in Worker : wpc[w] = "wait" /\ wpc' = [wpc EXCEPT ![w] = "woken"]
      BY <1>3 DEF Signalled, Waiting, Workers
    <2>2. /\ Awake \in SUBSET Worker /\ Awake' \in SUBSET Worker
          /\ Awake \ {w} = Awake' \ {w} /\ w \notin Awake /\ w \in Awake'
      BY <1>1, <2>1 DEF Awake, Workers
    <2>3. /\ Cardinality(Awake) \in Nat /\ Cardinality(Awake') \in Nat
          /\ Cardinality(Awake') = Cardinality(Awake) - (IF w \in Awake THEN 1 ELSE 0)
                                                     + (IF w \in Awake' THEN 1 ELSE 0)
      BY <2>2, OneMoves
    <2> QED BY <1>3, <2>2, <2>3
  <1> QED BY <1>2, <1>3

\* How the submitters change when only call t changes.
LEMMA SignallersMove ==
    ASSUME TypeOK, IsFiniteSet(Adding), NEW t \in Thread, NEW pc, NEW c,
           cpc' = [cpc EXCEPT ![t] = pc], call' = [call EXCEPT ![t] = c]
    PROVE  /\ IsFiniteSet(Adding)'
           /\ Cardinality(Signallers \ {t}) \in Nat /\ Cardinality(Signallers') \in Nat
           /\ Cardinality(Signallers \ {t}) <= Cardinality(Signallers')
           /\ pc \in {"create", "start"} /\ c.op = "add" /\ c.ok =>
                Cardinality(Signallers') = Cardinality(Signallers \ {t}) + 1
  <1>1. cpc \in [Thread -> CallPc] /\ call \in [Thread -> CallType]
    BY TypeParts DEF CallTypes
  <1>2. /\ \A u \in Thread \ {t} : cpc'[u] = cpc[u] /\ call'[u] = call[u]
        /\ cpc'[t] = pc /\ call'[t] = c
    BY <1>1
  <1>3. Adding' \subseteq Adding \cup {t}
    BY <1>2 DEF Adding
  <1>4. IsFiniteSet(Adding')
    BY <1>3, FS_AddElement, FS_Subset
  <1>5. Signallers \subseteq Adding /\ Signallers' \subseteq Adding'
    BY DEF Signallers
  <1>6. IsFiniteSet(Signallers) /\ IsFiniteSet(Signallers')
    BY <1>4, <1>5, FS_Subset
  <1>7. IsFiniteSet(Signallers \ {t})
    BY <1>6, FS_RemoveElement
  <1>8. Signallers \ {t} \subseteq Signallers'
    BY <1>2 DEF Signallers, Adding
  <1>9. Cardinality(Signallers \ {t}) \in Nat /\ Cardinality(Signallers') \in Nat
    BY <1>6, <1>7, FS_CardinalityType
  <1>10. Cardinality(Signallers \ {t}) <= Cardinality(Signallers')
    BY <1>6, <1>8, FS_Subset
  <1>11. ASSUME pc \in {"create", "start"}, c.op = "add", c.ok
         PROVE  Cardinality(Signallers') = Cardinality(Signallers \ {t}) + 1
    <2>1. Signallers' = (Signallers \ {t}) \cup {t}
      BY <1>2, <1>11 DEF Signallers, Adding
    <2>2. t \notin Signallers \ {t}
      OBVIOUS
    <2> QED BY <1>7, <2>1, <2>2, FS_AddElement
  <1> QED BY <1>4, <1>9, <1>10, <1>11

\* The ways in which a critical section of a call with locals c ends: it
\* waits in CreateWorker(), has created a thread or is done.
Waits(t, c) ==
    /\ \E pc \in {"create", "start"} : Sleep(t, pc, c)
    /\ pendingWorkerThreadStart
    /\ UNCHANGED <<wpc, pendingWorkerThreadStart, persistentJob, phase, told>>

Starts(t, c) ==
    /\ Sleep(t, "start", c)
    /\ pendingWorkerThreadStart'
    /\ \E w \in Worker : wpc[w] = "none" /\ wpc' = [wpc EXCEPT ![w] = "created"]
    /\ UNCHANGED <<persistentJob, phase, told>>

CallPart(t, c, a) ==
    \/ Waits(t, c) \/ Starts(t, c)
    \/ FinishAdd(t, c) \/ SchedulePersistent(t, c)
    \/ FinishAttr(t, c, TRUE) /\ c.threads >= a.minThreads
    \/ FinishAttr(t, c, FALSE)

\* There is no other way.
LEMMA CreateParts ==
    ASSUME NEW t, NEW c, NEW a, CreateWorker(t, c, a)
    PROVE  CallPart(t, c, a)
  <1>1. CASE pendingWorkerThreadStart
    BY <1>1 DEF CreateWorker, CallPart, Waits
  <1>2. CASE ~pendingWorkerThreadStart
    <2>1. CreateThread(t, c) \/ Done(t, c, FALSE)
      BY <1>2 DEF CreateWorker, CreateNow
    <2>2. CASE CreateThread(t, c)
      BY <2>2 DEF CreateThread, CallPart, Starts
    <2>3. CASE Done(t, c, FALSE)
      BY <2>3 DEF Done, CallPart
    <2> QED BY <2>1, <2>2, <2>3
  <1> QED BY <1>1, <1>2

\* The loops end only when there are threads enough.
LEMMA AddWorkersParts ==
    ASSUME NEW t, NEW c, NEW a \in AttrType, CallRecord(c), AddWorkers(t, c, a)
    PROVE  CallPart(t, c, a)
  <1>1. CASE WantsWorker(c, a)
    BY <1>1, CreateParts DEF AddWorkers
  <1>2. CASE ~WantsWorker(c, a)
    <2>1. Done(t, c, TRUE)
      BY <1>2 DEF AddWorkers
    <2>2. c.op \in {"init", "setattr"} => ~(c.threads < a.minThreads)
      BY <1>2 DEF WantsWorker
    <2>3. c.threads \in Int /\ a.minThreads \in Int
      BY DEF CallRecord, CallType, AttrType
    <2>4. CASE FinishAttr(t, c, TRUE)
      <3>1. c.op \in {"init", "setattr"}
        BY <2>4 DEF FinishAttr
      <3>2. \A x, y \in Int : ~(x < y) => x >= y
        OBVIOUS
      <3>3. c.threads >= a.minThreads
        BY <2>2, <2>3, <3>1, <3>2, Zenon
      <3> QED BY <2>4, <3>3 DEF CallPart
    <2> QED BY <2>1, <2>4 DEF Done, CallPart
  <1> QED BY <1>1, <1>2


\* A call keeps WakeKept when the job it has queued is matched by the signal it
\* still owes.
LEMMA CallWakes ==
    ASSUME TypeOK, IsFiniteSet(Adding), NEW t \in Thread, NEW c, CallRecord(c), NEW a,
           CallPart(t, c, a), UNCHANGED shutdown, QueuedJobs' \in Nat,
           ~shutdown /\ Waiting # {} =>
             QueuedJobs' + PersistentLoad <= Cardinality(Awake) + Cardinality(Signallers \ {t})
                                            + (IF c.op = "add" /\ c.ok THEN 1 ELSE 0)
    PROVE  WakeKept'
  <1> DEFINE n == Cardinality(Awake)
             m == Cardinality(Signallers \ {t})
             m2 == Cardinality(Signallers')
             q == QueuedJobs'
             p == PersistentLoad
  <1>1. n \in Nat
    BY FS_Subset, FS_CardinalityType, ConstantsAssumption DEF Awake, Workers
  <1>2. p \in {0, 1} /\ PersistentLoad' \in {0, 1}
    BY DEF PersistentLoad
  <1>3. wpc \in [Worker -> WorkerPc]
    BY DEF TypeOK, WorkerPc
  <1>4. CASE Waits(t, c) \/ Starts(t, c)
    <2>1. PICK pc \in {"create", "start"} : Sleep(t, pc, c)
      BY <1>4 DEF Waits, Starts
    <2>2. /\ IsFiniteSet(Adding)' /\ m \in Nat /\ m2 \in Nat /\ m <= m2
          /\ c.op = "add" /\ c.ok => m2 = m + 1
      BY <2>1, SignallersMove DEF Sleep
    <2>3. /\ Waiting' = Waiting /\ Awake' = Awake /\ PersistentLoad' = p
      <3>1. \A w \in Worker : \/ wpc'[w] = wpc[w]
                              \/ wpc[w] = "none" /\ wpc'[w] = "created"
        BY <1>3, <1>4 DEF Waits, Starts
      <3> QED BY <1>3, <1>4, <3>1 DEF Waiting, Awake, Workers, PersistentLoad, Waits, Starts
    <2>4. ASSUME ~shutdown, Waiting # {}
          PROVE  q + p <= n + m2
      <3>1. q + p <= n + m + (IF c.op = "add" /\ c.ok THEN 1 ELSE 0)
        BY <2>4
      <3>0. q \in Nat
        OBVIOUS
      <3> HIDE DEF n, m, m2, q, p
      <3>2. CASE c.op = "add" /\ c.ok
        BY <1>1, <1>2, <2>2, <3>0, <3>1, <3>2
      <3>3. CASE ~(c.op = "add" /\ c.ok)
        <4>1. q + p <= n + m + 0
          BY <3>1, <3>3
        <4> QED BY <1>1, <1>2, <2>2, <3>0, <4>1
      <3> QED BY <3>2, <3>3
    <2> QED BY <2>2, <2>3, <2>4 DEF WakeKept
  <1>5. ASSUME NEW pc, NEW c2, cpc' = [cpc EXCEPT ![t] = pc], call' = [call EXCEPT ![t] = c2],
               \/ wpc' \in Signalled(wpc) /\ (PersistentLoad' = p \/ ~(c.op = "add" /\ c.ok))
               \/ wpc' = wpc /\ PersistentLoad' = p /\ ~(c.op = "add" /\ c.ok)
        PROVE  WakeKept'
    <2>1. IsFiniteSet(Adding)' /\ m \in Nat /\ m2 \in Nat /\ m <= m2
      BY <1>5, SignallersMove
    <2>2. CASE wpc' \in Signalled(wpc) /\ (PersistentLoad' = p \/ ~(c.op = "add" /\ c.ok))
      <3>1. Waiting' = {} \/ (Waiting # {} /\ n' = n + 1)
        BY <2>2, SignalWakes
      <3>2. ASSUME ~shutdown, Waiting # {}, n' = n + 1
            PROVE  q + PersistentLoad' <= n' + m2
        <4>1. q + p <= n + m + (IF c.op = "add" /\ c.ok THEN 1 ELSE 0)
          BY <3>2
        <4> DEFINE p2 == PersistentLoad'
        <4>2. n' = n + 1 /\ (p2 = p \/ ~(c.op = "add" /\ c.ok)) /\ p2 \in {0, 1} /\ q \in Nat
          BY <1>2, <2>2, <3>2
        <4>3. q + p2 <= n + 1 + m2
          <5> HIDE DEF n, m, m2, q, p, p2
          <5>1. CASE c.op = "add" /\ c.ok
            BY <1>1, <1>2, <2>1, <4>1, <4>2, <5>1
          <5>2. CASE ~(c.op = "add" /\ c.ok)
            <6>1. q + p <= n + m + 0
              BY <4>1, <5>2
            <6> QED BY <1>1, <1>2, <2>1, <4>2, <6>1
          <5> QED BY <5>1, <5>2
        <4> QED BY <4>2, <4>3
      <3> QED BY <2>1, <3>1, <3>2 DEF WakeKept
    <2>3. CASE wpc' = wpc /\ PersistentLoad' = p /\ ~(c.op = "add" /\ c.ok)
      <3>1. Waiting' = Waiting /\ Awake' = Awake
        BY <2>3 DEF Waiting, Awake, Workers
      <3>2. ASSUME ~shutdown, Waiting # {}
            PROVE  q + p <= n + m2
        <4>1. q + p <= n + m + 0
          BY <2>3, <3>2
        <4>2. q \in Nat
          OBVIOUS
        <4> HIDE DEF n, m, m2, q, p
        <4> QED BY <1>1, <1>2, <2>1, <4>1, <4>2
      <3> QED BY <2>1, <2>3, <3>1, <3>2 DEF WakeKept
    <2> QED BY <1>5, <2>2, <2>3
  <1>6. CASE FinishAdd(t, c)
    <2>1. /\ cpc' = [cpc EXCEPT ![t] = "out"] /\ call' = [call EXCEPT ![t] = NoCall]
          /\ PersistentLoad' = p
      BY <1>6 DEF FinishAdd, Return, PersistentLoad
    <2>2. \/ wpc' \in Signalled(wpc)
          \/ wpc' = wpc /\ ~c.ok
      BY <1>6 DEF FinishAdd
    <2> QED BY <1>5, <2>1, <2>2
  <1>7. CASE SchedulePersistent(t, c)
    <2>1. /\ \E pc, c2 : cpc' = [cpc EXCEPT ![t] = pc] /\ call' = [call EXCEPT ![t] = c2]
          /\ c.op # "add"
          /\ \/ wpc' \in Signalled(wpc)
             \/ wpc' = wpc /\ PersistentLoad' = p
      BY <1>7 DEF SchedulePersistent, Return, Sleep, PersistentLoad
    <2> QED BY <1>5, <2>1
  <1>8. ASSUME NEW ok \in BOOLEAN, FinishAttr(t, c, ok) PROVE WakeKept'
    <2>1. /\ \E pc, c2 : cpc' = [cpc EXCEPT ![t] = pc] /\ call' = [call EXCEPT ![t] = c2]
          /\ c.op # "add" /\ PersistentLoad' = p
          /\ wpc' \in Signalled(wpc) \/ wpc' = wpc
      BY <1>8 DEF FinishAttr, Return, PersistentLoad
    <2> QED BY <1>5, <2>1
  <1> QED BY <1>4, <1>6, <1>7, <1>8 DEF CallPart


\* A call that goes on after a wait owes what it owed before.
LEMMA WokenCallWakes ==
    ASSUME TypeOK, WakeKept, NEW t \in Thread, NEW c, CallRecord(c), NEW a,
           CallPart(t, c, a), UNCHANGED <<shutdown, jobQ>>,
           cpc[t] \in {"create", "start"}, c.op = call[t].op, c.ok = call[t].ok
    PROVE  WakeKept'
  <1>1. QueuedJobs' = QueuedJobs /\ QueuedJobs \in Nat
    BY QueuedJobsType DEF QueuedJobs
  <1>2. IsFiniteSet(Adding) /\ IsFiniteSet(Signallers)
    BY FS_Subset DEF WakeKept, Signallers
  <1> DEFINE m == Cardinality(Signallers)
             m1 == Cardinality(Signallers \ {t})
  <1>3. /\ m \in Nat
        /\ m1 = IF t \in Signallers THEN m - 1 ELSE m
    BY <1>2, FS_RemoveElement, FS_CardinalityType
  <1>4. t \in Signallers <=> c.op = "add" /\ c.ok
    BY DEF Signallers, Adding
  <1>5. m = m1 + (IF c.op = "add" /\ c.ok THEN 1 ELSE 0)
    <2> HIDE DEF m, m1
    <2> QED BY <1>3, <1>4
  <1>6. Cardinality(Awake) \in Nat
    BY FS_Subset, FS_CardinalityType, ConstantsAssumption DEF Awake, Workers
  <1>7. m1 \in Nat
    BY <1>2, FS_RemoveElement, FS_CardinalityType
  <1>8. ASSUME ~shutdown, Waiting # {}
        PROVE  QueuedJobs' + PersistentLoad <= Cardinality(Awake) + m1
                                            + (IF c.op = "add" /\ c.ok THEN 1 ELSE 0)
    <2>1. QueuedJobs + PersistentLoad <= Cardinality(Awake) + m
      BY <1>8 DEF WakeKept
    <2> DEFINE n == Cardinality(Awake)
               x == QueuedJobs + PersistentLoad
               e == IF c.op = "add" /\ c.ok THEN 1 ELSE 0
    <2>2. /\ x <= n + m /\ n \in Nat /\ m = m1 + e
      BY <1>5, <1>6, <2>1
    <2>3. e \in Nat
      OBVIOUS
    <2> HIDE DEF n, x, e, m, m1
    <2>4. x <= n + m1 + e
      BY <1>7, <2>2, <2>3
    <2> QED BY <1>1, <2>4 DEF n, x, e
  <1> HIDE DEF m, m1
  <1> QED BY <1>1, <1>2, <1>8, CallWakes DEF m1

\* A call that begins owes the signal for what it has queued.
LEMMA FirstCallWakes ==
    ASSUME TypeOK, WakeKept, NEW t \in Thread, NEW c, CallRecord(c), NEW a,
           CallPart(t, c, a), UNCHANGED shutdown, cpc[t] \notin {"create", "start"},
           QueuedJobs' = QueuedJobs + (IF c.op = "add" /\ c.ok THEN 1 ELSE 0)
    PROVE  WakeKept'
  <1>1. QueuedJobs \in Nat
    BY QueuedJobsType
  <1>2. IsFiniteSet(Adding) /\ Signallers \ {t} = Signallers
    BY DEF WakeKept, Signallers, Adding
  <1> DEFINE m == Cardinality(Signallers)
             n == Cardinality(Awake)
             p == PersistentLoad
             e == IF c.op = "add" /\ c.ok THEN 1 ELSE 0
  <1>3. /\ m \in Nat /\ n \in Nat /\ p \in Nat /\ e \in Nat
        /\ QueuedJobs' = QueuedJobs + e
    <2>1. IsFiniteSet(Signallers) /\ IsFiniteSet(Awake)
      BY <1>2, ConstantsAssumption, FS_Subset DEF Signallers, Awake, Workers
    <2> QED BY <2>1, FS_CardinalityType DEF PersistentLoad
  <1>4. ASSUME ~shutdown, Waiting # {}
        PROVE  QueuedJobs' + p <= n + m + e
    <2>1. QueuedJobs + p <= n + m
      BY <1>4 DEF WakeKept
    <2> HIDE DEF m, n, p, e
    <2> QED BY <1>1, <1>3, <2>1
  <1>5. QueuedJobs' \in Nat
    <2> HIDE DEF m, n, p, e
    <2> QED BY <1>1, <1>3
  <1>6. /\ Cardinality(Signallers \ {t}) = m
        /\ ~shutdown /\ Waiting # {} =>
             QueuedJobs' + PersistentLoad <= Cardinality(Awake) + Cardinality(Signallers \ {t})
                                            + (IF c.op = "add" /\ c.ok THEN 1 ELSE 0)
    BY <1>2, <1>4
  <1> QED BY <1>2, <1>5, <1>6, CallWakes

\* A step that moves no call and lets one worker more wake up, or takes one job
\* for each worker that is awake no longer.
LEMMA OtherStepWakes ==
    ASSUME TypeOK, WakeKept, UNCHANGED <<Adding, Signallers, shutdown>>, NEW d \in {0, 1},
           QueuedJobs' \in Nat,
           \/ shutdown
           \/ QueuedJobs' + PersistentLoad' = 0
           \/ /\ Waiting' \subseteq Waiting
              /\ Cardinality(Awake') >= Cardinality(Awake) - d
              /\ QueuedJobs' + PersistentLoad' <= (QueuedJobs + PersistentLoad) - d
    PROVE  WakeKept'
  <1> DEFINE m == Cardinality(Signallers)
             n == Cardinality(Awake)
             x == QueuedJobs + PersistentLoad
             n2 == Cardinality(Awake')
             x2 == QueuedJobs' + PersistentLoad'
  <1>1. m \in Nat /\ n \in Nat /\ n2 \in Nat /\ x \in Nat /\ x2 \in Nat
    <2>1. IsFiniteSet(Signallers) /\ IsFiniteSet(Awake) /\ IsFiniteSet(Awake')
      BY ConstantsAssumption, FS_Subset DEF WakeKept, Signallers, Awake, Workers
    <2>2. m \in Nat /\ n \in Nat /\ n2 \in Nat
      BY <2>1, FS_CardinalityType
    <2>3. QueuedJobs \in Nat /\ PersistentLoad \in Nat /\ PersistentLoad' \in Nat
      BY QueuedJobsType DEF PersistentLoad
    <2>4. \A y, z \in Nat : y + z \in Nat
      OBVIOUS
    <2> QED BY <2>2, <2>3, <2>4
  <1>2. ASSUME ~shutdown, Waiting' # {}
        PROVE  x2 <= n2 + m
    <2>1. CASE x2 = 0
      <3> HIDE DEF m, n, x, n2, x2
      <3> QED BY <1>1, <2>1
    <2>2. CASE /\ Waiting' \subseteq Waiting
               /\ Cardinality(Awake') >= Cardinality(Awake) - d
               /\ QueuedJobs' + PersistentLoad' <= (QueuedJobs + PersistentLoad) - d
      <3>1. x <= n + m
        BY <1>2, <2>2 DEF WakeKept
      <3>2. n2 >= n - d /\ x2 <= x - d
        BY <2>2
      <3> HIDE DEF m, n, x, n2, x2
      <3> QED BY <1>1, <3>1, <3>2
    <2>3. \/ QueuedJobs' + PersistentLoad' = 0
          \/ /\ Waiting' \subseteq Waiting
             /\ Cardinality(Awake') >= Cardinality(Awake) - d
             /\ QueuedJobs' + PersistentLoad' <= (QueuedJobs + PersistentLoad) - d
      BY <1>2
    <2> QED BY <2>1, <2>2, <2>3
  <1> QED BY <1>2 DEF WakeKept


\* The queues of the next state are counted as well.
LEMMA NextQueued == TypeOK' => /\ jobQ' \in [Priority -> Seq(RegularJob)]
                               /\ QueuedJobs' = QueuedOf(jobQ') /\ QueuedJobs' \in Nat
  <1> SUFFICES ASSUME TypeOK' PROVE /\ jobQ' \in [Priority -> Seq(RegularJob)]
                                    /\ QueuedJobs' = QueuedOf(jobQ') /\ QueuedJobs' \in Nat
    OBVIOUS
  <1>1. jobQ' \in [Priority -> Seq(RegularJob)]
    BY DEF TypeOK, RegularJob
  <1>2. QueuedJobs' = QueuedOf(jobQ')
    BY DEF QueuedJobs, QueuedOf
  <1>3. "low" \in Priority
    BY DEF Priority
  <1>4. QueuedOf(jobQ') \in Nat
    BY <1>1, <1>3, QueueLength
  <1> QED BY <1>1, <1>2, <1>4

\* How the workers that are awake change when only worker w changes.
LEMMA AwakeMoves ==
    ASSUME TypeOK, NEW w \in Worker, NEW pc, pc # "wait", wpc' = [wpc EXCEPT ![w] = pc]
    PROVE  /\ Cardinality(Awake) \in Nat /\ Cardinality(Awake') \in Nat
           /\ Cardinality(Awake') >= Cardinality(Awake) - 1
           /\ pc \in {"ready", "woken", "timedout"} => Cardinality(Awake') >= Cardinality(Awake) - 0
           /\ Waiting' \subseteq Waiting
  <1>1. wpc \in [Worker -> WorkerPc]
    BY DEF TypeOK, WorkerPc
  <1>2. /\ Awake \in SUBSET Worker /\ Awake' \in SUBSET Worker
        /\ Awake \ {w} = Awake' \ {w}
        /\ w \in Awake' <=> pc \in {"ready", "woken", "timedout"}
    BY <1>1 DEF Awake, Workers
  <1> DEFINE n == Cardinality(Awake)
             n2 == Cardinality(Awake')
  <1>3. /\ n \in Nat /\ n2 \in Nat
        /\ n2 = n - (IF w \in Awake THEN 1 ELSE 0) + (IF w \in Awake' THEN 1 ELSE 0)
    BY <1>2, OneMoves
  <1>4. Waiting' \subseteq Waiting
    BY <1>1 DEF Waiting, Workers
  <1>5. /\ n2 >= n - 1
        /\ pc \in {"ready", "woken", "timedout"} => n2 >= n - 0
    <2> HIDE DEF n, n2
    <2>1. w \in Awake' \/ w \notin Awake'
      OBVIOUS
    <2> QED BY <1>2, <1>3, <2>1
  <1> QED BY <1>3, <1>4, <1>5

\* Each path through WorkerThread() takes a job before it ceases to be awake,
\* or leaves none behind.
LEMMA WorkerWakes ==
    ASSUME TypeOK, TypeOK', WakeKept, NEW w \in Worker,
           WorkerStart(w) \/ WorkerStep(w) \/ WaitReturns(w)
    PROVE  WakeKept'
  <1>1. UNCHANGED <<cpc, call, shutdown>>
    BY DEF WorkerStart, WorkerStep, WaitReturns, WorkerWait, WorkerRetire, WorkerStop,
           WorkerExit, WorkerTakePersistent, WorkerTake, Run, callVars, poolVars
  <1>2. UNCHANGED <<Adding, Signallers, shutdown>>
    BY <1>1 DEF Adding, Signallers
  <1>3. /\ jobQ' \in [Priority -> Seq(RegularJob)]
        /\ QueuedJobs' = QueuedOf(jobQ') /\ QueuedJobs' \in Nat
    BY NextQueued
  <1>4. QueuedJobs \in Nat /\ PersistentLoad \in {0, 1} /\ PersistentLoad' \in {0, 1}
        /\ 0 \in {0, 1} /\ 1 \in {0, 1}
    BY QueuedJobsType DEF PersistentLoad
  <1>5. CASE WorkerStart(w) \/ WaitReturns(w)
    <2>1. \E pc \in {"ready", "woken", "timedout"} : wpc' = [wpc EXCEPT ![w] = pc]
      BY <1>5 DEF WorkerStart, WaitReturns
    <2>2. Cardinality(Awake') >= Cardinality(Awake) - 0 /\ Waiting' \subseteq Waiting
      BY <2>1, AwakeMoves
    <2>3. UNCHANGED <<QueuedJobs, PersistentLoad>>
      BY <1>5 DEF WorkerStart, WaitReturns, poolVars, QueuedJobs, PersistentLoad
    <2>4. QueuedJobs' + PersistentLoad' <= (QueuedJobs + PersistentLoad) - 0
      BY <1>4, <2>3
    <2> QED BY <1>2, <1>3, <1>4, <2>2, <2>4, OtherStepWakes
  <1>6. CASE WorkerWait(w) \/ WorkerRetire(w)
    <2>1. NoWork /\ UNCHANGED <<jobQ, persistentJob>>
      BY <1>6 DEF WorkerWait, WorkerRetire, WorkerExit
    <2>2. PersistentLoad' = 0 /\ \A p \in Priority : jobQ'[p] = <<>>
      BY <2>1 DEF NoWork, PersistentLoad
    <2>3. Len(jobQ'["high"]) = 0 /\ Len(jobQ'["med"]) = 0 /\ Len(jobQ'["low"]) = 0
      BY <2>2 DEF Priority
    <2>4. QueuedJobs' = 0
      BY <2>3 DEF QueuedJobs
    <2>5. QueuedJobs' + PersistentLoad' = 0
      BY <2>2, <2>4
    <2> QED BY <1>2, <1>3, <1>4, <2>5, OtherStepWakes
  <1>7. CASE WorkerStop(w)
    <2>1. shutdown
      BY <1>7 DEF WorkerStop
    <2> QED BY <1>1, <1>2, <2>1 DEF WakeKept
  <1>8. CASE WorkerTakePersistent(w)
    <2>1. /\ persistentJob # NullJob /\ persistentJob' = NullJob /\ jobQ' = BumpPriority
          /\ wpc' = [wpc EXCEPT ![w] = "run"]
      BY <1>8 DEF WorkerTakePersistent, Run
    <2>2. Cardinality(Awake') >= Cardinality(Awake) - 1 /\ Waiting' \subseteq Waiting
      <3>1. PICK pc : pc = "run"
        OBVIOUS
      <3>2. wpc' = [wpc EXCEPT ![w] = pc] /\ pc # "wait"
        BY <2>1, <3>1
      <3> QED BY <3>2, AwakeMoves
    <2>3. QueuedJobs' = QueuedJobs /\ PersistentLoad = 1 /\ PersistentLoad' = 0
      BY <1>3, <2>1, BumpLength DEF PersistentLoad
    <2>4. QueuedJobs' + PersistentLoad' <= (QueuedJobs + PersistentLoad) - 1
      BY <1>4, <2>3
    <2> QED BY <1>2, <1>3, <1>4, <2>2, <2>4, OtherStepWakes
  <1>9. CASE WorkerTake(w)
    <2> DEFINE q == BumpPriority
               p == Highest(q)
    <2>1. /\ q[p] # <<>> /\ jobQ' = [q EXCEPT ![p] = Tail(@)]
          /\ wpc' = [wpc EXCEPT ![w] = "run"]
          /\ UNCHANGED persistentJob
      BY <1>9 DEF WorkerTake, Run
    <2>2. Cardinality(Awake') >= Cardinality(Awake) - 1 /\ Waiting' \subseteq Waiting
      <3>1. PICK pc : pc = "run"
        OBVIOUS
      <3>2. wpc' = [wpc EXCEPT ![w] = pc] /\ pc # "wait"
        BY <2>1, <3>1
      <3> QED BY <3>2, AwakeMoves
    <2>3. q \in [Priority -> Seq(RegularJob)] /\ QueuedOf(q) = QueuedJobs
      BY BumpType, BumpLength
    <2>4. p \in Priority
      BY DEF Highest, Priority
    <2> HIDE DEF q, p
    <2>5. Len(Tail(q[p])) = Len(q[p]) - 1
      BY <2>1, <2>3, <2>4, HeadTailProperties
    <2>6. jobQ' = [q EXCEPT ![p] = Tail(q[p])]
      BY <2>1
    <2>7. QueuedJobs' = QueuedJobs - 1
      BY <1>3, <2>3, <2>4, <2>5, <2>6, QueueLength
    <2>8. PersistentLoad' = PersistentLoad
      BY <2>1 DEF PersistentLoad
    <2>9. QueuedJobs' + PersistentLoad' <= (QueuedJobs + PersistentLoad) - 1
      BY <1>4, <2>7, <2>8
    <2> QED BY <1>2, <1>3, <1>4, <2>2, <2>9, OtherStepWakes
  <1> QED BY <1>5, <1>6, <1>7, <1>8, <1>9 DEF WorkerStep


\* So does every step of a caller.
LEMMA CallerWakes ==
    ASSUME TypeOK, TypeOK', WakeKept, InitAlone, NEW t \in Thread,
           (ThreadPoolInit /\ t = Owner) \/ Call(t) \/ Wake(t)
    PROVE  WakeKept'
  <1>1. /\ jobQ' \in [Priority -> Seq(RegularJob)] /\ jobQ \in [Priority -> Seq(RegularJob)]
        /\ QueuedJobs' = QueuedOf(jobQ') /\ QueuedJobs' \in Nat
        /\ QueuedJobs = QueuedOf(jobQ) /\ QueuedJobs \in Nat
    BY NextQueued, QueueType, QueuedJobsType DEF QueuedJobs, QueuedOf
  <1>2. attr \in AttrType /\ IsFiniteSet(Adding)
    BY DEF TypeOK, WakeKept
  <1>3. ASSUME UNCHANGED <<jobQ, shutdown>>, NEW c, CallRecord(c), c.op # "add",
               NEW a, CallPart(t, c, a), cpc[t] \notin {"create", "start"}
        PROVE  WakeKept'
    <2>1. QueuedJobs' = QueuedJobs + 0
      BY <1>1, <1>3
    <2>2. QueuedJobs' = QueuedJobs + (IF c.op = "add" /\ c.ok THEN 1 ELSE 0)
      BY <1>3, <2>1, Zenon
    <2> QED BY <1>3, <2>2, FirstCallWakes
  <1>4. CASE ThreadPoolInit /\ t = Owner
    <2> DEFINE c == [NoCall EXCEPT !.op = "init"]
    <2>1. CallRecord(c) /\ c.op # "add"
      BY NoCallType DEF CallRecord, CallType, NoCall
    <2>2. AddWorkers(t, c, attr) /\ cpc[t] = "out" /\ UNCHANGED <<jobQ, shutdown>>
      BY <1>4 DEF ThreadPoolInit, callFrame
    <2> HIDE DEF c
    <2>3. CallPart(t, c, attr)
      BY <1>2, <2>1, <2>2, AddWorkersParts
    <2> QED BY <1>3, <2>1, <2>2, <2>3
  <1>5. ASSUME NEW j \in Job, ThreadPoolAdd(t, j) PROVE WakeKept'
    <2>1. CASE SubmissionFails(j)
      <3>1. UNCHANGED <<Adding, Signallers, shutdown, QueuedJobs, PersistentLoad, Awake, Waiting>>
        BY <2>1 DEF SubmissionFails, callVars, poolVars, workVars, Adding, Signallers,
                    QueuedJobs, PersistentLoad, Awake, Waiting, Workers
      <3> QED BY <3>1 DEF WakeKept
    <2>2. CASE ~SubmissionFails(j)
      <3>1. PICK ok \in BOOLEAN :
              /\ jobQ' = IF ok THEN [jobQ EXCEPT ![JobPriority[j]] =
                                       Append(@, CreateThreadPoolJob(j))]
                               ELSE jobQ
              /\ AddWorkers(t, [op |-> "add", job |-> j,
                                jobs |-> QueuedJobs + (IF ok THEN 1 ELSE 0),
                                threads |-> totalThreads - persistentThreads,
                                ok |-> ok], attr)
        BY <1>5, <2>2 DEF ThreadPoolAdd
      <3>2. /\ UNCHANGED shutdown /\ j \notin PersistentJob /\ cpc[t] = "out"
        BY <1>5, <2>2 DEF ThreadPoolAdd, callFrame, CanCall
      <3> DEFINE c == [op |-> "add", job |-> j,
                       jobs |-> QueuedJobs + (IF ok THEN 1 ELSE 0),
                       threads |-> totalThreads - persistentThreads, ok |-> ok]
      <3>3. CallRecord(c)
        <4>1. QueuedJobs + (IF ok THEN 1 ELSE 0) \in Nat
          BY <1>1
        <4>2. totalThreads - persistentThreads \in Int
          BY DEF TypeOK
        <4> QED BY <4>1, <4>2 DEF CallRecord, CallType, Op
      <3>4. c.op = "add" /\ (c.ok <=> ok) /\ AddWorkers(t, c, attr)
        BY <3>1
      <3> HIDE DEF c
      <3>5. CallPart(t, c, attr)
        BY <1>2, <3>3, <3>4, AddWorkersParts
      <3>6. QueuedJobs' = QueuedJobs + (IF c.op = "add" /\ c.ok THEN 1 ELSE 0)
        <4>1. CASE ok
          <5>1. JobPriority[j] \in Priority
            BY ConstantsAssumption
          <5> DEFINE p == JobPriority[j]
                     s == Append(jobQ[p], CreateThreadPoolJob(j))
          <5>2. CreateThreadPoolJob(j) \in RegularJob
            BY <3>2, ConstantsAssumption DEF CreateThreadPoolJob, RegularJob, ThreadPoolJob, TypeOK
          <5>3. Len(s) = Len(jobQ[p]) + 1
            BY <1>1, <5>1, <5>2, AppendProperties
          <5>4. jobQ' = [jobQ EXCEPT ![p] = s]
            BY <3>1, <4>1
          <5> HIDE DEF s, p
          <5>5. QueuedJobs' = QueuedJobs + 1
            BY <1>1, <5>1, <5>3, <5>4, QueueLength DEF p
          <5> QED BY <3>4, <4>1, <5>5
        <4>2. CASE ~ok
          <5>1. QueuedJobs' = QueuedJobs + 0
            BY <1>1, <3>1, <4>2
          <5>2. ~(c.op = "add" /\ c.ok)
            BY <3>4, <4>2
          <5> QED BY <5>1, <5>2, Zenon
        <4> QED BY <4>1, <4>2
      <3> QED BY <3>2, <3>3, <3>5, <3>6, FirstCallWakes
    <2> QED BY <2>1, <2>2
  <1>6. ASSUME NEW j \in Job, ThreadPoolAddPersistent(t, j) PROVE WakeKept'
    <2> DEFINE c == [NoCall EXCEPT !.op = "pers", !.job = j]
    <2>1. CASE SubmissionFails(j)
      <3>1. UNCHANGED <<Adding, Signallers, shutdown, QueuedJobs, PersistentLoad, Awake, Waiting>>
        BY <2>1 DEF SubmissionFails, callVars, poolVars, workVars, Adding, Signallers,
                    QueuedJobs, PersistentLoad, Awake, Waiting, Workers
      <3> QED BY <3>1 DEF WakeKept
    <2>2. CASE ~SubmissionFails(j)
      <3>1. /\ CreateWorker(t, c, attr) \/ SchedulePersistent(t, c)
            /\ UNCHANGED <<jobQ, shutdown>> /\ cpc[t] = "out"
            /\ j \in PersistentJob
        BY <1>6, <2>2 DEF ThreadPoolAddPersistent, callFrame, CanCall
      <3>2. CallRecord(c) /\ c.op # "add"
        BY <3>1, NoCallType DEF CallRecord, CallType, Op, NoCall
      <3> HIDE DEF c
      <3>3. CallPart(t, c, attr)
        BY <3>1, CreateParts DEF CallPart
      <3> QED BY <1>3, <3>1, <3>2, <3>3
    <2> QED BY <2>1, <2>2
  <1>7. ASSUME NEW a \in Attrs, ThreadPoolSetAttr(t, a) PROVE WakeKept'
    <2> DEFINE c == [NoCall EXCEPT !.op = "setattr", !.threads = totalThreads]
    <2>1. CallRecord(c) /\ c.op # "add" /\ a \in AttrType
      BY ConstantsAssumption DEF CallRecord, NoCall, CallType, TypeOK, Op
    <2>2. AddWorkers(t, c, a) /\ UNCHANGED <<jobQ, shutdown>> /\ cpc[t] = "out"
      BY <1>7 DEF ThreadPoolSetAttr, callFrame, CanCall
    <2> HIDE DEF c
    <2>3. CallPart(t, c, a)
      BY <2>1, <2>2, AddWorkersParts
    <2> QED BY <1>3, <2>1, <2>2, <2>3
  <1>8. CASE WakeCreate(t)
    <2>1. CallPart(t, call[t], attr) /\ UNCHANGED <<shutdown, jobQ>> /\ cpc[t] = "create"
      BY <1>8, CreateParts DEF WakeCreate, callFrame
    <2>2. CallRecord(call[t])
      BY CallOf
    <2> QED BY <2>1, <2>2, WokenCallWakes
  <1>9. CASE WakeStart(t)
    <2>1. CASE pendingWorkerThreadStart
      <3>1. CallPart(t, call[t], attr) /\ UNCHANGED <<shutdown, jobQ>> /\ cpc[t] = "start"
        BY <1>9, <2>1 DEF WakeStart, CallPart, Waits, callFrame
      <3>2. CallRecord(call[t])
        BY CallOf
      <3> QED BY <3>1, <3>2, WokenCallWakes
    <2>2. CASE ~pendingWorkerThreadStart
      <3> DEFINE c == [call[t] EXCEPT !.threads = Incremented(call[t])]
      <3>1. CallRecord(c) /\ c.op = call[t].op /\ c.ok = call[t].ok
        <4>1. call[t] \in CallType
          BY TypeParts DEF CallTypes
        <4> QED BY <4>1, CallOf DEF CallType
      <3>2. AddWorkers(t, c, attr) /\ UNCHANGED <<shutdown, jobQ>> /\ cpc[t] = "start"
        BY <1>9, <2>2 DEF WakeStart, callFrame
      <3> HIDE DEF c
      <3>3. CallPart(t, c, attr)
        BY <1>2, <3>1, <3>2, AddWorkersParts
      <3> QED BY <3>1, <3>2, <3>3, WokenCallWakes
    <2> QED BY <2>1, <2>2
  <1>10. ASSUME UNCHANGED <<shutdown, wpc>>, NEW pc, NEW c,
                cpc' = [cpc EXCEPT ![t] = pc], call' = [call EXCEPT ![t] = c],
                cpc[t] \notin {"create", "start"}, pc \notin {"create", "start"},
                UNCHANGED <<jobQ, persistentJob>>
         PROVE  WakeKept'
    <2>1. cpc \in [Thread -> CallPc] /\ call \in [Thread -> CallType]
      BY TypeParts DEF CallTypes
    <2>2. UNCHANGED <<Adding, Signallers, shutdown, QueuedJobs, PersistentLoad, Awake, Waiting>>
      BY <1>10, <2>1 DEF Adding, Signallers, QueuedJobs, PersistentLoad, Awake, Waiting, Workers
    <2> QED BY <2>2 DEF WakeKept
  <1>11. CASE WakePersistent(t)
    <2>1. /\ UNCHANGED <<shutdown, wpc, jobQ, persistentJob>> /\ cpc[t] = "pers"
          /\ \E c : \E pc \in {"pers", "out"} : cpc' = [cpc EXCEPT ![t] = pc] /\ call' = [call EXCEPT ![t] = c]
      BY <1>11 DEF WakePersistent, Sleep, Return, callFrame
    <2> QED BY <1>10, <2>1
  <1>12. CASE WakeShutdown(t) \/ GetAttrLocked(t)
    <2>1. /\ UNCHANGED <<shutdown, wpc, jobQ, persistentJob>> /\ cpc[t] \in {"term", "get"}
          /\ \E c : \E pc \in {"term", "out"} : cpc' = [cpc EXCEPT ![t] = pc] /\ call' = [call EXCEPT ![t] = c]
      BY <1>12 DEF WakeShutdown, GetAttrLocked, AwaitThreads, Sleep, Return, poolVars, workVars
    <2> QED BY <1>10, <2>1
  <1>13. CASE ThreadPoolGetAttr(t)
    <2>1. /\ UNCHANGED <<shutdown, wpc, jobQ, persistentJob>> /\ cpc[t] = "out"
          /\ \E c : \E pc \in {"get"} : cpc' = [cpc EXCEPT ![t] = pc] /\ call' = [call EXCEPT ![t] = c]
      <3>1. call' = [call EXCEPT ![t] = call[t]]
        BY <1>13 DEF ThreadPoolGetAttr, TypeOK
      <3> QED BY <1>13, <3>1 DEF ThreadPoolGetAttr, CanCall, poolVars, workVars
    <2> QED BY <1>10, <2>1
  <1>14. CASE ThreadPoolShutdown(t)
    <2>1. /\ shutdown'
          /\ \E pc, c : cpc' = [cpc EXCEPT ![t] = pc] /\ call' = [call EXCEPT ![t] = c]
      BY <1>14 DEF ThreadPoolShutdown, AwaitThreads, Sleep, Return
    <2>2. IsFiniteSet(Adding)'
      BY <1>2, <2>1, SignallersMove
    <2> QED BY <2>1, <2>2 DEF WakeKept
  <1>15. ASSUME NEW j \in Job, ThreadPoolRemove(t, j) PROVE WakeKept'
    <2>1. UNCHANGED <<Adding, Signallers, shutdown, Awake, Waiting>>
      BY <1>15 DEF ThreadPoolRemove, callVars, workVars, Adding, Signallers, Awake, Waiting, Workers
    <2>2. \/ UNCHANGED jobQ /\ persistentJob' = NullJob
          \/ /\ UNCHANGED persistentJob
             /\ \E p \in Priority : \E i \in DOMAIN jobQ[p] :
                   jobQ' = [jobQ EXCEPT ![p] = SubSeq(@, 1, i - 1) \o SubSeq(@, i + 1, Len(@))]
      BY <1>15 DEF ThreadPoolRemove, Priority
    <2>3. PersistentLoad \in {0, 1} /\ PersistentLoad' \in {0, 1}
      BY DEF PersistentLoad
    <2>4. QueuedJobs' + PersistentLoad' <= (QueuedJobs + PersistentLoad) - 0
      <3>1. CASE UNCHANGED jobQ /\ persistentJob' = NullJob
        BY <1>1, <2>3, <3>1 DEF PersistentLoad
      <3>2. ASSUME UNCHANGED persistentJob, NEW p \in Priority, NEW i \in DOMAIN jobQ[p],
                   jobQ' = [jobQ EXCEPT ![p] = SubSeq(@, 1, i - 1) \o SubSeq(@, i + 1, Len(@))]
            PROVE  QueuedJobs' + PersistentLoad' <= (QueuedJobs + PersistentLoad) - 0
        <4> DEFINE q == jobQ[p]
                   s == SubSeq(q, 1, i - 1) \o SubSeq(q, i + 1, Len(q))
        <4>1. q \in Seq(RegularJob) /\ Len(q) \in Nat /\ i \in 1..Len(q)
          BY <1>1, <3>2, LenProperties
        <4>2. i - 1 \in 0..Len(q) /\ i \in 0..Len(q)
          BY <4>1
        <4>3. Len(s) = Len(q) - 1
          <5>1. /\ SubSeq(q, 1, i - 1) \in Seq(RegularJob)
                /\ SubSeq(q, i + 1, Len(q)) \in Seq(RegularJob)
                /\ Len(SubSeq(q, 1, i - 1)) = i - 1
                /\ Len(SubSeq(q, i + 1, Len(q))) = Len(q) - i
            <6> HIDE DEF q
            <6> QED BY <4>1, <4>2, CutLength
          <5>2. Len(s) = Len(SubSeq(q, 1, i - 1)) + Len(SubSeq(q, i + 1, Len(q)))
            BY <5>1, ConcatProperties
          <5>3. Len(s) = (i - 1) + (Len(q) - i)
            BY <5>1, <5>2
          <5> HIDE DEF q, s
          <5> QED BY <4>1, <5>3
        <4>4. jobQ' = [jobQ EXCEPT ![p] = s]
          BY <3>2
        <4> HIDE DEF s
        <4>5. QueuedJobs' = QueuedJobs - 1
          BY <1>1, <4>3, <4>4, QueueLength
        <4>6. PersistentLoad' = PersistentLoad
          BY <3>2 DEF PersistentLoad
        <4> QED BY <1>1, <2>3, <4>5, <4>6
      <3> QED BY <2>2, <3>1, <3>2
    <2>5. Waiting' \subseteq Waiting /\ Cardinality(Awake') >= Cardinality(Awake) - 0
      <3>1. Cardinality(Awake) \in Nat
        BY FS_Subset, FS_CardinalityType, ConstantsAssumption DEF Awake, Workers
      <3> QED BY <2>1, <3>1
    <2>6. 0 \in {0, 1}
      OBVIOUS
    <2> QED BY <1>1, <2>1, <2>4, <2>5, <2>6, OtherStepWakes
  <1> QED BY <1>4, <1>5, <1>6, <1>7, <1>8, <1>9, <1>11, <1>12, <1>13, <1>14, <1>15 DEF Call, Wake


-----------------------------------------------------------------------------
(* ThreadPoolInit() is alone, and the minimum of threads *)

\* A step of call t that leaves the pool in its phase, or ends ThreadPoolInit().
LEMMA StepAlone ==
    ASSUME TypeOK, InitAlone, NEW t \in Thread, NEW pc, NEW c,
           cpc' = [cpc EXCEPT ![t] = pc], call' = [call EXCEPT ![t] = c],
           pc = "out" => c = NoCall, phase = "init" => t = Owner,
           \/ phase' \in {phase, "stuck", "destroyed"} /\ (phase = "up" => c.op # "init")
           \/ phase = "init" /\ phase' = "up" /\ c = NoCall
    PROVE  InitAlone'
  <1>1. /\ \A u \in Thread \ {t} : cpc'[u] = cpc[u] /\ call'[u] = call[u]
        /\ cpc'[t] = pc /\ call'[t] = c
    BY TypeParts DEF CallTypes
  <1>2. NoCall.op # "init"
    BY DEF NoCall
  <1>3. phase' = "init" => \A u \in Thread : u # Owner => cpc'[u] = "out" /\ call'[u] = NoCall
    BY <1>1 DEF InitAlone
  <1>4. phase' = "up" => \A u \in Thread : call'[u].op # "init"
    <2>1. CASE phase = "up" /\ c.op # "init"
      BY <1>1, <2>1 DEF InitAlone
    <2>2. CASE phase = "init" /\ c = NoCall
      BY <1>1, <1>2, <2>2 DEF InitAlone
    <2> QED BY <2>1, <2>2
  <1>5. \A u \in Thread : cpc'[u] = "out" => call'[u] = NoCall
    BY <1>1 DEF InitAlone
  <1> QED BY <1>3, <1>4, <1>5 DEF InitAlone

\* So does a critical section that may create threads.
LEMMA PartAlone ==
    ASSUME TypeOK, InitAlone, NEW t \in Thread, NEW c, NEW a, CallPart(t, c, a),
           Running, phase = "init" => t = Owner, phase = "up" => c.op # "init"
    PROVE  InitAlone'
  <1>1. CASE Waits(t, c) \/ Starts(t, c)
    <2>1. PICK pc \in {"create", "start"} : Sleep(t, pc, c)
      BY <1>1 DEF Waits, Starts
    <2>2. phase' = phase
      BY <1>1 DEF Waits, Starts
    <2> QED BY <2>1, <2>2, StepAlone DEF Sleep
  <1>2. CASE FinishAdd(t, c)
    <2>1. phase' = phase /\ Return(t) /\ NoCall.op # "init"
      BY <1>2 DEF FinishAdd, NoCall
    <2> QED BY <2>1, StepAlone DEF Return
  <1>3. CASE SchedulePersistent(t, c)
    <2>1. phase' = phase /\ (Return(t) \/ Sleep(t, "pers", c)) /\ NoCall.op # "init"
      BY <1>3 DEF SchedulePersistent, NoCall
    <2>2. CASE Return(t)
      BY <2>1, <2>2, StepAlone DEF Return
    <2>3. CASE Sleep(t, "pers", c)
      BY <2>1, <2>3, StepAlone DEF Sleep
    <2> QED BY <2>1, <2>2, <2>3
  <1>4. CASE FinishAttr(t, c, TRUE)
    <2>1. /\ Return(t) /\ NoCall.op # "init"
          /\ phase' = IF c.op = "init" THEN "up" ELSE phase
      BY <1>4 DEF FinishAttr, NoCall
    <2>2. CASE phase' = phase
      BY <2>1, <2>2, StepAlone DEF Return
    <2>3. CASE phase = "init" /\ phase' = "up"
      BY <2>1, <2>3, StepAlone DEF Return
    <2> QED BY <2>1, <2>2, <2>3 DEF Running
  <1>5. CASE FinishAttr(t, c, FALSE)
    <2>1. /\ cpc' = [cpc EXCEPT ![t] = "shut"] /\ call' = [call EXCEPT ![t] = c]
          /\ phase' = phase
      BY <1>5 DEF FinishAttr
    <2> QED BY <2>1, StepAlone
  <1> QED BY <1>1, <1>2, <1>3, <1>4, <1>5 DEF CallPart

\* A critical section that may create threads keeps the minimum in sight: the
\* call goes on, has found threads enough, or shuts the pool down.
LEMMA PartMin ==
    ASSUME TypeOK, NEW t \in Thread, NEW c, CallRecord(c), NEW a \in AttrType, CallPart(t, c, a),
           attr' = a, UNCHANGED <<totalThreads, shutdown>>,
           ~shutdown =>
             \/ totalThreads >= a.minThreads
             \/ a.maxThreads # INFINITE_THREADS /\ a.maxThreads < a.minThreads
             \/ \E u \in Thread : u # t /\ SeesToMin(u)
             \/ c.op \in {"init", "setattr"} /\ totalThreads >= c.threads
    PROVE  MinKept'
  <1> SUFFICES ASSUME ~shutdown, ~(totalThreads >= a.minThreads),
                      ~(a.maxThreads # INFINITE_THREADS /\ a.maxThreads < a.minThreads)
               PROVE  \E u \in Thread : SeesToMin(u)'
    BY DEF MinKept
  <1>1. /\ totalThreads \in Int /\ c.threads \in Int /\ a.minThreads \in Int
        /\ cpc \in [Thread -> CallPc] /\ call \in [Thread -> CallType]
    BY TypeParts DEF CallTypes, CallRecord, CallType, AttrType
  <1>2. \E pc, c2 : cpc' = [cpc EXCEPT ![t] = pc] /\ call' = [call EXCEPT ![t] = c2]
    BY DEF CallPart, Waits, Starts, FinishAdd, SchedulePersistent, FinishAttr, Sleep, Return
  <1>3. pendingWorkerThreadStart' = pendingWorkerThreadStart \/ pendingWorkerThreadStart'
    BY DEF CallPart, Waits, Starts, FinishAdd, SchedulePersistent, FinishAttr
  <1>4. ASSUME NEW u \in Thread, u # t, SeesToMin(u)
        PROVE  SeesToMin(u)'
    <2>1. cpc'[u] = cpc[u] /\ call'[u] = call[u]
      BY <1>1, <1>2, <1>4
    <2> QED BY <1>3, <1>4, <2>1 DEF SeesToMin
  <1>5. CASE c.op \in {"init", "setattr"} /\ totalThreads >= c.threads
    <2>1. CASE Waits(t, c) \/ Starts(t, c)
      <3>1. PICK pc \in {"create", "start"} : Sleep(t, pc, c)
        BY <2>1 DEF Waits, Starts
      <3>2. pendingWorkerThreadStart'
        BY <2>1 DEF Waits, Starts
      <3>3. cpc'[t] = pc /\ call'[t] = c
        BY <1>1, <3>1 DEF Sleep
      <3>4. SeesToMin(t)'
        BY <1>5, <3>2, <3>3 DEF SeesToMin
      <3> QED BY <3>4
    <2>2. CASE FinishAdd(t, c) \/ SchedulePersistent(t, c)
      BY <1>5, <2>2 DEF FinishAdd, SchedulePersistent
    <2>3. CASE c.threads >= a.minThreads
      BY <1>1, <1>5, <2>3
    <2>4. CASE FinishAttr(t, c, FALSE)
      <3>1. cpc'[t] = "shut" /\ call'[t] = c
        BY <1>1, <2>4 DEF FinishAttr
      <3>2. SeesToMin(t)'
        BY <1>5, <3>1 DEF SeesToMin
      <3> QED BY <3>2
    <2> QED BY <2>1, <2>2, <2>3, <2>4 DEF CallPart
  <1> QED BY <1>4, <1>5

\* A call that wakes up counts no further than there are threads.
LEMMA WokenPartMin ==
    ASSUME TypeOK, InitAlone, MinKept, Running, NEW t \in Thread, NEW c, CallRecord(c),
           CallPart(t, c, attr), UNCHANGED <<attr, totalThreads, shutdown>>,
           cpc[t] \in {"create", "start"}, c.op = call[t].op,
           SeesToMin(t) => totalThreads >= c.threads
    PROVE  MinKept'
  <1>1. ~Untouched
    BY DEF Untouched, InitAlone
  <1>2. SeesToMin(t) => c.op \in {"init", "setattr"} /\ totalThreads >= c.threads
    BY DEF SeesToMin
  <1>3. attr \in AttrType
    BY DEF TypeOK
  <1>4. ~shutdown =>
             \/ totalThreads >= attr.minThreads
             \/ attr.maxThreads # INFINITE_THREADS /\ attr.maxThreads < attr.minThreads
             \/ \E u \in Thread : u # t /\ SeesToMin(u)
             \/ c.op \in {"init", "setattr"} /\ totalThreads >= c.threads
    BY <1>1, <1>2 DEF MinKept
  <1> QED BY <1>3, <1>4, PartMin

\* A step that changes neither the threads nor a call that creates them.
LEMMA OtherMin ==
    ASSUME TypeOK, MinKept, InitAlone, Running,
           UNCHANGED <<attr, totalThreads, shutdown, pendingWorkerThreadStart>>,
           phase' \in {phase, "stuck", "destroyed"},
           NEW t \in Thread, NEW pc, NEW c,
           cpc' = [cpc EXCEPT ![t] = pc], call' = [call EXCEPT ![t] = c],
           cpc[t] \in {"pers", "get", "term"} \/ phase = "up",
           cpc[t] \notin {"create", "start", "shut"}
    PROVE  MinKept'
  <1>1. \A u \in Thread \ {t} : cpc'[u] = cpc[u] /\ call'[u] = call[u]
    BY TypeParts DEF CallTypes
  <1>2. ~Untouched
    BY DEF Untouched, InitAlone
  <1>3. \A u \in Thread : SeesToMin(u) => SeesToMin(u)'
    BY <1>1 DEF SeesToMin
  <1> QED BY <1>2, <1>3 DEF MinKept, Running


\* The steps of workers keep the minimum.
LEMMA WorkerMin ==
    ASSUME TypeOK, MinKept, InitAlone, NEW w \in Worker,
           WorkerStart(w) \/ WorkerStep(w) \/ WaitReturns(w)
    PROVE  MinKept' /\ InitAlone'
  <1>1. UNCHANGED <<cpc, call, shutdown, attr, phase>> /\ Running
    BY DEF WorkerStart, WorkerStep, WaitReturns, WorkerWait, WorkerRetire, WorkerStop, AtLoop,
           WorkerExit, WorkerTakePersistent, WorkerTake, Run, callVars, poolVars, attrVars
  <1>2. InitAlone'
    BY <1>1 DEF InitAlone
  <1>3. Untouched => Untouched'
    BY <1>1 DEF Untouched
  <1>4. /\ totalThreads \in Int /\ attr.minThreads \in Int
        /\ attr.maxThreads # INFINITE_THREADS => attr.maxThreads \in Int
        /\ \A t \in Thread : call[t].threads \in Int
    BY DEF TypeOK, AttrType
  <1>5. CASE WorkerStart(w)
    <2>1. totalThreads' = totalThreads + 1
      BY <1>5 DEF WorkerStart
    <2>2. ASSUME NEW t \in Thread, SeesToMin(t) PROVE SeesToMin(t)'
      <3>1. CASE cpc[t] = "shut"
        BY <1>1, <2>2, <3>1 DEF SeesToMin
      <3>2. CASE cpc[t] \in {"create", "start"} /\ totalThreads >= call[t].threads
        <4>1. call[t].threads \in Int
          BY <1>4
        <4>2. totalThreads' >= call[t].threads + 1 /\ totalThreads' >= call[t].threads
          BY <1>4, <2>1, <3>2, <4>1
        <4> QED BY <1>1, <2>2, <3>2, <4>2 DEF SeesToMin
      <3> QED BY <2>2, <3>1, <3>2 DEF SeesToMin
    <2>3. totalThreads >= attr.minThreads => totalThreads' >= attr.minThreads
      BY <1>4, <2>1
    <2> QED BY <1>1, <1>2, <1>3, <2>2, <2>3 DEF MinKept
  <1>6. CASE WorkerRetire(w)
    <2>1. /\ totalThreads' = totalThreads - 1
          /\ \/ totalThreads > attr.minThreads
             \/ attr.maxThreads # INFINITE_THREADS /\ totalThreads > attr.maxThreads
      BY <1>6 DEF WorkerRetire, Retires, WorkerExit
    <2>2. \/ totalThreads' >= attr.minThreads
          \/ attr.maxThreads # INFINITE_THREADS /\ attr.maxThreads < attr.minThreads
      BY <1>4, <2>1
    <2> QED BY <1>1, <1>2, <2>2 DEF MinKept
  <1>7. CASE WorkerStop(w)
    <2>1. shutdown'
      BY <1>1, <1>7 DEF WorkerStop
    <2> QED BY <1>2, <2>1 DEF MinKept
  <1>8. CASE WorkerWait(w) \/ WorkerTakePersistent(w) \/ WorkerTake(w) \/ WaitReturns(w)
    <2>1. UNCHANGED <<totalThreads, pendingWorkerThreadStart>>
      BY <1>8 DEF WorkerWait, WorkerTakePersistent, WorkerTake, WaitReturns, Run, poolVars
    <2>2. \A t \in Thread : SeesToMin(t) => SeesToMin(t)'
      BY <1>1, <2>1 DEF SeesToMin
    <2> QED BY <1>1, <1>2, <1>3, <2>1, <2>2 DEF MinKept
  <1> QED BY <1>5, <1>6, <1>7, <1>8 DEF WorkerStep

\* So do those of callers.
LEMMA CallerMin ==
    ASSUME IInv, MinKept, InitAlone, NEW t \in Thread,
           (ThreadPoolInit /\ t = Owner) \/ Call(t) \/ Wake(t)
    PROVE  MinKept' /\ InitAlone'
  <1>1. TypeOK /\ attr \in AttrType /\ totalThreads \in Nat
    <2>1. IsFiniteSet(Workers(Started))
      BY ConstantsAssumption, FS_Subset DEF Workers
    <2> QED BY <2>1, FS_CardinalityType DEF IInv, TypeOK, Accounting
  <1>2. ASSUME phase = "up", cpc[t] = "out", UNCHANGED <<attr, totalThreads, shutdown>>,
               NEW c, CallRecord(c), c.op \in {"add", "pers"}, CallPart(t, c, attr)
        PROVE  MinKept' /\ InitAlone'
    <2>1. ~SeesToMin(t) /\ ~Untouched
      BY <1>2 DEF SeesToMin, Untouched
    <2>2. ~shutdown =>
             \/ totalThreads >= attr.minThreads
             \/ attr.maxThreads # INFINITE_THREADS /\ attr.maxThreads < attr.minThreads
             \/ \E u \in Thread : u # t /\ SeesToMin(u)
             \/ c.op \in {"init", "setattr"} /\ totalThreads >= c.threads
      BY <1>2, <2>1 DEF MinKept, Running
    <2>3. MinKept'
      BY <1>1, <1>2, <2>2, PartMin
    <2>4. InitAlone'
      BY <1>1, <1>2, PartAlone DEF Running
    <2> QED BY <2>3, <2>4
  <1>3. ASSUME NEW j \in Job, SubmissionFails(j) PROVE MinKept' /\ InitAlone'
    <2>1. UNCHANGED <<phase, cpc, call, shutdown, attr, totalThreads, pendingWorkerThreadStart>>
      BY <1>3 DEF SubmissionFails, poolVars, attrVars, callVars
    <2> QED BY <2>1 DEF MinKept, InitAlone, SeesToMin, Untouched, Running
  <1>4. CASE ThreadPoolInit /\ t = Owner
    <2> DEFINE c == [NoCall EXCEPT !.op = "init"]
    <2>1. CallRecord(c) /\ c.op = "init" /\ c.threads = 0
      BY NoCallType DEF CallRecord, CallType, NoCall
    <2>2. /\ AddWorkers(t, c, attr) /\ phase = "init" /\ cpc[t] = "out"
          /\ UNCHANGED <<attr, totalThreads, shutdown>>
      BY <1>4 DEF ThreadPoolInit, callFrame, attrVars
    <2> HIDE DEF c
    <2>3. CallPart(t, c, attr)
      BY <1>1, <2>1, <2>2, AddWorkersParts
    <2>4. totalThreads >= c.threads
      BY <1>1, <2>1
    <2>5. MinKept'
      BY <1>1, <2>1, <2>2, <2>3, <2>4, PartMin
    <2>6. InitAlone'
      BY <1>1, <1>4, <2>2, <2>3, PartAlone DEF Running
    <2> QED BY <2>5, <2>6
  <1>5. ASSUME NEW j \in Job, ThreadPoolAdd(t, j) PROVE MinKept' /\ InitAlone'
    <2>1. CASE ~SubmissionFails(j)
      <3>1. PICK ok \in BOOLEAN :
              AddWorkers(t, [op |-> "add", job |-> j,
                             jobs |-> QueuedJobs + (IF ok THEN 1 ELSE 0),
                             threads |-> totalThreads - persistentThreads,
                             ok |-> ok], attr)
        BY <1>5, <2>1 DEF ThreadPoolAdd
      <3>2. /\ UNCHANGED <<attr, totalThreads, shutdown>> /\ phase = "up" /\ cpc[t] = "out"
        BY <1>5, <2>1 DEF ThreadPoolAdd, callFrame, attrVars, CanCall
      <3> DEFINE c == [op |-> "add", job |-> j,
                       jobs |-> QueuedJobs + (IF ok THEN 1 ELSE 0),
                       threads |-> totalThreads - persistentThreads, ok |-> ok]
      <3>3. CallRecord(c)
        <4>1. QueuedJobs + (IF ok THEN 1 ELSE 0) \in Nat
          BY <1>1, QueuedJobsType
        <4>2. totalThreads - persistentThreads \in Int
          BY <1>1 DEF TypeOK
        <4> QED BY <4>1, <4>2 DEF CallRecord, CallType, Op
      <3>4. c.op = "add" /\ AddWorkers(t, c, attr)
        BY <3>1
      <3> HIDE DEF c
      <3>5. CallPart(t, c, attr)
        BY <1>1, <3>3, <3>4, AddWorkersParts
      <3> QED BY <1>2, <3>2, <3>3, <3>4, <3>5
    <2> QED BY <1>3, <2>1
  <1>6. ASSUME NEW j \in Job, ThreadPoolAddPersistent(t, j) PROVE MinKept' /\ InitAlone'
    <2> DEFINE c == [NoCall EXCEPT !.op = "pers", !.job = j]
    <2>1. CASE ~SubmissionFails(j)
      <3>1. /\ CreateWorker(t, c, attr) \/ SchedulePersistent(t, c)
            /\ UNCHANGED <<attr, totalThreads, shutdown>> /\ phase = "up" /\ cpc[t] = "out"
            /\ j \in PersistentJob
        BY <1>6, <2>1 DEF ThreadPoolAddPersistent, callFrame, attrVars, CanCall
      <3>2. CallRecord(c) /\ c.op = "pers"
        BY <3>1, NoCallType DEF CallRecord, CallType, Op, NoCall
      <3> HIDE DEF c
      <3>3. CallPart(t, c, attr)
        BY <3>1, CreateParts DEF CallPart
      <3> QED BY <1>2, <3>1, <3>2, <3>3
    <2> QED BY <1>3, <2>1
  <1>7. ASSUME NEW a \in Attrs, ThreadPoolSetAttr(t, a) PROVE MinKept' /\ InitAlone'
    <2> DEFINE c == [NoCall EXCEPT !.op = "setattr", !.threads = totalThreads]
    <2>1. CallRecord(c) /\ c.op = "setattr" /\ c.threads = totalThreads /\ a \in AttrType
      <3>1. totalThreads \in Int
        BY <1>1
      <3>2. a \in AttrType
        BY ConstantsAssumption
      <3> QED BY <3>1, <3>2 DEF CallRecord, NoCall, CallType, Op
    <2>2. /\ AddWorkers(t, c, a) /\ attr' = a /\ UNCHANGED <<totalThreads, shutdown>>
          /\ phase = "up"
      BY <1>7 DEF ThreadPoolSetAttr, callFrame, CanCall
    <2> HIDE DEF c
    <2>3. CallPart(t, c, a) /\ totalThreads >= c.threads
      BY <1>1, <2>1, <2>2, AddWorkersParts
    <2>4. MinKept'
      BY <1>1, <2>1, <2>2, <2>3, PartMin
    <2>5. InitAlone'
      BY <1>1, <2>1, <2>2, <2>3, PartAlone DEF Running
    <2> QED BY <2>4, <2>5
  <1>8. ASSUME Running, cpc[t] \in {"create", "start"}, UNCHANGED <<attr, totalThreads, shutdown>>,
               NEW c, CallRecord(c), c.op = call[t].op, CallPart(t, c, attr),
               SeesToMin(t) => totalThreads >= c.threads
        PROVE  MinKept' /\ InitAlone'
    <2>1. MinKept'
      BY <1>1, <1>8, WokenPartMin
    <2>2. (phase = "init" => t = Owner) /\ (phase = "up" => c.op # "init")
      BY <1>8 DEF InitAlone
    <2>3. InitAlone'
      BY <1>1, <1>8, <2>2, PartAlone
    <2> QED BY <2>1, <2>3
  <1>9. CASE WakeCreate(t)
    <2>1. /\ CallPart(t, call[t], attr) /\ UNCHANGED <<attr, totalThreads, shutdown>>
          /\ cpc[t] = "create" /\ Running
      BY <1>9, CreateParts DEF WakeCreate, callFrame, attrVars
    <2>2. CallRecord(call[t])
      BY <1>1, CallOf
    <2>3. SeesToMin(t) => totalThreads >= call[t].threads
      BY <2>1 DEF SeesToMin
    <2> QED BY <1>8, <2>1, <2>2, <2>3
  <1>10. CASE WakeStart(t)
    <2>1. CASE pendingWorkerThreadStart
      <3>1. /\ CallPart(t, call[t], attr) /\ UNCHANGED <<attr, totalThreads, shutdown>>
            /\ cpc[t] = "start" /\ Running
        BY <1>10, <2>1 DEF WakeStart, CallPart, Waits, callFrame, attrVars
      <3>2. CallRecord(call[t])
        BY <1>1, CallOf
      <3>3. SeesToMin(t) => totalThreads >= call[t].threads
        BY <3>1 DEF SeesToMin
      <3> QED BY <1>8, <3>1, <3>2, <3>3
    <2>2. CASE ~pendingWorkerThreadStart
      <3> DEFINE c == [call[t] EXCEPT !.threads = Incremented(call[t])]
      <3>1. CallRecord(c) /\ c.op = call[t].op /\ c.threads = Incremented(call[t])
        <4>1. call[t] \in CallType
          BY <1>1, TypeParts DEF CallTypes
        <4> QED BY <1>1, <4>1, CallOf DEF CallType
      <3>2. /\ AddWorkers(t, c, attr) /\ UNCHANGED <<attr, totalThreads, shutdown>>
            /\ cpc[t] = "start" /\ Running
        BY <1>10, <2>2 DEF WakeStart, callFrame, attrVars
      <3> HIDE DEF c
      <3>3. CallPart(t, c, attr)
        BY <1>1, <3>1, <3>2, AddWorkersParts
      <3>4. ASSUME SeesToMin(t) PROVE totalThreads >= c.threads
        <4>1. totalThreads >= call[t].threads + 1 /\ totalThreads >= call[t].threads
          BY <2>2, <3>2, <3>4 DEF SeesToMin
        <4>2. Incremented(call[t]) = call[t].threads \/ Incremented(call[t]) = call[t].threads + 1
          BY DEF Incremented
        <4> QED BY <3>1, <4>1, <4>2
      <3> QED BY <1>8, <3>1, <3>2, <3>3, <3>4
    <2> QED BY <2>1, <2>2
  <1>11. ASSUME UNCHANGED <<attr, totalThreads, shutdown, pendingWorkerThreadStart>>,
                phase' \in {phase, "stuck", "destroyed"}, NEW pc, NEW c,
                cpc' = [cpc EXCEPT ![t] = pc], call' = [call EXCEPT ![t] = c],
                cpc[t] \in {"pers", "get", "term"}, Running,
                pc = "out" => c = NoCall, c.op # "init" \/ c = call[t]
         PROVE  MinKept' /\ InitAlone'
    <2>1. MinKept'
      BY <1>1, <1>11, OtherMin
    <2>2. (phase = "init" => t = Owner) /\ (phase = "up" => c.op # "init")
      BY <1>11 DEF InitAlone
    <2>3. InitAlone'
      BY <1>1, <1>11, <2>2, StepAlone
    <2> QED BY <2>1, <2>3
  <1>12. CASE WakePersistent(t)
    <2>1. /\ UNCHANGED <<attr, totalThreads, shutdown, pendingWorkerThreadStart, phase>>
          /\ cpc[t] = "pers" /\ Running
          /\ Sleep(t, "pers", call[t]) \/ Return(t)
      BY <1>12 DEF WakePersistent, callFrame, attrVars
    <2>2. CASE Sleep(t, "pers", call[t])
      <3>1. PICK pc : pc = "pers"
        OBVIOUS
      <3>2. cpc' = [cpc EXCEPT ![t] = pc] /\ call' = [call EXCEPT ![t] = call[t]] /\ pc # "out"
        BY <2>2, <3>1 DEF Sleep
      <3> QED BY <1>11, <2>1, <3>2
    <2>3. CASE Return(t)
      <3>1. NoCall.op # "init"
        BY DEF NoCall
      <3> QED BY <1>11, <2>1, <2>3, <3>1 DEF Return
    <2> QED BY <2>1, <2>2, <2>3
  <1>13. CASE WakeShutdown(t) \/ GetAttrLocked(t)
    <2> DEFINE c == [NoCall EXCEPT !.op = "shutdown"]
    <2>1. /\ UNCHANGED <<attr, totalThreads, shutdown, pendingWorkerThreadStart>>
          /\ phase' \in {phase, "stuck", "destroyed"}
          /\ cpc[t] \in {"term", "get"} /\ Running
          /\ Sleep(t, "term", c) \/ Return(t)
      BY <1>13 DEF WakeShutdown, GetAttrLocked, AwaitThreads, poolVars, attrVars
    <2>2. c.op # "init"
      BY DEF NoCall
    <2> HIDE DEF c
    <2>3. CASE Sleep(t, "term", c)
      <3>1. PICK pc : pc = "term"
        OBVIOUS
      <3>2. cpc' = [cpc EXCEPT ![t] = pc] /\ call' = [call EXCEPT ![t] = c] /\ pc # "out"
        BY <2>3, <3>1 DEF Sleep
      <3> QED BY <1>11, <2>1, <2>2, <3>2
    <2>4. CASE Return(t)
      <3>1. NoCall.op # "init"
        BY DEF NoCall
      <3> QED BY <1>11, <2>1, <2>4, <3>1 DEF Return
    <2> QED BY <2>1, <2>3, <2>4
  <1>14. CASE ThreadPoolGetAttr(t)
    <2>1. /\ UNCHANGED <<attr, totalThreads, shutdown, pendingWorkerThreadStart, phase>>
          /\ cpc[t] = "out" /\ phase = "up"
      BY <1>14 DEF ThreadPoolGetAttr, CanCall, poolVars, attrVars
    <2>2. PICK pc : pc = "get"
      OBVIOUS
    <2>3. cpc' = [cpc EXCEPT ![t] = pc] /\ call' = [call EXCEPT ![t] = call[t]] /\ pc # "out"
      BY <1>1, <1>14, <2>2 DEF ThreadPoolGetAttr, TypeOK
    <2>4. MinKept'
      BY <1>1, <2>1, <2>3, OtherMin DEF Running
    <2>5. call[t].op # "init"
      BY <2>1 DEF InitAlone
    <2>6. InitAlone'
      BY <1>1, <2>1, <2>3, <2>5, StepAlone
    <2> QED BY <2>4, <2>6
  <1>15. CASE ThreadPoolShutdown(t)
    <2> DEFINE c == [NoCall EXCEPT !.op = "shutdown"]
    <2>1. /\ shutdown' /\ phase' \in {phase, "destroyed"} /\ Running
          /\ phase = "up" \/ cpc[t] = "shut"
          /\ Sleep(t, "term", c) \/ Return(t)
      BY <1>15 DEF ThreadPoolShutdown, AwaitThreads, CanCall
    <2>2. c.op # "init" /\ NoCall.op # "init"
      BY DEF NoCall
    <2>3. phase = "init" => t = Owner
      BY <2>1 DEF InitAlone
    <2> HIDE DEF c
    <2>4. InitAlone'
      <3>1. CASE Sleep(t, "term", c)
        <4>1. PICK pc : pc = "term"
          OBVIOUS
        <4>2. cpc' = [cpc EXCEPT ![t] = pc] /\ call' = [call EXCEPT ![t] = c] /\ pc # "out"
          BY <3>1, <4>1 DEF Sleep
        <4> QED BY <1>1, <2>1, <2>2, <2>3, <4>2, StepAlone
      <3>2. CASE Return(t)
        BY <1>1, <2>1, <2>2, <2>3, <3>2, StepAlone DEF Return
      <3> QED BY <2>1, <3>1, <3>2
    <2>5. MinKept'
      BY <2>1 DEF MinKept
    <2> QED BY <2>4, <2>5
  <1>16. ASSUME NEW j \in Job, ThreadPoolRemove(t, j) PROVE MinKept' /\ InitAlone'
    <2>1. UNCHANGED <<phase, cpc, call, shutdown, attr, totalThreads, pendingWorkerThreadStart>>
      BY <1>16 DEF ThreadPoolRemove, attrVars, callVars
    <2> QED BY <2>1 DEF MinKept, InitAlone, SeesToMin, Untouched, Running
  <1> QED BY <1>4, <1>5, <1>6, <1>7, <1>9, <1>10, <1>12, <1>13, <1>14, <1>15, <1>16 DEF Call, Wake


-----------------------------------------------------------------------------
(* The theorems about wake-ups and the minimum *)

\* The second inductive invariant.  MinKept needs InitAlone, which tells the
\* calls of the first phase apart, and the counter of IInv, which is not
\* negative; WakeKept needs the types.
JInv == IInv /\ WakeKept /\ MinKept /\ InitAlone

\* It holds when no thread has been started and no call made.
LEMMA InitJInv == Init => JInv
  <1> SUFFICES ASSUME Init PROVE JInv
    OBVIOUS
  <1>1. Adding = {} /\ Waiting = {}
    BY DEF Init, Adding, Waiting, Workers
  <1>2. WakeKept
    BY <1>1, FS_EmptySet DEF WakeKept
  <1>3. Owner \in Thread
    BY ConstantsAssumption DEF Thread
  <1>4. MinKept /\ InitAlone
    BY <1>3 DEF Init, MinKept, Untouched, InitAlone, NoCall
  <1> QED BY <1>2, <1>4, InitIInv DEF JInv

\* Every step keeps it.
LEMMA NextJInv == JInv /\ [Next]_vars => JInv'
  <1> SUFFICES ASSUME JInv, [Next]_vars PROVE JInv'
    OBVIOUS
  <1>1. IInv /\ IInv' /\ TypeOK /\ TypeOK' /\ WakeKept /\ MinKept /\ InitAlone
    <2>1. IInv
      BY DEF JInv
    <2>2. IInv'
      BY <2>1, NextIInv
    <2> QED BY <2>1, <2>2 DEF JInv, IInv
  <1>2. ASSUME NEW t \in Thread, (ThreadPoolInit /\ t = Owner) \/ Call(t) \/ Wake(t)
        PROVE  WakeKept' /\ MinKept' /\ InitAlone'
    BY <1>1, <1>2, CallerWakes, CallerMin
  <1>3. CASE ThreadPoolInit
    <2>1. Owner \in Thread
      BY ConstantsAssumption DEF Thread
    <2> QED BY <1>1, <1>2, <1>3, <2>1 DEF JInv
  <1>4. CASE \E w \in Worker : WorkerStart(w) \/ WorkerStep(w) \/ WaitReturns(w)
    BY <1>1, <1>4, WorkerWakes, WorkerMin DEF JInv
  <1>5. CASE Tick \/ (\E j \in Recycled : Recycle(j)) \/ UNCHANGED vars
    <2>1. UNCHANGED <<phase, cpc, call, shutdown, attr, totalThreads, pendingWorkerThreadStart,
                      wpc, persistentJob>>
      BY <1>5 DEF Tick, Recycle, vars, poolVars, attrVars, workVars, callVars
    <2>2. UNCHANGED QueuedJobs
      <3>1. CASE Tick
        <4>1. jobQ' = [p \in Priority |-> [i \in DOMAIN jobQ[p] |->
                  [jobQ[p][i] EXCEPT !.age = IF @ < scenario.age THEN @ + 1 ELSE @]]]
          BY <3>1 DEF Tick
        <4>2. jobQ \in [Priority -> Seq(RegularJob)] /\ jobQ' \in [Priority -> Seq(RegularJob)]
          BY <1>1, QueueType, NextQueued
        <4>3. \A p \in Priority : DOMAIN jobQ'[p] = DOMAIN jobQ[p]
          BY <4>1
        <4>4. \A p \in Priority : Len(jobQ'[p]) = Len(jobQ[p])
          <5> SUFFICES ASSUME NEW p \in Priority PROVE Len(jobQ'[p]) = Len(jobQ[p])
            OBVIOUS
          <5>1. jobQ'[p] \in Seq(RegularJob) /\ jobQ[p] \in Seq(RegularJob)
            BY <4>2
          <5>2. /\ Len(jobQ'[p]) \in Nat /\ DOMAIN jobQ'[p] = 1..Len(jobQ'[p])
                /\ Len(jobQ[p]) \in Nat /\ DOMAIN jobQ[p] = 1..Len(jobQ[p])
            BY <5>1, LenProperties
          <5>3. ASSUME NEW x \in Nat, NEW y \in Nat, x < y PROVE 1..x # 1..y
            <6>1. y \in 1..y /\ y \notin 1..x
              BY <5>3
            <6> QED BY <6>1
          <5>4. \A x, y \in Nat : x < y \/ y < x \/ x = y
            OBVIOUS
          <5> QED BY <4>3, <5>2, <5>3, <5>4
        <4> QED BY <4>4 DEF QueuedJobs, Priority
      <3>2. CASE UNCHANGED jobQ
        BY <3>2 DEF QueuedJobs
      <3> QED BY <1>5, <3>1, <3>2 DEF Recycle, vars, poolVars
    <2>3. UNCHANGED <<Adding, Signallers, Awake, Waiting, PersistentLoad>>
      BY <2>1 DEF Adding, Signallers, Awake, Waiting, Workers, PersistentLoad
    <2>4. WakeKept'
      BY <1>1, <2>1, <2>2, <2>3 DEF WakeKept
    <2>5. MinKept' /\ InitAlone'
      BY <1>1, <2>1 DEF MinKept, InitAlone, SeesToMin, Untouched, Running
    <2> QED BY <1>1, <2>4, <2>5 DEF JInv
  <1> QED BY <1>1, <1>2, <1>3, <1>4, <1>5 DEF Next, JInv

\* The second invariant holds in every state.
LEMMA SecondInvariance == Spec => []JInv
  BY InitJInv, NextJInv, PTL DEF Spec

\* No wake-up is lost: while a worker sleeps, every waiting job has an awake
\* worker of its own or a submitter inside CreateWorker() that has still to
\* signal, for any number of submitters that give up the mutex there.
THEOREM WakeupCorrect == Spec => []NoLostWakeup
  <1>1. JInv => NoLostWakeup
    <2> SUFFICES ASSUME JInv, ~shutdown, Workers({"wait"}) # {}
                 PROVE  QueuedJobs + PersistentLoad <= Cardinality(Awake) + Cardinality(Adding)
      BY DEF NoLostWakeup, PersistentLoad, Awake, Adding
    <2> DEFINE m == Cardinality(Adding)
               m1 == Cardinality(Signallers)
               n == Cardinality(Awake)
               x == QueuedJobs + PersistentLoad
    <2>1. IsFiniteSet(Adding) /\ x <= n + m1
      BY DEF JInv, WakeKept, Waiting
    <2>2. IsFiniteSet(Signallers) /\ m1 <= m
      BY <2>1, FS_Subset DEF Signallers
    <2>3. IsFiniteSet(Awake)
      BY ConstantsAssumption, FS_Subset DEF Awake, Workers
    <2>4. m \in Nat /\ m1 \in Nat /\ n \in Nat
      BY <2>1, <2>2, <2>3, FS_CardinalityType
    <2>5. x \in Nat
      <3>1. QueuedJobs \in Nat /\ PersistentLoad \in Nat
        BY QueuedJobsType DEF JInv, IInv, PersistentLoad
      <3> QED BY <3>1
    <2>6. x <= n + m
      <3> HIDE DEF m, m1, n, x
      <3> QED BY <2>1, <2>2, <2>4, <2>5
    <2> QED BY <2>6
  <1> QED BY <1>1, SecondInvariance, PTL

\* Workers that time out together never leave fewer than minThreads, and new
\* attributes have raised the number of threads when their call has returned.
THEOREM MinimumCorrect == Spec => []NeverLessThanMin
  <1>1. JInv => NeverLessThanMin
    BY DEF JInv, MinKept, InitAlone, NeverLessThanMin, SeesToMin, Untouched, Running
  <1> QED BY <1>1, SecondInvariance, PTL

-----------------------------------------------------------------------------
(* Where the jobs are *)

InQueue(q, j) == \E p \in Priority : \E i \in DOMAIN q[p] : q[p][i].job = j
Queued(j) == InQueue(jobQ, j)
RunBy(j) == \E w \in Worker : wjob[w] = j
Held(j) == persistentJob.job = j
Somewhere(j) == Queued(j) \/ RunBy(j) \/ Held(j)

\* No job is twice in the queues.
Once(q) ==
    \A p, r \in Priority : \A i \in DOMAIN q[p] : \A k \in DOMAIN q[r] :
        q[p][i].job = q[r][k].job => p = r /\ i = k

\* A job is in one queue, with one worker or in persistentJob, and a worker has
\* a job exactly while it runs it.
PlacesApart ==
    /\ Once(jobQ)
    /\ \A w, v \in Worker : wjob[w] = wjob[v] /\ wjob[w] # NoJob => w = v
    /\ \A j \in Job : RunBy(j) => ~Queued(j) /\ ~Held(j)
    /\ \A w \in Worker : wpc[w] = "run" <=> wjob[w] # NoJob

\* What is known of a job from what its submitter was told.
JobsKnown ==
    \A j \in Job :
        /\ ended[j] # "no" \/ told[j] = "err" => ~Somewhere(j)
        /\ j \notin PersistentJob /\ told[j] = "ok" /\ ended[j] = "no" => Somewhere(j)
        /\ told[j] = "new" /\ (\A t \in Thread : call[t].job # j) =>
             ended[j] = "no" /\ ~Somewhere(j)

\* A call without a job.
Idle(t) == call[t].job = NoJob /\ call[t].op \notin {"add", "pers"}

\* A submission in progress: its job was not yet reported, and is in the pool, or
\* was, exactly when it has been queued.
Submission(t, j) ==
    /\ call[t].job = j /\ told[j] = "new"
    /\ \/ /\ call[t].op = "add" /\ j \notin PersistentJob /\ call[t].ok
          /\ cpc[t] \in {"create", "start"}
          /\ ended[j] = "no" => Somewhere(j)
       \/ /\ call[t].op = "add" /\ j \notin PersistentJob /\ ~call[t].ok
          /\ cpc[t] \in {"create", "start"}
          /\ ended[j] = "no" /\ ~Somewhere(j)
       \/ /\ call[t].op = "pers" /\ cpc[t] \in {"create", "start"}
          /\ ended[j] = "no" /\ ~Somewhere(j)
       \/ call[t].op = "pers" /\ cpc[t] = "pers"

Submits(t) == \E j \in Job : Submission(t, j)

CallsKnown ==
    /\ \A t \in Thread : Idle(t) \/ Submits(t)
    /\ \A t, u \in Thread : call[t].job = call[u].job /\ call[t].job # NoJob => t = u

-----------------------------------------------------------------------------
(* Jobs in queues *)

Queues == [Priority -> Seq(RegularJob)]

\* f holds the jobs of q, no one more often than q does.
Keeps(f, q) ==
    /\ Once(q) => Once(f)
    /\ \A j : InQueue(f, j) <=> InQueue(q, j)

\* f holds the jobs of q except x.
Loses(f, q, x) ==
    Once(q) =>
        /\ Once(f)
        /\ \A j : InQueue(f, j) <=> InQueue(q, j) /\ j # x

\* The positions of a queue.
LEMMA QueuePositions ==
    ASSUME NEW q \in Queues, NEW p \in Priority
    PROVE  q[p] \in Seq(RegularJob) /\ Len(q[p]) \in Nat /\ DOMAIN q[p] = 1..Len(q[p])
  BY LenProperties DEF Queues

\* Moving the first n jobs of queue p to the end of queue r.
LEMMA ShiftKeeps ==
    ASSUME NEW q \in Queues, NEW f \in Queues, NEW p \in Priority, NEW r \in Priority, p # r,
           NEW n \in 0..Len(q[p]),
           Len(f[p]) = Len(q[p]) - n, Len(f[r]) = Len(q[r]) + n,
           \A i \in 1..(Len(q[p]) - n) : f[p][i] = q[p][i + n],
           \A i \in 1..(Len(q[r]) + n) :
               f[r][i] = IF i <= Len(q[r]) THEN q[r][i] ELSE q[p][i - Len(q[r])],
           \A s \in Priority \ {p, r} : f[s] = q[s]
    PROVE  Keeps(f, q)
  <1> DEFINE lp == Len(q[p])
             lr == Len(q[r])
             S(s, i) == IF s = r /\ i > lr THEN p ELSE s
             I(s, i) == IF s = p THEN i + n ELSE IF s = r /\ i > lr THEN i - lr ELSE i
  <1>1. lp \in Nat /\ lr \in Nat /\ n \in Nat /\ n <= lp
    BY QueuePositions
  <1>2. \A s \in Priority : DOMAIN q[s] = 1..Len(q[s]) /\ DOMAIN f[s] = 1..Len(f[s])
                            /\ Len(q[s]) \in Nat
    BY QueuePositions
  <1>3. DOMAIN f[p] = 1..(lp - n) /\ DOMAIN f[r] = 1..(lr + n)
    BY <1>2
  <1>4. ASSUME NEW s \in Priority, NEW i \in DOMAIN f[s]
        PROVE  /\ i \in Nat /\ i >= 1 /\ S(s, i) \in Priority /\ I(s, i) \in DOMAIN q[S(s, i)]
               /\ f[s][i] = q[S(s, i)][I(s, i)]
               /\ s = p => i <= lp - n
               /\ s = r => i <= lr + n
    <2>1. CASE s = p
      <3>1. i \in 1..(lp - n)
        BY <1>3, <1>4, <2>1
      <3>2. i \in Nat /\ i >= 1 /\ i <= lp - n /\ i + n \in 1..lp
        BY <1>1, <3>1
      <3>3. f[p][i] = q[p][i + n] /\ DOMAIN q[p] = 1..lp
        BY <1>2, <3>1
      <3> QED BY <2>1, <3>2, <3>3
    <2>2. CASE s = r
      <3>1. i \in 1..(lr + n)
        BY <1>3, <1>4, <2>2
      <3>2. i \in Nat /\ i >= 1 /\ i <= lr + n
        BY <1>1, <3>1
      <3>3. /\ DOMAIN q[p] = 1..lp /\ DOMAIN q[r] = 1..lr
            /\ f[r][i] = IF i <= lr THEN q[r][i] ELSE q[p][i - lr]
        BY <1>2, <3>1
      <3>4. CASE i <= lr
        <4>1. i \in 1..lr /\ ~(i > lr)
          BY <1>1, <3>2, <3>4
        <4> QED BY <2>2, <3>2, <3>3, <3>4, <4>1
      <3>5. CASE ~(i <= lr)
        <4>1. i - lr \in 1..lp /\ i > lr
          BY <1>1, <3>2, <3>5
        <4> QED BY <2>2, <3>2, <3>3, <3>5, <4>1
      <3> QED BY <3>4, <3>5
    <2>3. CASE s \notin {p, r}
      <3>1. f[s] = q[s] /\ i \in 1..Len(q[s])
        BY <1>2, <1>4, <2>3
      <3>2. i \in Nat /\ i >= 1
        BY <1>2, <3>1
      <3> QED BY <1>2, <2>3, <3>1, <3>2
    <2> QED BY <2>1, <2>2, <2>3
  <1>5. ASSUME NEW s \in Priority, NEW i \in DOMAIN q[s]
        PROVE  \E s2 \in Priority : \E i2 \in DOMAIN f[s2] : f[s2][i2] = q[s][i]
    <2>0. i \in 1..Len(q[s]) /\ i \in Nat
      BY <1>2, <1>5
    <2>1. CASE s = p /\ i <= n
      <3>1. i + lr \in 1..(lr + n) /\ ~(i + lr <= lr) /\ (i + lr) - lr = i
        BY <1>1, <2>0, <2>1
      <3>2. f[r][i + lr] = q[p][(i + lr) - lr]
        BY <3>1
      <3> QED BY <1>3, <2>1, <3>1, <3>2
    <2>2. CASE s = p /\ i > n
      <3>1. i - n \in 1..(lp - n) /\ (i - n) + n = i
        BY <1>1, <2>0, <2>2
      <3> QED BY <1>3, <2>2, <3>1
    <2>3. CASE s = r
      <3>1. i \in 1..(lr + n) /\ i <= lr
        BY <1>1, <2>0, <2>3
      <3> QED BY <1>3, <2>3, <3>1
    <2>4. CASE s \notin {p, r}
      BY <1>5, <2>4
    <2>5. i <= n \/ i > n
      BY <1>1, <2>0
    <2> QED BY <2>1, <2>2, <2>3, <2>4, <2>5
  <1>6. ASSUME Once(q) PROVE Once(f)
    <2> SUFFICES ASSUME NEW s \in Priority, NEW u \in Priority, NEW i \in DOMAIN f[s],
                        NEW k \in DOMAIN f[u], f[s][i].job = f[u][k].job
                 PROVE  s = u /\ i = k
      BY DEF Once
    <2>1. /\ S(s, i) \in Priority /\ I(s, i) \in DOMAIN q[S(s, i)]
          /\ f[s][i] = q[S(s, i)][I(s, i)]
          /\ S(u, k) \in Priority /\ I(u, k) \in DOMAIN q[S(u, k)]
          /\ f[u][k] = q[S(u, k)][I(u, k)]
      BY <1>4
    <2>2. S(s, i) = S(u, k) /\ I(s, i) = I(u, k)
      <3> HIDE DEF S, I
      <3> QED BY <1>6, <2>1 DEF Once
    <2>3. /\ i \in Nat /\ i >= 1 /\ k \in Nat /\ k >= 1
          /\ (s = p => i <= lp - n) /\ (s = r => i <= lr + n)
          /\ (u = p => k <= lp - n) /\ (u = r => k <= lr + n)
      BY <1>4
    <2> HIDE DEF lp, lr
    <2> QED BY <1>1, <2>2, <2>3
  <1>7. \A j : InQueue(f, j) <=> InQueue(q, j)
    <2>1. ASSUME NEW j, InQueue(f, j) PROVE InQueue(q, j)
      <3>1. PICK s \in Priority : \E i \in DOMAIN f[s] : f[s][i].job = j
        BY <2>1 DEF InQueue
      <3>2. PICK i \in DOMAIN f[s] : f[s][i].job = j
        BY <3>1
      <3>3. \E s2 \in Priority : \E i2 \in DOMAIN q[s2] : q[s2][i2] = f[s][i]
        <4>1. /\ S(s, i) \in Priority /\ I(s, i) \in DOMAIN q[S(s, i)]
              /\ f[s][i] = q[S(s, i)][I(s, i)]
          BY <1>4
        <4> HIDE DEF S, I
        <4> QED BY <4>1
      <3> QED BY <3>2, <3>3 DEF InQueue
    <2>2. ASSUME NEW j, InQueue(q, j) PROVE InQueue(f, j)
      BY <1>5, <2>2 DEF InQueue
    <2> QED BY <2>1, <2>2
  <1> QED BY <1>6, <1>7 DEF Keeps

\* The elements of a queue that is cut in two.
LEMMA CutElements ==
    ASSUME NEW S, NEW q \in Seq(S), NEW n \in 0..Len(q)
    PROVE  /\ \A i \in 1..n : SubSeq(q, 1, n)[i] = q[i]
           /\ \A i \in 1..(Len(q) - n) : SubSeq(q, n + 1, Len(q))[i] = q[i + n]
  <1>1. Len(q) \in Nat /\ n \in Int /\ n + 1 \in Int
    BY LenProperties
  <1>2. (\A i \in 1..n : q[i] \in S) /\ (\A i \in (n + 1)..Len(q) : q[i] \in S)
    BY <1>1, ElementOfSeq
  <1>3. \A i \in 1..(n - 1 + 1) : SubSeq(q, 1, n)[i] = q[1 + i - 1]
    BY <1>1, <1>2, SubSeqProperties
  <1>4. \A i \in 1..(Len(q) - (n + 1) + 1) : SubSeq(q, n + 1, Len(q))[i] = q[(n + 1) + i - 1]
    BY <1>1, <1>2, SubSeqProperties
  <1> DEFINE l == Len(q)
  <1>5. ASSUME NEW i \in 1..n PROVE SubSeq(q, 1, n)[i] = q[i]
    <2>1. i \in 1..(n - 1 + 1) /\ 1 + i - 1 = i
      BY <1>1
    <2> QED BY <1>3, <2>1
  <1>6. ASSUME NEW i \in 1..(l - n) PROVE SubSeq(q, n + 1, l)[i] = q[i + n]
    <2>1. i \in 1..(l - (n + 1) + 1) /\ (n + 1) + i - 1 = i + n
      <3> HIDE DEF l
      <3> QED BY <1>1 DEF l
    <2> QED BY <1>4, <2>1
  <1> QED BY <1>5, <1>6

\* BumpPriority() is two such moves.
LEMMA BumpKeeps == TypeOK => Keeps(BumpPriority, jobQ) /\ BumpPriority \in Queues
  <1> SUFFICES ASSUME TypeOK PROVE Keeps(BumpPriority, jobQ) /\ BumpPriority \in Queues
    OBVIOUS
  <1> DEFINE low == jobQ["low"]
             fromLow == Starving(jobQ["low"], attr.maxIdleTime)
             low1    == SubSeq(low, 1, fromLow)
             low2    == SubSeq(low, fromLow + 1, Len(low))
             med     == jobQ["med"] \o low1
             fromMed == Starving(med, attr.starvationTime)
             med1    == SubSeq(med, 1, fromMed)
             med2    == SubSeq(med, fromMed + 1, Len(med))
             high    == jobQ["high"] \o med1
             g == [jobQ EXCEPT !["low"] = low2, !["med"] = med]
             f == BumpPriority
  <1>1. /\ low \in Seq(RegularJob) /\ jobQ \in Queues /\ BumpPriority \in Queues
        /\ jobQ["med"] \in Seq(RegularJob)
        /\ jobQ["high"] \in Seq(RegularJob)
        /\ {"low", "med", "high"} = Priority
    BY QueueType, BumpType DEF Priority, Queues
  <1>2. fromLow \in 0..Len(low)
    BY <1>1, StarvingType
  <1>3. /\ low1 \in Seq(RegularJob) /\ low2 \in Seq(RegularJob)
        /\ Len(low1) = fromLow /\ Len(low2) = Len(low) - fromLow
        /\ \A i \in 1..fromLow : low1[i] = low[i]
        /\ \A i \in 1..(Len(low) - fromLow) : low2[i] = low[i + fromLow]
    <2> HIDE DEF fromLow, low
    <2> QED BY <1>1, <1>2, CutLength, CutElements
  <1>4. /\ med \in Seq(RegularJob) /\ Len(med) = Len(jobQ["med"]) + fromLow
        /\ \A i \in 1..(Len(jobQ["med"]) + fromLow) :
              med[i] = IF i <= Len(jobQ["med"]) THEN jobQ["med"][i] ELSE low1[i - Len(jobQ["med"])]
    <2> HIDE DEF low1, fromLow
    <2> QED BY <1>1, <1>3, ConcatProperties
  <1>5. fromMed \in 0..Len(med)
    <2> HIDE DEF med
    <2> QED BY <1>4, StarvingType
  <1>6. /\ med1 \in Seq(RegularJob) /\ med2 \in Seq(RegularJob)
        /\ Len(med1) = fromMed /\ Len(med2) = Len(med) - fromMed
        /\ \A i \in 1..fromMed : med1[i] = med[i]
        /\ \A i \in 1..(Len(med) - fromMed) : med2[i] = med[i + fromMed]
    <2> HIDE DEF fromMed, med
    <2> QED BY <1>4, <1>5, CutLength, CutElements
  <1>7. /\ Len(high) = Len(jobQ["high"]) + fromMed
        /\ \A i \in 1..(Len(jobQ["high"]) + fromMed) :
              high[i] = IF i <= Len(jobQ["high"]) THEN jobQ["high"][i] ELSE med1[i - Len(jobQ["high"])]
    <2> HIDE DEF med1, fromMed
    <2> QED BY <1>1, <1>6, ConcatProperties
  <1>8. f["low"] = low2 /\ f["med"] = med2 /\ f["high"] = high
    BY DEF BumpPriority, Priority
  <1> HIDE DEF fromLow, low1, low2, med, fromMed, med1, med2, high
  <1>9. /\ g \in Queues /\ g["low"] = low2 /\ g["med"] = med /\ g["high"] = jobQ["high"]
    BY <1>1, <1>3, <1>4 DEF Queues
  <1> HIDE DEF g, f
  <1>10. /\ Len(low) \in Nat /\ Len(jobQ["med"]) \in Nat /\ Len(jobQ["high"]) \in Nat
         /\ fromLow \in Nat /\ fromMed \in Nat
    BY <1>1, <1>2, <1>4, <1>5, LenProperties
  <1>11. Keeps(g, jobQ)
    <2>1. /\ fromLow \in 0..Len(jobQ["low"])
          /\ Len(g["low"]) = Len(jobQ["low"]) - fromLow /\ Len(g["med"]) = Len(jobQ["med"]) + fromLow
          /\ \A i \in 1..(Len(jobQ["low"]) - fromLow) : g["low"][i] = jobQ["low"][i + fromLow]
          /\ \A s \in Priority \ {"low", "med"} : g[s] = jobQ[s]
      BY <1>1, <1>2, <1>3, <1>4, <1>9
    <2>2. ASSUME NEW i \in 1..(Len(jobQ["med"]) + fromLow)
          PROVE  g["med"][i] = IF i <= Len(jobQ["med"]) THEN jobQ["med"][i]
                               ELSE jobQ["low"][i - Len(jobQ["med"])]
      <3>1. CASE i <= Len(jobQ["med"])
        BY <1>4, <1>9, <3>1
      <3>2. CASE ~(i <= Len(jobQ["med"]))
        <4>1. i - Len(jobQ["med"]) \in 1..fromLow
          BY <1>10, <3>2
        <4>2. low1[i - Len(jobQ["med"])] = jobQ["low"][i - Len(jobQ["med"])]
          BY <1>3, <4>1
        <4> QED BY <1>4, <1>9, <3>2, <4>2
      <3> QED BY <3>1, <3>2
    <2> QED BY <1>1, <1>9, <2>1, <2>2, ShiftKeeps
  <1>12. Keeps(f, g)
    <2>1. /\ fromMed \in 0..Len(g["med"])
          /\ Len(f["med"]) = Len(g["med"]) - fromMed /\ Len(f["high"]) = Len(g["high"]) + fromMed
          /\ \A i \in 1..(Len(g["med"]) - fromMed) : f["med"][i] = g["med"][i + fromMed]
          /\ \A s \in Priority \ {"med", "high"} : f[s] = g[s]
      BY <1>1, <1>5, <1>6, <1>7, <1>8, <1>9
    <2>2. ASSUME NEW i \in 1..(Len(g["high"]) + fromMed)
          PROVE  f["high"][i] = IF i <= Len(g["high"]) THEN g["high"][i]
                                ELSE g["med"][i - Len(g["high"])]
      <3>1. CASE i <= Len(g["high"])
        BY <1>7, <1>8, <1>9, <3>1
      <3>2. CASE ~(i <= Len(g["high"]))
        <4>1. i - Len(jobQ["high"]) \in 1..fromMed
          BY <1>9, <1>10, <3>2
        <4>2. med1[i - Len(jobQ["high"])] = med[i - Len(jobQ["high"])]
          BY <1>6, <4>1
        <4> QED BY <1>7, <1>8, <1>9, <3>2, <4>2
      <3> QED BY <3>1, <3>2
    <2>3. f \in Queues
      BY <1>1 DEF f
    <2> QED BY <1>1, <1>9, <2>1, <2>2, <2>3, ShiftKeeps
  <1>13. Keeps(f, jobQ)
    BY <1>11, <1>12 DEF Keeps
  <1> QED BY <1>1, <1>13 DEF f

\* Queue p without its job at position n.
LEMMA ShrinkLoses ==
    ASSUME NEW q \in Queues, NEW f \in Queues, NEW p \in Priority, NEW n \in 1..Len(q[p]),
           Len(f[p]) = Len(q[p]) - 1,
           \A i \in 1..(Len(q[p]) - 1) : f[p][i] = IF i < n THEN q[p][i] ELSE q[p][i + 1],
           \A s \in Priority \ {p} : f[s] = q[s]
    PROVE  Loses(f, q, q[p][n].job)
  <1> DEFINE lp == Len(q[p])
             I(s, i) == IF s = p /\ i >= n THEN i + 1 ELSE i
  <1>1. lp \in Nat /\ n \in Nat /\ n >= 1 /\ n <= lp
    BY QueuePositions
  <1>2. \A s \in Priority : DOMAIN q[s] = 1..Len(q[s]) /\ DOMAIN f[s] = 1..Len(f[s])
                            /\ Len(q[s]) \in Nat
    BY QueuePositions
  <1>3. DOMAIN f[p] = 1..(lp - 1) /\ DOMAIN q[p] = 1..lp
    BY <1>2
  <1>4. ASSUME NEW s \in Priority, NEW i \in DOMAIN f[s]
        PROVE  /\ i \in Nat /\ I(s, i) \in DOMAIN q[s] /\ f[s][i] = q[s][I(s, i)]
               /\ ~(s = p /\ I(s, i) = n)
    <2>1. CASE s = p
      <3>1. i \in 1..(lp - 1)
        BY <1>3, <1>4, <2>1
      <3>2. f[p][i] = IF i < n THEN q[p][i] ELSE q[p][i + 1]
        BY <3>1
      <3>3. i \in Nat /\ i \in 1..lp /\ i + 1 \in 1..lp /\ (i < n <=> ~(i >= n))
            /\ (i >= n => i + 1 # n) /\ (~(i >= n) => i # n)
        <4> HIDE DEF lp
        <4> QED BY <1>1, <3>1
      <3> QED BY <1>3, <2>1, <3>2, <3>3
    <2>2. CASE s # p
      BY <1>2, <1>4, <2>2
    <2> QED BY <2>1, <2>2
  <1>5. ASSUME NEW s \in Priority, NEW i \in DOMAIN q[s], ~(s = p /\ i = n)
        PROVE  \E k \in DOMAIN f[s] : f[s][k] = q[s][i]
    <2>1. CASE s = p /\ i < n
      <3>1. i \in 1..(lp - 1)
        <4>1. i \in 1..lp
          BY <1>3, <1>5, <2>1
        <4> HIDE DEF lp
        <4> QED BY <1>1, <2>1, <4>1
      <3> QED BY <1>3, <2>1, <3>1
    <2>2. CASE s = p /\ ~(i < n)
      <3>1. i - 1 \in 1..(lp - 1) /\ ~(i - 1 < n) /\ (i - 1) + 1 = i
        <4>1. i \in 1..lp /\ i # n
          BY <1>3, <1>5, <2>2
        <4> HIDE DEF lp
        <4> QED BY <1>1, <2>2, <4>1
      <3>2. f[p][i - 1] = q[p][(i - 1) + 1]
        BY <3>1
      <3> QED BY <1>3, <2>2, <3>1, <3>2
    <2>3. CASE s # p
      BY <1>5, <2>3
    <2> QED BY <2>1, <2>2, <2>3
  <1> SUFFICES ASSUME Once(q)
               PROVE  /\ Once(f)
                      /\ \A j : InQueue(f, j) <=> InQueue(q, j) /\ j # q[p][n].job
    BY DEF Loses
  <1>6. Once(f)
    <2> SUFFICES ASSUME NEW s \in Priority, NEW u \in Priority, NEW i \in DOMAIN f[s],
                        NEW k \in DOMAIN f[u], f[s][i].job = f[u][k].job
                 PROVE  s = u /\ i = k
      BY DEF Once
    <2>1. /\ I(s, i) \in DOMAIN q[s] /\ f[s][i] = q[s][I(s, i)] /\ i \in Nat
          /\ I(u, k) \in DOMAIN q[u] /\ f[u][k] = q[u][I(u, k)] /\ k \in Nat
      BY <1>4
    <2>2. s = u /\ I(s, i) = I(u, k)
      <3> HIDE DEF I
      <3> QED BY <2>1 DEF Once
    <2> QED BY <1>1, <2>1, <2>2
  <1>7. ASSUME NEW j, InQueue(f, j) PROVE InQueue(q, j) /\ j # q[p][n].job
    <2>1. PICK s \in Priority : \E i \in DOMAIN f[s] : f[s][i].job = j
      BY <1>7 DEF InQueue
    <2>2. PICK i \in DOMAIN f[s] : f[s][i].job = j
      BY <2>1
    <2>3. PICK k : k \in DOMAIN q[s] /\ f[s][i] = q[s][k] /\ ~(s = p /\ k = n)
      <3>1. I(s, i) \in DOMAIN q[s] /\ f[s][i] = q[s][I(s, i)] /\ ~(s = p /\ I(s, i) = n)
        BY <1>4
      <3> HIDE DEF I
      <3> QED BY <3>1
    <2> QED BY <1>3, <2>2, <2>3 DEF InQueue, Once
  <1>8. ASSUME NEW j, InQueue(q, j), j # q[p][n].job PROVE InQueue(f, j)
    BY <1>5, <1>8 DEF InQueue
  <1> QED BY <1>6, <1>7, <1>8

\* Taking the head of a queue.
LEMMA TakeLoses ==
    ASSUME NEW q \in Queues, NEW p \in Priority, q[p] # <<>>
    PROVE  /\ Loses([q EXCEPT ![p] = Tail(@)], q, Head(q[p]).job)
           /\ InQueue(q, Head(q[p]).job)
           /\ Head(q[p]) \in RegularJob
  <1> DEFINE f == [q EXCEPT ![p] = Tail(@)]
             lp == Len(q[p])
  <1>1. /\ q[p] \in Seq(RegularJob) /\ lp \in Nat /\ DOMAIN q[p] = 1..lp
        /\ \A s \in Priority \ {p} : f[s] = q[s]
        /\ f[p] = Tail(q[p])
    BY QueuePositions DEF Queues
  <1>2. /\ Tail(q[p]) \in Seq(RegularJob) /\ Head(q[p]) \in RegularJob
        /\ Len(Tail(q[p])) = Len(q[p]) - 1
        /\ \A i \in 1..Len(Tail(q[p])) : Tail(q[p])[i] = q[p][i + 1]
    BY <1>1, HeadTailProperties
  <1>3. lp > 0 /\ Head(q[p]) = q[p][1]
    BY <1>1, EmptySeq
  <1>4. f \in Queues
    BY <1>1, <1>2 DEF Queues
  <1>5. Len(f[p]) = lp - 1 /\ 1 \in 1..lp
    <2>1. Len(f[p]) = lp - 1
      BY <1>1, <1>2
    <2>2. 1 \in 1..lp
      <3> HIDE DEF lp
      <3> QED BY <1>1, <1>3
    <2> QED BY <2>1, <2>2
  <1>6. \A i \in 1..(lp - 1) : f[p][i] = IF i < 1 THEN q[p][i] ELSE q[p][i + 1]
    <2> TAKE i \in 1..(lp - 1)
    <2>1. ~(i < 1)
      BY <1>1
    <2> QED BY <1>1, <1>2, <2>1
  <1>7. InQueue(q, Head(q[p]).job)
    BY <1>1, <1>3, <1>5 DEF InQueue
  <1> HIDE DEF f
  <1>8. Loses(f, q, q[p][1].job)
    BY <1>1, <1>4, <1>5, <1>6, ShrinkLoses
  <1> QED BY <1>2, <1>3, <1>7, <1>8 DEF f

\* Taking a job out of the middle of a queue.
LEMMA CutOutLoses ==
    ASSUME NEW q \in Queues, NEW p \in Priority, NEW n \in DOMAIN q[p]
    PROVE  /\ Loses([q EXCEPT ![p] = SubSeq(@, 1, n - 1) \o SubSeq(@, n + 1, Len(@))],
                    q, q[p][n].job)
           /\ InQueue(q, q[p][n].job)
  <1> DEFINE a == SubSeq(q[p], 1, n - 1)
             b == SubSeq(q[p], n + 1, Len(q[p]))
             lp == Len(q[p])
             f == [q EXCEPT ![p] = a \o b]
  <1>1. /\ q[p] \in Seq(RegularJob) /\ lp \in Nat /\ DOMAIN q[p] = 1..lp
        /\ n \in 1..lp
        /\ \A s \in Priority \ {p} : f[s] = q[s]
        /\ f[p] = a \o b
    BY QueuePositions DEF Queues
  <1>2. n - 1 \in 0..lp /\ n \in 0..lp
    <2> HIDE DEF lp
    <2> QED BY <1>1
  <1>3. /\ a \in Seq(RegularJob) /\ Len(a) = n - 1
        /\ \A i \in 1..(n - 1) : a[i] = q[p][i]
    <2>1. a \in Seq(RegularJob) /\ Len(a) = n - 1
      BY <1>1, <1>2, CutLength
    <2>2. \A i \in 1..(n - 1) : a[i] = q[p][i]
      BY <1>1, <1>2, CutElements
    <2> QED BY <2>1, <2>2
  <1>4. /\ b \in Seq(RegularJob) /\ Len(b) = lp - n
        /\ \A i \in 1..(lp - n) : b[i] = q[p][i + n]
    <2>1. b \in Seq(RegularJob) /\ Len(b) = lp - n
      BY <1>1, <1>2, CutLength
    <2>2. \A i \in 1..(lp - n) : b[i] = q[p][i + n]
      BY <1>1, <1>2, CutElements
    <2> QED BY <2>1, <2>2
  <1> HIDE DEF a, b
  <1>5. /\ a \o b \in Seq(RegularJob) /\ Len(a \o b) = Len(a) + Len(b)
        /\ \A i \in 1..(Len(a) + Len(b)) : (a \o b)[i] = IF i <= Len(a) THEN a[i] ELSE b[i - Len(a)]
    BY <1>3, <1>4, ConcatProperties
  <1>6. f \in Queues
    BY <1>1, <1>5 DEF Queues
  <1>7. Len(f[p]) = lp - 1
    <2>1. Len(f[p]) = (n - 1) + (lp - n)
      BY <1>1, <1>3, <1>4, <1>5
    <2> HIDE DEF lp
    <2>2. (n - 1) + (lp - n) = lp - 1
      BY <1>1
    <2> QED BY <2>1, <2>2
  <1>8. \A i \in 1..(lp - 1) : f[p][i] = IF i < n THEN q[p][i] ELSE q[p][i + 1]
    <2> SUFFICES ASSUME NEW i \in 1..(lp - 1)
                 PROVE  f[p][i] = IF i < n THEN q[p][i] ELSE q[p][i + 1]
      OBVIOUS
    <2>1. f[p][i] = IF i <= n - 1 THEN a[i] ELSE b[i - (n - 1)]
      <3>1. 1..(lp - 1) = 1..((n - 1) + (lp - n))
        <4> HIDE DEF lp
        <4> QED BY <1>1
      <3> QED BY <1>1, <1>3, <1>4, <1>5, <3>1
    <2> HIDE DEF lp, f
    <2>2. CASE i < n
      <3>1. i \in 1..(n - 1) /\ i <= n - 1
        BY <1>1, <2>2
      <3> QED BY <1>3, <2>1, <2>2, <3>1
    <2>3. CASE ~(i < n)
      <3>1. i - (n - 1) \in 1..(lp - n) /\ ~(i <= n - 1) /\ (i - (n - 1)) + n = i + 1
        BY <1>1, <2>3
      <3>2. b[i - (n - 1)] = q[p][(i - (n - 1)) + n]
        BY <1>4, <3>1
      <3> QED BY <2>1, <2>3, <3>1, <3>2
    <2> QED BY <2>2, <2>3
  <1>9. InQueue(q, q[p][n].job)
    BY DEF InQueue
  <1> HIDE DEF f
  <1>10. Loses(f, q, q[p][n].job)
    BY <1>1, <1>6, <1>7, <1>8, ShrinkLoses
  <1> QED BY <1>9, <1>10 DEF f, a, b

\* A job that was not queued goes to the end of queue p.
LEMMA GrowGains ==
    ASSUME NEW q \in Queues, NEW p \in Priority, NEW r \in RegularJob, ~InQueue(q, r.job), Once(q)
    PROVE  /\ Once([q EXCEPT ![p] = Append(@, r)])
           /\ \A j : InQueue([q EXCEPT ![p] = Append(@, r)], j) <=> InQueue(q, j) \/ j = r.job
  <1> DEFINE lp == Len(q[p])
             f == [q EXCEPT ![p] = Append(@, r)]
  <1>1. /\ q[p] \in Seq(RegularJob) /\ lp \in Nat /\ DOMAIN q[p] = 1..lp
        /\ \A s \in Priority \ {p} : f[s] = q[s]
        /\ f[p] = Append(q[p], r)
    BY QueuePositions DEF Queues
  <1>2. /\ Append(q[p], r) \in Seq(RegularJob) /\ Len(Append(q[p], r)) = lp + 1
        /\ \A i \in 1..lp : Append(q[p], r)[i] = q[p][i]
        /\ Append(q[p], r)[lp + 1] = r
    BY <1>1, AppendProperties
  <1>3. DOMAIN f[p] = 1..(lp + 1)
    BY <1>1, <1>2, LenProperties
  <1>4. /\ 1..(lp + 1) = 1..lp \cup {lp + 1}
        /\ lp + 1 \notin 1..lp
    <2> HIDE DEF lp
    <2> QED BY <1>1
  <1>5. /\ \A s \in Priority : \A i \in DOMAIN q[s] : i \in DOMAIN f[s] /\ f[s][i] = q[s][i]
        /\ lp + 1 \in DOMAIN f[p] /\ f[p][lp + 1] = r
        /\ \A s \in Priority : \A i \in DOMAIN f[s] :
              i \in DOMAIN q[s] \/ (s = p /\ i = lp + 1)
    BY <1>1, <1>2, <1>3, <1>4
  <1> HIDE DEF f, lp
  <1>6. Once(f)
    BY <1>5 DEF Once, InQueue
  <1>7. \A j : InQueue(f, j) <=> InQueue(q, j) \/ j = r.job
    BY <1>5 DEF InQueue
  <1> QED BY <1>6, <1>7 DEF f

\* Time passes without moving a job.
LEMMA TickKeeps == TypeOK /\ Tick => Keeps(jobQ', jobQ)
  <1> SUFFICES ASSUME TypeOK, Tick PROVE Keeps(jobQ', jobQ)
    OBVIOUS
  <1>1. jobQ \in Queues
    BY QueueType DEF Queues
  <1>2. \A p \in Priority : /\ DOMAIN jobQ'[p] = DOMAIN jobQ[p]
                            /\ \A i \in DOMAIN jobQ[p] : jobQ'[p][i].job = jobQ[p][i].job
    <2> SUFFICES ASSUME NEW p \in Priority
                 PROVE  /\ DOMAIN jobQ'[p] = DOMAIN jobQ[p]
                        /\ \A i \in DOMAIN jobQ[p] : jobQ'[p][i].job = jobQ[p][i].job
      OBVIOUS
    <2>1. jobQ'[p] = [i \in DOMAIN jobQ[p] |->
                  [jobQ[p][i] EXCEPT !.age = IF @ < scenario.age THEN @ + 1 ELSE @]]
      BY DEF Tick
    <2>2. \A i \in DOMAIN jobQ[p] : jobQ[p][i] \in RegularJob
      BY <1>1, QueuePositions, ElementOfSeq
    <2>3. ASSUME NEW r \in RegularJob, NEW a PROVE [r EXCEPT !.age = a].job = r.job
      BY DEF RegularJob, ThreadPoolJob
    <2> QED BY <2>1, <2>2, <2>3
  <1> QED BY <1>2 DEF Keeps, Once, InQueue

-----------------------------------------------------------------------------
(* Steps and the places of the jobs *)

\* What is known of the jobs and of the submissions.
Known == PlacesApart /\ JobsKnown /\ CallsKnown

\* A step of worker w, which drops its job and may take job j from a queue or
\* from persistentJob.
LEMMA WorkerPlaces ==
    ASSUME TypeOK, PlacesApart, NEW w \in Worker, NEW pc, NEW j \in Job \cup {NoJob},
           wpc' = [wpc EXCEPT ![w] = pc], wjob' = [wjob EXCEPT ![w] = j],
           pc = "run" <=> j # NoJob,
           Once(jobQ'),
           \A x \in Job : x # j => ((Queued(x)' \/ Held(x)') <=> (Queued(x) \/ Held(x))),
           j # NoJob => Queued(j) \/ Held(j),
           j # NoJob => ~Queued(j)' /\ ~Held(j)'
    PROVE  /\ PlacesApart'
           /\ \A x \in Job : Somewhere(x)' <=> Somewhere(x) /\ x \notin {wjob[w]}
  <1>1. /\ wjob \in [Worker -> Job \cup {NoJob}] /\ NoJob \notin Job
        /\ \A v \in Worker : v # w => wjob'[v] = wjob[v] /\ wpc'[v] = wpc[v]
        /\ wjob'[w] = j /\ wpc'[w] = pc
    BY ConstantsAssumption DEF TypeOK
  <1>2. j # NoJob => \A v \in Worker : wjob[v] # j
    BY DEF PlacesApart, RunBy
  <1>3. \A x, y \in Worker : wjob'[x] = wjob'[y] /\ wjob'[x] # NoJob => x = y
    BY <1>1, <1>2 DEF PlacesApart
  <1>4. ASSUME NEW x \in Job
        PROVE  /\ RunBy(x)' <=> x = j \/ (RunBy(x) /\ x # wjob[w])
               /\ RunBy(x)' => ~Queued(x)' /\ ~Held(x)'
    <2>1. RunBy(x)' <=> x = j \/ (\E v \in Worker : v # w /\ wjob[v] = x)
      BY <1>1 DEF RunBy
    <2>2. (\E v \in Worker : v # w /\ wjob[v] = x) <=> RunBy(x) /\ x # wjob[w]
      BY <1>1 DEF RunBy, PlacesApart
    <2>3. RunBy(x) => ~Queued(x) /\ ~Held(x)
      BY DEF PlacesApart
    <2> QED BY <1>1, <2>1, <2>2, <2>3
  <1>5. \A v \in Worker : wpc'[v] = "run" <=> wjob'[v] # NoJob
    BY <1>1 DEF PlacesApart
  <1>6. PlacesApart'
    BY <1>3, <1>4, <1>5 DEF PlacesApart
  <1>7. \A x \in Job : Somewhere(x)' <=> Somewhere(x) /\ x \notin {wjob[w]}
    <2> SUFFICES ASSUME NEW x \in Job
                 PROVE  Somewhere(x)' <=> Somewhere(x) /\ x # wjob[w]
      OBVIOUS
    <2>1. CASE x = j
      <3>1. x # wjob[w]
        BY <1>1, <1>2, <2>1
      <3> QED BY <1>1, <1>4, <2>1, <3>1 DEF Somewhere
    <2>2. CASE x # j
      <3>1. x = wjob[w] => ~Queued(x) /\ ~Held(x)
        BY DEF PlacesApart, RunBy
      <3> QED BY <1>4, <2>2, <3>1 DEF Somewhere
    <2> QED BY <2>1, <2>2
  <1> QED BY <1>6, <1>7

\* A step that leaves the jobs of the workers alone.
LEMMA OtherPlaces ==
    ASSUME PlacesApart, UNCHANGED wjob,
           \A w \in Worker : wpc'[w] = "run" <=> wpc[w] = "run",
           Once(jobQ'),
           \A x \in Job : (Queued(x)' \/ Held(x)') /\ RunBy(x) => Queued(x) \/ Held(x)
    PROVE  PlacesApart'
  BY DEF PlacesApart, RunBy

\* A step in which the jobs L leave the pool, each with its end noted, and
\* which submits none.
LEMMA JobsLeave ==
    ASSUME JobsKnown, CallsKnown, NEW L, UNCHANGED told,
           \A j \in Job : Somewhere(j)' <=> Somewhere(j) /\ j \notin L,
           \A j \in Job : j \in L => Somewhere(j) /\ ended'[j] # "no",
           \A j \in Job : j \notin L => ended'[j] = ended[j],
           \A t \in Thread : (call'[t] = call[t] /\ cpc'[t] = cpc[t]) \/ (Idle(t) /\ Idle(t)')
    PROVE  JobsKnown' /\ CallsKnown'
  <1>1. \A t \in Thread : call'[t].job = call[t].job
    BY DEF Idle
  <1>2. JobsKnown'
    <2> SUFFICES ASSUME NEW j \in Job
                 PROVE  /\ ended'[j] # "no" \/ told'[j] = "err" => ~Somewhere(j)'
                        /\ j \notin PersistentJob /\ told'[j] = "ok" /\ ended'[j] = "no"
                             => Somewhere(j)'
                        /\ told'[j] = "new" /\ (\A t \in Thread : call'[t].job # j) =>
                             ended'[j] = "no" /\ ~Somewhere(j)'
      BY DEF JobsKnown
    <2>1. /\ ended[j] # "no" \/ told[j] = "err" => ~Somewhere(j)
          /\ j \notin PersistentJob /\ told[j] = "ok" /\ ended[j] = "no" => Somewhere(j)
          /\ told[j] = "new" /\ (\A t \in Thread : call[t].job # j) =>
               ended[j] = "no" /\ ~Somewhere(j)
      BY DEF JobsKnown
    <2> QED BY <1>1, <2>1
  <1>3. ASSUME NEW t \in Thread PROVE Idle(t)' \/ Submits(t)'
    <2>1. CASE Idle(t)
      BY <2>1 DEF Idle
    <2>2. CASE Submits(t) /\ call'[t] = call[t] /\ cpc'[t] = cpc[t]
      <3>1. PICK j \in Job : Submission(t, j)
        BY <2>2 DEF Submits
      <3>2. Submission(t, j)'
        BY <2>2, <3>1 DEF Submission
      <3> QED BY <3>2 DEF Submits
    <2> QED BY <2>1, <2>2 DEF CallsKnown
  <1>4. \A t, u \in Thread : call'[t].job = call'[u].job /\ call'[t].job # NoJob => t = u
    BY <1>1 DEF CallsKnown
  <1> QED BY <1>2, <1>3, <1>4 DEF CallsKnown

\* A critical section of a call leaves running workers running.
LEMMA PartRuns ==
    ASSUME TypeOK, NEW t, NEW c, NEW a, CallPart(t, c, a)
    PROVE  \A w \in Worker : wpc'[w] = "run" <=> wpc[w] = "run"
  <1>1. wpc \in [Worker -> WorkerPc]
    BY DEF TypeOK, WorkerPc
  <1>2. \/ wpc' = wpc
        \/ wpc' \in Signalled(wpc)
        \/ \E w \in Worker : wpc[w] = "none" /\ wpc' = [wpc EXCEPT ![w] = "created"]
    BY DEF CallPart, Waits, Starts, FinishAdd, SchedulePersistent, FinishAttr
  <1> QED BY <1>1, <1>2 DEF Signalled

\* A critical section of a submission of job j, or of a call without a job:
\* j is in the pool exactly if it was queued and has not ended.
LEMMA PartKnown ==
    ASSUME TypeOK, Known, NEW t \in Thread, NEW c, NEW a, CallRecord(c), CallPart(t, c, a),
           UNCHANGED <<wjob, ended>>, Once(jobQ'),
           NEW j \in Job \cup {NoJob}, c.job = j, call[t].job \in {NoJob, j},
           \A x \in Job : x # j => (Queued(x)' <=> Queued(x)),
           j # NoJob <=> c.op \in {"add", "pers"},
           c.op = "add" => j \notin PersistentJob,
           j \in Job =>
             /\ told[j] = "new"
             /\ \A u \in Thread : u # t => call[u].job # j
             /\ Queued(j)' \/ RunBy(j) \/ Held(j) <=> ended[j] = "no" /\ c.op = "add" /\ c.ok
             /\ ~(c.op = "add" /\ c.ok) => ended[j] = "no"
             /\ Queued(j)' /\ RunBy(j) => Queued(j)
    PROVE  Known'
  <1>1. /\ cpc \in [Thread -> CallPc] /\ call \in [Thread -> CallType]
        /\ told \in [Job -> {"new", "ok", "err"}] /\ NoJob \notin Job
        /\ persistentJob \in ThreadPoolJob(PersistentJob) \cup {NullJob}
        /\ NoCall.job = NoJob /\ NoCall.op = "none"
        /\ \A x : CreateThreadPoolJob(x).job = x
    BY ConstantsAssumption, TypeParts DEF CallTypes, NoCall, CreateThreadPoolJob
  <1>2. /\ c.op = "pers" => j \in PersistentJob
        /\ \A x \in Job : Held(x) => x \in PersistentJob
        /\ PersistentJob \subseteq Job
    BY <1>1, ConstantsAssumption DEF CallRecord, Held, ThreadPoolJob, NullJob
  <1>3. PICK pc, c2 :
          /\ cpc' = [cpc EXCEPT ![t] = pc] /\ call' = [call EXCEPT ![t] = c2]
          /\ \/ /\ pc \in {"create", "start"} /\ c2 = c
                /\ UNCHANGED <<told, persistentJob>>
             \/ /\ c2 = NoCall /\ c.op = "add" /\ UNCHANGED persistentJob
                /\ told' = [told EXCEPT ![j] = IF c.ok THEN "ok" ELSE "err"]
             \/ /\ c2 = NoCall /\ c.op = "pers" /\ UNCHANGED persistentJob
                /\ told' = [told EXCEPT ![j] = "err"]
             \/ /\ pc = "pers" /\ c2 = c /\ c.op = "pers" /\ UNCHANGED told
                /\ persistentJob' = CreateThreadPoolJob(j)
             \/ /\ c2 \in {NoCall, c} /\ c.op \in {"init", "setattr"}
                /\ UNCHANGED <<told, persistentJob>>
    <2>1. CASE Waits(t, c) \/ Starts(t, c)
      <3>1. PICK pc \in {"create", "start"} : Sleep(t, pc, c)
        BY <2>1 DEF Waits, Starts
      <3>2. UNCHANGED <<told, persistentJob>>
        BY <2>1 DEF Waits, Starts
      <3> QED BY <3>1, <3>2 DEF Sleep
    <2>2. CASE FinishAdd(t, c)
      BY <2>2 DEF FinishAdd, Return
    <2>3. CASE SchedulePersistent(t, c)
      BY <2>3 DEF SchedulePersistent, Return, Sleep
    <2>4. CASE FinishAttr(t, c, TRUE)
      BY <2>4 DEF FinishAttr, Return
    <2>5. CASE FinishAttr(t, c, FALSE)
      BY <2>5 DEF FinishAttr
    <2> QED BY <2>1, <2>2, <2>3, <2>4, <2>5 DEF CallPart
  <1>4. /\ \A u \in Thread \ {t} : cpc'[u] = cpc[u] /\ call'[u] = call[u]
        /\ cpc'[t] = pc /\ call'[t] = c2
        /\ \A x \in Job : x # j => told'[x] = told[x]
        /\ \A x : RunBy(x)' <=> RunBy(x)
        /\ \A x \in Job : ended'[x] = ended[x]
    BY <1>1, <1>3 DEF RunBy
  <1>5. ASSUME NEW x \in Job, x # j
        PROVE  /\ Held(x)' => Held(x)
               /\ Somewhere(x)' => Somewhere(x)
               /\ x \notin PersistentJob => (Somewhere(x)' <=> Somewhere(x))
    <2>1. persistentJob' = persistentJob \/ (persistentJob'.job = j /\ j \in PersistentJob)
      BY <1>1, <1>2, <1>3
    <2>2. Held(x)' => Held(x)
      BY <1>5, <2>1 DEF Held
    <2>3. x \notin PersistentJob => ~Held(x)
      BY <1>2
    <2> QED BY <1>4, <1>5, <2>2, <2>3 DEF Somewhere
  <1>6. PlacesApart'
    <2>1. \A w \in Worker : wpc'[w] = "run" <=> wpc[w] = "run"
      BY PartRuns
    <2>2. ASSUME NEW x \in Job, Queued(x)' \/ Held(x)', RunBy(x) PROVE Queued(x) \/ Held(x)
      <3>1. CASE x # j
        BY <1>5, <2>2, <3>1
      <3>2. CASE x = j
        <4>1. CASE Queued(j)'
          BY <2>2, <3>2, <4>1
        <4>2. CASE Held(j)'
          <5>1. c.op = "pers" \/ persistentJob' = persistentJob
            BY <1>3
          <5>2. c.op = "pers" => ~RunBy(j)
            BY <3>2
          <5> QED BY <2>2, <3>2, <4>2, <5>1, <5>2 DEF Held
        <4> QED BY <2>2, <3>2, <4>1, <4>2
      <3> QED BY <3>1, <3>2
    <2> QED BY <2>1, <2>2, OtherPlaces DEF Known
  <1>7. JobsKnown'
    <2> SUFFICES ASSUME NEW x \in Job
                 PROVE  /\ ended'[x] # "no" \/ told'[x] = "err" => ~Somewhere(x)'
                        /\ x \notin PersistentJob /\ told'[x] = "ok" /\ ended'[x] = "no"
                             => Somewhere(x)'
                        /\ told'[x] = "new" /\ (\A u \in Thread : call'[u].job # x) =>
                             ended'[x] = "no" /\ ~Somewhere(x)'
      BY DEF JobsKnown
    <2>1. CASE x # j
      <3>1. (\A u \in Thread : call'[u].job # x) => (\A u \in Thread : call[u].job # x)
        BY <1>1, <1>3, <1>4, <2>1
      <3>2. /\ ended[x] # "no" \/ told[x] = "err" => ~Somewhere(x)
            /\ x \notin PersistentJob /\ told[x] = "ok" /\ ended[x] = "no" => Somewhere(x)
            /\ told[x] = "new" /\ (\A u \in Thread : call[u].job # x) =>
                 ended[x] = "no" /\ ~Somewhere(x)
        BY DEF Known, JobsKnown
      <3> QED BY <1>4, <1>5, <2>1, <3>1, <3>2
    <2>2. CASE x = j
      <3>1. /\ j \in Job /\ c.op \in {"add", "pers"} /\ ended'[j] = ended[j] /\ told[j] = "new"
            /\ Queued(j)' \/ RunBy(j) \/ Held(j) <=> ended[j] = "no" /\ c.op = "add" /\ c.ok
            /\ ~(c.op = "add" /\ c.ok) => ended[j] = "no"
        BY <1>1, <1>4, <2>2
      <3>2. CASE UNCHANGED persistentJob
        <4>1. Somewhere(j)' <=> ended[j] = "no" /\ c.op = "add" /\ c.ok
          BY <1>4, <3>1, <3>2 DEF Somewhere, Held
        <4>2. told'[j] = "new" => call'[t].job = j
          BY <1>1, <1>3, <1>4, <3>1
        <4>3. /\ told'[j] = "ok" => c.op = "add" /\ c.ok
              /\ told'[j] = "err" => ~(c.op = "add" /\ c.ok)
          BY <1>1, <1>3, <3>1
        <4> QED BY <2>2, <3>1, <4>1, <4>2, <4>3
      <3>3. CASE persistentJob' # persistentJob
        <4>1. c.op = "pers" /\ told' = told /\ call'[t].job = j
          BY <1>3, <1>4, <3>3
        <4> QED BY <2>2, <3>1, <4>1
      <3> QED BY <3>2, <3>3
    <2> QED BY <2>1, <2>2
  <1>8. ASSUME NEW u \in Thread PROVE Idle(u)' \/ Submits(u)'
    <2>1. CASE u # t
      <3>1. cpc'[u] = cpc[u] /\ call'[u] = call[u]
        BY <1>4, <2>1
      <3>2. CASE Idle(u)
        BY <3>1, <3>2 DEF Idle
      <3>3. CASE Submits(u)
        <4>1. PICK x \in Job : Submission(u, x)
          BY <3>3 DEF Submits
        <4>2. x # j
          BY <2>1, <4>1 DEF Submission
        <4>3. /\ told'[x] = told[x] /\ ended'[x] = ended[x]
              /\ Somewhere(x)' => Somewhere(x)
              /\ x \notin PersistentJob => (Somewhere(x)' <=> Somewhere(x))
          BY <1>4, <1>5, <4>2
        <4>4. Submission(u, x)'
          BY <3>1, <4>1, <4>3 DEF Submission
        <4> QED BY <4>4 DEF Submits
      <3> QED BY <3>2, <3>3 DEF Known, CallsKnown
    <2>2. CASE u = t /\ c2 = NoCall
      BY <1>1, <1>4, <2>2 DEF Idle
    <2>3. CASE u = t /\ j = NoJob /\ c2 = c
      BY <1>4, <2>3 DEF Idle
    <2>4. CASE u = t /\ j # NoJob /\ c2 = c
      <3>1. /\ j \in Job /\ c.op \in {"add", "pers"} /\ ended'[j] = ended[j] /\ told[j] = "new"
            /\ Queued(j)' \/ RunBy(j) \/ Held(j) <=> ended[j] = "no" /\ c.op = "add" /\ c.ok
            /\ ~(c.op = "add" /\ c.ok) => ended[j] = "no"
            /\ NoCall.job # j
        BY <1>1, <1>4, <2>4
      <3>2. told'[j] = "new" /\ call'[t] = c
        BY <1>1, <1>3, <1>4, <2>4, <3>1
      <3>3. CASE pc \in {"create", "start"} /\ UNCHANGED persistentJob
        <4>1. Somewhere(j)' <=> ended[j] = "no" /\ c.op = "add" /\ c.ok
          BY <1>4, <3>1, <3>3 DEF Somewhere, Held
        <4>2. Submission(t, j)'
          BY <1>4, <3>1, <3>2, <3>3, <4>1 DEF Submission
        <4> QED BY <2>4, <3>1, <4>2 DEF Submits
      <3>4. CASE pc = "pers" /\ c.op = "pers"
        <4>1. Submission(t, j)'
          BY <1>4, <3>1, <3>2, <3>4 DEF Submission
        <4> QED BY <2>4, <3>1, <4>1 DEF Submits
      <3> QED BY <1>1, <1>3, <2>4, <3>1, <3>3, <3>4
    <2> QED BY <1>3, <2>1, <2>2, <2>3, <2>4
  <1>9. \A u, v \in Thread : call'[u].job = call'[v].job /\ call'[u].job # NoJob => u = v
    <2>1. call'[t].job \in {NoJob, j}
      BY <1>1, <1>3, <1>4
    <2>2. \A u, v \in Thread : u # t /\ v # t /\ call'[u].job = call'[v].job /\ call'[u].job # NoJob
            => u = v
      BY <1>4 DEF Known, CallsKnown
    <2>3. \A u \in Thread : u # t /\ call'[t].job # NoJob => call'[u].job # call'[t].job
      BY <1>4, <2>1
    <2> QED BY <2>2, <2>3
  <1> QED BY <1>6, <1>7, <1>8, <1>9 DEF Known, CallsKnown

\* The steps of workers.
LEMMA WorkerKnown ==
    ASSUME TypeOK, Known, NEW w \in Worker, WorkerStart(w) \/ WorkerStep(w) \/ WaitReturns(w)
    PROVE  Known'
  <1>1. /\ UNCHANGED <<cpc, call, told>>
        /\ wjob \in [Worker -> Job \cup {NoJob}] /\ wpc \in [Worker -> WorkerPc]
        /\ ended \in [Job -> {"no", "ran", "removed", "freed"}]
        /\ NoJob \notin Job /\ jobQ \in Queues /\ Once(jobQ)
    <2>1. UNCHANGED <<cpc, call, told>>
      BY DEF WorkerStart, WorkerStep, WaitReturns, WorkerWait, WorkerRetire, WorkerStop,
             WorkerExit, WorkerTakePersistent, WorkerTake, Run, callVars, jobVars
    <2> QED BY <2>1, ConstantsAssumption, QueueType
            DEF TypeOK, WorkerPc, Queues, Known, PlacesApart
  <1>2. CASE WorkerStart(w) \/ WaitReturns(w)
    <2>1. /\ UNCHANGED <<wjob, jobQ, persistentJob, ended>>
          /\ \A v \in Worker : wpc'[v] = "run" <=> wpc[v] = "run"
      BY <1>1, <1>2 DEF WorkerStart, WaitReturns, poolVars, jobVars
    <2>2. \A x \in Job : /\ Queued(x)' <=> Queued(x)
                         /\ Held(x)' <=> Held(x)
                         /\ Somewhere(x)' <=> Somewhere(x)
      BY <2>1 DEF Queued, Held, Somewhere, RunBy
    <2>3. PlacesApart'
      BY <1>1, <2>1, <2>2, OtherPlaces DEF Known
    <2>4. JobsKnown' /\ CallsKnown'
      <3>1. PICK L : L = {}
        OBVIOUS
      <3> QED BY <1>1, <2>1, <2>2, <3>1, JobsLeave DEF Known
    <2> QED BY <2>3, <2>4 DEF Known
  <1>3. ASSUME NEW pc, NEW j \in Job \cup {NoJob},
               wpc' = [wpc EXCEPT ![w] = pc], wjob' = [wjob EXCEPT ![w] = j],
               pc = "run" <=> j # NoJob,
               Once(jobQ'),
               \A x \in Job : x # j => ((Queued(x)' \/ Held(x)') <=> (Queued(x) \/ Held(x))),
               j # NoJob => Queued(j) \/ Held(j),
               j # NoJob => ~Queued(j)' /\ ~Held(j)',
               JobReturned(w)
        PROVE  Known'
    <2>1. /\ PlacesApart'
          /\ \A x \in Job : Somewhere(x)' <=> Somewhere(x) /\ x \notin {wjob[w]}
      BY <1>3, WorkerPlaces DEF Known
    <2>2. /\ \A x \in Job : x \in {wjob[w]} => Somewhere(x) /\ ended'[x] # "no"
          /\ \A x \in Job : x \notin {wjob[w]} => ended'[x] = ended[x]
      <3>1. wpc[w] = "run" <=> wjob[w] # NoJob
        BY DEF Known, PlacesApart
      <3> QED BY <1>1, <1>3, <3>1 DEF JobReturned, Somewhere, RunBy
    <2>3. JobsKnown' /\ CallsKnown'
      BY <1>1, <2>1, <2>2, JobsLeave DEF Known
    <2> QED BY <2>1, <2>3 DEF Known
  <1>4. Keeps(BumpPriority, jobQ) /\ BumpPriority \in Queues
    BY BumpKeeps
  <1>5. Once(BumpPriority) /\ \A x : InQueue(BumpPriority, x) <=> Queued(x)
    BY <1>1, <1>4 DEF Keeps, Queued
  <1>6. CASE WorkerWait(w) \/ WorkerRetire(w) \/ WorkerStop(w)
    <2>1. PICK pc \in {"wait", "none"} : wpc' = [wpc EXCEPT ![w] = pc]
      BY <1>6 DEF WorkerWait, WorkerRetire, WorkerStop, WorkerExit
    <2>2. /\ wjob' = [wjob EXCEPT ![w] = NoJob] /\ JobReturned(w) /\ UNCHANGED persistentJob
          /\ jobQ' = jobQ \/ jobQ' = BumpPriority
      BY <1>6 DEF WorkerWait, WorkerRetire, WorkerStop, WorkerExit
    <2>3. Once(jobQ') /\ \A x \in Job : (Queued(x)' \/ Held(x)') <=> (Queued(x) \/ Held(x))
      BY <1>1, <1>5, <2>2 DEF Queued, Held
    <2> QED BY <1>3, <2>1, <2>2, <2>3
  <1>7. CASE WorkerTakePersistent(w)
    <2> DEFINE j == persistentJob.job
    <2>1. /\ wjob' = [wjob EXCEPT ![w] = j] /\ JobReturned(w)
          /\ wpc' = [wpc EXCEPT ![w] = "run"] /\ persistentJob # NullJob
          /\ jobQ' = BumpPriority /\ persistentJob' = NullJob
      BY <1>7 DEF WorkerTakePersistent, Run
    <2>2. j \in PersistentJob /\ j \in Job /\ j # NoJob /\ NullJob.job = NoJob
      BY <1>1, <2>1, ConstantsAssumption DEF TypeOK, ThreadPoolJob, NullJob
    <2>3. PICK x : x = j
      OBVIOUS
    <2>4. Held(x) /\ ~Queued(x)
      <3>1. \A p \in Priority : \A i \in DOMAIN jobQ[p] : jobQ[p][i].job \notin PersistentJob
        <4> SUFFICES ASSUME NEW p \in Priority, NEW i \in DOMAIN jobQ[p]
                     PROVE  jobQ[p][i].job \notin PersistentJob
          OBVIOUS
        <4>1. jobQ[p][i] \in RegularJob
          BY <1>1, QueuePositions, ElementOfSeq
        <4> QED BY <4>1 DEF RegularJob, ThreadPoolJob
      <3> QED BY <2>2, <2>3, <3>1 DEF Held, Queued, InQueue
    <2>5. /\ \A y : Queued(y)' <=> Queued(y)
          /\ Once(jobQ')
          /\ \A y \in Job : ~Held(y)'
          /\ \A y : y # x => ~Held(y)
      BY <1>1, <1>5, <2>1, <2>2, <2>3 DEF Queued, Held
    <2>6. PICK pc : pc = "run"
      OBVIOUS
    <2>7. /\ wpc' = [wpc EXCEPT ![w] = pc] /\ wjob' = [wjob EXCEPT ![w] = x]
          /\ x \in Job \cup {NoJob} /\ x # NoJob /\ x \in Job
      BY <2>1, <2>2, <2>3, <2>6
    <2> QED BY <1>3, <2>1, <2>4, <2>5, <2>6, <2>7
  <1>8. CASE WorkerTake(w)
    <2> DEFINE q == BumpPriority
               p == Highest(q)
               j == Head(q[p]).job
    <2>1. /\ wjob' = [wjob EXCEPT ![w] = j] /\ JobReturned(w) /\ q[p] # <<>>
          /\ wpc' = [wpc EXCEPT ![w] = "run"] /\ UNCHANGED persistentJob
          /\ jobQ' = [q EXCEPT ![p] = Tail(@)]
      BY <1>8 DEF WorkerTake, Run
    <2>2. p \in Priority /\ q \in Queues
      BY <1>4 DEF Highest, Priority
    <2>3. Loses(jobQ', q, j) /\ InQueue(q, j) /\ Head(q[p]) \in RegularJob
      <3> HIDE DEF q, p
      <3> QED BY <2>1, <2>2, TakeLoses
    <2>4. PICK x : x = j
      OBVIOUS
    <2>5. x \in Job \ PersistentJob /\ x # NoJob
      BY <1>1, <2>3, <2>4 DEF RegularJob, ThreadPoolJob
    <2>6. /\ Once(jobQ') /\ \A y : Queued(y)' <=> Queued(y) /\ y # x
          /\ Queued(x)
      BY <1>5, <2>3, <2>4 DEF Loses, Queued
    <2>7. ~Held(x) /\ \A y : Held(y)' <=> Held(y)
      BY <1>1, <2>1, <2>5 DEF Held, TypeOK, ThreadPoolJob, NullJob
    <2>8. PICK pc : pc = "run"
      OBVIOUS
    <2>9. wpc' = [wpc EXCEPT ![w] = pc] /\ wjob' = [wjob EXCEPT ![w] = x]
      BY <2>1, <2>4, <2>8
    <2> QED BY <1>3, <2>1, <2>5, <2>6, <2>7, <2>8, <2>9
  <1> QED BY <1>2, <1>6, <1>7, <1>8 DEF WorkerStep

\* Steps that touch neither the submissions nor the queues of the pool, or only
\* the ages in them.
LEMMA QuietKnown ==
    ASSUME TypeOK, Known, UNCHANGED <<persistentJob, wpc, wjob, told, ended>>, Keeps(jobQ', jobQ),
           \A t \in Thread : (call'[t] = call[t] /\ cpc'[t] = cpc[t]) \/ (Idle(t) /\ Idle(t)')
    PROVE  Known'
  <1>1. \A x \in Job : /\ Queued(x)' <=> Queued(x)
                       /\ Held(x)' <=> Held(x)
                       /\ Somewhere(x)' <=> Somewhere(x)
    BY DEF Queued, Held, Somewhere, RunBy, Keeps
  <1>2. PlacesApart'
    <2>1. Once(jobQ')
      BY DEF Keeps, Known, PlacesApart
    <2> QED BY <1>1, <2>1, OtherPlaces DEF Known
  <1>3. PICK L : L = {}
    OBVIOUS
  <1>4. JobsKnown' /\ CallsKnown'
    BY <1>1, <1>3, JobsLeave DEF Known
  <1> QED BY <1>2, <1>4 DEF Known

\* A thread that is not inside ThreadPoolAdd() or ThreadPoolAddPersistent() has
\* no job in its call.
LEMMA OutIdle ==
    ASSUME CallsKnown, NEW t \in Thread, cpc[t] \in {"out", "get", "shut", "term"}
    PROVE  Idle(t)
  BY DEF CallsKnown, Submits, Submission

\* A call that has returned has no job.
LEMMA ReturnIdle ==
    ASSUME TypeOK, NEW t \in Thread, NEW pc, NEW c, c.job = NoJob, c.op \notin {"add", "pers"},
           cpc' = [cpc EXCEPT ![t] = pc], call' = [call EXCEPT ![t] = c]
    PROVE  Idle(t)' /\ \A u \in Thread : u # t => call'[u] = call[u] /\ cpc'[u] = cpc[u]
  BY DEF Idle, TypeOK

\* A job that is refused was nowhere; one that is submitted anew has ended or
\* was refused.
LEMMA JobKnown ==
    ASSUME TypeOK, Known, NEW j \in Job, (SubmissionFails(j) /\ Fresh(j)) \/ Recycle(j)
    PROVE  Known'
  <1>1. /\ UNCHANGED <<jobQ, persistentJob, wpc, wjob, cpc, call>>
        /\ told \in [Job -> {"new", "ok", "err"}]
        /\ ended \in [Job -> {"no", "ran", "removed", "freed"}]
    BY DEF SubmissionFails, Recycle, poolVars, workVars, callVars, TypeOK
  <1>2. \A x \in Job : /\ Queued(x)' <=> Queued(x)
                       /\ Held(x)' <=> Held(x)
                       /\ Somewhere(x)' <=> Somewhere(x)
    BY <1>1 DEF Queued, Held, Somewhere, RunBy
  <1>3. PlacesApart'
    <2>1. Once(jobQ')
      BY <1>1 DEF Known, PlacesApart
    <2> QED BY <1>1, <1>2, <2>1, OtherPlaces DEF Known
  <1>4. \A x \in Job : x # j => told'[x] = told[x] /\ ended'[x] = ended[x]
    BY <1>1 DEF SubmissionFails, Recycle
  <1>5. \A t \in Thread : call[t].job # j
    <2>1. CASE Fresh(j)
      BY <2>1 DEF Fresh
    <2>2. CASE told[j] # "new"
      <3>1. NoJob # j
        BY ConstantsAssumption
      <3> QED BY <2>2, <3>1 DEF Known, CallsKnown, Idle, Submits, Submission
    <2> QED BY <2>1, <2>2 DEF Recycle
  <1>6. /\ ~Somewhere(j) /\ ended'[j] = "no"
        /\ told'[j] \in {"err", "new"}
    <2>1. CASE SubmissionFails(j) /\ Fresh(j)
      <3>1. ~Somewhere(j) /\ ended[j] = "no"
        BY <2>1 DEF Known, JobsKnown, Fresh
      <3> QED BY <1>1, <2>1, <3>1 DEF SubmissionFails
    <2>2. CASE Recycle(j)
      <3>1. ~Somewhere(j)
        BY <2>2 DEF Known, JobsKnown, Recycle
      <3> QED BY <1>1, <2>2, <3>1 DEF Recycle
    <2> QED BY <2>1, <2>2
  <1>7. JobsKnown'
    <2> SUFFICES ASSUME NEW x \in Job
                 PROVE  /\ ended'[x] # "no" \/ told'[x] = "err" => ~Somewhere(x)'
                        /\ x \notin PersistentJob /\ told'[x] = "ok" /\ ended'[x] = "no"
                             => Somewhere(x)'
                        /\ told'[x] = "new" /\ (\A u \in Thread : call'[u].job # x) =>
                             ended'[x] = "no" /\ ~Somewhere(x)'
      BY DEF JobsKnown
    <2>1. CASE x = j
      BY <1>2, <1>6, <2>1
    <2>2. CASE x # j
      <3>1. /\ ended[x] # "no" \/ told[x] = "err" => ~Somewhere(x)
            /\ x \notin PersistentJob /\ told[x] = "ok" /\ ended[x] = "no" => Somewhere(x)
            /\ told[x] = "new" /\ (\A u \in Thread : call[u].job # x) =>
                 ended[x] = "no" /\ ~Somewhere(x)
        BY DEF Known, JobsKnown
      <3> QED BY <1>1, <1>2, <1>4, <2>2, <3>1
    <2> QED BY <2>1, <2>2
  <1>8. ASSUME NEW t \in Thread PROVE Idle(t)' \/ Submits(t)'
    <2>1. CASE Idle(t)
      BY <1>1, <2>1 DEF Idle
    <2>2. CASE Submits(t)
      <3>1. PICK x \in Job : Submission(t, x)
        BY <2>2 DEF Submits
      <3>2. x # j
        BY <1>5, <3>1 DEF Submission
      <3>3. Submission(t, x)'
        BY <1>1, <1>2, <1>4, <3>1, <3>2 DEF Submission
      <3> QED BY <3>3 DEF Submits
    <2> QED BY <2>1, <2>2 DEF Known, CallsKnown
  <1>9. \A t, u \in Thread : call'[t].job = call'[u].job /\ call'[t].job # NoJob => t = u
    BY <1>1 DEF Known, CallsKnown
  <1> QED BY <1>3, <1>7, <1>8, <1>9 DEF Known, CallsKnown

\* ThreadPoolRemove() and ThreadPoolShutdown() note the end of what they take out.
LEMMA TakenOutKnown ==
    ASSUME TypeOK, Known, NEW t \in Thread,
           (\E j \in Job : ThreadPoolRemove(t, j)) \/ ThreadPoolShutdown(t)
    PROVE  Known'
  <1>1. /\ UNCHANGED <<wjob, told>> /\ jobQ \in Queues /\ Once(jobQ) /\ NoJob \notin Job
        /\ ended \in [Job -> {"no", "ran", "removed", "freed"}]
        /\ NullJob.job = NoJob
        /\ \A p \in Priority : \A i \in DOMAIN jobQ[p] : jobQ[p][i].job \in Job \ PersistentJob
        /\ PersistentJob \subseteq Job
        /\ persistentJob # NullJob => persistentJob.job \in PersistentJob
        /\ persistentJob.job \notin Job \ PersistentJob
    <2>1. UNCHANGED <<wjob, told>>
      BY DEF ThreadPoolRemove, ThreadPoolShutdown, workVars
    <2>2. jobQ \in Queues /\ Once(jobQ)
      BY QueueType DEF Queues, Known, PlacesApart
    <2>3. \A p \in Priority : \A i \in DOMAIN jobQ[p] : jobQ[p][i].job \in Job \ PersistentJob
      <3> SUFFICES ASSUME NEW p \in Priority, NEW i \in DOMAIN jobQ[p]
                   PROVE  jobQ[p][i].job \in Job \ PersistentJob
        OBVIOUS
      <3>1. jobQ[p][i] \in RegularJob
        BY <2>2, QueuePositions, ElementOfSeq
      <3> QED BY <3>1 DEF RegularJob, ThreadPoolJob
    <2> QED BY <2>1, <2>2, <2>3, ConstantsAssumption DEF TypeOK, NullJob, ThreadPoolJob
  <1>2. ASSUME NEW L, \A w \in Worker : wpc'[w] = "run" <=> wpc[w] = "run", Once(jobQ'),
               \A x \in Job : Queued(x)' \/ Held(x)' <=> (Queued(x) \/ Held(x)) /\ x \notin L,
               \A x \in Job : x \in L => (Queued(x) \/ Held(x)) /\ ended'[x] # "no",
               \A x \in Job : x \notin L => ended'[x] = ended[x],
               \A u \in Thread : (call'[u] = call[u] /\ cpc'[u] = cpc[u]) \/ (Idle(u) /\ Idle(u)')
        PROVE  Known'
    <2>1. PlacesApart'
      BY <1>1, <1>2, OtherPlaces DEF Known
    <2>2. \A x \in Job : Somewhere(x)' <=> Somewhere(x) /\ x \notin L
      BY <1>1, <1>2 DEF Somewhere, Known, PlacesApart, RunBy
    <2>3. \A x \in Job : x \in L => Somewhere(x) /\ ended'[x] # "no"
      BY <1>2 DEF Somewhere
    <2>4. JobsKnown' /\ CallsKnown'
      BY <1>1, <1>2, <2>2, <2>3, JobsLeave DEF Known
    <2> QED BY <2>1, <2>4 DEF Known
  <1>3. ASSUME NEW j \in Job, ThreadPoolRemove(t, j) PROVE Known'
    <2>1. UNCHANGED <<wpc, cpc, call>>
      BY <1>3 DEF ThreadPoolRemove, workVars, callVars
    <2>2. ASSUME NEW p \in Priority, NEW i \in DOMAIN jobQ[p], UNCHANGED persistentJob,
                 jobQ' = [jobQ EXCEPT ![p] = SubSeq(@, 1, i - 1) \o SubSeq(@, i + 1, Len(@))],
                 ended' = [ended EXCEPT ![jobQ[p][i].job] = "removed"]
          PROVE  Known'
      <3>1. Loses(jobQ', jobQ, jobQ[p][i].job) /\ InQueue(jobQ, jobQ[p][i].job)
        BY <1>1, <2>2, CutOutLoses
      <3>2. PICK x : x = jobQ[p][i].job
        OBVIOUS
      <3>3. /\ Once(jobQ') /\ Queued(x) /\ x \in Job \ PersistentJob
            /\ \A y : Queued(y)' <=> Queued(y) /\ y # x
        BY <1>1, <3>1, <3>2 DEF Loses, Queued
      <3>4. ~Held(x) /\ \A y : Held(y)' <=> Held(y)
        BY <1>1, <2>2, <3>3 DEF Held
      <3>5. \A y \in Job : Queued(y)' \/ Held(y)' <=> (Queued(y) \/ Held(y)) /\ y \notin {x}
        BY <3>3, <3>4
      <3>6. /\ \A y \in Job : y \in {x} => (Queued(y) \/ Held(y)) /\ ended'[y] # "no"
            /\ \A y \in Job : y \notin {x} => ended'[y] = ended[y]
        BY <1>1, <2>2, <3>2, <3>3
      <3> QED BY <1>2, <2>1, <3>3, <3>5, <3>6
    <2>3. ASSUME persistentJob # NullJob, persistentJob' = NullJob, UNCHANGED jobQ,
                 ended' = [ended EXCEPT ![persistentJob.job] = "removed"]
          PROVE  Known'
      <3>1. PICK x : x = persistentJob.job
        OBVIOUS
      <3>2. /\ x \in PersistentJob /\ x \in Job
            /\ \A y : Queued(y)' <=> Queued(y)
            /\ \A y \in Job : Held(y) <=> y = x
            /\ \A y \in Job : ~Held(y)'
        BY <1>1, <2>3, <3>1 DEF Held, Queued
      <3>3. ~Queued(x)
        BY <1>1, <3>2 DEF Queued, InQueue
      <3>4. \A y \in Job : Queued(y)' \/ Held(y)' <=> (Queued(y) \/ Held(y)) /\ y \notin {x}
        BY <3>2, <3>3
      <3>5. /\ \A y \in Job : y \in {x} => (Queued(y) \/ Held(y)) /\ ended'[y] # "no"
            /\ \A y \in Job : y \notin {x} => ended'[y] = ended[y]
        BY <1>1, <2>3, <3>1, <3>2
      <3>6. Once(jobQ')
        BY <1>1, <2>3
      <3> QED BY <1>2, <2>1, <3>4, <3>5, <3>6
    <2> QED BY <1>3, <2>2, <2>3 DEF ThreadPoolRemove, Priority
  <1>4. CASE ThreadPoolShutdown(t)
    <2> DEFINE L == {x \in Job : Queued(x) \/ Held(x)}
    <2>1. /\ jobQ' = [p \in Priority |-> <<>>] /\ persistentJob' = NullJob
          /\ wpc' = AllSignalled(wpc)
      BY <1>4 DEF ThreadPoolShutdown
    <2>2. \A w \in Worker : wpc'[w] = "run" <=> wpc[w] = "run"
      BY <2>1 DEF AllSignalled
    <2>3. /\ \A p \in Priority : jobQ'[p] = <<>>
          /\ Once(jobQ') /\ \A x : ~Queued(x)'
          /\ \A x \in Job : ~Held(x)'
      BY <1>1, <2>1 DEF Once, Queued, InQueue, Held
    <2>4. \A x \in Job : ended'[x] = IF Held(x) \/ Queued(x) THEN "freed" ELSE ended[x]
      BY <1>4 DEF ThreadPoolShutdown, Held, Queued, InQueue
    <2>5. Idle(t)
      <3>1. cpc[t] \in {"out", "shut"}
        BY <1>4 DEF ThreadPoolShutdown, CanCall
      <3> QED BY <3>1, OutIdle DEF Known
    <2>6. Idle(t)' /\ \A u \in Thread : u # t => call'[u] = call[u] /\ cpc'[u] = cpc[u]
      <3> DEFINE c == [NoCall EXCEPT !.op = "shutdown"]
      <3>1. /\ c.job = NoJob /\ c.op = "shutdown"
            /\ NoCall.job = NoJob /\ NoCall.op = "none"
        BY DEF NoCall
      <3>2. Sleep(t, "term", c) \/ Return(t)
        BY <1>4 DEF ThreadPoolShutdown, AwaitThreads
      <3> HIDE DEF c
      <3>3. PICK pc, d : /\ d \in {c, NoCall} /\ cpc' = [cpc EXCEPT ![t] = pc]
                         /\ call' = [call EXCEPT ![t] = d]
        BY <3>2 DEF Sleep, Return
      <3>4. d.job = NoJob /\ d.op \notin {"add", "pers"}
        BY <3>1, <3>3
      <3> QED BY <3>3, <3>4, ReturnIdle
    <2>7. \A x \in Job : Queued(x)' \/ Held(x)' <=> (Queued(x) \/ Held(x)) /\ x \notin L
      BY <2>3
    <2>8. /\ \A x \in Job : x \in L => (Queued(x) \/ Held(x)) /\ ended'[x] # "no"
          /\ \A x \in Job : x \notin L => ended'[x] = ended[x]
      BY <2>4
    <2> HIDE DEF L
    <2> QED BY <1>2, <2>2, <2>3, <2>5, <2>6, <2>7, <2>8
  <1> QED BY <1>3, <1>4

\* The calls of the interface, in their first critical section and after waits.
LEMMA CallerKnown ==
    ASSUME TypeOK, Known, NEW t \in Thread,
           (ThreadPoolInit /\ t = Owner) \/ Call(t) \/ Wake(t)
    PROVE  Known'
  <1>1. /\ NoJob \notin Job /\ NoCall.job = NoJob /\ NoCall.op = "none" /\ attr \in AttrType
        /\ Once(jobQ) /\ jobQ \in Queues /\ call[t] \in CallType
        /\ Attrs \subseteq AttrType /\ totalThreads \in Int
        /\ \A x \in Job : Held(x) => x \in PersistentJob
        /\ PersistentJob \subseteq Job
    <2>1. NoJob \notin Job /\ Attrs \subseteq AttrType /\ PersistentJob \subseteq Job
      BY ConstantsAssumption
    <2>2. NoCall.job = NoJob /\ NoCall.op = "none"
      BY DEF NoCall
    <2>3. Once(jobQ) /\ jobQ \in Queues
      BY QueueType DEF Known, PlacesApart, Queues
    <2>4. call[t] \in CallType /\ attr \in AttrType /\ totalThreads \in Int
      BY TypeParts DEF CallTypes
    <2>5. \A x \in Job : Held(x) => x \in PersistentJob
      BY <2>1 DEF TypeOK, Held, ThreadPoolJob, NullJob
    <2> QED BY <2>1, <2>2, <2>3, <2>4, <2>5
  <1>2. Keeps(jobQ, jobQ)
    BY DEF Keeps
  <1>3. ASSUME NEW c, NEW a, CallRecord(c), CallPart(t, c, a), c.job = NoJob,
               c.op \notin {"add", "pers"}, Idle(t), UNCHANGED <<wjob, ended, jobQ>>
        PROVE  Known'
    <2>1. \A x : Queued(x)' <=> Queued(x)
      BY <1>3 DEF Queued
    <2>2. PICK j \in Job \cup {NoJob} : j = NoJob
      OBVIOUS
    <2>3. call[t].job \in {NoJob, j} /\ j \notin Job /\ c.job = j /\ ~(j # NoJob)
      BY <1>1, <1>3, <2>2 DEF Idle
    <2>4. Once(jobQ')
      BY <1>1, <1>3
    <2> QED BY <1>3, <2>1, <2>3, <2>4, PartKnown
  <1>4. CASE ThreadPoolInit /\ t = Owner
    <2> DEFINE c == [NoCall EXCEPT !.op = "init"]
    <2>1. CallRecord(c) /\ c.op = "init" /\ c.job = NoJob
      BY NoCallType DEF CallRecord, CallType, NoCall
    <2>2. AddWorkers(t, c, attr) /\ cpc[t] = "out" /\ UNCHANGED <<wjob, ended, jobQ>>
      BY <1>4 DEF ThreadPoolInit, callFrame
    <2> HIDE DEF c
    <2>3. CallPart(t, c, attr) /\ Idle(t)
      BY <1>1, <2>1, <2>2, AddWorkersParts, OutIdle DEF Known
    <2> QED BY <1>3, <2>1, <2>2, <2>3
  <1>5. ASSUME NEW a \in Attrs, ThreadPoolSetAttr(t, a) PROVE Known'
    <2> DEFINE c == [NoCall EXCEPT !.op = "setattr", !.threads = totalThreads]
    <2>1. CallRecord(c) /\ c.op = "setattr" /\ c.job = NoJob
      BY <1>1 DEF CallRecord, CallType, NoCall, Op
    <2>2. AddWorkers(t, c, a) /\ cpc[t] = "out" /\ UNCHANGED <<wjob, ended, jobQ>> /\ a \in AttrType
      BY <1>1, <1>5 DEF ThreadPoolSetAttr, callFrame, CanCall
    <2> HIDE DEF c
    <2>3. CallPart(t, c, a) /\ Idle(t)
      BY <2>1, <2>2, AddWorkersParts, OutIdle DEF Known
    <2> QED BY <1>3, <2>1, <2>2, <2>3
  <1>6. ASSUME NEW j \in Job, Fresh(j)
        PROVE  /\ told[j] = "new" /\ ended[j] = "no" /\ \A u \in Thread : call[u].job # j
               /\ ~Somewhere(j) /\ ~Queued(j) /\ ~RunBy(j) /\ ~Held(j)
    BY <1>6 DEF Known, JobsKnown, Fresh, Somewhere
  <1>7. ASSUME NEW j \in Job, ThreadPoolAdd(t, j) PROVE Known'
    <2>1. Fresh(j) /\ j \notin PersistentJob /\ cpc[t] = "out"
      BY <1>7 DEF ThreadPoolAdd, CanCall
    <2>2. CASE SubmissionFails(j)
      BY <2>1, <2>2, JobKnown
    <2>3. CASE ~SubmissionFails(j)
      <3>1. PICK ok \in BOOLEAN :
              /\ jobQ' = IF ok THEN [jobQ EXCEPT ![JobPriority[j]] = Append(@, CreateThreadPoolJob(j))]
                               ELSE jobQ
              /\ AddWorkers(t, [op |-> "add", job |-> j,
                                jobs |-> QueuedJobs + (IF ok THEN 1 ELSE 0),
                                threads |-> totalThreads - persistentThreads,
                                ok |-> ok], attr)
        BY <1>7, <2>3 DEF ThreadPoolAdd
      <3>2. UNCHANGED <<wjob, ended>>
        BY <1>7, <2>3 DEF ThreadPoolAdd, callFrame
      <3> DEFINE c == [op |-> "add", job |-> j,
                       jobs |-> QueuedJobs + (IF ok THEN 1 ELSE 0),
                       threads |-> totalThreads - persistentThreads, ok |-> ok]
      <3>3. CallRecord(c)
        <4>1. QueuedJobs + (IF ok THEN 1 ELSE 0) \in Nat
          BY QueuedJobsType
        <4>2. totalThreads - persistentThreads \in Int
          BY DEF TypeOK
        <4> QED BY <4>1, <4>2 DEF CallRecord, CallType, Op
      <3>4. c.op = "add" /\ c.job = j /\ (c.ok <=> ok) /\ AddWorkers(t, c, attr)
        BY <3>1
      <3> HIDE DEF c
      <3>5. CallPart(t, c, attr)
        BY <1>1, <3>3, <3>4, AddWorkersParts
      <3>6. /\ Once(jobQ') /\ \A x : Queued(x)' <=> Queued(x) \/ (ok /\ x = j)
        <4>1. CASE ok
          <5>1. /\ JobPriority[j] \in Priority /\ CreateThreadPoolJob(j) \in RegularJob
                /\ CreateThreadPoolJob(j).job = j
            BY <2>1, ConstantsAssumption
               DEF CreateThreadPoolJob, RegularJob, ThreadPoolJob, TypeOK
          <5>2. ~InQueue(jobQ, j)
            BY <1>6, <2>1 DEF Queued
          <5>3. PICK r \in RegularJob : r = CreateThreadPoolJob(j)
            BY <5>1
          <5>4. PICK p \in Priority : p = JobPriority[j]
            BY <5>1
          <5>5. jobQ' = [jobQ EXCEPT ![p] = Append(@, r)] /\ r.job = j /\ ~InQueue(jobQ, r.job)
            BY <3>1, <4>1, <5>1, <5>2, <5>3, <5>4
          <5>6. Once(jobQ') /\ \A x : InQueue(jobQ', x) <=> InQueue(jobQ, x) \/ x = r.job
            BY <1>1, <5>5, GrowGains
          <5> QED BY <4>1, <5>5, <5>6 DEF Queued
        <4>2. CASE ~ok
          BY <1>1, <3>1, <4>2 DEF Queued
        <4> QED BY <4>1, <4>2
      <3>7. call[t].job \in {NoJob, j}
        BY <2>1, OutIdle DEF Known, Idle
      <3>8. /\ told[j] = "new"
            /\ \A u \in Thread : u # t => call[u].job # j
            /\ Queued(j)' \/ RunBy(j) \/ Held(j) <=> ended[j] = "no" /\ c.op = "add" /\ c.ok
            /\ ~(c.op = "add" /\ c.ok) => ended[j] = "no"
            /\ Queued(j)' /\ RunBy(j) => Queued(j)
        BY <1>6, <2>1, <3>4, <3>6
      <3>9. j # NoJob /\ c.op \in {"add", "pers"} /\ j \notin PersistentJob
            /\ \A x \in Job : x # j => (Queued(x)' <=> Queued(x))
        BY <1>1, <2>1, <3>4, <3>6
      <3> QED BY <3>2, <3>3, <3>4, <3>5, <3>6, <3>7, <3>8, <3>9, PartKnown
    <2> QED BY <2>2, <2>3
  <1>8. ASSUME NEW j \in Job, ThreadPoolAddPersistent(t, j) PROVE Known'
    <2> DEFINE c == [NoCall EXCEPT !.op = "pers", !.job = j]
    <2>1. Fresh(j) /\ j \in PersistentJob /\ cpc[t] = "out"
      BY <1>8 DEF ThreadPoolAddPersistent, CanCall
    <2>2. CASE SubmissionFails(j)
      BY <2>1, <2>2, JobKnown
    <2>3. CASE ~SubmissionFails(j)
      <3>1. /\ CreateWorker(t, c, attr) \/ SchedulePersistent(t, c)
            /\ UNCHANGED <<wjob, ended, jobQ>>
        BY <1>8, <2>3 DEF ThreadPoolAddPersistent, callFrame
      <3>2. CallRecord(c) /\ c.op = "pers" /\ c.job = j
        BY <2>1, NoCallType DEF CallRecord, CallType, Op, NoCall
      <3> HIDE DEF c
      <3>3. CallPart(t, c, attr)
        BY <3>1, CreateParts DEF CallPart
      <3>4. call[t].job \in {NoJob, j}
        BY <2>1, OutIdle DEF Known, Idle
      <3>5. Once(jobQ') /\ \A x : Queued(x)' <=> Queued(x)
        BY <1>1, <3>1 DEF Queued
      <3>6. /\ told[j] = "new"
            /\ \A u \in Thread : u # t => call[u].job # j
            /\ Queued(j)' \/ RunBy(j) \/ Held(j) <=> ended[j] = "no" /\ c.op = "add" /\ c.ok
            /\ ~(c.op = "add" /\ c.ok) => ended[j] = "no"
            /\ Queued(j)' /\ RunBy(j) => Queued(j)
        BY <1>6, <2>1, <3>2, <3>5
      <3>7. j # NoJob /\ c.op \in {"add", "pers"} /\ c.op # "add"
        BY <1>1, <3>2
      <3> QED BY <3>1, <3>2, <3>3, <3>4, <3>5, <3>6, <3>7, PartKnown
    <2> QED BY <2>2, <2>3
  <1>9. ASSUME NEW c, CallRecord(c), CallPart(t, c, attr), UNCHANGED <<wjob, ended, jobQ>>,
               c.op = call[t].op, c.job = call[t].job, c.ok = call[t].ok,
               cpc[t] \in {"create", "start"}
        PROVE  Known'
    <2>1. CASE Idle(t)
      BY <1>3, <1>9, <2>1 DEF Idle
    <2>2. CASE Submits(t)
      <3>1. PICK j \in Job : Submission(t, j)
        BY <2>2 DEF Submits
      <3>2. Once(jobQ') /\ \A x : Queued(x)' <=> Queued(x)
        BY <1>1, <1>9 DEF Queued
      <3>3. /\ c.job = j /\ call[t].job = j /\ j # NoJob /\ told[j] = "new"
            /\ c.op \in {"add", "pers"} /\ (c.op = "add" => j \notin PersistentJob)
            /\ \A u \in Thread : u # t => call[u].job # j
        BY <1>1, <1>9, <3>1 DEF Submission, Known, CallsKnown
      <3>4. ended[j] # "no" => ~Somewhere(j)
        BY DEF Known, JobsKnown
      <3>5. /\ Somewhere(j) <=> ended[j] = "no" /\ c.op = "add" /\ c.ok
            /\ ~(c.op = "add" /\ c.ok) => ended[j] = "no"
        BY <1>9, <3>1, <3>4 DEF Submission
      <3>6. /\ Queued(j)' \/ RunBy(j) \/ Held(j) <=> ended[j] = "no" /\ c.op = "add" /\ c.ok
            /\ Queued(j)' /\ RunBy(j) => Queued(j)
        BY <3>2, <3>5 DEF Somewhere
      <3> QED BY <1>9, <3>2, <3>3, <3>5, <3>6, PartKnown
    <2> QED BY <2>1, <2>2 DEF Known, CallsKnown
  <1>10. CASE WakeCreate(t)
    <2>1. /\ CallPart(t, call[t], attr) /\ UNCHANGED <<wjob, ended, jobQ>>
          /\ cpc[t] = "create"
      BY <1>10, CreateParts DEF WakeCreate, callFrame
    <2>2. CallRecord(call[t])
      BY CallOf
    <2> QED BY <1>9, <2>1, <2>2
  <1>11. CASE WakeStart(t)
    <2>1. CASE pendingWorkerThreadStart
      <3>1. /\ CallPart(t, call[t], attr) /\ UNCHANGED <<wjob, ended, jobQ>>
            /\ cpc[t] = "start"
        BY <1>11, <2>1 DEF WakeStart, CallPart, Waits, callFrame
      <3>2. CallRecord(call[t])
        BY CallOf
      <3> QED BY <1>9, <3>1, <3>2
    <2>2. CASE ~pendingWorkerThreadStart
      <3> DEFINE c == [call[t] EXCEPT !.threads = Incremented(call[t])]
      <3>1. CallRecord(c) /\ c.op = call[t].op /\ c.job = call[t].job /\ c.ok = call[t].ok
        BY <1>1, CallOf DEF CallType
      <3>2. /\ AddWorkers(t, c, attr) /\ UNCHANGED <<wjob, ended, jobQ>> /\ cpc[t] = "start"
        BY <1>11, <2>2 DEF WakeStart, callFrame
      <3> HIDE DEF c
      <3>3. CallPart(t, c, attr)
        BY <1>1, <3>1, <3>2, AddWorkersParts
      <3> QED BY <1>9, <3>1, <3>2, <3>3
    <2> QED BY <2>1, <2>2
  <1>12. CASE WakePersistent(t)
    <2>1. /\ UNCHANGED <<persistentJob, wpc, wjob, ended, jobQ>> /\ cpc[t] = "pers"
          /\ \/ Sleep(t, "pers", call[t]) /\ UNCHANGED told
             \/ Return(t) /\ told' = [told EXCEPT ![call[t].job] = "ok"]
      BY <1>12 DEF WakePersistent, callFrame
    <2>2. CASE Sleep(t, "pers", call[t]) /\ UNCHANGED told
      <3>1. \A u \in Thread : call'[u] = call[u] /\ cpc'[u] = cpc[u]
        BY <2>1, <2>2 DEF Sleep, TypeOK
      <3>2. Keeps(jobQ', jobQ)
        BY <1>2, <2>1
      <3> QED BY <2>1, <2>2, <3>1, <3>2, QuietKnown
    <2>3. CASE Return(t) /\ told' = [told EXCEPT ![call[t].job] = "ok"]
      <3>1. Idle(t)' /\ \A u \in Thread : u # t => call'[u] = call[u] /\ cpc'[u] = cpc[u]
        BY <1>1, <2>3, ReturnIdle DEF Return
      <3>2. CASE Idle(t)
        <4>1. told' = told
          BY <1>1, <2>3, <3>2 DEF Idle, TypeOK
        <4>2. Keeps(jobQ', jobQ)
          BY <1>2, <2>1
        <4> QED BY <2>1, <3>1, <3>2, <4>1, <4>2, QuietKnown
      <3>3. CASE Submits(t)
        <4>1. PICK j \in Job : Submission(t, j)
          BY <3>3 DEF Submits
        <4>2. /\ call[t].job = j /\ j \in PersistentJob /\ told[j] = "new"
              /\ told' = [told EXCEPT ![j] = "ok"] /\ j # NoJob
              /\ \A u \in Thread : u # t => call[u].job # j
          BY <1>1, <2>1, <2>3, <4>1 DEF Submission, TypeOK, Known, CallsKnown
        <4>3. /\ \A x \in Job : x # j => told'[x] = told[x]
              /\ told'[j] = "ok"
          BY <4>2 DEF TypeOK
        <4>4. \A x \in Job : /\ Queued(x)' <=> Queued(x)
                             /\ Held(x)' <=> Held(x)
                             /\ Somewhere(x)' <=> Somewhere(x)
          BY <2>1 DEF Queued, Held, Somewhere, RunBy
        <4>5. PlacesApart'
          <5>1. Once(jobQ')
            BY <1>1, <2>1
          <5> QED BY <2>1, <4>4, <5>1, OtherPlaces DEF Known
        <4>6. JobsKnown'
          <5> SUFFICES ASSUME NEW x \in Job
                 PROVE  /\ ended'[x] # "no" \/ told'[x] = "err" => ~Somewhere(x)'
                        /\ x \notin PersistentJob /\ told'[x] = "ok" /\ ended'[x] = "no"
                             => Somewhere(x)'
                        /\ told'[x] = "new" /\ (\A u \in Thread : call'[u].job # x) =>
                             ended'[x] = "no" /\ ~Somewhere(x)'
            BY DEF JobsKnown
          <5>1. /\ ended[x] # "no" \/ told[x] = "err" => ~Somewhere(x)
                /\ x \notin PersistentJob /\ told[x] = "ok" /\ ended[x] = "no" => Somewhere(x)
                /\ told[x] = "new" /\ (\A u \in Thread : call[u].job # x) =>
                     ended[x] = "no" /\ ~Somewhere(x)
            BY DEF Known, JobsKnown
          <5>2. CASE x = j
            BY <2>1, <4>2, <4>3, <4>4, <5>1, <5>2
          <5>3. CASE x # j
            <6>1. (\A u \in Thread : call'[u].job # x) => (\A u \in Thread : call[u].job # x)
              BY <3>1, <4>2, <5>3
            <6> QED BY <2>1, <4>3, <4>4, <5>1, <5>3, <6>1
          <5> QED BY <5>2, <5>3
        <4>7. ASSUME NEW u \in Thread PROVE Idle(u)' \/ Submits(u)'
          <5>1. CASE u = t
            BY <3>1, <5>1
          <5>2. CASE u # t /\ Idle(u)
            BY <3>1, <5>2 DEF Idle
          <5>3. CASE u # t /\ Submits(u)
            <6>1. PICK x \in Job : Submission(u, x)
              BY <5>3 DEF Submits
            <6>2. x # j
              BY <4>2, <5>3, <6>1 DEF Submission
            <6>3. Submission(u, x)'
              BY <2>1, <3>1, <4>3, <4>4, <5>3, <6>1, <6>2 DEF Submission
            <6> QED BY <6>3 DEF Submits
          <5> QED BY <5>1, <5>2, <5>3 DEF Known, CallsKnown
        <4>8. \A u, v \in Thread : call'[u].job = call'[v].job /\ call'[u].job # NoJob => u = v
          BY <3>1 DEF Known, CallsKnown, Idle
        <4> QED BY <4>5, <4>6, <4>7, <4>8 DEF Known, CallsKnown
      <3> QED BY <3>2, <3>3 DEF Known, CallsKnown
    <2> QED BY <2>1, <2>2, <2>3
  <1>13. CASE ThreadPoolGetAttr(t) \/ GetAttrLocked(t) \/ WakeShutdown(t)
    <2> DEFINE d == [NoCall EXCEPT !.op = "shutdown"]
    <2>1. /\ UNCHANGED <<persistentJob, wpc, wjob, ended, jobQ, told>>
          /\ cpc[t] \in {"out", "get", "term"}
      BY <1>13 DEF ThreadPoolGetAttr, GetAttrLocked, WakeShutdown, CanCall, poolVars, workVars, jobVars
    <2>2. Idle(t) /\ d.job = NoJob /\ d.op = "shutdown"
      BY <2>1, OutIdle DEF Known, NoCall
    <2> HIDE DEF d
    <2>3. PICK pc, c : /\ c \in {call[t], NoCall, d} /\ cpc' = [cpc EXCEPT ![t] = pc]
                       /\ call' = [call EXCEPT ![t] = c]
      <3>1. CASE ThreadPoolGetAttr(t)
        <4>1. call' = [call EXCEPT ![t] = call[t]]
          BY <3>1 DEF ThreadPoolGetAttr, TypeOK
        <4> QED BY <3>1, <4>1 DEF ThreadPoolGetAttr
      <3>2. CASE GetAttrLocked(t)
        BY <3>2 DEF GetAttrLocked, Return
      <3>3. CASE WakeShutdown(t)
        BY <3>3 DEF WakeShutdown, AwaitThreads, Return, Sleep, d
      <3> QED BY <1>13, <3>1, <3>2, <3>3
    <2>4. c.job = NoJob /\ c.op \notin {"add", "pers"}
      BY <1>1, <2>2, <2>3 DEF Idle
    <2>5. Idle(t)' /\ \A u \in Thread : u # t => call'[u] = call[u] /\ cpc'[u] = cpc[u]
      BY <2>3, <2>4, ReturnIdle
    <2>6. Keeps(jobQ', jobQ)
      BY <1>2, <2>1
    <2> QED BY <2>1, <2>2, <2>5, <2>6, QuietKnown
  <1>14. CASE (\E j \in Job : ThreadPoolRemove(t, j)) \/ ThreadPoolShutdown(t)
    BY <1>14, TakenOutKnown
  <1> QED BY <1>4, <1>5, <1>7, <1>8, <1>10, <1>11, <1>12, <1>13, <1>14 DEF Call, Wake

-----------------------------------------------------------------------------
(* The theorem about the places of jobs *)

\* No job is in the pool before the first submission.
LEMMA InitKnown == Init => Known
  <1> SUFFICES ASSUME Init PROVE Known
    OBVIOUS
  <1>1. /\ NoJob \notin Job /\ NullJob.job = NoJob /\ NoCall.job = NoJob /\ NoCall.op = "none"
    BY ConstantsAssumption DEF NullJob, NoCall
  <1>2. \A p \in Priority : DOMAIN jobQ[p] = {}
    BY DEF Init
  <1>3. Once(jobQ) /\ \A x : ~Queued(x)
    BY <1>2 DEF Once, Queued, InQueue
  <1>4. \A x \in Job : ~RunBy(x) /\ ~Held(x) /\ ~Somewhere(x)
    BY <1>1, <1>3 DEF Init, RunBy, Held, Somewhere
  <1>5. PlacesApart
    BY <1>1, <1>3, <1>4 DEF Init, PlacesApart
  <1>6. JobsKnown
    BY <1>4 DEF Init, JobsKnown
  <1>7. CallsKnown
    BY <1>1 DEF Init, CallsKnown, Idle
  <1> QED BY <1>5, <1>6, <1>7 DEF Known

\* Every step keeps what is known of the jobs.
LEMMA NextKnown == TypeOK /\ Known /\ [Next]_vars => Known'
  <1> SUFFICES ASSUME TypeOK, Known, [Next]_vars PROVE Known'
    OBVIOUS
  <1>1. CASE ThreadPoolInit
    <2>1. Owner \in Thread
      BY ConstantsAssumption DEF Thread
    <2> QED BY <1>1, <2>1, CallerKnown
  <1>2. CASE \E w \in Worker : WorkerStart(w) \/ WorkerStep(w) \/ WaitReturns(w)
    BY <1>2, WorkerKnown
  <1>3. CASE \E t \in Thread : Call(t) \/ Wake(t)
    BY <1>3, CallerKnown
  <1>4. CASE Tick
    <2>1. UNCHANGED <<persistentJob, wpc, wjob, told, ended, call, cpc>>
      BY <1>4 DEF Tick, workVars, callVars, jobVars
    <2> QED BY <1>4, <2>1, TickKeeps, QuietKnown
  <1>5. CASE \E j \in Recycled : Recycle(j)
    <2>1. Recycled \subseteq Job
      BY ConstantsAssumption
    <2> QED BY <1>5, <2>1, JobKnown
  <1>6. CASE UNCHANGED vars
    <2>1. UNCHANGED <<persistentJob, wpc, wjob, told, ended, call, cpc, jobQ>>
      BY <1>6 DEF vars, poolVars, workVars, callVars, jobVars
    <2>2. Keeps(jobQ', jobQ)
      BY <2>1 DEF Keeps
    <2> QED BY <2>1, <2>2, QuietKnown
  <1> QED BY <1>1, <1>2, <1>3, <1>4, <1>5, <1>6 DEF Next

\* An accepted job of ThreadPoolAdd() is in exactly one place, a queue or a
\* worker, until it has run, was removed or was freed, and then in none; a
\* refused one is in none.
THEOREM JobsCorrect == Spec => []JobInOnePlace
  <1>1. TypeOK /\ Known => JobInOnePlace
    <2> SUFFICES ASSUME TypeOK, Known, NEW j \in Job
                 PROVE  /\ Places(j) <= 1
                        /\ ended[j] # "no" \/ told[j] = "err" => Places(j) = 0
                        /\ j \notin PersistentJob /\ told[j] = "ok" /\ ended[j] = "no"
                             => Places(j) = 1
      BY DEF JobInOnePlace
    <2> DEFINE A == {x \in Priority \X (1..(QueuedJobs + 1)) :
                       x[2] \in DOMAIN jobQ[x[1]] /\ jobQ[x[1]][x[2]].job = j}
               B == {w \in Worker : wjob[w] = j}
               a == Cardinality(A)
               b == Cardinality(B)
               d == IF persistentJob.job = j THEN 1 ELSE 0
    <2>1. /\ Queued(j) => a = 1
          /\ ~Queued(j) => a = 0
      <3>1. ASSUME Queued(j) PROVE a = 1
        <4>1. PICK p \in Priority : \E i \in DOMAIN jobQ[p] : jobQ[p][i].job = j
          BY <3>1 DEF Queued, InQueue
        <4>2. PICK i \in DOMAIN jobQ[p] : jobQ[p][i].job = j
          BY <4>1
        <4>3. i \in 1..(QueuedJobs + 1)
          <5>1. /\ jobQ \in Queues /\ {"high", "low", "med"} = Priority
            BY QueueType DEF Queues, Priority
          <5> DEFINE h == Len(jobQ["high"])
                     l == Len(jobQ["low"])
                     m == Len(jobQ["med"])
          <5>2. h \in Nat /\ l \in Nat /\ m \in Nat /\ QueuedJobs = h + l + m
            BY <5>1, QueuePositions DEF QueuedJobs
          <5>3. i \in 1..Len(jobQ[p]) /\ Len(jobQ[p]) \in {h, l, m}
            BY <5>1, QueuePositions
          <5> HIDE DEF h, l, m
          <5> QED BY <5>2, <5>3
        <4>4. A = {<<p, i>>}
          BY <4>2, <4>3 DEF Known, PlacesApart, Once
        <4> QED BY <4>4, FS_Singleton
      <3>2. ASSUME ~Queued(j) PROVE a = 0
        <4>1. A = {}
          BY <3>2 DEF Queued, InQueue
        <4> QED BY <4>1, FS_EmptySet
      <3> QED BY <3>1, <3>2
    <2>2. /\ RunBy(j) => b = 1
          /\ ~RunBy(j) => b = 0
      <3>1. ASSUME RunBy(j) PROVE b = 1
        <4>1. PICK w \in Worker : wjob[w] = j
          BY <3>1 DEF RunBy
        <4>2. B = {w}
          BY <4>1, ConstantsAssumption DEF Known, PlacesApart
        <4> QED BY <4>2, FS_Singleton
      <3>2. ASSUME ~RunBy(j) PROVE b = 0
        <4>1. B = {}
          BY <3>2 DEF RunBy
        <4> QED BY <4>1, FS_EmptySet
      <3> QED BY <3>1, <3>2
    <2>3. (Held(j) => d = 1) /\ (~Held(j) => d = 0)
      BY DEF Held
    <2>4. Places(j) = a + b + d
      BY DEF Places
    <2>5. ~(Queued(j) /\ RunBy(j)) /\ ~(RunBy(j) /\ Held(j)) /\ ~(Queued(j) /\ Held(j))
      <3>1. Held(j) => j \in PersistentJob
        BY ConstantsAssumption DEF TypeOK, Held, ThreadPoolJob, NullJob
      <3>2. Queued(j) => j \notin PersistentJob
        <4> SUFFICES ASSUME NEW p \in Priority, NEW i \in DOMAIN jobQ[p], jobQ[p][i].job = j
                     PROVE  j \notin PersistentJob
          BY DEF Queued, InQueue
        <4>1. jobQ \in Queues
          BY QueueType DEF Queues
        <4>2. jobQ[p][i] \in RegularJob
          BY <4>1, QueuePositions, ElementOfSeq
        <4> QED BY <4>2 DEF RegularJob, ThreadPoolJob
      <3> QED BY <3>1, <3>2 DEF Known, PlacesApart
    <2>6. /\ ended[j] # "no" \/ told[j] = "err" => ~Somewhere(j)
          /\ j \notin PersistentJob /\ told[j] = "ok" /\ ended[j] = "no" => Somewhere(j)
      BY DEF Known, JobsKnown
    <2> HIDE DEF a, b, d
    <2>7. /\ Somewhere(j) => Places(j) = 1
          /\ ~Somewhere(j) => Places(j) = 0
      BY <2>1, <2>2, <2>3, <2>4, <2>5 DEF Somewhere
    <2> QED BY <2>6, <2>7
  <1>2. Init => Known
    BY InitKnown
  <1>3. TypeOK /\ Known /\ [Next]_vars => Known'
    BY NextKnown
  <1> QED BY <1>1, <1>2, <1>3, TypeCorrect, PTL DEF Spec

=============================================================================
