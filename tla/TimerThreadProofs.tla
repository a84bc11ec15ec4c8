--------------------------- MODULE TimerThreadProofs ---------------------------
(***************************************************************************)
(* Theorems about TimerThread for any number of threads, jobs, events and  *)
(* threads of the pool, and whatever resource runs out.                    *)
(***************************************************************************)
EXTENDS TimerThread, SequenceLemmas, FiniteSetTheorems

Scheduling == {c \in Caller : cpc[c] = "schedule"}
InQueue(j) == \E i \in DOMAIN eventQ : eventQ[i].job = j

\* Each thread between the two halves of TimerThreadSchedule() has an identifier
\* to itself, within the bound, and a job to itself, which is not queued yet.
CallsApart ==
    /\ IsFiniteSet(Scheduling)
    /\ lastEventId + Cardinality(Scheduling) <= MaxEvents
    /\ \A c \in Scheduling : call[c] \in [job: Job, timeout: Nat]
    /\ \A c \in Caller \ Scheduling : call[c] = NoCall
    /\ \A c \in Scheduling : ~InQueue(call[c].job)
    /\ \A c, d \in Scheduling : call[c].job = call[d].job => c = d

\* The queue is in the order of the event times, and a job is in it once.
QueueOrdered ==
    /\ \A i, k \in DOMAIN eventQ : i <= k => eventQ[i].eventTime <= eventQ[k].eventTime
    /\ \A i, k \in DOMAIN eventQ : eventQ[i].job = eventQ[k].job => i = k

\* Only what is queued is owed.
OwedOnce == \A j \in Job : owed[j] = IF InQueue(j) THEN 1 ELSE 0

\* No identifier was handed out that lastEventId has not passed.
IdsBehind ==
    /\ \A i \in DOMAIN eventQ : eventQ[i].id < lastEventId
    /\ \A j \in Job : eventId[j] < lastEventId

\* Who waits on timer->condition, and that the worker and the caller of
\* TimerThreadShutdown(), which share it, never do so together.
WaitersApart ==
    /\ waiting \subseteq {Owner, WorkerId}
    /\ WorkerId \in waiting => wpc \in {"wait", "timedwait"}
    /\ Owner \in waiting => cpc[Owner] = "shutdown"
    /\ \A c \in Caller : cpc[c] = "shutdown" => c = Owner
    /\ cpc[Owner] = "shutdown" => shutdown \/ wpc = "done"
    /\ shutdown => phase = "up"
    /\ phase = "none" => wpc = "none"
    /\ wpc = "adding" => eventQ # <<>>

\* The inductive invariant.
IInv ==
    /\ TypeOK /\ CallsApart /\ QueueOrdered /\ OwedOnce /\ IdsBehind /\ WaitersApart
    /\ NoMissedEvent /\ IdNamesItsEvent

-----------------------------------------------------------------------------
(* The queue *)

\* What the type of the queue says of its events.
LEMMA QueueTypes ==
    ASSUME TypeOK
    PROVE  /\ eventQ \in Seq(TimerEvent) /\ Len(eventQ) \in Nat
           /\ DOMAIN eventQ = 1..Len(eventQ)
           /\ \A i \in 1..Len(eventQ) :
                 /\ eventQ[i] \in TimerEvent /\ eventQ[i].job \in Job
                 /\ eventQ[i].eventTime \in Nat /\ eventQ[i].id \in Nat
  <1>1. eventQ \in Seq(TimerEvent)
    BY DEF TypeOK
  <1>2. \A i \in 1..Len(eventQ) : eventQ[i] \in TimerEvent
    BY <1>1
  <1>3. \A e \in TimerEvent : e.job \in Job /\ e.eventTime \in Nat /\ e.id \in Nat
    BY DEF TimerEvent
  <1> QED BY <1>1, <1>2, <1>3

\* The place of a new event: what is before it is earlier, what is after it is not.
LEMMA PlaceFits ==
    ASSUME TypeOK, QueueOrdered, NEW t \in Nat
    PROVE  /\ Place(t) \in 1..(Len(eventQ) + 1)
           /\ \A i \in 1..Len(eventQ) : i < Place(t) => eventQ[i].eventTime < t
           /\ \A i \in 1..Len(eventQ) : i >= Place(t) => eventQ[i].eventTime >= t
  <1> DEFINE I == {i \in 1..Len(eventQ) : eventQ[i].eventTime >= t}
  <1>1. I # {} => Min(I) \in I /\ \A y \in I : Min(I) <= y
    <2>1. I \subseteq Nat
      BY QueueTypes
    <2> HIDE DEF I
    <2> QED BY <2>1, LeastExists
  <1>2. Place(t) = IF I = {} THEN Len(eventQ) + 1 ELSE Min(I)
    BY <1>1, QueueTypes DEF Place, SelectInSeq
  <1>3. CASE I = {}
    BY <1>2, <1>3, QueueTypes
  <1>4. CASE I # {}
    <2> DEFINE m == Min(I)
    <2>1. m \in I /\ (\A y \in I : m <= y) /\ Place(t) = m
      BY <1>1, <1>2, <1>4
    <2> HIDE DEF m
    <2>2. m \in 1..Len(eventQ) /\ eventQ[m].eventTime >= t
      BY <2>1
    <2>3. \A i \in 1..Len(eventQ) : i < m => eventQ[i].eventTime < t
      BY <2>1, <2>2, QueueTypes
    <2>4. \A i \in 1..Len(eventQ) : i >= m => eventQ[i].eventTime >= t
      BY <2>2, QueueTypes DEF QueueOrdered
    <2> QED BY <2>1, <2>2, <2>3, <2>4, QueueTypes
  <1> QED BY <1>3, <1>4

\* A job is in the queue once, so its events are one or none.
LEMMA EventsOfJob ==
    ASSUME TypeOK, QueueOrdered, NEW j \in Job
    PROVE  Events(j) = IF InQueue(j) THEN 1 ELSE 0
  <1> DEFINE E == {i \in DOMAIN eventQ : eventQ[i].job = j}
  <1>1. CASE InQueue(j)
    <2>1. PICK k \in DOMAIN eventQ : eventQ[k].job = j
      BY <1>1 DEF InQueue
    <2>2. E = {k}
      BY <2>1 DEF QueueOrdered
    <2> QED BY <1>1, <2>2, FS_Singleton DEF Events
  <1>2. CASE ~InQueue(j)
    <2>1. E = {}
      BY <1>2 DEF InQueue
    <2> QED BY <1>2, <2>1, FS_EmptySet DEF Events
  <1> QED BY <1>1, <1>2

\* The event at the place n leaves the queue and its argument is no longer owed.
LEMMA QueueShrinks ==
    ASSUME IInv, NEW n \in 1..Len(eventQ),
           eventQ' \in Seq(TimerEvent), Len(eventQ') = Len(eventQ) - 1,
           \A i \in 1..(Len(eventQ) - 1) :
              eventQ'[i] = IF i < n THEN eventQ[i] ELSE eventQ[i + 1],
           Dispose(eventQ[n].job), UNCHANGED <<lastEventId, eventId>>
    PROVE  /\ QueueOrdered' /\ OwedOnce' /\ IdsBehind' /\ IdNamesItsEvent'
           /\ owed' \in [Job -> Int]
           /\ \A j : InQueue(j)' => InQueue(j)
           /\ \A i \in DOMAIN eventQ' : \E k \in DOMAIN eventQ : eventQ'[i] = eventQ[k]
  <1>1. /\ DOMAIN eventQ = 1..Len(eventQ) /\ Len(eventQ) \in Nat
        /\ DOMAIN eventQ' = 1..(Len(eventQ) - 1)
    BY QueueTypes DEF IInv
  <1> DEFINE old(i) == IF i < n THEN i ELSE i + 1
  <1>2. \A i \in DOMAIN eventQ' :
           old(i) \in DOMAIN eventQ /\ old(i) # n /\ eventQ'[i] = eventQ[old(i)]
    BY <1>1
  <1>3. \A i, k \in DOMAIN eventQ' :
           (i <= k => old(i) <= old(k)) /\ (old(i) = old(k) => i = k)
    BY <1>1
  <1>4. \A k \in DOMAIN eventQ : k # n => \E i \in DOMAIN eventQ' : old(i) = k
    <2> TAKE k \in DOMAIN eventQ
    <2> HAVE k # n
    <2>1. CASE k < n
      BY <1>1, <2>1
    <2>2. CASE k > n
      <3>1. k - 1 \in DOMAIN eventQ' /\ old(k - 1) = k
        BY <1>1, <2>2
      <3> QED BY <3>1
    <2> QED BY <1>1, <2>1, <2>2
  <1> HIDE DEF old
  <1>5. QueueOrdered'
    BY <1>2, <1>3 DEF IInv, QueueOrdered
  <1>6. \A j : InQueue(j)' <=> InQueue(j) /\ j # eventQ[n].job
    <2> TAKE j
    <2>1. n \in DOMAIN eventQ
      BY <1>1
    <2>2. ASSUME InQueue(j)' PROVE InQueue(j) /\ j # eventQ[n].job
      <3>1. PICK i \in DOMAIN eventQ' : eventQ'[i].job = j
        BY <2>2 DEF InQueue
      <3>2. old(i) \in DOMAIN eventQ /\ old(i) # n /\ eventQ[old(i)].job = j
        BY <1>2, <3>1
      <3> QED BY <2>1, <3>2 DEF IInv, QueueOrdered, InQueue
    <2>3. ASSUME InQueue(j), j # eventQ[n].job PROVE InQueue(j)'
      <3>1. PICK k \in DOMAIN eventQ : eventQ[k].job = j /\ k # n
        BY <2>3 DEF InQueue
      <3>2. PICK i \in DOMAIN eventQ' : old(i) = k
        BY <1>4, <3>1
      <3>3. eventQ'[i].job = j
        BY <1>2, <3>1, <3>2
      <3> QED BY <3>3 DEF InQueue
    <2> QED BY <2>2, <2>3
  <1>7. owed' \in [Job -> Int] /\ OwedOnce'
    <2>1. eventQ[n].job \in Job /\ InQueue(eventQ[n].job) /\ owed \in [Job -> Int]
      BY QueueTypes, <1>1 DEF IInv, TypeOK, InQueue
    <2>2. owed' = [owed EXCEPT ![eventQ[n].job] = owed[eventQ[n].job] - 1]
      BY DEF Dispose
    <2>3. ASSUME NEW j \in Job
          PROVE  owed'[j] = IF InQueue(j)' THEN 1 ELSE 0
      <3>1. owed[j] = IF InQueue(j) THEN 1 ELSE 0
        BY DEF IInv, OwedOnce
      <3>2. CASE j = eventQ[n].job
        <4>1. ~ InQueue(j)' /\ owed[j] = 1 /\ owed'[j] = owed[j] - 1
          BY <1>6, <2>1, <2>2, <3>1, <3>2
        <4> QED BY <4>1
      <3>3. CASE j # eventQ[n].job
        <4>1. (InQueue(j)' <=> InQueue(j)) /\ owed'[j] = owed[j]
          BY <1>6, <2>1, <2>2, <3>3
        <4> QED BY <3>1, <4>1
      <3> QED BY <3>2, <3>3
    <2> QED BY <2>1, <2>2, <2>3 DEF OwedOnce
  <1>8. IdsBehind' /\ IdNamesItsEvent'
    BY <1>2 DEF IInv, IdsBehind, IdNamesItsEvent
  <1> QED BY <1>2, <1>5, <1>6, <1>7, <1>8

\* ScheduleLocked() with result 0: the event is in its place, under a fresh identifier.
LEMMA QueueGrows ==
    ASSUME IInv, NEW c \in Scheduling,
           eventQ' = InsertAt(eventQ, Place(call[c].timeout),
                              [job |-> call[c].job, eventTime |-> call[c].timeout,
                               id |-> lastEventId]),
           owed' = [owed EXCEPT ![call[c].job] = @ + 1],
           eventId' = [eventId EXCEPT ![call[c].job] = lastEventId],
           lastEventId' = lastEventId + 1
    PROVE  /\ QueueOrdered' /\ OwedOnce' /\ IdsBehind' /\ IdNamesItsEvent'
           /\ eventQ' \in Seq(TimerEvent) /\ eventQ' # <<>>
           /\ owed' \in [Job -> Int] /\ eventId' \in [Job -> Nat \cup {NoId}]
           /\ \A j : InQueue(j)' => InQueue(j) \/ j = call[c].job
  <1> DEFINE j == call[c].job
             t == call[c].timeout
             n == Place(call[c].timeout)
             e == [job |-> call[c].job, eventTime |-> call[c].timeout, id |-> lastEventId]
  <1>1. j \in Job /\ t \in Nat /\ lastEventId \in Nat /\ ~InQueue(j)
    BY DEF IInv, CallsApart, TypeOK
  <1>2. e \in TimerEvent /\ e.job = j /\ e.eventTime = t /\ e.id = lastEventId
    BY <1>1 DEF TimerEvent
  <1>3. /\ n \in 1..(Len(eventQ) + 1)
        /\ \A i \in 1..Len(eventQ) : i < n => eventQ[i].eventTime < t
        /\ \A i \in 1..Len(eventQ) : i >= n => eventQ[i].eventTime >= t
    BY <1>1, PlaceFits DEF IInv
  <1>4. /\ eventQ \in Seq(TimerEvent) /\ Len(eventQ) \in Nat
        /\ DOMAIN eventQ = 1..Len(eventQ)
        /\ \A i \in 1..Len(eventQ) : eventQ[i].eventTime \in Nat
    BY QueueTypes DEF IInv
  <1>5. eventQ' = InsertAt(eventQ, n, e)
    OBVIOUS
  <1> HIDE DEF n, e
  <1>6. /\ eventQ' \in Seq(TimerEvent) /\ Len(eventQ') = Len(eventQ) + 1
        /\ \A i \in 1..(Len(eventQ) + 1) : eventQ'[i] =
              IF i < n THEN eventQ[i] ELSE IF i = n THEN e ELSE eventQ[i - 1]
    <2> DEFINE q == InsertAt(eventQ, n, e)
    <2>1. /\ q \in Seq(TimerEvent) /\ Len(q) = Len(eventQ) + 1
          /\ \A i \in 1..(Len(eventQ) + 1) : q[i] =
                IF i < n THEN eventQ[i] ELSE IF i = n THEN e ELSE eventQ[i - 1]
      BY <1>2, <1>3, <1>4, Inserted
    <2> HIDE DEF q
    <2>2. eventQ' = q
      BY <1>5 DEF q
    <2> QED BY <2>1, <2>2
  <1>7. DOMAIN eventQ' = 1..(Len(eventQ) + 1) /\ eventQ' # <<>>
    BY <1>4, <1>6
  <1> DEFINE old(i) == IF i < n THEN i ELSE i - 1
  <1>8. \A i \in DOMAIN eventQ' : i # n =>
           old(i) \in DOMAIN eventQ /\ eventQ'[i] = eventQ[old(i)]
    BY <1>3, <1>4, <1>6, <1>7
  <1>9. n \in DOMAIN eventQ' /\ eventQ'[n] = e
    BY <1>3, <1>4, <1>6, <1>7
  <1>10. \A i, k \in DOMAIN eventQ' : i # n /\ k # n =>
            (i <= k => old(i) <= old(k)) /\ (old(i) = old(k) => i = k)
    BY <1>3, <1>4, <1>7
  <1>11. \A i \in DOMAIN eventQ' : (i < n => eventQ'[i].eventTime < t)
                                   /\ (i > n => eventQ'[i].eventTime >= t)
    <2> TAKE i \in DOMAIN eventQ'
    <2>1. i < n => i \in 1..Len(eventQ) /\ eventQ'[i] = eventQ[i]
      BY <1>3, <1>4, <1>6, <1>7
    <2>2. i > n => i - 1 \in 1..Len(eventQ) /\ i - 1 >= n
      BY <1>3, <1>4, <1>7
    <2>3. i > n => i # n /\ old(i) = i - 1
      BY <1>3, <1>4, <1>7
    <2>4. i > n => eventQ'[i] = eventQ[i - 1]
      BY <1>8, <2>3, Zenon
    <2> QED BY <1>3, <2>1, <2>2, <2>4
  <1>12. \A i \in DOMAIN eventQ' : eventQ'[i].eventTime \in Nat
    BY <1>1, <1>2, <1>4, <1>8, <1>9
  <1>13. \A k \in DOMAIN eventQ : \E i \in DOMAIN eventQ' : i # n /\ old(i) = k
    <2> TAKE k \in DOMAIN eventQ
    <2>1. CASE k < n
      BY <1>3, <1>4, <1>7, <2>1
    <2>2. CASE k >= n
      <3>1. k + 1 \in DOMAIN eventQ' /\ k + 1 # n /\ old(k + 1) = k
        BY <1>3, <1>4, <1>7, <2>2
      <3> QED BY <3>1
    <2> QED BY <1>3, <1>4, <2>1, <2>2
  <1>14. \A i \in DOMAIN eventQ' : i \in Int /\ n \in Int
    BY <1>3, <1>4, <1>7
  <1> HIDE DEF old, j, t
  <1>15. QueueOrdered'
    <2>1. ASSUME NEW i \in DOMAIN eventQ', NEW k \in DOMAIN eventQ', i <= k
          PROVE  eventQ'[i].eventTime <= eventQ'[k].eventTime
      <3>1. CASE i = n /\ k = n
        BY <1>12, <3>1
      <3>2. CASE i = n /\ k # n
        BY <1>2, <1>9, <1>11, <1>14, <2>1, <3>2
      <3>3. CASE i # n /\ k = n
        BY <1>1, <1>2, <1>9, <1>11, <1>12, <1>14, <2>1, <3>3 DEF t
      <3>4. CASE i # n /\ k # n
        BY <1>8, <1>10, <2>1, <3>4 DEF IInv, QueueOrdered
      <3> QED BY <3>1, <3>2, <3>3, <3>4
    <2>2. ASSUME NEW i \in DOMAIN eventQ', NEW k \in DOMAIN eventQ',
                 eventQ'[i].job = eventQ'[k].job
          PROVE  i = k
      <3>1. CASE i = n \/ k = n
        BY <1>1, <1>2, <1>8, <1>9, <2>2, <3>1 DEF InQueue
      <3>2. CASE i # n /\ k # n
        BY <1>8, <1>10, <2>2, <3>2 DEF IInv, QueueOrdered
      <3> QED BY <3>1, <3>2
    <2> QED BY <2>1, <2>2 DEF QueueOrdered
  <1>16. \A x : InQueue(x)' <=> InQueue(x) \/ x = j
    <2> TAKE x
    <2>1. ASSUME InQueue(x)' PROVE InQueue(x) \/ x = j
      BY <1>2, <1>8, <1>9, <2>1 DEF InQueue
    <2>2. ASSUME InQueue(x) PROVE InQueue(x)'
      <3>1. PICK k \in DOMAIN eventQ : eventQ[k].job = x
        BY <2>2 DEF InQueue
      <3>2. PICK i \in DOMAIN eventQ' : i # n /\ old(i) = k
        BY <1>13, <3>1
      <3>3. eventQ'[i].job = x
        BY <1>8, <3>1, <3>2
      <3> QED BY <3>3 DEF InQueue
    <2>3. x = j => InQueue(x)'
      BY <1>2, <1>9 DEF InQueue
    <2> QED BY <2>1, <2>2, <2>3
  <1>17. owed' \in [Job -> Int] /\ OwedOnce'
    <2>1. owed \in [Job -> Int] /\ owed' = [owed EXCEPT ![j] = owed[j] + 1]
      BY DEF IInv, TypeOK, j
    <2>2. ASSUME NEW x \in Job
          PROVE  owed'[x] = IF InQueue(x)' THEN 1 ELSE 0
      <3>1. owed[x] = IF InQueue(x) THEN 1 ELSE 0
        BY DEF IInv, OwedOnce
      <3>2. CASE x = j
        <4>1. InQueue(x)' /\ owed[x] = 0 /\ owed'[x] = owed[x] + 1
          BY <1>1, <1>16, <2>1, <3>1, <3>2
        <4> QED BY <4>1
      <3>3. CASE x # j
        <4>1. (InQueue(x)' <=> InQueue(x)) /\ owed'[x] = owed[x]
          BY <1>16, <2>1, <3>3
        <4> QED BY <3>1, <4>1
      <3> QED BY <3>2, <3>3
    <2> QED BY <1>1, <2>1, <2>2 DEF OwedOnce
  <1>18. eventId' \in [Job -> Nat \cup {NoId}]
         /\ \A x \in Job : eventId'[x] = IF x = j THEN lastEventId ELSE eventId[x]
    BY <1>1 DEF IInv, TypeOK, j
  <1>19. IdsBehind'
    <2>1. ASSUME NEW i \in DOMAIN eventQ' PROVE eventQ'[i].id < lastEventId + 1
      <3>1. CASE i = n
        BY <1>1, <1>2, <1>9, <3>1
      <3>2. CASE i # n
        <4>1. eventQ[old(i)].id \in Nat /\ eventQ[old(i)].id < lastEventId
          BY <1>8, <3>2, QueueTypes DEF IInv, IdsBehind
        <4> QED BY <1>1, <1>8, <3>2, <4>1
      <3> QED BY <3>1, <3>2
    <2>2. ASSUME NEW x \in Job PROVE eventId'[x] < lastEventId + 1
      <3>1. eventId[x] \in Int /\ eventId[x] < lastEventId
        BY DEF IInv, IdsBehind, TypeOK, NoId
      <3> QED BY <1>1, <1>18, <3>1
    <2> QED BY <2>1, <2>2 DEF IdsBehind
  <1>20. IdNamesItsEvent'
    <2>1. ASSUME NEW x \in Job, NEW i \in DOMAIN eventQ', eventQ'[i].id = eventId'[x]
          PROVE  eventQ'[i].job = x
      <3>1. eventId[x] < lastEventId /\ eventId[x] \in Int
        BY DEF IInv, IdsBehind, TypeOK, NoId
      <3>2. CASE i = n
        BY <1>1, <1>2, <1>9, <1>18, <2>1, <3>1, <3>2
      <3>3. CASE i # n
        <4>1. eventQ[old(i)].id \in Nat /\ eventQ[old(i)].id < lastEventId
          BY <1>8, <3>3, QueueTypes DEF IInv, IdsBehind
        <4>2. x # j
          BY <1>1, <1>8, <1>18, <2>1, <3>3, <4>1
        <4> QED BY <1>8, <1>18, <2>1, <3>3, <4>2 DEF IInv, IdNamesItsEvent
      <3> QED BY <3>2, <3>3
    <2> QED BY <2>1 DEF IdNamesItsEvent
  <1> QED BY <1>6, <1>7, <1>15, <1>16, <1>17, <1>18, <1>19, <1>20 DEF j

\* A step that leaves the queue and the threads in TimerThreadSchedule() alone.
LEMMA QueueQuiet ==
    ASSUME IInv, UNCHANGED <<lastEventId, eventQ, call, eventId, owed>>,
           Scheduling' = Scheduling
    PROVE  CallsApart' /\ QueueOrdered' /\ OwedOnce' /\ IdsBehind' /\ IdNamesItsEvent'
  <1>1. \A j : InQueue(j)' <=> InQueue(j)
    BY DEF InQueue
  <1>2. CallsApart'
    <2>1. NoCall' = NoCall
      BY DEF NoCall
    <2>2. \A c \in Scheduling : ~InQueue(call[c].job)'
      BY <1>1 DEF IInv, CallsApart
    <2> QED BY <2>1, <2>2 DEF IInv, CallsApart
  <1>3. OwedOnce'
    BY <1>1 DEF IInv, OwedOnce
  <1> QED BY <1>2, <1>3 DEF IInv, QueueOrdered, IdsBehind, IdNamesItsEvent

-----------------------------------------------------------------------------
(* The steps *)

\* Steps of the worker that do not touch the queue.
LEMMA WorkerQuiet ==
    ASSUME IInv, WorkerStop \/ WorkerWait \/ WaitTimesOut
    PROVE  IInv'
  <1> USE TimerAssumption
  <1>1. CallsApart' /\ QueueOrdered' /\ OwedOnce' /\ IdsBehind' /\ IdNamesItsEvent'
    <2>1. UNCHANGED <<lastEventId, eventQ, call, eventId, owed>> /\ Scheduling' = Scheduling
      BY DEF WorkerStop, WorkerWait, WaitTimesOut, timerVars, workVars, callVars, seenVars,
             Scheduling
    <2> QED BY <2>1, QueueQuiet
  <1>2. CASE WorkerStop
    <2>1. waiting' \subseteq waiting
      BY <1>2 DEF WorkerStop, Signalled
    <2>2. TypeOK'
      BY <1>2, <2>1 DEF IInv, TypeOK, WorkerStop, callVars, poolVars, seenVars
    <2>3. WaitersApart' /\ NoMissedEvent'
      BY <1>2, <2>1 DEF IInv, TypeOK, WaitersApart, NoMissedEvent, WorkerStop, AtLoop,
         callVars, poolVars, seenVars
    <2> QED BY <1>1, <2>2, <2>3 DEF IInv
  <1>3. CASE WorkerWait
    <2>1. eventQ # <<>> => /\ Head(eventQ).eventTime \in Nat
                           /\ \A i \in DOMAIN eventQ : Head(eventQ).eventTime <= eventQ[i].eventTime
      BY QueueTypes DEF IInv, QueueOrdered
    <2>2. eventQ = <<>> => DOMAIN eventQ = {}
      OBVIOUS
    <2>3. TypeOK'
      BY <1>3, <2>1 DEF IInv, TypeOK, WorkerWait, timerVars, callVars, poolVars, seenVars
    <2>4. WaitersApart'
      BY <1>3 DEF IInv, TypeOK, WaitersApart, WorkerWait, AtLoop,
         timerVars, callVars, poolVars, seenVars
    <2>5. NoMissedEvent'
      BY <1>3, <2>1, <2>2 DEF NoMissedEvent, WorkerWait, timerVars
    <2> QED BY <1>1, <2>3, <2>4, <2>5 DEF IInv
  <1>4. CASE WaitTimesOut
    <2>1. TypeOK'
      BY <1>4 DEF IInv, TypeOK, WaitTimesOut, timerVars, workVars, callVars, poolVars, seenVars
    <2>2. WaitersApart' /\ NoMissedEvent'
      BY <1>4 DEF IInv, TypeOK, WaitersApart, NoMissedEvent, WaitTimesOut,
         timerVars, workVars, callVars, poolVars, seenVars
    <2> QED BY <1>1, <2>1, <2>2 DEF IInv
  <1> QED BY <1>2, <1>3, <1>4

\* Events leave the queue, at its head or by TimerThreadRemove(); nothing else
\* of the queue, the identifiers and the waiting threads is changed.
LEMMA Leaves ==
    ASSUME IInv, NEW n \in 1..Len(eventQ), eventQ' = RemoveAt(eventQ, n),
           Dispose(eventQ[n].job),
           UNCHANGED <<lastEventId, shutdown, phase, timeToWait, waiting, callVars, now, lateFrom>>,
           wpc' = wpc \/ (wpc' = "loop" /\ WorkerId \notin waiting /\ wpc \notin {"none", "done"}),
           wpc' # "adding", pooled' \subseteq Job, running' \subseteq Job
    PROVE  IInv'
  <1>1. /\ eventQ' \in Seq(TimerEvent) /\ Len(eventQ') = Len(eventQ) - 1
        /\ \A i \in 1..(Len(eventQ) - 1) :
              eventQ'[i] = IF i < n THEN eventQ[i] ELSE eventQ[i + 1]
    BY QueueTypes, Removed DEF IInv
  <1>2. /\ QueueOrdered' /\ OwedOnce' /\ IdsBehind' /\ IdNamesItsEvent'
        /\ owed' \in [Job -> Int]
        /\ \A j : InQueue(j)' => InQueue(j)
        /\ \A i \in DOMAIN eventQ' : \E k \in DOMAIN eventQ : eventQ'[i] = eventQ[k]
    <2>1. UNCHANGED <<lastEventId, eventId>>
      BY DEF callVars
    <2> QED BY <1>1, <2>1, QueueShrinks
  <1>3. TypeOK'
    BY <1>1, <1>2 DEF IInv, TypeOK, callVars
  <1>4. CallsApart'
    <2>1. UNCHANGED <<Scheduling, call, lastEventId, NoCall>>
      BY DEF Scheduling, callVars, NoCall
    <2>2. \A c \in Scheduling : ~InQueue(call[c].job)'
      BY <1>2, <2>1 DEF IInv, CallsApart
    <2> QED BY <2>1, <2>2 DEF IInv, CallsApart
  <1>5. WaitersApart'
    BY DEF IInv, TypeOK, WaitersApart, callVars
  <1>6. NoMissedEvent'
    BY <1>2 DEF IInv, NoMissedEvent
  <1> QED BY <1>2, <1>3, <1>4, <1>5, <1>6 DEF IInv

\* The worker takes the head of the queue.
LEMMA WorkerTakes ==
    ASSUME IInv, HandOver \/ HandOverPersistent \/ PersistentTaken
    PROVE  IInv'
  <1> USE TimerAssumption
  <1>1. eventQ # <<>>
    BY DEF IInv, WaitersApart, HandOver, HandOverPersistent, PersistentTaken, Due
  <1>2. /\ 1 \in 1..Len(eventQ) /\ Head(eventQ) = eventQ[1] /\ eventQ[1].job \in Job
        /\ Tail(eventQ) = RemoveAt(eventQ, 1)
    <2>1. eventQ \in Seq(TimerEvent) /\ 1 \in 1..Len(eventQ) /\ Head(eventQ) = eventQ[1]
          /\ eventQ[1].job \in Job
      BY <1>1, QueueTypes DEF IInv
    <2>2. SubSeq(eventQ, 1, 0) = <<>>
      BY SubSeqEmpty
    <2>3. SubSeq(eventQ, 2, Len(eventQ)) \in Seq(TimerEvent)
          /\ SubSeq(eventQ, 2, Len(eventQ)) = Tail(eventQ)
      BY <1>1, <2>1, TailIsSubSeq, HeadTailProperties
    <2>4. RemoveAt(eventQ, 1) = <<>> \o Tail(eventQ)
      BY <2>2, <2>3 DEF RemoveAt
    <2> QED BY <2>1, <2>3, <2>4, ConcatEmptySeq
  <1>3. CASE HandOver
    <2>1. pooled' \subseteq Job /\ running' \subseteq Job
      BY <1>2, <1>3 DEF HandOver, IInv, TypeOK
    <2>2. Dispose(eventQ[1].job) /\ eventQ' = RemoveAt(eventQ, 1) /\ wpc' = "loop"
          /\ UNCHANGED <<lastEventId, shutdown, phase, timeToWait, waiting, callVars, now, lateFrom>>
          /\ WorkerId \notin waiting /\ wpc \notin {"none", "done"}
      BY <1>2, <1>3 DEF HandOver, AtLoop
    <2> QED BY <1>2, <2>1, <2>2, Leaves
  <1>4. CASE HandOverPersistent
    <2>1. CASE wpc' = "adding" /\ UNCHANGED <<eventQ, owed>>
      <3>1. UNCHANGED <<lastEventId, eventQ, call, eventId, owed, Scheduling>>
        BY <1>4, <2>1 DEF HandOverPersistent, callVars, Scheduling
      <3>2. CallsApart' /\ QueueOrdered' /\ OwedOnce' /\ IdsBehind' /\ IdNamesItsEvent'
        BY <3>1, QueueQuiet
      <3>3. TypeOK'
        BY <1>4, <2>1 DEF HandOverPersistent, IInv, TypeOK, callVars, poolVars
      <3>4. WaitersApart' /\ NoMissedEvent'
        BY <1>1, <1>4, <2>1 DEF HandOverPersistent, AtLoop, IInv, TypeOK, WaitersApart,
           NoMissedEvent, callVars, poolVars
      <3> QED BY <3>2, <3>3, <3>4 DEF IInv
    <2>2. CASE eventQ' = Tail(eventQ) /\ wpc' = "loop" /\ Dispose(Head(eventQ).job)
      <3>1. pooled' \subseteq Job /\ running' \subseteq Job
        BY <1>4 DEF HandOverPersistent, IInv, TypeOK, poolVars
      <3>2. Dispose(eventQ[1].job) /\ eventQ' = RemoveAt(eventQ, 1)
            /\ UNCHANGED <<lastEventId, shutdown, phase, timeToWait, waiting, callVars, now, lateFrom>>
            /\ WorkerId \notin waiting /\ wpc \notin {"none", "done"}
        BY <1>2, <1>4, <2>2 DEF HandOverPersistent, AtLoop
      <3> QED BY <1>2, <2>2, <3>1, <3>2, Leaves
    <2> QED BY <1>4, <2>1, <2>2 DEF HandOverPersistent
  <1>5. CASE PersistentTaken
    <2>1. pooled' \subseteq Job /\ running' \subseteq Job
      BY <1>2, <1>5 DEF PersistentTaken, IInv, TypeOK
    <2>2. Dispose(eventQ[1].job) /\ eventQ' = RemoveAt(eventQ, 1) /\ wpc' = "loop"
          /\ UNCHANGED <<lastEventId, shutdown, phase, timeToWait, waiting, callVars, now, lateFrom>>
          /\ WorkerId \notin waiting /\ wpc \notin {"none", "done"}
      BY <1>2, <1>5 DEF PersistentTaken, IInv, WaitersApart
    <2> QED BY <1>2, <2>1, <2>2, Leaves
  <1> QED BY <1>3, <1>4, <1>5

\* TimerThreadRemove() takes one event away, whichever its stale identifier names.
LEMMA CallerRemoves ==
    ASSUME IInv, NEW c \in Caller, TimerThreadRemove(c)
    PROVE  IInv'
  <1>1. PICK j \in Job :
           LET Named(e) == e.id = eventId[j]
               n == SelectInSeq(eventQ, Named)
           IN  n # 0 /\ Dispose(eventQ[n].job) /\ eventQ' = RemoveAt(eventQ, n)
    BY DEF TimerThreadRemove
  <1> DEFINE I == {i \in 1..Len(eventQ) : eventQ[i].id = eventId[j]}
             n == IF I # {} THEN Min(I) ELSE 0
  <1>2. n # 0 /\ Dispose(eventQ[n].job) /\ eventQ' = RemoveAt(eventQ, n)
    BY <1>1 DEF SelectInSeq
  <1>3. n \in 1..Len(eventQ)
    <2>1. I \subseteq Nat /\ I \subseteq 1..Len(eventQ) /\ I # {} /\ n = Min(I)
      BY <1>2
    <2> HIDE DEF I
    <2> QED BY <2>1, LeastExists
  <1> HIDE DEF n
  <1>4. pooled' \subseteq Job /\ running' \subseteq Job /\ wpc' = wpc /\ wpc' # "adding"
        /\ UNCHANGED <<lastEventId, shutdown, phase, timeToWait, waiting, callVars, now, lateFrom>>
    BY DEF TimerThreadRemove, IInv, TypeOK, poolVars, workVars, MutexFree
  <1> QED BY <1>2, <1>3, <1>4, Leaves

\* TimerThreadSchedule() up to the lock: the caller has a job that nobody uses.
LEMMA CallerSchedules ==
    ASSUME IInv, NEW c \in Caller, TimerThreadSchedule(c)
    PROVE  IInv'
  <1> USE TimerAssumption
  <1>1. PICK j \in Job, t \in Timeouts, type \in TimeoutType :
           /\ Unused(j)
           /\ call' = [call EXCEPT ![c] =
                 [job |-> j, timeout |-> CalculateEventTime(t, type)]]
    BY DEF TimerThreadSchedule
  <1>2. CalculateEventTime(t, type) \in Nat
    BY DEF IInv, TypeOK, CalculateEventTime
  <1>3. /\ cpc[c] = "out" /\ cpc' = [cpc EXCEPT ![c] = "schedule"]
        /\ UNCHANGED <<timerVars, workVars, waiting, eventId, poolVars, now, seenVars>>
        /\ lastEventId + Cardinality(Scheduling) < MaxEvents
    BY DEF TimerThreadSchedule, Active, Scheduling
  <1>4. TypeOK'
    BY <1>1, <1>2, <1>3 DEF IInv, TypeOK, timerVars, workVars, poolVars, seenVars
  <1>5. CallsApart'
    <2>1. Scheduling' = Scheduling \cup {c} /\ c \notin Scheduling
      BY <1>3 DEF Scheduling, IInv, TypeOK
    <2>2. IsFiniteSet(Scheduling') /\ Cardinality(Scheduling') = Cardinality(Scheduling) + 1
          /\ Cardinality(Scheduling) \in Nat
      BY <2>1, FS_AddElement, FS_CardinalityType DEF IInv, CallsApart
    <2>3. lastEventId' + Cardinality(Scheduling') <= MaxEvents
      BY <1>3, <2>2 DEF IInv, TypeOK, timerVars
    <2>4. \A x : InQueue(x)' <=> InQueue(x)
      BY <1>3 DEF InQueue, timerVars
    <2>5. /\ call'[c] = [job |-> j, timeout |-> CalculateEventTime(t, type)]
          /\ call'[c].job = j
          /\ \A d \in Caller : d # c => call'[d] = call[d]
      BY <1>1 DEF IInv, TypeOK
    <2>6. ~InQueue(j) /\ \A d \in Caller : call[d].job # j
      BY <1>1 DEF Unused, InQueue
    <2>7. \A d \in Scheduling' : call'[d] \in [job: Job, timeout: Nat]
      BY <1>2, <2>1, <2>5 DEF IInv, CallsApart, Scheduling
    <2>8. \A d \in Caller \ Scheduling' : call'[d] = NoCall
      BY <2>1, <2>5 DEF IInv, CallsApart, Scheduling
    <2>9. \A d \in Scheduling' : ~InQueue(call[d].job)'
      BY <2>1, <2>4, <2>5, <2>6 DEF IInv, CallsApart, Scheduling
    <2>10. \A d, f \in Scheduling' : call'[d].job = call'[f].job => d = f
      BY <2>1, <2>5, <2>6 DEF IInv, CallsApart, Scheduling
    <2>11. NoCall' = NoCall
      BY DEF NoCall
    <2> QED BY <2>2, <2>3, <2>7, <2>8, <2>9, <2>10, <2>11 DEF CallsApart
  <1>6. QueueOrdered' /\ IdsBehind' /\ IdNamesItsEvent' /\ NoMissedEvent'
    BY <1>3 DEF IInv, QueueOrdered, IdsBehind, IdNamesItsEvent, NoMissedEvent, timerVars, workVars
  <1>7. OwedOnce'
    BY <1>3 DEF IInv, OwedOnce, InQueue, timerVars, seenVars
  <1>8. WaitersApart'
    BY <1>3 DEF IInv, TypeOK, WaitersApart, timerVars, workVars, Caller
  <1> QED BY <1>4, <1>5, <1>6, <1>7, <1>8 DEF IInv

\* TimerThreadSchedule() from the lock on.
LEMMA CallerInserts ==
    ASSUME IInv, NEW c \in Caller, ScheduleLocked(c)
    PROVE  IInv'
  <1> USE TimerAssumption
  <1> DEFINE j == call[c].job
  <1>1. c \in Scheduling /\ cpc[c] = "schedule" /\ j \in Job
        /\ cpc' = [cpc EXCEPT ![c] = "out"] /\ call' = [call EXCEPT ![c] = NoCall]
        /\ UNCHANGED <<shutdown, phase, workVars, poolVars, now, lateFrom>>
        /\ phase \in {"up", "destroyed"} /\ wpc # "adding"
    BY DEF IInv, CallsApart, Scheduling, ScheduleLocked, MutexFree
  <1>2. cpc' \in [Caller -> {"out", "schedule", "shutdown"}]
        /\ call' \in [Caller -> [job: Job, timeout: Nat] \cup {NoCall}]
    BY <1>1 DEF IInv, TypeOK
  <1>3. Scheduling' = Scheduling \ {c}
    BY <1>1 DEF IInv, TypeOK, Scheduling
  <1>4. IsFiniteSet(Scheduling') /\ Cardinality(Scheduling') = Cardinality(Scheduling) - 1
        /\ Cardinality(Scheduling) \in Nat /\ Cardinality(Scheduling') \in Nat
    BY <1>1, <1>3, FS_RemoveElement, FS_CardinalityType DEF IInv, CallsApart
  <1>5. \A d \in Scheduling' : call'[d] = call[d] /\ d # c /\ d \in Scheduling
    BY <1>1, <1>3 DEF IInv, TypeOK, Scheduling
  <1>6. ASSUME lastEventId' \in {lastEventId, lastEventId + 1},
               \A x : InQueue(x)' => InQueue(x) \/ x = j
        PROVE  CallsApart'
    <2>1. lastEventId' + Cardinality(Scheduling') <= MaxEvents
      BY <1>4, <1>6 DEF IInv, TypeOK, CallsApart
    <2>2. \A d \in Caller \ Scheduling' : call'[d] = NoCall
      BY <1>1, <1>3 DEF IInv, TypeOK, CallsApart, Scheduling
    <2>3. \A d \in Scheduling' : ~InQueue(call[d].job)'
      BY <1>1, <1>5, <1>6 DEF IInv, CallsApart
    <2>4. NoCall' = NoCall
      BY DEF NoCall
    <2> QED BY <1>4, <1>5, <2>1, <2>2, <2>3, <2>4 DEF IInv, CallsApart
  <1>7. ASSUME waiting' \subseteq waiting, eventQ' # <<>> \/ eventQ' = eventQ
        PROVE  WaitersApart'
    BY <1>1, <1>7 DEF IInv, TypeOK, WaitersApart, workVars, Caller
  <1>8. lastEventId + 1 \in 0..MaxEvents
    <2>1. Cardinality(Scheduling) >= 1
      BY <1>4
    <2> QED BY <1>4, <2>1 DEF IInv, TypeOK, CallsApart
  <1>9. CASE /\ eventQ' = InsertAt(eventQ, Place(call[c].timeout),
                    [job |-> j, eventTime |-> call[c].timeout, id |-> lastEventId])
             /\ waiting' \in Signalled
             /\ owed' = [owed EXCEPT ![j] = @ + 1]
             /\ eventId' = [eventId EXCEPT ![j] = lastEventId]
             /\ lastEventId' = lastEventId + 1
    <2>1. /\ QueueOrdered' /\ OwedOnce' /\ IdsBehind' /\ IdNamesItsEvent'
          /\ eventQ' \in Seq(TimerEvent) /\ eventQ' # <<>>
          /\ owed' \in [Job -> Int] /\ eventId' \in [Job -> Nat \cup {NoId}]
          /\ \A x : InQueue(x)' => InQueue(x) \/ x = j
      BY <1>1, <1>9, QueueGrows
    <2>2. waiting' \subseteq waiting
      BY <1>9 DEF Signalled
    <2>3. TypeOK'
      BY <1>1, <1>2, <1>8, <1>9, <2>1, <2>2 DEF IInv, TypeOK, workVars, poolVars
    <2>4. NoMissedEvent'
      <3>1. SUFFICES ASSUME phase = "up", WorkerId \in waiting' PROVE FALSE
        BY <1>1 DEF NoMissedEvent
      <3>2. Owner \in waiting
        BY <1>9, <2>2, <3>1 DEF Signalled, IInv, WaitersApart
      <3> QED BY <2>2, <3>1, <3>2 DEF IInv, WaitersApart, NoMissedEvent
    <2> QED BY <1>6, <1>7, <1>9, <2>1, <2>2, <2>3, <2>4 DEF IInv
  <1>10. CASE /\ eventId' = [eventId EXCEPT ![j] = lastEventId]
              /\ lastEventId' = lastEventId + 1
              /\ UNCHANGED <<eventQ, waiting, owed>>
    <2>1. TypeOK'
      BY <1>1, <1>2, <1>8, <1>10 DEF IInv, TypeOK, workVars, poolVars
    <2>2. \A x : InQueue(x)' <=> InQueue(x)
      BY <1>10 DEF InQueue
    <2>3. OwedOnce' /\ QueueOrdered' /\ NoMissedEvent'
      BY <1>1, <1>10, <2>2 DEF IInv, OwedOnce, QueueOrdered, NoMissedEvent, workVars
    <2>4. lastEventId \in Nat /\ \A x \in Job : /\ eventId[x] \in Int
                                                /\ eventId'[x] = IF x = j THEN lastEventId ELSE eventId[x]
      BY <1>1, <1>10 DEF IInv, TypeOK, NoId
    <2>5. \A i \in DOMAIN eventQ : eventQ[i].id \in Nat /\ eventQ[i].id < lastEventId
      BY QueueTypes DEF IInv, IdsBehind
    <2>6. IdsBehind' /\ IdNamesItsEvent'
      BY <1>10, <2>4, <2>5 DEF IInv, IdsBehind, IdNamesItsEvent
    <2> QED BY <1>6, <1>7, <1>10, <2>1, <2>2, <2>3, <2>6 DEF IInv
  <1>11. CASE /\ eventId' = [eventId EXCEPT ![j] = NoId]
              /\ UNCHANGED <<lastEventId, eventQ, waiting, owed>>
    <2>1. TypeOK'
      BY <1>1, <1>2, <1>11 DEF IInv, TypeOK, workVars, poolVars
    <2>2. \A x : InQueue(x)' <=> InQueue(x)
      BY <1>11 DEF InQueue
    <2>3. OwedOnce' /\ QueueOrdered' /\ NoMissedEvent'
      BY <1>1, <1>11, <2>2 DEF IInv, OwedOnce, QueueOrdered, NoMissedEvent, workVars
    <2>4. lastEventId \in Nat /\ \A x \in Job : eventId'[x] = IF x = j THEN NoId ELSE eventId[x]
      BY <1>1, <1>11 DEF IInv, TypeOK, NoId
    <2>5. \A i \in DOMAIN eventQ : eventQ[i].id \in Nat
      BY QueueTypes DEF IInv
    <2>6. IdsBehind' /\ IdNamesItsEvent'
      BY <1>11, <2>4, <2>5 DEF IInv, IdsBehind, IdNamesItsEvent, NoId
    <2> QED BY <1>6, <1>7, <1>11, <2>1, <2>2, <2>3, <2>6 DEF IInv
  <1> QED BY <1>9, <1>10, <1>11 DEF ScheduleLocked, ReturnedId

\* TimerThreadShutdown() frees every event, and its broadcast wakes the worker.
LEMMA OwnerShutsDown ==
    ASSUME IInv, NEW c \in Caller, TimerThreadShutdown(c)
    PROVE  IInv'
  <1> USE TimerAssumption
  <1>1. /\ c = Owner /\ cpc[c] = "out" /\ phase = "up" /\ wpc # "adding"
        /\ shutdown' = TRUE /\ eventQ' = <<>> /\ lateFrom' = lastEventId
        /\ waiting' = {c} /\ cpc' = [cpc EXCEPT ![c] = "shutdown"]
        /\ UNCHANGED <<lastEventId, phase, workVars, call, eventId, poolVars, now>>
    BY DEF TimerThreadShutdown, Active, MutexFree
  <1>2. owed' = [j \in Job |-> 0]
    <2>1. owed' = [j \in Job |-> owed[j] - Events(j)]
      BY DEF TimerThreadShutdown, Events
    <2>2. \A j \in Job : owed[j] - Events(j) = 0
      BY EventsOfJob DEF IInv, OwedOnce
    <2> QED BY <2>1, <2>2
  <1>3. eventQ' \in Seq(TimerEvent) /\ DOMAIN eventQ' = {}
    BY <1>1
  <1>4. TypeOK'
    BY <1>1, <1>2, <1>3 DEF IInv, TypeOK, workVars, poolVars
  <1>5. \A j : ~InQueue(j)'
    BY <1>3 DEF InQueue
  <1>6. CallsApart'
    <2>1. UNCHANGED <<Scheduling, call, lastEventId, NoCall>>
      BY <1>1 DEF Scheduling, IInv, TypeOK, NoCall
    <2>2. \A d \in Scheduling : ~InQueue(call[d].job)'
      BY <1>5
    <2> QED BY <2>1, <2>2 DEF IInv, CallsApart
  <1>7. OwedOnce'
    BY <1>2, <1>5 DEF OwedOnce
  <1>8. QueueOrdered' /\ IdsBehind' /\ IdNamesItsEvent'
    BY <1>1, <1>3 DEF IInv, QueueOrdered, IdsBehind, IdNamesItsEvent
  <1>9. WaitersApart' /\ NoMissedEvent'
    BY <1>1 DEF IInv, TypeOK, WaitersApart, NoMissedEvent, workVars
  <1> QED BY <1>4, <1>6, <1>7, <1>8, <1>9 DEF IInv

\* The steps that change neither the queue nor what its callers hold.
LEMMA OtherSteps ==
    ASSUME IInv,
           \/ TimerThreadInit \/ Tick \/ UNCHANGED vars
           \/ \E c \in Caller : ShutdownWoken(c)
           \/ \E j \in Job : PoolRuns(j) \/ JobEnds(j)
    PROVE  IInv'
  <1> USE TimerAssumption
      DEF vars, timerVars, workVars, callVars, poolVars, seenVars
  <1>1. CASE TimerThreadInit
    <2>1. TypeOK'
      BY <1>1 DEF IInv, TypeOK, TimerThreadInit
    <2>2. UNCHANGED <<lastEventId, eventQ, call, eventId, owed, Scheduling>>
      BY <1>1 DEF TimerThreadInit, Scheduling
    <2>3. WaitersApart' /\ NoMissedEvent'
      BY <1>1 DEF IInv, TypeOK, WaitersApart, NoMissedEvent, TimerThreadInit
    <2> QED BY <2>1, <2>2, <2>3, QueueQuiet DEF IInv
  <1>2. CASE Tick \/ UNCHANGED vars \/ \E j \in Job : PoolRuns(j) \/ JobEnds(j)
    <2>1. UNCHANGED <<timerVars, workVars, waiting, callVars, seenVars>>
          /\ pooled' \subseteq Job /\ running' \subseteq Job /\ now' \in 0..MaxTime
      BY <1>2 DEF Tick, PoolRuns, JobEnds, IInv, TypeOK
    <2>2. TypeOK'
      BY <2>1 DEF IInv, TypeOK
    <2>3. UNCHANGED <<lastEventId, eventQ, call, eventId, owed, Scheduling>>
      BY <2>1 DEF Scheduling
    <2>4. WaitersApart' /\ NoMissedEvent'
      BY <2>1 DEF IInv, TypeOK, WaitersApart, NoMissedEvent
    <2> QED BY <2>2, <2>3, <2>4, QueueQuiet DEF IInv
  <1>3. ASSUME NEW c \in Caller, ShutdownWoken(c) PROVE IInv'
    <2>1. c = Owner /\ cpc[c] = "shutdown" /\ wpc # "adding"
      BY <1>3 DEF IInv, WaitersApart, ShutdownWoken, MutexFree
    <2>2. TypeOK'
      BY <1>3, <2>1 DEF IInv, TypeOK, ShutdownWoken
    <2>3. UNCHANGED <<lastEventId, eventQ, call, eventId, owed, Scheduling>>
      BY <1>3, <2>1 DEF ShutdownWoken, Scheduling, IInv, TypeOK
    <2>4. WaitersApart' /\ NoMissedEvent'
      BY <1>3, <2>1 DEF IInv, TypeOK, WaitersApart, NoMissedEvent, ShutdownWoken
    <2> QED BY <2>2, <2>3, <2>4, QueueQuiet DEF IInv
  <1> QED BY <1>1, <1>2, <1>3

\* The invariant holds when the program starts.
LEMMA InitHolds == Init => IInv
  <1> SUFFICES ASSUME Init PROVE IInv
    OBVIOUS
  <1> USE TimerAssumption DEF Init
  <1>1. eventQ \in Seq(TimerEvent) /\ DOMAIN eventQ = {}
    OBVIOUS
  <1>2. TypeOK
    <2>1. lastEventId \in 0..MaxEvents /\ now \in 0..MaxTime
      OBVIOUS
    <2>2. waiting \subseteq Client \cup {WorkerId} /\ pooled \subseteq Job /\ running \subseteq Job
      OBVIOUS
    <2>3. /\ cpc \in [Caller -> {"out", "schedule", "shutdown"}]
          /\ call \in [Caller -> [job: Job, timeout: Nat] \cup {NoCall}]
          /\ eventId \in [Job -> Nat \cup {NoId}] /\ owed \in [Job -> Int]
      OBVIOUS
    <2> QED BY <1>1, <2>1, <2>2, <2>3 DEF TypeOK
  <1>3. CallsApart
    <2>1. Scheduling = {} /\ \A c \in Caller : call[c] = NoCall
      BY DEF Scheduling
    <2> QED BY <2>1, FS_EmptySet DEF CallsApart
  <1>4. QueueOrdered /\ IdsBehind /\ IdNamesItsEvent /\ NoMissedEvent
    BY <1>1 DEF QueueOrdered, IdsBehind, IdNamesItsEvent, NoMissedEvent, NoId
  <1>5. OwedOnce
    BY <1>1 DEF OwedOnce, InQueue
  <1>6. WaitersApart
    BY DEF WaitersApart, Caller
  <1> QED BY <1>2, <1>3, <1>4, <1>5, <1>6 DEF IInv

\* The invariant holds always: every step keeps it.
LEMMA InvariantHolds == Spec => []IInv
  <1>1. IInv /\ [Next]_vars => IInv'
    BY WorkerQuiet, WorkerTakes, CallerSchedules, CallerInserts, CallerRemoves,
       OwnerShutsDown, OtherSteps DEF Next, WorkerStep, CallStep
  <1> QED BY InitHolds, <1>1, PTL DEF Spec

-----------------------------------------------------------------------------

\* Every variable of struct TimerThread and of the threads around it keeps its type.
THEOREM TypeCorrect == Spec => []TypeOK
  BY InvariantHolds, PTL DEF IInv

\* The argument of a scheduled job is disposed of exactly once, whoever takes
\* its event out of the queue.
THEOREM ArgumentCorrect == Spec => []ArgumentConserved
  <1>1. IInv => ArgumentConserved
    BY EventsOfJob DEF IInv, OwedOnce, ArgumentConserved
  <1> QED BY InvariantHolds, <1>1, PTL

\* A worker that sleeps unsignalled wakes up in time for every event, although
\* one signal of TimerThreadSchedule() wakes one thread, and the caller of
\* TimerThreadShutdown() waits on the same condition.
THEOREM WakeupCorrect == Spec => []NoMissedEvent
  BY InvariantHolds, PTL DEF IInv

\* A stale identifier never removes the event of another caller.
THEOREM IdCorrect == Spec => []IdNamesItsEvent
  BY InvariantHolds, PTL DEF IInv
=============================================================================
