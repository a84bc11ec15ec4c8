----------------------------- MODULE GenaDevice -----------------------------
(***************************************************************************)
(* Eventing on the device side (compa/src/gena/gena_device.cpp and the     *)
(* subscriptions of compa/src/genlib/service-table/service_table.cpp), for *)
(* one service of one registered device.                                   *)
(*                                                                         *)
(* Everything happens under the handle lock except the sending of a        *)
(* notification: a section between HandleLock() and HandleUnlock() is one  *)
(* action.  Each subscription has a queue, outgoing, whose head is also a  *)
(* job of gSendThreadPool; the job copies the subscription, sends without  *)
(* the lock, and then looks the subscription up again, to remove the head  *)
(* and to give the next event to the pool.                                 *)
(*                                                                         *)
(* An event stands for one property set with its reference counter.  The   *)
(* network, the pool and the application are external.  Memory for the     *)
(* event structures is not exhausted here; the pool may refuse a job.      *)
(***************************************************************************)
EXTENDS Integers, Sequences, FiniteSets, SequencesExt, FiniteSetsExt

CONSTANTS
    Sid,            \* identities of subscriptions; each is used once
    Timeouts,       \* the timeouts asked for; -1 is infinite
    MaxSubscriptionTimeOut, \* the device's limit; -1 is none
    EQMaxLen,       \* g_UpnpSdkEQMaxLen
    EQMaxAge,       \* g_UpnpSdkEQMaxAge
    KeyMax,         \* bound: the largest int, as ToSendEventKey
    MaxEvents,      \* bound: number of property sets
    Scenarios       \* bounds of a behaviour, whether the pool may refuse a job,
                    \* and the arguments of UpnpSetMaxSubscriptions()

Event == 1..MaxEvents
UPNP_INFINITE == -1
Reply == {"ok", "unreached", "unaccepted", "remove_sub"}

ASSUME GenaAssumption ==
    /\ IsFiniteSet(Sid)
    /\ Timeouts \subseteq Nat \cup {-1}
    /\ MaxSubscriptionTimeOut \in Nat \cup {UPNP_INFINITE}
    /\ EQMaxLen \in Nat /\ EQMaxAge \in Nat
    /\ KeyMax \in Nat \ {0}
    /\ MaxEvents \in Nat
    /\ Scenarios \subseteq [sids: SUBSET Sid, events: 0..MaxEvents, time: Nat,
                            refuse: BOOLEAN, max: SUBSET (Nat \cup {UPNP_INFINITE})]

VARIABLES
    registered,         \* the device handle and its service table exist
    MaxSubscriptions,   \* of the handle
    subscriptionList, TotalSubscriptions,   \* of the service
    sub,                \* the struct of each subscription in the list
    used,               \* subscriptions that were ever made
    pool,               \* notifications queued in gSendThreadPool
    sending,            \* notifications being sent
    lastEvent,          \* number of property sets made so far
    reference_count,    \* of each property set; 0: freed, or never made
    now,                \* time(NULL)
    scenario,           \* chosen at the start
    (* observations *)
    lastSent,           \* event and SEQ last sent to each subscription
    initial,            \* its initial event, once accepted
    refused             \* the pool has refused a job of this subscription

handleVars == <<registered, MaxSubscriptions, scenario>>
listVars == <<handleVars, subscriptionList, TotalSubscriptions>>
seenVars == <<lastSent, initial, refused>>
vars == <<listVars, sub, used, pool, sending, lastEvent, reference_count, now, seenVars>>

\* A job in outgoing; stale: its jobId says that the pool has got it.
QueuedJob == [ev: Event, ctime: Nat, stale: BOOLEAN]
Subscription == [active: BOOLEAN, ToSendEventKey: 0..KeyMax, expireTime: Nat,
                 outgoing: Seq(QueuedJob)]
Notification == [sid: Sid, ev: Event]

NewSubscription(expire) ==
    [active |-> FALSE, ToSendEventKey |-> 0, expireTime |-> expire, outgoing |-> <<>>]

Listed == Range(subscriptionList)
Expired(s) == sub[s].expireTime # 0 /\ sub[s].expireTime < now

\* GetSubscriptionSID() returns the subscription; if it has expired, it is
\* removed instead.
Found(s) == registered /\ s \in Listed /\ ~Expired(s)
Dropped(s) == IF registered /\ s \in Listed /\ Expired(s) THEN {s} ELSE {}

-----------------------------------------------------------------------------
(* Removing subscriptions, and the reference counters *)

\* The places <<s, i>> of outgoing queues from number n on.
Places(S, n) ==
    UNION {{<<s, i>> : i \in n..Len(sub[s].outgoing)} : s \in S}

\* free_notify_struct() for the queued jobs at the places P.
Released(P) ==
    [e \in Event |-> reference_count[e]
        - Cardinality({x \in P : sub[x[1]].outgoing[x[2]].ev = e})]

\* Mutant: the head is released too.
QueuedEventsAll(S) == Places(S, 1)

\* What freeSubscriptionQueuedEvents() releases: all but the head, which the
\* pool has a copy of.
QueuedEvents(S) == Places(S, 2)

\* Mutant: the counter is forgotten when a subscription has expired.
TotalWithoutExpired(S) ==
    TotalSubscriptions - Cardinality({s \in S : ~Expired(s)})

TotalWithout(S) == TotalSubscriptions - Cardinality(S)

\* A list without the nodes of S, the others in their order.
Without(list, S) ==
    LET kept == {i \in DOMAIN list : list[i] \notin S}
    IN  [k \in 1..Cardinality(kept) |->
            list[CHOOSE i \in kept : Cardinality({j \in kept : j <= i}) = k]]

\* The subscriptions S leave the list and are freed.
Unlink(S) ==
    /\ subscriptionList' = Without(subscriptionList, S)
    /\ TotalSubscriptions' = TotalWithout(S)

\* RemoveSubscriptionSID(), or one of the lookups that find S expired.
RemoveSubscriptions(S) ==
    /\ Unlink(S)
    /\ sub' = [s \in Sid |-> IF s \in S THEN NewSubscription(0) ELSE sub[s]]
    /\ reference_count' = Released(QueuedEvents(S))

-----------------------------------------------------------------------------
(* Requests of control points *)

\* The timeout granted, as expireTime.
ExpireTime(timeout) ==
    LET granted == IF /\ MaxSubscriptionTimeOut # -1
                      /\ timeout = -1 \/ timeout > MaxSubscriptionTimeOut
                   THEN MaxSubscriptionTimeOut ELSE timeout
    IN  IF granted >= 0 THEN now + granted ELSE 0

\* gena_process_subscription_request() up to the callback, when it succeeds;
\* a request that is refused, or whose answer fails, leaves no trace.
Subscribe(s) ==
    /\ registered
    /\ s \in scenario.sids \ used
    /\ MaxSubscriptions = -1 \/ TotalSubscriptions < MaxSubscriptions
    /\ \E timeout \in Timeouts :
          sub' = [sub EXCEPT ![s] = NewSubscription(ExpireTime(timeout))]
    /\ used' = used \cup {s}
    /\ subscriptionList' = <<s>> \o subscriptionList
    /\ TotalSubscriptions' = TotalSubscriptions + 1
    /\ UNCHANGED <<handleVars, pool, sending, lastEvent,
                   reference_count, now, seenVars>>

\* gena_process_subscription_renewal_request().  The subscription goes when
\* there are too many by now, or when the answer cannot be sent.
Renew(s) ==
    /\ \/ /\ Dropped(s) # {}
          /\ RemoveSubscriptions(Dropped(s))
       \/ /\ Found(s)
          /\ MaxSubscriptions # -1 /\ TotalSubscriptions > MaxSubscriptions
          /\ RemoveSubscriptions({s})
       \/ /\ Found(s)
          /\ MaxSubscriptions = -1 \/ TotalSubscriptions <= MaxSubscriptions
          /\ \/ RemoveSubscriptions({s})
             \/ /\ \E timeout \in Timeouts :
                      sub' = [sub EXCEPT ![s].expireTime = ExpireTime(timeout)]
                /\ UNCHANGED <<subscriptionList, TotalSubscriptions, reference_count>>
    /\ UNCHANGED <<handleVars, used, pool, sending, lastEvent,
                   now, seenVars>>

\* gena_process_unsubscribe_request(); a subscription that has expired is
\* removed by the lookup.
Unsubscribe(s) ==
    /\ registered /\ s \in Listed
    /\ RemoveSubscriptions({s})
    /\ UNCHANGED <<handleVars, used, pool, sending, lastEvent,
                   now, seenVars>>

-----------------------------------------------------------------------------
(* Calls of the application *)

\* UpnpSetMaxSubscriptions().
SetMaxSubscriptions ==
    /\ registered
    /\ MaxSubscriptions' \in scenario.max
    /\ UNCHANGED <<registered, scenario, subscriptionList, TotalSubscriptions, sub, used,
                   pool, sending, lastEvent, reference_count, now, seenVars>>

\* genaUnregisterDevice(): the service table goes with all subscriptions.
\* Notifications on their way find out later.
UnregisterDevice ==
    /\ registered
    /\ registered' = FALSE
    /\ RemoveSubscriptions(Listed)
    /\ UNCHANGED <<MaxSubscriptions, scenario, used, pool, sending, lastEvent, now, seenVars>>

\* genaInitNotifyCommon(), from UpnpAcceptSubscription(): the initial event.
\* When the pool refuses the job everything is freed, but active stays set.
InitNotify(s) ==
    \/ /\ Dropped(s) # {}
       /\ RemoveSubscriptions(Dropped(s))
       /\ UNCHANGED <<handleVars, used, pool, sending,
                      lastEvent, now, seenVars>>
    \/ /\ Found(s) /\ ~sub[s].active
       /\ lastEvent < scenario.events
       /\ LET e == lastEvent + 1
              job == [ev |-> e, ctime |-> now, stale |-> TRUE]
          IN  \/ /\ sub' = [sub EXCEPT ![s].active = TRUE,
                                       ![s].outgoing = Append(@, job)]
                 /\ pool' = pool \cup {[sid |-> s, ev |-> e]}
                 /\ reference_count' = [reference_count EXCEPT ![e] = 1]
                 /\ lastEvent' = e
                 /\ initial' = [initial EXCEPT ![s] = e]
                 /\ UNCHANGED refused
              \/ /\ scenario.refuse
                 /\ sub' = [sub EXCEPT ![s].active = TRUE]
                 /\ refused' = refused \cup {s}
                 /\ UNCHANGED <<pool, reference_count, lastEvent, initial>>
       /\ UNCHANGED <<listVars, used, sending, now, lastSent>>

TooMany(len) == len > EQMaxLen

\* maybeDiscardEvents(): how many jobs after the head go, oldest first.
Discards(q) ==
    LET Stops(k) == \/ Len(q) - k <= 1
                    \/ /\ ~TooMany(Len(q) - k)
                       /\ now - q[2 + k].ctime <= EQMaxAge
    IN  Min({k \in 0..Len(q) : Stops(k)})

Discarded(q) == LET k == Discards(q) IN [i \in 1..(Len(q) - k) |->
                                            IF i = 1 THEN q[1] ELSE q[i + k]]

\* Mutant: every new event is given to the pool at once.
KickstartAlways(q) == TRUE

\* Only an event that is alone in its queue is given to the pool at once.
Kickstart(q) == q = <<>>

\* genaNotifyAllCommon(), from UpnpNotify(): the loop over the active
\* subscriptions, which also removes those it finds expired.  It ends with the
\* one at place last whose job the pool refuses, leaving that job in its queue,
\* or (last = Len + 1) with the list.
NotifyAll ==
    /\ registered
    /\ lastEvent < scenario.events
    /\ \E last \in 1..(Len(subscriptionList) + 1) :
          LET e       == lastEvent + 1
              seen    == {subscriptionList[i] : i \in 1..Min({last, Len(subscriptionList)})}
              expired == {s \in seen : Expired(s)}
              S       == {s \in seen : sub[s].active /\ ~Expired(s)}
              kicked  == {s \in S : Kickstart(Discarded(sub[s].outgoing))}
              failing == IF last > Len(subscriptionList) THEN {}
                         ELSE {subscriptionList[last]}
              gone    == UNION {{<<s, i>> : i \in 2..(1 + Discards(sub[s].outgoing))} : s \in S}
              job(s)  == [ev |-> e, ctime |-> now, stale |-> s \in kicked \ failing]
          IN  /\ failing # {} => scenario.refuse
              /\ failing \subseteq kicked
              /\ Unlink(expired)
              /\ sub' = [s \in Sid |->
                    CASE s \in expired -> NewSubscription(0)
                      [] s \in S -> [sub[s] EXCEPT !.outgoing = Append(Discarded(@), job(s))]
                      [] OTHER -> sub[s]]
              /\ pool' = pool \cup {[sid |-> s, ev |-> e] : s \in kicked \ failing}
              /\ reference_count' = [Released(QueuedEvents(expired) \cup gone)
                                        EXCEPT ![e] = Cardinality(S)]
              /\ refused' = refused \cup failing
    /\ lastEvent' = lastEvent + 1
    /\ UNCHANGED <<handleVars, used, sending, now, lastSent, initial>>

-----------------------------------------------------------------------------
(* genaNotifyThread() *)

\* Up to the sending.  The job ends when its subscription is no more.
NotifyStart(n) ==
    /\ n \in pool
    /\ pool' = pool \ {n}
    /\ IF Found(n.sid)
       THEN /\ sending' = sending \cup {n}
            /\ lastSent' = [lastSent EXCEPT ![n.sid] =
                  [ev |-> n.ev, seq |-> sub[n.sid].ToSendEventKey]]
            /\ UNCHANGED <<subscriptionList, TotalSubscriptions, sub, reference_count>>
       ELSE /\ Unlink(Dropped(n.sid))
            /\ sub' = [s \in Sid |-> IF s \in Dropped(n.sid) THEN NewSubscription(0) ELSE sub[s]]
            /\ reference_count' = [Released(QueuedEvents(Dropped(n.sid)))
                                      EXCEPT ![n.ev] = @ - 1]
            /\ UNCHANGED <<sending, lastSent>>
    /\ UNCHANGED <<handleVars, used, lastEvent, now, initial, refused>>

\* Mutant: the key is never wrapped.
NextKeyUnbounded(k) == k + 1
\* Mutant: the key wraps to 0.
NextKeyZero(k) == IF k = KeyMax THEN 0 ELSE k + 1

NextKey(k) == IF k = KeyMax THEN 1 ELSE k + 1

\* Mutant: the next event is sent only if this one was delivered.
ActivatesNextIfDelivered(reply) == reply = "ok"

\* The next event is given to the pool whatever became of this one.
ActivatesNext(reply) == TRUE

\* After the sending, when the subscription is still there: the head goes,
\* the next event follows, and a control point that does not know the
\* subscription any more loses it.
NotifyDone(n, reply) ==
    LET s    == n.sid
        rest == IF sub[s].outgoing = <<>> THEN <<>> ELSE Tail(sub[s].outgoing)
        next == rest # <<>> /\ ActivatesNext(reply)
        gone == IF reply = "remove_sub" THEN {s} ELSE {}
        key  == NextKey(sub[s].ToSendEventKey)
    IN  /\ Found(s)
        /\ \E taken \in {next, next /\ ~scenario.refuse} :
              /\ pool' = IF taken THEN pool \cup {[sid |-> s, ev |-> rest[1].ev]} ELSE pool
              /\ refused' = IF next /\ ~taken THEN refused \cup {s} ELSE refused
        /\ sub' = [sub EXCEPT ![s] =
              IF gone # {} THEN NewSubscription(0)
              ELSE [@ EXCEPT !.ToSendEventKey = key,
                             !.outgoing = IF next THEN [rest EXCEPT ![1].stale = TRUE]
                                          ELSE rest]]
        /\ Unlink(gone)
        /\ reference_count' = [Released(Places(gone, 3)) EXCEPT ![n.ev] = @ - 1]

\* After the sending, when the subscription is gone.
NotifyVoid(n) ==
    /\ ~Found(n.sid)
    /\ Unlink(Dropped(n.sid))
    /\ sub' = [s \in Sid |-> IF s \in Dropped(n.sid) THEN NewSubscription(0) ELSE sub[s]]
    /\ reference_count' = [Released(QueuedEvents(Dropped(n.sid))) EXCEPT ![n.ev] = @ - 1]
    /\ UNCHANGED <<pool, refused>>

NotifyEnd(n) ==
    /\ n \in sending
    /\ sending' = sending \ {n}
    /\ NotifyVoid(n) \/ \E reply \in Reply : NotifyDone(n, reply)
    /\ UNCHANGED <<handleVars, used, lastEvent, now, lastSent, initial>>

Tick ==
    /\ now < scenario.time
    /\ now' = now + 1
    /\ UNCHANGED <<listVars, sub, used, pool, sending, lastEvent, reference_count, seenVars>>

-----------------------------------------------------------------------------
Init ==
    /\ scenario \in Scenarios
    /\ registered = TRUE
    /\ MaxSubscriptions = UPNP_INFINITE
    /\ subscriptionList = <<>>
    /\ TotalSubscriptions = 0
    /\ sub = [s \in Sid |-> NewSubscription(0)]
    /\ used = {}
    /\ pool = {}
    /\ sending = {}
    /\ lastEvent = 0
    /\ reference_count = [e \in Event |-> 0]
    /\ now = 1
    /\ lastSent = [s \in Sid |-> [ev |-> 0, seq |-> -1]]
    /\ initial = [s \in Sid |-> 0]
    /\ refused = {}

Request(s) == Subscribe(s) \/ Renew(s) \/ Unsubscribe(s)

Next ==
    \/ \E s \in Sid : Request(s) \/ InitNotify(s)
    \/ SetMaxSubscriptions
    \/ UnregisterDevice
    \/ NotifyAll
    \/ \E n \in pool : NotifyStart(n)
    \/ \E n \in sending : NotifyEnd(n)
    \/ Tick

Spec == Init /\ [][Next]_vars

\* The pool runs what it has taken, and sending ends by its timeouts.
FairSpec ==
    /\ Spec
    /\ \A n \in Notification : WF_vars(NotifyStart(n)) /\ WF_vars(NotifyEnd(n))

-----------------------------------------------------------------------------
(* Properties *)

\* The type of every variable: ToSendEventKey, for one, stays within an int.
TypeOK ==
    /\ scenario \in Scenarios
    /\ registered \in BOOLEAN
    /\ MaxSubscriptions \in Nat \cup {UPNP_INFINITE}
    /\ subscriptionList \in Seq(Sid)
    /\ TotalSubscriptions \in Int
    /\ sub \in [Sid -> Subscription]
    /\ used \subseteq Sid
    /\ pool \subseteq Notification /\ sending \subseteq Notification
    /\ lastEvent \in 0..MaxEvents
    /\ reference_count \in [Event -> Int]
    /\ now \in Nat
    /\ lastSent \in [Sid -> [ev: 0..MaxEvents, seq: -1..KeyMax]]
    /\ initial \in [Sid -> 0..MaxEvents]
    /\ refused \subseteq Sid

OnTheWay(s) == {n \in pool \cup sending : n.sid = s}

\* Exactly the head of a queue is in the pool or being sent ("there is a
\* mirror ThreadPool entry for this one", freeSubscriptionQueuedEvents()), so
\* that a subscription never has two notifications on their way and never
\* stalls, and the assertion of genaNotifyThread() on jobId holds.  Of a
\* subscription that was removed at most one notification remains.
HeadOnTheWay ==
    /\ \A s \in Sid : Cardinality(OnTheWay(s)) <= 1
    /\ \A s \in Listed \ refused :
          LET q == sub[s].outgoing
          IN  /\ OnTheWay(s) = IF q = <<>> THEN {} ELSE {[sid |-> s, ev |-> q[1].ev]}
              /\ \A i \in DOMAIN q : q[i].stale <=> i = 1

\* The same of every subscription, whatever the pool refuses.
EveryHeadOnTheWay ==
    \A s \in Listed : sub[s].outgoing # <<>> => OnTheWay(s) # {}

\* How many notify_thread_structs with the property set e are in use.
Holders(e) ==
    Cardinality({x \in Places(Listed, 2) : sub[x[1]].outgoing[x[2]].ev = e})
    + Cardinality({n \in pool \cup sending : n.ev = e})

\* A property set shared by the notifications of several subscriptions is
\* freed with the last of them and never before, although they end in the
\* pool, in a queue that is discarded or with a subscription that expires; a
\* leak happens only when the pool has refused a job.
CountsHolders ==
    \A e \in Event :
        /\ reference_count[e] >= Holders(e)
        /\ refused = {} => reference_count[e] = Holders(e)

\* TotalSubscriptions, which the limit on subscriptions is compared with, is
\* the length of the list however subscriptions leave it: by request, expired
\* in a lookup or in the loop of genaNotifyAllCommon(), or with the device.
TotalIsLength ==
    /\ TotalSubscriptions = Len(subscriptionList)
    /\ IsInjective(subscriptionList)

\* maybeDiscardEvents() says that "the list size can never go over
\* MAX_SUBSCRIPTION_QUEUED_EVENTS".  It can: the size is compared with > before
\* the new event is appended, and the head always stays.  This is the bound
\* that holds, one event more, and two when the maximum is 0.
OneAboveMaximum ==
    \A s \in Sid : Len(sub[s].outgoing) <= Max({EQMaxLen, 1}) + 1

\* A control point sees the events of its subscription in the order they
\* happened, the initial event first, with SEQ 0 once and then 1, 2, ...
\* (wrapping to 1), although events are dropped and sending fails.
SentInOrder ==
    [][\A s \in Sid : lastSent'[s] # lastSent[s] =>
          /\ lastSent'[s].ev > lastSent[s].ev
          /\ lastSent'[s].seq = IF lastSent[s].seq = KeyMax THEN 1
                                ELSE lastSent[s].seq + 1
          /\ lastSent[s].ev = 0 => (lastSent'[s].ev = initial[s] \/ s \in refused)]_vars

Queued(s, e) == \E i \in DOMAIN sub[s].outgoing : sub[s].outgoing[i].ev = e

\* Every queued event leaves its queue: one control point that does not
\* answer, goes away or is removed holds up nobody, not even itself.
EventLeaves ==
    \A s \in Sid, e \in Event : Queued(s, e) ~> (~Queued(s, e) \/ s \in refused)

=============================================================================
