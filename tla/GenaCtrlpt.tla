------------------------------ MODULE GenaCtrlpt ------------------------------
(***************************************************************************)
(* Eventing on the side of the control point: gena/gena_ctrlpt.cpp, the    *)
(* list of subscriptions of a client handle (client_table.cpp) and the     *)
(* calls of the API that lead there.                                       *)
(*                                                                         *)
(* A thread holds no lock while it talks to the publisher, except          *)
(* genaSubscribe(), which keeps GlobalClientSubscribeMutex.  A section     *)
(* between HandleLock() and HandleUnlock() is one action; it is enabled    *)
(* while no thread keeps the read lock, which only genaSubscribe() does    *)
(* across another lock.  The answer of the publisher, whatever it is, and  *)
(* the section that follows it are one action too: until the thread gets   *)
(* the lock nobody can see whether the answer has come.                    *)
(*                                                                         *)
(* The *Async() calls are the same calls made by a thread of the pool.     *)
(* The timer is the set of its pending events (see TimerThread).           *)
(***************************************************************************)
EXTENDS Integers, Sequences, FiniteSets, SequencesExt

CONSTANTS
    Thread,     \* threads of the application, of the pool and of the mini server
    NUM_HANDLE, \* handles are positive and smaller than this
    Nobody,     \* no thread
    Faults,     \* what may fail besides the publisher
    Bounds      \* of a behaviour: the calls of UpnpRegisterClient() that succeed,
                \* the subscriptions that the publisher accepts, the timer events
                \* scheduled, and the calls of the application with the events
                \* after the initial one

Handle == 1..(NUM_HANDLE - 1)
Fault == {"schedule", "pool"}
NoId == -1

ASSUME CtrlptAssumption ==
    /\ NUM_HANDLE \in Nat /\ NUM_HANDLE > 1
    /\ Nobody \notin Thread
    /\ Faults \subseteq Fault
    /\ Bounds \subseteq [regs: Nat, subs: Nat, events: Nat, calls: Nat]

VARIABLES
    (* the handle table *)
    registered,     \* the handles of type HND_CLIENT
    ClientSubList,  \* their lists of subscriptions
    (* the locks *)
    subscribeLock,  \* who holds GlobalClientSubscribeMutex
    readers,        \* who keeps GlobalHndRWLock for reading while it waits
    (* the threads *)
    pc, local,
    (* the timer and the pool *)
    timer,          \* the pending events
    lastEventId,
    fired,          \* jobs of GenaAutoRenewSubscription() in the pool
    (* identifiers *)
    lastSID,        \* SIDs made by uuid_create()
    lastActual,     \* SIDs made by the publisher
    initial,        \* those whose initial event is sent
    calls,          \* calls so far
    bound,          \* chosen at the start
    broken,         \* a list holds a deleted subscription: anything may follow
    (* observations *)
    epoch,          \* how often each handle was given out
    seen,           \* what has become of each SID
    rejected        \* initial events that were answered with an error

handleVars == <<registered, ClientSubList>>
lockVars == <<subscribeLock, readers>>
threadVars == <<pc, local>>
timerVars == <<timer, lastEventId, fired>>
nameVars == <<lastSID, lastActual, initial, calls>>
seenVars == <<epoch, bound, seen, rejected>>
vars == <<handleVars, lockVars, threadVars, timerVars, nameVars, broken, seenVars>>

SIDs == 1..lastSID
Subscription == [SID: Nat, ActualSID: Nat, RenewEventId: Int]
RenewEvent == [id: Nat, handle: Handle, SID: Nat]

\* The locals of a call: the handle, the argument in_sid, the copy sub_copy or
\* the event that is processed, whether the timer made the call, and (observed)
\* the registration that the call is about.
NoLocal == [handle |-> 0, SID |-> 0, ActualSID |-> 0, RenewEventId |-> NoId,
            auto |-> FALSE, eventKey |-> 0, ok |-> FALSE, epoch |-> 0]

\* Observed of a SID: the handle it was made for, whether that was still the
\* registration that asked for it, whether it has to be renewed, whether the
\* pool refused to renew it and whether the client knows of its end.
NotSeen == [handle |-> 0, own |-> FALSE, granted |-> "infinite",
            refused |-> FALSE, settled |-> FALSE]

-----------------------------------------------------------------------------
(* Lists, the timer, control *)

\* HandleLock() succeeds.
WriteLock == readers = {}

HasSID(h, sid) == \E i \in DOMAIN ClientSubList[h] : ClientSubList[h][i].SID = sid

GetClientSubClientSID(h, sid) ==
    CHOOSE i \in DOMAIN ClientSubList[h] : ClientSubList[h][i].SID = sid

\* GetClientSubActualSID(): the subscription that an event is for.
HasActualSID(h, actual) ==
    \E i \in DOMAIN ClientSubList[h] : ClientSubList[h][i].ActualSID = actual

\* TimerThreadRemove(): only an event that has not fired is found.
TimerThreadRemove(ids) == {e \in timer : e.id \notin ids}

\* RemoveClientSubClientSID() with free_client_subscription(): the subscription
\* leaves the list and its event, if it has one, the timer.
Without(h, sid) ==
    LET Named(sub) == sub.SID = sid IN RemoveFirstMatch(ClientSubList[h], Named)

EventsOf(h, sid) ==
    {sub.RenewEventId : sub \in {s \in ToSet(ClientSubList[h]) : s.SID = sid}}

RemoveClientSubClientSID(h, sid) ==
    /\ ClientSubList' = [ClientSubList EXCEPT ![h] = Without(h, sid)]
    /\ timer' = TimerThreadRemove(EventsOf(h, sid))

Goto(t, l) == pc' = [pc EXCEPT ![t] = l] /\ UNCHANGED local
GotoWith(t, l, rec) == pc' = [pc EXCEPT ![t] = l] /\ local' = [local EXCEPT ![t] = rec]
Return(t) == GotoWith(t, "out", NoLocal)

\* The client of the handle knows that this subscription is over.
Settle(sid) == seen' = [seen EXCEPT ![sid].settled = TRUE]

At(t, l) == ~broken /\ pc[t] = l

-----------------------------------------------------------------------------
(* Registration *)

UpnpRegisterClient ==
    /\ ~broken /\ WriteLock
    /\ registered # Handle
    /\ LET h == Min(Handle \ registered)
           regs == {x \in Handle \X (1..bound.regs) : x[2] <= epoch[x[1]]}
       IN  /\ Cardinality(regs) < bound.regs
           /\ registered' = registered \cup {h}
           /\ ClientSubList' = [ClientSubList EXCEPT ![h] = <<>>]
           /\ epoch' = [epoch EXCEPT ![h] = @ + 1]
    /\ UNCHANGED <<lockVars, threadVars, timerVars, nameVars, broken, bound, seen, rejected>>

\* UpnpUnRegisterClient() and genaUnregisterClient(), a turn of its loop up to
\* the request.
UnregisterTake(t, h) ==
    /\ WriteLock
    /\ \/ /\ h \notin registered
          /\ Return(t)
          /\ UNCHANGED <<ClientSubList, timer, seen>>
       \/ /\ h \in registered /\ ClientSubList[h] = <<>>
          /\ GotoWith(t, "unregisterFree", [NoLocal EXCEPT !.handle = h])
          /\ UNCHANGED <<ClientSubList, timer, seen>>
       \/ /\ h \in registered /\ ClientSubList[h] # <<>>
          /\ LET sub_copy == Head(ClientSubList[h])
             IN  /\ RemoveClientSubClientSID(h, sub_copy.SID)
                 /\ Settle(sub_copy.SID)
                 /\ GotoWith(t, "unregisterSend",
                       [NoLocal EXCEPT !.handle = h,
                                       !.RenewEventId = sub_copy.RenewEventId])
    /\ UNCHANGED <<registered, lockVars, lastEventId, fired, nameVars, broken,
                   epoch, bound, rejected>>

UpnpUnRegisterClient(t, h) ==
    /\ At(t, "out") /\ h \in registered
    /\ UnregisterTake(t, h)

UnregisterNext(t) ==
    /\ At(t, "unregister")
    /\ UnregisterTake(t, local[t].handle)

\* The answer to UNSUBSCRIBE is not looked at; free_client_subscription(sub_copy).
UnregisterSent(t) ==
    /\ At(t, "unregisterSend")
    /\ timer' = TimerThreadRemove({local[t].RenewEventId})
    /\ GotoWith(t, "unregister", [local[t] EXCEPT !.RenewEventId = NoId])
    /\ UNCHANGED <<handleVars, lockVars, lastEventId, fired, nameVars, broken, seenVars>>

\* The rest of UpnpUnRegisterClient(): FreeHandle().  The list is not looked
\* at again; what was added since goes with the handle.
UnregisterFree(t) ==
    /\ At(t, "unregisterFree") /\ WriteLock
    /\ registered' = registered \ {local[t].handle}
    /\ ClientSubList' = [ClientSubList EXCEPT ![local[t].handle] = <<>>]
    /\ seen' = [sid \in DOMAIN seen |->
                   IF seen[sid].handle = local[t].handle THEN NotSeen ELSE seen[sid]]
    /\ Return(t)
    /\ UNCHANGED <<lockVars, timerVars, nameVars, broken,
                   epoch, bound, rejected>>

-----------------------------------------------------------------------------
(* Renewal events *)

\* ScheduleGenaAutoRenew() for an answer that grants a limited time or not:
\* the event to add, or none, and whether the timer takes it.
Outcomes(timeout) ==
    IF timeout = "infinite" THEN {"none"}
    ELSE (IF lastEventId < bound.events THEN {"scheduled"} ELSE {})
         \cup (IF "schedule" \in Faults THEN {"failed"} ELSE {})

TimeOuts == {"finite", "infinite"}

\* The event is handed to the pool, which may refuse the job.
TimerFires(e) ==
    /\ ~broken
    /\ e \in timer
    /\ timer' = timer \ {e}
    /\ \/ fired' = fired \cup {e} /\ UNCHANGED seen
       \/ /\ "pool" \in Faults
          /\ seen' = [seen EXCEPT ![e.SID].refused = TRUE]
          /\ UNCHANGED fired
    /\ UNCHANGED <<handleVars, lockVars, threadVars, lastEventId, nameVars, broken,
                   epoch, bound, rejected>>

-----------------------------------------------------------------------------
(* genaSubscribe() *)

\* The wrapper in upnpapi.cpp finds the handle valid, and gives up the lock.
UpnpSubscribe(t, h) ==
    /\ At(t, "out") /\ h \in registered
    /\ GotoWith(t, "subscribe", [NoLocal EXCEPT !.handle = h, !.epoch = epoch[h]])
    /\ calls < bound.calls
    /\ calls' = calls + 1
    /\ UNCHANGED <<handleVars, lockVars, timerVars, lastSID, lastActual, initial,
                   broken, seenVars>>

\* The handle is validated under the read lock.  If it is not valid any more
\* the mutex is taken before the lock is given up.
SubscribeCheck(t) ==
    /\ At(t, "subscribe")
    /\ IF local[t].handle \in registered
       THEN Goto(t, "subscribeLock") /\ UNCHANGED readers
       ELSE Goto(t, "subscribeInvalid") /\ readers' = readers \cup {t}
    /\ UNCHANGED <<handleVars, subscribeLock, timerVars, nameVars, broken, seenVars>>

SubscribeInvalid(t) ==
    /\ At(t, "subscribeInvalid")
    /\ subscribeLock = Nobody
    /\ readers' = readers \ {t}
    /\ Return(t)
    /\ UNCHANGED <<handleVars, subscribeLock, timerVars, nameVars, broken, seenVars>>

\* The request is sent.  The publisher (external) may accept it: it makes a
\* SID and can send events from now on, whether or not its answer arrives.
SubscribeSend(t) ==
    /\ At(t, "subscribeLock")
    /\ subscribeLock = Nobody
    /\ subscribeLock' = t
    /\ \/ /\ lastActual < bound.subs
          /\ lastActual' = lastActual + 1
          /\ GotoWith(t, "subscribeSent", [local[t] EXCEPT !.ActualSID = lastActual'])
       \/ Goto(t, "subscribeSent") /\ UNCHANGED lastActual
    /\ UNCHANGED <<handleVars, readers, timerVars, lastSID, initial, calls,
                   broken, seenVars>>

\* Mutant: the error path keeps the mutex.
ErrorHandlerKeepsLock(t) ==
    /\ Return(t)
    /\ UNCHANGED <<handleVars, subscribeLock, timerVars, lastSID, broken, seen>>

\* label error_handler, with nothing in the list.
ErrorHandler(t) ==
    /\ Return(t)
    /\ subscribeLock' = Nobody
    /\ UNCHANGED <<handleVars, timerVars, lastSID, broken, seen>>

\* No answer, or not the expected one.
SubscribeFails(t) ==
    /\ At(t, "subscribeSent") /\ WriteLock
    /\ ErrorHandler(t)
    /\ UNCHANGED <<readers, lastActual, initial, calls, epoch, bound, rejected>>

\* The publisher has granted the subscription.  When the timer refuses the
\* event the new subscription is deleted while it is the head of the list.
SubscribeGranted(t, timeout) ==
    /\ At(t, "subscribeSent") /\ WriteLock
    /\ local[t].ActualSID # 0
    /\ LET h == local[t].handle
           sid == lastSID + 1
       IN  \/ h \notin registered /\ ErrorHandler(t)
           \/ /\ h \in registered
              /\ \E o \in Outcomes(timeout) :
                    LET id == IF o = "scheduled" THEN lastEventId ELSE NoId
                        new == [SID |-> sid, ActualSID |-> local[t].ActualSID,
                                RenewEventId |-> id]
                    IN
                    /\ ClientSubList' = [ClientSubList EXCEPT ![h] = <<new>> \o @]
                    /\ IF o = "scheduled"
                       THEN /\ timer' = timer \cup {[id |-> id, handle |-> h, SID |-> sid]}
                            /\ lastEventId' = id + 1
                       ELSE UNCHANGED <<timer, lastEventId>>
                    /\ broken' = (o = "failed")
              /\ lastSID' = sid
              /\ seen' = [seen EXCEPT ![sid] =
                    [NotSeen EXCEPT !.handle = h, !.granted = timeout,
                                    !.own = epoch[h] = local[t].epoch]]
              /\ subscribeLock' = Nobody
              /\ Return(t)
              /\ UNCHANGED <<registered, fired>>
    /\ UNCHANGED <<readers, lastActual, initial, calls, epoch, bound, rejected>>

-----------------------------------------------------------------------------
(* genaRenewSubscription() and GenaAutoRenewSubscription() *)

\* Up to the request.  The pending event is removed.
RenewTake(t, h, sid, auto) ==
    /\ WriteLock
    /\ h \in registered /\ HasSID(h, sid)
    /\ LET i == GetClientSubClientSID(h, sid)
       IN  /\ timer' = TimerThreadRemove({ClientSubList[h][i].RenewEventId})
           /\ ClientSubList' = [ClientSubList EXCEPT ![h][i].RenewEventId = NoId]
    /\ GotoWith(t, "renewSent", [NoLocal EXCEPT !.handle = h, !.SID = sid, !.auto = auto])

\* A handle or a SID that is not valid leads to an error and to nothing else.
UpnpRenewSubscription(t, h, sid) ==
    /\ At(t, "out")
    /\ RenewTake(t, h, sid, FALSE)
    /\ calls < bound.calls
    /\ calls' = calls + 1
    /\ UNCHANGED <<registered, lockVars, lastEventId, fired, lastSID, lastActual,
                   initial, broken, seenVars>>

\* The pool runs the job of an event: GENA_E_BAD_HANDLE and GENA_E_BAD_SID end it.
GenaAutoRenewSubscription(t, e) ==
    /\ At(t, "out")
    /\ e \in fired
    /\ fired' = fired \ {e}
    /\ \/ RenewTake(t, e.handle, e.SID, TRUE)
       \/ /\ WriteLock
          /\ e.handle \notin registered \/ ~HasSID(e.handle, e.SID)
          /\ UNCHANGED <<ClientSubList, timer, threadVars>>
    /\ UNCHANGED <<registered, lockVars, lastEventId, nameVars, broken, seenVars>>

\* Mutant: an automatic renewal that fails is not worth an event.
RenewErrorSilent(t) ==
    /\ Return(t)
    /\ IF local[t].auto THEN UNCHANGED seen ELSE Settle(local[t].SID)

\* An error other than GENA_E_BAD_SID and GENA_E_BAD_HANDLE: the caller gets it,
\* and for an automatic renewal the client is to be told.
RenewError(t) ==
    IF local[t].auto
    THEN Goto(t, "renewFailed") /\ UNCHANGED seen
    ELSE Return(t) /\ Settle(local[t].SID)

RenewRefused(t) ==
    /\ At(t, "renewSent") /\ WriteLock
    /\ LET h == local[t].handle
       IN  \/ /\ h \notin registered
              /\ Return(t)
              /\ UNCHANGED <<ClientSubList, timer, seen>>
           \/ /\ h \in registered
              /\ RemoveClientSubClientSID(h, local[t].SID)
              /\ RenewError(t)
    /\ UNCHANGED <<registered, lockVars, lastEventId, fired, nameVars, broken,
                   epoch, bound, rejected>>

\* The publisher keeps the SID it has given (external).
RenewGranted(t, timeout) ==
    /\ At(t, "renewSent") /\ WriteLock
    /\ LET h == local[t].handle
           sid == local[t].SID
           i == GetClientSubClientSID(h, sid)
       IN  \/ /\ h \notin registered \/ ~HasSID(h, sid)
              /\ Return(t)
              /\ UNCHANGED <<ClientSubList, timer, lastEventId, seen>>
           \/ /\ h \in registered /\ HasSID(h, sid)
              /\ \E o \in Outcomes(timeout) :
                    \/ /\ o = "none"
                       /\ Return(t)
                       /\ seen' = [seen EXCEPT ![sid].granted = timeout]
                       /\ UNCHANGED <<ClientSubList, timer, lastEventId>>
                    \/ /\ o = "scheduled"
                       /\ ClientSubList' =
                             [ClientSubList EXCEPT ![h][i].RenewEventId = lastEventId]
                       /\ timer' = timer \cup
                             {[id |-> lastEventId, handle |-> h, SID |-> sid]}
                       /\ lastEventId' = lastEventId + 1
                       /\ Return(t)
                       /\ seen' = [seen EXCEPT ![sid].granted = timeout]
                    \/ /\ o = "failed"
                       /\ RemoveClientSubClientSID(h, sid)
                       /\ RenewError(t)
                       /\ UNCHANGED lastEventId
    /\ UNCHANGED <<registered, lockVars, fired, nameVars, broken,
                   epoch, bound, rejected>>

\* UPNP_EVENT_AUTORENEWAL_FAILED, if the handle is still valid.
RenewFailed(t) ==
    /\ At(t, "renewFailed")
    /\ IF local[t].handle \in registered THEN Settle(local[t].SID) ELSE UNCHANGED seen
    /\ Return(t)
    /\ UNCHANGED <<handleVars, lockVars, timerVars, nameVars, broken,
                   epoch, bound, rejected>>

-----------------------------------------------------------------------------
(* genaUnSubscribe() *)

\* Up to the request: sub_copy keeps the identifier of the event.
UpnpUnSubscribe(t, h, sid) ==
    /\ At(t, "out") /\ WriteLock
    /\ h \in registered /\ HasSID(h, sid)
    /\ LET sub == ClientSubList[h][GetClientSubClientSID(h, sid)]
       IN  GotoWith(t, "unsubscribeSent",
              [NoLocal EXCEPT !.handle = h, !.SID = sid,
                              !.RenewEventId = sub.RenewEventId])
    /\ calls < bound.calls
    /\ calls' = calls + 1
    /\ UNCHANGED <<handleVars, lockVars, timerVars, lastSID, lastActual, initial,
                   broken, seenVars>>

\* Mutant: when the publisher does not answer the call is over.
UnSubscribeSentOrLost(t) ==
    /\ At(t, "unsubscribeSent")
    /\ timer' = TimerThreadRemove({local[t].RenewEventId})
    /\ Goto(t, "unsubscribeRemove") \/ Return(t)
    /\ UNCHANGED <<handleVars, lockVars, lastEventId, fired, nameVars, broken, seenVars>>

\* Whatever the answer, free_client_subscription(sub_copy) comes next.
UnSubscribeSent(t) ==
    /\ At(t, "unsubscribeSent")
    /\ timer' = TimerThreadRemove({local[t].RenewEventId})
    /\ Goto(t, "unsubscribeRemove")
    /\ UNCHANGED <<handleVars, lockVars, lastEventId, fired, nameVars, broken, seenVars>>

UnSubscribeRemove(t) ==
    /\ At(t, "unsubscribeRemove") /\ WriteLock
    /\ LET h == local[t].handle
       IN  \/ /\ h \notin registered
              /\ UNCHANGED <<ClientSubList, timer, seen>>
           \/ /\ h \in registered
              /\ RemoveClientSubClientSID(h, local[t].SID)
              /\ Settle(local[t].SID)
    /\ Return(t)
    /\ UNCHANGED <<registered, lockVars, lastEventId, fired, nameVars, broken,
                   epoch, bound, rejected>>

-----------------------------------------------------------------------------
(* gena_process_notification_event() *)

\* An event of the publisher arrives (external): the initial one, with key 0,
\* is sent once, as soon as the subscription is accepted.
Notification(t, actual, key) ==
    /\ At(t, "out") /\ WriteLock
    /\ key = 0 => actual \notin initial
    /\ key # 0 => actual \in initial /\ calls < bound.calls
    /\ initial' = initial \cup {actual}
    /\ calls' = IF key = 0 THEN calls ELSE calls + 1
    /\ IF registered = {}
       THEN /\ UNCHANGED threadVars
            /\ rejected' = IF key = 0 THEN rejected \cup {actual} ELSE rejected
       ELSE /\ GotoWith(t, "notify",
                  [NoLocal EXCEPT
                     !.handle = Min(registered), !.ActualSID = actual, !.eventKey = key])
            /\ UNCHANGED rejected
    /\ UNCHANGED <<handleVars, lockVars, timerVars, lastSID, lastActual, broken,
                   epoch, bound, seen>>

\* Mutant: the loop runs one handle too far.
NextHandleLong(t, l) ==
    IF local[t].handle < NUM_HANDLE
    THEN GotoWith(t, "notify", [l EXCEPT !.handle = @ + 1]) /\ UNCHANGED rejected
    ELSE Return(t) /\ UNCHANGED rejected

\* The loop goes on to the next handle, or the answer err_ret is sent.
NextHandle(t, l) ==
    IF local[t].handle + 1 < NUM_HANDLE
    THEN /\ GotoWith(t, "notify", [l EXCEPT !.handle = @ + 1])
         /\ UNCHANGED rejected
    ELSE /\ Return(t)
         /\ rejected' = IF l.eventKey = 0 /\ ~l.ok
                        THEN rejected \cup {l.ActualSID} ELSE rejected

Found(h, actual) == h \in registered /\ HasActualSID(h, actual)

\* The event is for this client: its callback is called without the lock.
ToCallback(t) ==
    /\ GotoWith(t, "callback",
          [local[t] EXCEPT !.ok = TRUE])
    /\ UNCHANGED rejected

\* Mutant: an unknown SID is rejected at once, also of an initial event.
NotifyLookOnce(t) ==
    /\ At(t, "notify") /\ WriteLock
    /\ IF Found(local[t].handle, local[t].ActualSID)
       THEN ToCallback(t)
       ELSE NextHandle(t, local[t])
    /\ UNCHANGED <<handleVars, lockVars, timerVars, nameVars, broken, epoch, bound, seen>>

NotifyLook(t) ==
    /\ At(t, "notify") /\ WriteLock
    /\ LET h == local[t].handle
       IN  \/ Found(h, local[t].ActualSID) /\ ToCallback(t)
           \/ /\ h \in registered /\ ~Found(h, local[t].ActualSID)
              /\ local[t].eventKey = 0
              /\ Goto(t, "notifyLock")
              /\ UNCHANGED rejected
           \/ /\ ~Found(h, local[t].ActualSID)
              /\ h \notin registered \/ local[t].eventKey # 0
              /\ NextHandle(t, local[t])
    /\ UNCHANGED <<handleVars, lockVars, timerVars, nameVars, broken, epoch, bound, seen>>

\* "wait until we've finished processing a subscription"
NotifyLock(t) ==
    /\ At(t, "notifyLock")
    /\ subscribeLock = Nobody
    /\ subscribeLock' = t
    /\ Goto(t, "notifyLocked")
    /\ UNCHANGED <<handleVars, readers, timerVars, nameVars, broken, seenVars>>

NotifyLookAgain(t) ==
    /\ At(t, "notifyLocked") /\ WriteLock
    /\ subscribeLock' = Nobody
    /\ IF Found(local[t].handle, local[t].ActualSID)
       THEN ToCallback(t)
       ELSE NextHandle(t, local[t])
    /\ UNCHANGED <<handleVars, readers, timerVars, nameVars, broken, epoch, bound, seen>>

NotifyCallback(t) ==
    /\ At(t, "callback")
    /\ NextHandle(t, local[t])
    /\ UNCHANGED <<handleVars, lockVars, timerVars, nameVars, broken, epoch, bound, seen>>

-----------------------------------------------------------------------------
Init ==
    /\ registered = {}
    /\ ClientSubList = [h \in Handle |-> <<>>]
    /\ subscribeLock = Nobody
    /\ readers = {}
    /\ pc = [t \in Thread |-> "out"]
    /\ local = [t \in Thread |-> NoLocal]
    /\ timer = {}
    /\ lastEventId = 0
    /\ fired = {}
    /\ lastSID = 0 /\ lastActual = 0
    /\ initial = {}
    /\ calls = 0
    /\ broken = FALSE
    /\ bound \in Bounds
    /\ epoch = [h \in Handle |-> 0]
    /\ seen = [sid \in 1..bound.subs |-> NotSeen]
    /\ rejected = {}

\* A call goes on: what a thread in the library does next.
CallStep(t) ==
    \/ UnregisterNext(t) \/ UnregisterSent(t) \/ UnregisterFree(t)
    \/ SubscribeCheck(t) \/ SubscribeInvalid(t) \/ SubscribeSend(t)
    \/ SubscribeFails(t)
    \/ RenewRefused(t) \/ RenewFailed(t)
    \/ UnSubscribeSent(t) \/ UnSubscribeRemove(t)
    \/ NotifyLook(t) \/ NotifyLock(t) \/ NotifyLookAgain(t) \/ NotifyCallback(t)

\* What a thread outside the library begins, and what the publisher grants.
CallBegins(t) ==
    \/ \E h \in Handle :
          \/ UpnpUnRegisterClient(t, h)
          \/ UpnpSubscribe(t, h)
          \/ \E sid \in SIDs :
                UpnpRenewSubscription(t, h, sid) \/ UpnpUnSubscribe(t, h, sid)
    \/ \E e \in fired : GenaAutoRenewSubscription(t, e)
    \/ \E actual \in 1..lastActual, key \in 0..1 : Notification(t, actual, key)

Granted(t) ==
    \E timeout \in TimeOuts : SubscribeGranted(t, timeout) \/ RenewGranted(t, timeout)

Next ==
    \/ UpnpRegisterClient
    \/ \E e \in timer : TimerFires(e)
    \/ \E t \in Thread : CallBegins(t) \/ CallStep(t) \/ Granted(t)

Spec == Init /\ [][Next]_vars

\* A thread that can go on does, and a request is answered or times out
\* (HTTP_DEFAULT_TIMEOUT).  Nobody need call the library.
FairSpec == Spec /\ \A t \in Thread : WF_vars(CallStep(t) \/ Granted(t))

-----------------------------------------------------------------------------
(* Properties *)

\* The type of every variable of the control point.
TypeOK ==
    /\ registered \subseteq Handle
    /\ ClientSubList \in [Handle -> Seq(Subscription)]
    /\ subscribeLock \in Thread \cup {Nobody}
    /\ readers \subseteq Thread
    /\ \A t \in Thread : local[t].handle \in Handle \cup {0}
    /\ timer \subseteq RenewEvent /\ fired \subseteq RenewEvent
    /\ lastSID \in 0..bound.subs /\ lastActual \in 0..bound.subs
    /\ lastEventId \in 0..bound.events
    /\ initial \subseteq 1..lastActual
    /\ broken \in BOOLEAN

\* A subscription that runs out is not forgotten: as long as it is in the list
\* of its client there is an event that will renew it, a job that is about to,
\* or a call of genaRenewSubscription() or genaUnSubscribe() that will schedule
\* the event anew or take it out of the list, however these calls overtake
\* each other.  Only the pool can refuse the job of the event.
RenewalUnderWay ==
    ~broken =>
        \A h \in registered : \A i \in DOMAIN ClientSubList[h] :
            LET sid == ClientSubList[h][i].SID
                Busy(t) == /\ local[t].handle = h /\ local[t].SID = sid
                           /\ pc[t] \in {"renewSent", "unsubscribeRemove"}
            IN  \/ seen[sid].granted = "infinite"
                \/ seen[sid].refused
                \/ \E e \in timer \cup fired : e.handle = h /\ e.SID = sid
                \/ \E t \in Thread : Busy(t)

\* "this is to avoid mistakenly rejecting the first event if we receive it
\* before the subscription response": the initial event of a subscription that
\* is in the list of the client who asked for it was not answered with an error.
InitialEventKept ==
    \A h \in registered : \A i \in DOMAIN ClientSubList[h] :
        LET sub == ClientSubList[h][i]
        IN  seen[sub.SID].own => sub.ActualSID \notin rejected

\* No subscription disappears in silence.  While the handle it was made for is
\* registered it is in the list, or the client has cancelled it, has got the
\* error of a renewal, or has been or is being told UPNP_EVENT_AUTORENEWAL_FAILED.
NoSilentLoss ==
    \A sid \in SIDs :
        LET h == seen[sid].handle
        IN  h \in registered =>
                \/ HasSID(h, sid)
                \/ seen[sid].settled
                \/ \E t \in Thread : pc[t] = "renewFailed" /\ local[t].SID = sid

\* Two threads wait for each other: one in genaSubscribe() that has found its
\* handle invalid keeps the read lock and waits for the mutex, whose holder
\* waits for the write lock.
CircularWait ==
    subscribeLock # Nobody /\ readers # {}

\* Every call returns, and every event that arrives is answered, unless two
\* threads block each other for good in that one way.
CallReturns ==
    \A t \in Thread : pc[t] # "out" ~> (pc[t] = "out" \/ broken \/ CircularWait)

\* UpnpSubscribe() with a handle that is not valid any more returns, with
\* UPNP_E_INVALID_HANDLE.
InvalidHandleReturned ==
    \A t \in Thread : pc[t] = "subscribeInvalid" ~> pc[t] = "out"

=============================================================================
