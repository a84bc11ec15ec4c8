--------------------------------- MODULE Ssdp ---------------------------------
(***************************************************************************)
(* Discovery (ssdp/ *.cpp) over the table of handles: advertisements and   *)
(* their repetition by the timer, searches and their expiry, the handlers  *)
(* of incoming messages, unregistering and UpnpFinish().                   *)
(*                                                                         *)
(* A section under the lock of the table is one action.                    *)
(* AdvertiseAndReply() keeps the read lock while it sends, for as long as  *)
(* the pauses between its copies, so it has two: a writer waits until      *)
(* every sender is done.  The messages of one call are one entry: only who *)
(* is announced, and as what, matters.  Any thread may call the API, those *)
(* of the pools from a callback, but UpnpFinish(), which waits for the     *)
(* pools.  An event of the timer becomes a job and starts in one step (see *)
(* TimerThread and ThreadPool for what lies between).                      *)
(***************************************************************************)
EXTENDS HandleTable, SequencesExt

CONSTANTS
    Thread,         \* all threads
    Worker,         \* those of the pools
    Faults,         \* what may fail: "schedule", "pool"
    MaxWork,        \* bound: advertisements (those by the timer included),
                    \* searches and incoming messages together
    MaxTotal        \* bound: the same and registrations

ASSUME SsdpAssumption ==
    /\ Worker \subseteq Thread
    /\ Faults \subseteq {"schedule", "pool"}
    /\ MaxWork \in Nat /\ MaxTotal \in Nat

VARIABLES
    pc, local,
    (* the timer and the pool *)
    adTimer,    \* per handle, the pending events of AutoAdvertise()
    replyTimer, \* per handle, those of advertiseAndReplyThread()
    expiries,   \* the pending events of searchExpired()
    results,    \* queued jobs of send_search_result(), by search
    lastId,     \* event ids given to searches
    timerDown,  \* TimerThreadShutdown() has returned
    crashed,    \* the timer was used after that
    work,       \* what counts for the bound MaxWork
    finishing,  \* UpnpFinish() is called
    (* observations *)
    alive,      \* registrations that the network believes in
    unkept,     \* those whose repetition the timer or the pool refused
    hidden,     \* devices that were left when another of their family was freed
    searches    \* what has become of each search

threadVars == <<pc, local>>
timerVars == <<adTimer, replyTimer, expiries, results, lastId, timerDown, crashed>>
boundVars == <<work, finishing>>
seenVars == <<alive, unkept, hidden, searches>>
vars == <<handleVars, threadVars, timerVars, boundVars, seenVars>>

INVALID_EVENT_ID == -1

\* The locals of a call: its handle, where it returns to, whether a job made
\* it, the search or the family it is about; observed: the clients that a
\* message has to reach and those it has reached, by registration.
NoLocal == [handle |-> 0, back |-> "out", job |-> FALSE, id |-> 0, af |-> "none",
            kind |-> "none", must |-> {}, heard |-> {}]

\* Observed of a search: whose it is, whether its expiry was refused, and how
\* often the client was told of it.
NotSeen == [reg |-> 0, refused |-> FALSE, told |-> 0]

Sending == {"aliveSend", "byebyeSend", "replySend"}

\* Mutant: AdvertiseAndReply() does not keep the lock while it sends.
NoLock == TRUE

\* HandleLock() succeeds: nobody keeps the read lock.
WriteLock == \A t \in Thread : pc[t] \notin Sending

\* The bounds leave room for one more.
WithinTotal == regs + work < MaxTotal
MoreWork == work < MaxWork /\ WithinTotal

At(t, l) == ~crashed /\ pc[t] = l
Goto(t, l) == pc' = [pc EXCEPT ![t] = l] /\ UNCHANGED local
GotoWith(t, l, rec) == pc' = [pc EXCEPT ![t] = l] /\ local' = [local EXCEPT ![t] = rec]
Return(t) ==
    /\ pc' = [pc EXCEPT ![t] = local[t].back]
    /\ local' = [local EXCEPT ![t] = NoLocal]

\* The application calls the API, which UpnpFinish() ends for good.
AppCall(t) == At(t, "out") /\ ~finishing

\* A thread of a pool takes a job; the pools are shut down last.
PoolsUp == \A t \in Thread : pc[t] \notin {"finishPools", "finished"}
JobStarts(t) == t \in Worker /\ At(t, "out") /\ PoolsUp

Clients == {h \in Handle : GetHandleInfo(h) = "HND_CLIENT"}
RegsOf(handles) == {HandleTable[h].reg : h \in handles}

-----------------------------------------------------------------------------
(* Registration *)

UpnpRegisterClient ==
    /\ ~crashed /\ ~finishing /\ WriteLock /\ WithinTotal
    /\ RegisterClient
    /\ UNCHANGED <<threadVars, timerVars, boundVars, seenVars>>

UpnpRegisterRootDevice(af) ==
    /\ ~crashed /\ ~finishing /\ WriteLock /\ WithinTotal
    /\ RegisterRootDevice(af)
    /\ UNCHANGED <<threadVars, timerVars, boundVars, seenVars>>

\* The same handle is not unregistered by two threads at a time.
NotLeaving(h) ==
    \A t \in Thread :
        pc[t] \in {"unregisterClient", "byebye", "byebyeSend", "unregisterDevice"}
            => local[t].handle # h

\* UpnpUnRegisterClient() up to genaUnregisterClient(), for which see GenaCtrlpt.
UnRegisterClientStarts(t, h, back) ==
    /\ UpnpSdkClientRegistered > 0
    /\ GetHandleInfo(h) = "HND_CLIENT"
    /\ GotoWith(t, "unregisterClient", [NoLocal EXCEPT !.handle = h, !.back = back])

UpnpUnRegisterClient(t, h) ==
    /\ AppCall(t) /\ WriteLock /\ NotLeaving(h)
    /\ UnRegisterClientStarts(t, h, "out")
    /\ UNCHANGED <<handleVars, timerVars, boundVars, seenVars>>

\* The list of searches is freed; their events stay in the timer.
UnRegisterClientEnds(t) ==
    /\ At(t, "unregisterClient") /\ WriteLock
    /\ FreeClient(local[t].handle)
    /\ Return(t)
    /\ UNCHANGED <<UpnpSdkInit, regs, timerVars, boundVars, seenVars>>

\* UpnpUnRegisterRootDevice() up to the byebye messages: the service table is
\* freed (see GenaDevice) and the power state is set.
UnRegisterRootDeviceStarts(t, h, back) ==
    /\ GetHandleInfo(h) = "HND_DEVICE"
    /\ GotoWith(t, "byebye", [NoLocal EXCEPT !.handle = h, !.back = back])

UpnpUnRegisterRootDevice(t, h) ==
    /\ AppCall(t) /\ WriteLock /\ NotLeaving(h)
    /\ UnRegisterRootDeviceStarts(t, h, "out")
    /\ UNCHANGED <<handleVars, timerVars, boundVars, seenVars>>

UnRegisterRootDeviceEnds(t) ==
    /\ At(t, "unregisterDevice") /\ WriteLock
    /\ FreeRootDevice(local[t].handle)
    /\ LET h == local[t].handle
       IN  hidden' = hidden \cup RegsOf(DevicesOf(HandleTable[h].DeviceAf) \ {h})
    /\ Return(t)
    /\ UNCHANGED <<UpnpSdkInit, regs, timerVars, boundVars, alive, unkept, searches>>

-----------------------------------------------------------------------------
(* AdvertiseAndReply() *)

\* The device is looked up under the read lock, which is kept if there is one.
AdvertiseStarts(t) ==
    /\ At(t, "alive") \/ At(t, "byebye") \/ At(t, "reply")
    /\ \/ /\ GetHandleInfo(local[t].handle) = "HND_DEVICE"
          /\ Goto(t, CASE pc[t] = "alive" -> "aliveSend"
                       [] pc[t] = "byebye" -> "byebyeSend"
                       [] pc[t] = "reply" -> "replySend")
       \/ /\ GetHandleInfo(local[t].handle) # "HND_DEVICE"
          /\ Return(t)
    /\ UNCHANGED <<handleVars, timerVars, boundVars, seenVars>>

\* AdFlag 1: the last copy of the advertisements is sent.
DeviceAdvertisement(t) ==
    /\ At(t, "aliveSend")
    /\ alive' = alive \cup {HandleTable[local[t].handle].reg}
    /\ Goto(t, "schedule")
    /\ UNCHANGED <<handleVars, timerVars, boundVars, unkept, hidden, searches>>

\* AdFlag -1: the last copy of the byebye messages is sent.
DeviceShutdown(t) ==
    /\ At(t, "byebyeSend")
    /\ alive' = alive \ {HandleTable[local[t].handle].reg}
    /\ Goto(t, "unregisterDevice")
    /\ UNCHANGED <<handleVars, timerVars, boundVars, unkept, hidden, searches>>

\* AdFlag 0: the answer to a search is sent.
DeviceReply(t) ==
    /\ At(t, "replySend")
    /\ Return(t)
    /\ UNCHANGED <<handleVars, timerVars, boundVars, seenVars>>

-----------------------------------------------------------------------------
(* Advertising *)

\* UpnpSendAdvertisement() up to AdvertiseAndReply(), for the application or
\* for AutoAdvertise().
SendAdvertisementStarts(t, h, job) ==
    /\ WriteLock /\ MoreWork
    /\ IF GetHandleInfo(h) = "HND_DEVICE"
       THEN /\ GotoWith(t, "alive", [NoLocal EXCEPT !.handle = h, !.job = job])
            /\ work' = work + 1
       ELSE UNCHANGED <<threadVars, work>>

UpnpSendAdvertisement(t, h) ==
    /\ AppCall(t) /\ GetHandleInfo(h) = "HND_DEVICE"
    /\ SendAdvertisementStarts(t, h, FALSE)
    /\ UNCHANGED <<handleVars, timerVars, finishing, seenVars>>

\* The timer takes the event, or not, or is gone.
Schedules == ~timerDown
Refuses == ~timerDown /\ "schedule" \in Faults
UseAfterShutdown == timerDown

\* Mutant: only an application's call is repeated.
ScheduleUnlessJob(t) ==
    /\ IF local[t].job THEN UNCHANGED adTimer
       ELSE adTimer' = [adTimer EXCEPT ![local[t].handle] = @ + 1]
    /\ UNCHANGED <<unkept, crashed>>

\* The event for the next advertisement.
ScheduleAutoAdvertise(t) ==
    LET h == local[t].handle
    IN  \/ /\ Schedules
           /\ adTimer' = [adTimer EXCEPT ![h] = @ + 1]
           /\ UNCHANGED <<unkept, crashed>>
        \/ /\ Refuses
           /\ unkept' = unkept \cup {HandleTable[h].reg}
           /\ UNCHANGED <<adTimer, crashed>>
        \/ /\ UseAfterShutdown
           /\ crashed' \in BOOLEAN
           /\ UNCHANGED <<adTimer, unkept>>

\* The rest of UpnpSendAdvertisement(): whatever device has the handle now.
SendAdvertisementEnds(t) ==
    /\ At(t, "schedule") /\ WriteLock
    /\ IF GetHandleInfo(local[t].handle) = "HND_DEVICE"
       THEN ScheduleAutoAdvertise(t)
       ELSE UNCHANGED <<adTimer, unkept, crashed>>
    /\ Return(t)
    /\ UNCHANGED <<handleVars, replyTimer, expiries, results, lastId, timerDown, boundVars,
                   alive, hidden, searches>>

\* The event is due: AutoAdvertise() calls UpnpSendAdvertisement().
AutoAdvertise(t, h) ==
    /\ JobStarts(t) /\ adTimer[h] > 0
    /\ adTimer' = [adTimer EXCEPT ![h] = @ - 1]
    /\ SendAdvertisementStarts(t, h, TRUE)
    /\ UNCHANGED <<handleVars, replyTimer, expiries, results, lastId, timerDown, crashed,
                   finishing, seenVars>>

\* The pool refuses the job: nobody is left who would advertise this handle.
AutoAdvertiseRefused(h) ==
    /\ ~crashed /\ PoolsUp /\ "pool" \in Faults /\ adTimer[h] > 0
    /\ adTimer' = [adTimer EXCEPT ![h] = @ - 1]
    /\ unkept' = unkept \cup {HandleTable[h].reg}
    /\ UNCHANGED <<handleVars, threadVars, replyTimer, expiries, results, lastId, timerDown,
                   crashed, boundVars, alive, hidden, searches>>

-----------------------------------------------------------------------------
(* Searching *)

UpnpSearchAsync(t, h) ==
    /\ AppCall(t) /\ GetHandleInfo(h) = "HND_CLIENT"
    /\ MoreWork
    /\ work' = work + 1
    /\ GotoWith(t, "search", [NoLocal EXCEPT !.handle = h])
    /\ UNCHANGED <<handleVars, timerVars, finishing, seenVars>>

\* SearchByTarget(): the expiry is scheduled and the search listed in one
\* section; a refusal leaves the search in the list without an event.
SearchByTarget(t) ==
    LET h == local[t].handle
        List(id) == HandleTable' = [HandleTable EXCEPT ![h].SsdpSearchList = Append(@, id)]
    IN  /\ At(t, "search") /\ WriteLock
        /\ \/ /\ GetHandleInfo(h) # "HND_CLIENT"
              /\ UNCHANGED <<HandleTable, expiries, lastId, searches, crashed>>
           \/ /\ GetHandleInfo(h) = "HND_CLIENT" /\ Schedules
              /\ lastId' = lastId + 1
              /\ expiries' = expiries \cup {[id |-> lastId', handle |-> h]}
              /\ searches' = Append(searches, [NotSeen EXCEPT !.reg = HandleTable[h].reg])
              /\ List(lastId')
              /\ UNCHANGED crashed
           \/ /\ GetHandleInfo(h) = "HND_CLIENT" /\ Refuses
              /\ List(INVALID_EVENT_ID)
              /\ UNCHANGED <<expiries, lastId, searches, crashed>>
        /\ Return(t)
        /\ UNCHANGED <<UpnpSdkClientRegistered, UpnpSdkDeviceRegistered, UpnpSdkInit, regs,
                       adTimer, replyTimer, results, timerDown, boundVars, alive, unkept, hidden>>

\* Mutant: any search of the handle is taken for the one that expired.
FirstSearch(list, id) == IF list = <<>> THEN 0 ELSE 1

\* Where the search with this event is in the list, 0 if it is not there.
FindSearch(list, id) ==
    IF \E i \in DOMAIN list : list[i] = id
    THEN CHOOSE i \in DOMAIN list : list[i] = id /\ \A j \in 1..(i - 1) : list[j] # id
    ELSE 0

\* searchExpired(): the search leaves the list of whoever has the handle.
SearchExpired(t, e) ==
    LET list == HandleTable[e.handle].SsdpSearchList
        i == FindSearch(list, e.id)
    IN  /\ JobStarts(t) /\ WriteLock /\ e \in expiries
        /\ expiries' = expiries \ {e}
        /\ \/ /\ GetHandleInfo(e.handle) = "HND_CLIENT" /\ i > 0
              /\ HandleTable' = [HandleTable EXCEPT ![e.handle].SsdpSearchList = RemoveAt(list, i)]
              /\ GotoWith(t, "tell", [NoLocal EXCEPT !.id = list[i], !.job = TRUE])
           \/ /\ GetHandleInfo(e.handle) # "HND_CLIENT" \/ i = 0
              /\ UNCHANGED <<HandleTable, threadVars>>
        /\ UNCHANGED <<UpnpSdkClientRegistered, UpnpSdkDeviceRegistered, UpnpSdkInit, regs,
                       adTimer, replyTimer, results, lastId, timerDown, crashed, boundVars,
                       seenVars>>

\* Its callback with UPNP_DISCOVERY_SEARCH_TIMEOUT, outside the lock.
SearchTimeoutCallback(t) ==
    /\ At(t, "tell")
    /\ searches' = [searches EXCEPT ![local[t].id].told = @ + 1]
    /\ Return(t)
    /\ UNCHANGED <<handleVars, timerVars, boundVars, alive, unkept, hidden>>

SearchExpiredRefused(e) ==
    /\ ~crashed /\ PoolsUp /\ "pool" \in Faults /\ e \in expiries
    /\ expiries' = expiries \ {e}
    /\ searches' = [searches EXCEPT ![e.id].refused = TRUE]
    /\ UNCHANGED <<handleVars, threadVars, adTimer, replyTimer, results, lastId, timerDown,
                   crashed, boundVars, alive, unkept, hidden>>

-----------------------------------------------------------------------------
(* Incoming messages: ssdp_event_handler_thread() *)

\* ssdp_handle_ctrlpt_msg() with an advertisement or the answer to a search.
\* It is well formed and names its sender; others are dropped before.
CtrlptMsg(t, kind) ==
    /\ JobStarts(t) /\ MoreWork
    /\ work' = work + 1
    /\ GetClientHandleInfo # NoHandle
    /\ GotoWith(t, "ctrlptMsg", [NoLocal EXCEPT !.handle = GetClientHandleInfo, !.job = TRUE,
                                                !.kind = kind, !.must = RegsOf(Clients)])
    /\ UNCHANGED <<handleVars, timerVars, finishing, seenVars>>

\* Mutant: the loop ends at the first handle that is not a client.
CtrlptLoopEnds(h) == h = NUM_HANDLE \/ GetHandleInfo(h) # "HND_CLIENT"

\* for (handle = handle_start; handle < NUM_HANDLE; handle++)
LoopEnds(h) == h = NUM_HANDLE

\* A turn of its loop: the callback of the client is called, or a job for every
\* search that the answer matches is given to the pool, which may refuse it.
CtrlptMsgTurn(t) ==
    LET h == local[t].handle
        listed == ToSet(HandleTable[h].SsdpSearchList) \ {INVALID_EVENT_ID}
    IN  /\ At(t, "ctrlptMsg") /\ WriteLock /\ ~LoopEnds(h)
        /\ \/ /\ GetHandleInfo(h) # "HND_CLIENT"
              /\ GotoWith(t, "ctrlptMsg", [local[t] EXCEPT !.handle = h + 1])
              /\ UNCHANGED results
           \/ /\ GetHandleInfo(h) = "HND_CLIENT"
              /\ GotoWith(t, "ctrlptMsg",
                    [local[t] EXCEPT !.handle = h + 1,
                                     !.heard = @ \cup {HandleTable[h].reg}])
              /\ IF local[t].kind = "reply"
                 THEN \E matched \in SUBSET listed : results' = results \cup matched
                 ELSE UNCHANGED results
        /\ UNCHANGED <<handleVars, adTimer, replyTimer, expiries, lastId, timerDown, crashed,
                       boundVars, seenVars>>

CtrlptMsgEnds(t) ==
    /\ At(t, "ctrlptMsg") /\ LoopEnds(local[t].handle)
    /\ Return(t)
    /\ UNCHANGED <<handleVars, timerVars, boundVars, seenVars>>

\* send_search_result(): the callback, taken from the table when the job was
\* made.
SendSearchResult(id) ==
    /\ ~crashed /\ PoolsUp /\ id \in results
    /\ results' = results \ {id}
    /\ UNCHANGED <<handleVars, threadVars, adTimer, replyTimer, expiries, lastId, timerDown,
                   crashed, boundVars, seenVars>>

\* ssdp_handle_device_request(): a search came in over this family.
DeviceRequest(t, af) ==
    /\ JobStarts(t) /\ MoreWork
    /\ work' = work + 1
    /\ GotoWith(t, "request", [NoLocal EXCEPT !.af = af, !.job = TRUE])
    /\ UNCHANGED <<handleVars, timerVars, finishing, seenVars>>

\* A turn of its loop: the next device of the family, if any.
DeviceRequestTurn(t) ==
    LET h == GetDeviceHandleInfo(local[t].handle, local[t].af)
    IN  /\ At(t, "request") /\ WriteLock
        /\ \/ h = NoHandle /\ Return(t)
           \/ h # NoHandle /\ GotoWith(t, "requestReply", [local[t] EXCEPT !.handle = h])
        /\ UNCHANGED <<handleVars, timerVars, boundVars, seenVars>>

\* The reply is scheduled without the lock; a refusal is not looked at.
DeviceRequestReply(t) ==
    /\ At(t, "requestReply")
    /\ \/ /\ Schedules
          /\ replyTimer' = [replyTimer EXCEPT ![local[t].handle] = @ + 1]
          /\ UNCHANGED crashed
       \/ /\ Refuses
          /\ UNCHANGED <<replyTimer, crashed>>
       \/ /\ UseAfterShutdown
          /\ crashed' \in BOOLEAN
          /\ UNCHANGED replyTimer
    /\ Goto(t, "request")
    /\ UNCHANGED <<handleVars, adTimer, expiries, results, lastId, timerDown, boundVars,
                   seenVars>>

\* The reply is due: advertiseAndReplyThread(), unless the pool refuses it.
AdvertiseAndReplyThread(t, h) ==
    /\ JobStarts(t) /\ replyTimer[h] > 0
    /\ replyTimer' = [replyTimer EXCEPT ![h] = @ - 1]
    /\ \/ GotoWith(t, "reply", [NoLocal EXCEPT !.handle = h, !.job = TRUE])
       \/ "pool" \in Faults /\ UNCHANGED threadVars
    /\ UNCHANGED <<handleVars, adTimer, expiries, results, lastId, timerDown, crashed,
                   boundVars, seenVars>>

-----------------------------------------------------------------------------
(* UpnpFinish() *)

\* The last call of the application: no other one is under way.
UpnpFinish(t) ==
    /\ t \notin Worker /\ AppCall(t) /\ UpnpSdkInit = 1
    /\ \A u \in Thread : pc[u] = "out" \/ local[u].job
    /\ finishing' = TRUE
    /\ Goto(t, "finish")
    /\ UNCHANGED <<handleVars, timerVars, work, seenVars>>

\* The loops over the devices of each family and over the clients.  The handle
\* is looked up without the lock.  No registration can come in between, so a
\* loop that ended stays ended.
FinishDevice(t, af) ==
    /\ At(t, "finish") /\ GetDeviceHandleInfo(0, af) # NoHandle
    /\ UnRegisterRootDeviceStarts(t, GetDeviceHandleInfo(0, af), "finish")
    /\ UNCHANGED <<handleVars, timerVars, boundVars, seenVars>>

FinishClient(t) ==
    /\ At(t, "finish")
    /\ \A af \in Family : GetDeviceHandleInfo(0, af) = NoHandle
    /\ GetClientHandleInfo # NoHandle
    /\ UnRegisterClientStarts(t, GetClientHandleInfo, "finish")
    /\ UNCHANGED <<handleVars, timerVars, boundVars, seenVars>>

\* TimerThreadShutdown(): pending events are dropped.
FinishTimer(t) ==
    /\ At(t, "finish")
    /\ \A af \in Family : GetDeviceHandleInfo(0, af) = NoHandle
    /\ GetClientHandleInfo = NoHandle
    /\ timerDown' = TRUE
    /\ adTimer' = [h \in Handle |-> 0] /\ replyTimer' = [h \in Handle |-> 0]
    /\ expiries' = {}
    /\ Goto(t, "finishServer")
    /\ UNCHANGED <<handleVars, results, lastId, crashed, boundVars, seenVars>>

\* StopMiniServer() (see MiniServer): no message comes in any more.
FinishServer(t) ==
    /\ At(t, "finishServer")
    /\ Goto(t, "finishPools")
    /\ UNCHANGED <<handleVars, timerVars, boundVars, seenVars>>

\* Mutant: the pools do not wait for their workers.
FinishAtOnce(t) == TRUE

\* ThreadPoolShutdown() waits for the jobs that run.
WorkersGone(t) == \A u \in Thread \ {t} : pc[u] = "out"

\* The pools are shut down: waiting jobs are dropped, running ones end.
FinishPools(t) ==
    /\ At(t, "finishPools") /\ WorkersGone(t)
    /\ results' = {}
    /\ UpnpSdkInit' = 0
    /\ Goto(t, "finished")
    /\ UNCHANGED <<tableVars, regs, adTimer, replyTimer, expiries, lastId, timerDown, crashed,
                   boundVars, seenVars>>

\* After UpnpFinish(), or a crash, nothing happens.
Stopped == (crashed \/ UpnpSdkInit = 0) /\ UNCHANGED vars

-----------------------------------------------------------------------------
Init ==
    /\ HandleInit
    /\ pc = [t \in Thread |-> "out"]
    /\ local = [t \in Thread |-> NoLocal]
    /\ adTimer = [h \in Handle |-> 0] /\ replyTimer = [h \in Handle |-> 0]
    /\ expiries = {} /\ results = {} /\ lastId = 0
    /\ timerDown = FALSE /\ crashed = FALSE
    /\ work = 0 /\ finishing = FALSE
    /\ alive = {} /\ unkept = {} /\ hidden = {} /\ searches = <<>>

\* The steps that a thread inside the SDK goes on with.
Step(t) ==
    \/ UnRegisterClientEnds(t) \/ UnRegisterRootDeviceEnds(t)
    \/ AdvertiseStarts(t) \/ DeviceAdvertisement(t) \/ DeviceShutdown(t) \/ DeviceReply(t)
    \/ SendAdvertisementEnds(t)
    \/ SearchByTarget(t) \/ SearchTimeoutCallback(t)
    \/ CtrlptMsgTurn(t) \/ CtrlptMsgEnds(t)
    \/ DeviceRequestTurn(t) \/ DeviceRequestReply(t)
    \/ \E af \in Family : FinishDevice(t, af)
    \/ FinishClient(t) \/ FinishTimer(t) \/ FinishServer(t) \/ FinishPools(t)

\* The timer's events that are due, and the pool's jobs.
Expiry == \E t \in Thread, e \in expiries : SearchExpired(t, e)

Call(t) ==
    \/ \E h \in Handle :
          \/ UpnpUnRegisterClient(t, h) \/ UpnpUnRegisterRootDevice(t, h)
          \/ UpnpSendAdvertisement(t, h) \/ UpnpSearchAsync(t, h)
    \/ UpnpFinish(t)

Job(t) ==
    \/ \E h \in Handle : AutoAdvertise(t, h) \/ AdvertiseAndReplyThread(t, h)
    \/ \E kind \in {"advert", "reply"} : CtrlptMsg(t, kind)
    \/ \E af \in Family : DeviceRequest(t, af)

Next ==
    \/ UpnpRegisterClient
    \/ \E af \in Family : UpnpRegisterRootDevice(af)
    \/ \E t \in Thread : Call(t) \/ Job(t) \/ Step(t)
    \/ Expiry
    \/ \E h \in Handle : AutoAdvertiseRefused(h)
    \/ \E e \in expiries : SearchExpiredRefused(e)
    \/ \E id \in results : SendSearchResult(id)
    \/ Stopped

Spec == Init /\ [][Next]_vars

\* Threads inside the SDK go on: what they wait for (the network, the lock, the
\* end of jobs) comes.  Due events start: the timer thread and the pools run.
Fairness == (\A t \in Thread : WF_vars(Step(t))) /\ WF_vars(Expiry)

FairSpec == Spec /\ Fairness

-----------------------------------------------------------------------------
(* Properties *)

\* The type of every variable; a handle that is in use is never empty, and the
\* number of clients never drops below zero.
TypeOK ==
    /\ HandleTypeOK
    /\ \A t \in Thread : local[t].handle \in 0..NUM_HANDLE /\ local[t].id \in 0..lastId
    /\ adTimer \in [Handle -> Nat] /\ replyTimer \in [Handle -> Nat]
    /\ expiries \subseteq [id: 1..lastId, handle: Handle]
    /\ results \subseteq 1..lastId
    /\ Len(searches) = lastId
    /\ alive \subseteq 1..regs /\ unkept \subseteq 0..regs /\ hidden \subseteq 1..regs

\* A device that was advertised, and has not said byebye, is advertised again
\* before the advertisement expires: an event is pending for its handle, or
\* a call is about to make one, unless the timer or the pool refused it.
\* (AutoAdvertise(), UpnpSendAdvertisementLowPower())
AdvertisementKept ==
    \A h \in Handle :
        (~timerDown /\ HandleTable[h].reg \in alive \ unkept)
            => \/ adTimer[h] > 0
               \/ \E t \in Thread :
                     pc[t] \in {"alive", "aliveSend", "schedule"} /\ local[t].handle = h

\* As long as its client is registered, a search whose expiry was scheduled is
\* either in the list, waiting for its event, or its client has been told of
\* the end, or is about to be; and nobody is told twice. (searchExpired())
SearchToldOnce ==
    \A id \in 1..lastId :
        LET telling == {t \in Thread : pc[t] = "tell" /\ local[t].id = id}
        IN  /\ searches[id].told + Cardinality(telling) <= 1
            /\ \A h \in Handle :
                  (HandleTable[h].reg = searches[id].reg /\ ~timerDown) =>
                     LET listed == id \in ToSet(HandleTable[h].SsdpSearchList)
                     IN  /\ listed <=> (searches[id].told + Cardinality(telling) = 0)
                         /\ listed /\ ~searches[id].refused
                                => [id |-> id, handle |-> h] \in expiries

\* A message reaches every client that is registered from its arrival until
\* the loop has passed its handle, whoever else comes and goes.
\* (ssdp_handle_ctrlpt_msg())
MessageReachesAll ==
    \A t \in Thread, h \in Handle :
        (/\ pc[t] = "ctrlptMsg"
         /\ HandleTable[h].reg \in local[t].must
         /\ h < local[t].handle \/ LoopEnds(local[t].handle))
            => HandleTable[h].reg \in local[t].heard

\* UpnpFinish() leaves no client, no job and at most the devices that shared
\* their family with another one when that one was unregistered.
FinishCleansUp ==
    UpnpSdkInit = 0 =>
        /\ Clients = {} /\ UpnpSdkClientRegistered = 0
        /\ \A t \in Thread : pc[t] \in {"out", "finished"}
        /\ \A h \in Handle : HandleTable[h] # Null => HandleTable[h].reg \in hidden

\* UpnpFinish() ends, in spite of the jobs that still run and of those that the
\* timer still starts, unless one of them uses the timer after its end.
FinishEnds == finishing ~> (UpnpSdkInit = 0 \/ crashed)

===============================================================================
