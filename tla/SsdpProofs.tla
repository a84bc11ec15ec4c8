------------------------------ MODULE SsdpProofs ------------------------------
(***************************************************************************)
(* Theorems about Ssdp for every number of threads, handles, families,     *)
(* registrations, searches and messages.                                   *)
(***************************************************************************)
EXTENDS Ssdp, FiniteSetTheorems, SequenceLemmas

LeavingPc == {"unregisterClient", "byebye", "byebyeSend", "unregisterDevice"}
AdvertisingPc == {"alive", "aliveSend", "schedule"}
EndedPc == {"finishServer", "finishPools", "finished"}
FinishPc == EndedPc \cup {"finish"}
DevicePc == {"byebye", "byebyeSend", "unregisterDevice", "aliveSend", "replySend"}
HandlePc == LeavingPc \cup AdvertisingPc \cup {"reply", "replySend", "search", "requestReply"}
Pc == HandlePc \cup FinishPc \cup {"out", "tell", "ctrlptMsg", "request"}
LocalType == [handle: 0..NUM_HANDLE, back: {"out", "finish"}, job: BOOLEAN, id: Nat,
              af: Family \cup {"none"}, kind: {"none", "advert", "reply"},
              must: SUBSET Nat, heard: SUBSET Nat]
SearchType == [reg: Nat, refused: BOOLEAN, told: Nat]

-----------------------------------------------------------------------------
(* The inductive invariant *)

\* The variables beside the table and the threads.
TimerTypes ==
    /\ adTimer \in [Handle -> Nat] /\ replyTimer \in [Handle -> Nat]
    /\ lastId \in Nat
    /\ expiries \subseteq [id: 1..lastId, handle: Handle]
    /\ results \subseteq 1..lastId
    /\ timerDown \in BOOLEAN /\ crashed \in BOOLEAN /\ finishing \in BOOLEAN
SeenTypes ==
    /\ searches \in Seq(SearchType) /\ Len(searches) = lastId
    /\ alive \subseteq 1..regs /\ unkept \subseteq 0..regs /\ hidden \subseteq 1..regs

\* What thread and message handler with locals r may rely on at point l: its
\* handle is still in use if it is about to free it or keeps the read lock, and
\* a message has reached the clients whose handles its loop has passed.
Well(l, r) ==
    /\ l \in Pc /\ r \in LocalType /\ r.id <= lastId
    /\ l \in HandlePc => r.handle \in Handle
    /\ l = "unregisterClient" => GetHandleInfo(r.handle) = "HND_CLIENT"
    /\ l \in DevicePc => GetHandleInfo(r.handle) = "HND_DEVICE"
    /\ l \in {"request", "requestReply"} => r.af \in Family
    /\ l = "tell" => r.id >= 1
    /\ l \in LeavingPc => ~r.job
    /\ r.back = "finish" => l \in LeavingPc
    /\ l = "ctrlptMsg" =>
         /\ r.handle >= 1 /\ r.must \subseteq 1..regs
         /\ \A h \in Handle : HandleTable[h].reg \in r.must =>
              /\ GetHandleInfo(h) = "HND_CLIENT"
              /\ h < r.handle => HandleTable[h].reg \in r.heard

Threads ==
    /\ pc \in [Thread -> Pc] /\ local \in [Thread -> LocalType]
    /\ \A t \in Thread : Well(pc[t], local[t])

\* A registration number names one handle, the counter counts the clients, and
\* a device is found through the flag of its family unless it is hidden.
Table ==
    /\ HandleTypeOK
    /\ \A h \in Handle :
         /\ HandleTable[h].HType = "HND_INVALID" => HandleTable[h] = Null
         /\ HandleTable[h].HType = "HND_DEVICE" => HandleTable[h].DeviceAf \in Family
         /\ HandleTable[h].HType # "HND_INVALID" => HandleTable[h].reg \in 1..regs
    /\ \A h, k \in Handle : HandleTable[h].reg = HandleTable[k].reg /\ HandleTable[h].reg # 0 => h = k
    /\ UpnpSdkClientRegistered = Cardinality(Clients)
    /\ \A h \in Handle : HandleTable[h].HType = "HND_DEVICE" =>
          UpnpSdkDeviceRegistered[HandleTable[h].DeviceAf] = 1 \/ HandleTable[h].reg \in hidden

\* Two threads never free the same handle, and once UpnpFinish() is called only
\* the thread that called it frees any.
Leaving(t) == pc[t] \in LeavingPc
Finisher(t) == pc[t] \in FinishPc \/ (Leaving(t) /\ local[t].back = "finish")

Leaves ==
    /\ \A t, u \in Thread : Leaving(t) /\ Leaving(u) /\ local[t].handle = local[u].handle => t = u
    /\ \A t \in Thread : Finisher(t) => finishing
    /\ \A t, u \in Thread : Finisher(t) /\ Finisher(u) => t = u
    /\ \A t \in Thread : finishing /\ Leaving(t) => Finisher(t)

\* What UpnpFinish() has achieved when its loops are over, and at its end.
Ended ==
    /\ \A t \in Thread : pc[t] \in EndedPc =>
         \A h \in Handle : HandleTable[h].HType # "HND_INVALID" =>
             HandleTable[h].HType = "HND_DEVICE" /\ HandleTable[h].reg \in hidden
    /\ UpnpSdkInit = 0 => /\ \A t \in Thread : pc[t] \in {"out", "finished"}
                          /\ \E t \in Thread : pc[t] = "finished"

\* Only devices are advertised, and again and again.
Advertises(t, h) == pc[t] \in AdvertisingPc /\ local[t].handle = h
Advertised ==
    \A h \in Handle :
        /\ HandleTable[h].reg \in alive => GetHandleInfo(h) = "HND_DEVICE"
        /\ ~timerDown /\ HandleTable[h].reg \in alive \ unkept =>
             adTimer[h] > 0 \/ \E t \in Thread : Advertises(t, h)

\* A search is listed with its client only, and once.
Searches(h) == HandleTable[h].SsdpSearchList
Lists ==
    \A h \in Handle :
        /\ GetHandleInfo(h) # "HND_CLIENT" => Searches(h) = <<>>
        /\ \A i \in DOMAIN Searches(h) :
              \/ Searches(h)[i] = INVALID_EVENT_ID
              \/ /\ Searches(h)[i] \in 1..lastId
                 /\ searches[Searches(h)[i]].reg = HandleTable[h].reg
        /\ \A i, j \in DOMAIN Searches(h) :
              Searches(h)[i] = Searches(h)[j] /\ Searches(h)[i] # INVALID_EVENT_ID => i = j

\* Its client is told of its end when it is no longer listed, by one thread, once.
Tells(t, id) == pc[t] = "tell" /\ local[t].id = id
In(h, id) == \E i \in DOMAIN Searches(h) : Searches(h)[i] = id
Told ==
    \A id \in 1..lastId :
        /\ searches[id].reg \in 1..regs
        /\ searches[id].told \in {0, 1}
        /\ \A t \in Thread : Tells(t, id) => searches[id].told = 0
        /\ \A t, u \in Thread : Tells(t, id) /\ Tells(u, id) => t = u
        /\ \A h \in Handle : In(h, id) => searches[id].told = 0 /\ \A t \in Thread : ~Tells(t, id)
        /\ \A h \in Handle : HandleTable[h].reg = searches[id].reg /\ ~timerDown =>
             /\ In(h, id) \/ searches[id].told = 1 \/ \E t \in Thread : Tells(t, id)
             /\ In(h, id) /\ ~searches[id].refused => [id |-> id, handle |-> h] \in expiries

IInv ==
    /\ TimerTypes /\ SeenTypes /\ Threads /\ Table
    /\ Leaves /\ Ended /\ Advertised /\ Lists /\ Told

-----------------------------------------------------------------------------
(* Moves of a thread *)

Moves(t, l, r) == pc' = [pc EXCEPT ![t] = l] /\ local' = [local EXCEPT ![t] = r]

\* The numbers of handles.
LEMMA Handles ==
    /\ NUM_HANDLE \in Nat /\ NUM_HANDLE > 1
    /\ Handle \subseteq Nat /\ IsFiniteSet(Handle)
    /\ \A h \in Handle : h \in 0..NUM_HANDLE /\ h >= 1 /\ h < NUM_HANDLE /\ h + 1 \in 0..NUM_HANDLE
    /\ \A h \in 1..NUM_HANDLE : h # NUM_HANDLE => h \in Handle
  <1>1. NUM_HANDLE \in Nat /\ NUM_HANDLE > 1 /\ 1 \in Int /\ NUM_HANDLE - 1 \in Int
    BY HandleAssumption
  <1>2. IsFiniteSet(Handle)
    BY <1>1, FS_Interval DEF Handle
  <1> QED BY <1>1, <1>2 DEF Handle

\* Goto, GotoWith and Return are moves.
LEMMA MoveForms ==
    ASSUME Threads, NEW t \in Thread
    PROVE  /\ \A l : Goto(t, l) => Moves(t, l, local[t])
           /\ \A l, r : GotoWith(t, l, r) => Moves(t, l, r)
           /\ Return(t) => Moves(t, local[t].back, NoLocal)
           /\ local[t] \in LocalType /\ Well(pc[t], local[t])
  <1>1. local' = local => local' = [local EXCEPT ![t] = local[t]]
    BY DEF Threads
  <1> QED BY <1>1 DEF Goto, GotoWith, Return, Moves, Threads

\* What a move leaves alone.
LEMMA MoveFrame ==
    ASSUME Threads, NEW t \in Thread, NEW l, NEW r, Moves(t, l, r)
    PROVE  /\ pc'[t] = l /\ local'[t] = r
           /\ \A u \in Thread : u # t => pc'[u] = pc[u] /\ local'[u] = local[u]
  BY DEF Threads, Moves

\* The locals of a thread that is not in a call.
LEMMA NoLocalType ==
    ASSUME TimerTypes
    PROVE  /\ NoLocal \in LocalType /\ NoLocal.back = "out" /\ NoLocal.id = 0 /\ ~NoLocal.job
           /\ NoLocal.handle = 0
           /\ Well("out", NoLocal) /\ Well("finish", NoLocal)
  <1>1. 0 \in 0..NUM_HANDLE /\ 0 <= lastId
    BY Handles DEF TimerTypes
  <1>2. NoLocal \in LocalType /\ NoLocal.back = "out" /\ NoLocal.id = 0 /\ ~NoLocal.job
        /\ NoLocal.handle = 0
    BY <1>1 DEF NoLocal, LocalType
  <1>3. ASSUME NEW l \in {"out", "finish"} PROVE Well(l, NoLocal)
    BY <1>1, <1>2, <1>3 DEF Well, Pc, HandlePc, FinishPc, EndedPc, LeavingPc, AdvertisingPc, DevicePc
  <1> QED BY <1>2, <1>3

\* A move to a point that the thread may be at.
LEMMA MoveThreads ==
    ASSUME Threads, NEW t \in Thread, NEW l, NEW r, Moves(t, l, r), Well(l, r),
           UNCHANGED <<HandleTable, regs, lastId>>
    PROVE  Threads'
  <1>1. /\ pc'[t] = l /\ local'[t] = r
        /\ \A u \in Thread : u # t => pc'[u] = pc[u] /\ local'[u] = local[u]
    BY MoveFrame
  <1>2. pc' \in [Thread -> Pc] /\ local' \in [Thread -> LocalType]
    BY DEF Threads, Moves, Well
  <1>3. ASSUME NEW u \in Thread PROVE Well(pc[u], local[u])'
    <2>1. Well(pc'[u], local'[u])
      BY <1>1 DEF Threads
    <2> QED BY <2>1 DEF Well, GetHandleInfo
  <1> QED BY <1>2, <1>3 DEF Threads

\* A move that neither starts nor ends the freeing of a handle or UpnpFinish().
LEMMA MoveLeaves ==
    ASSUME Threads, Leaves, NEW t \in Thread, NEW l, NEW r, Moves(t, l, r), UNCHANGED finishing,
           l \in FinishPc => Finisher(t),
           l \in LeavingPc => /\ r.back = "finish" <=> Finisher(t)
                              /\ finishing => Finisher(t)
                              /\ \A u \in Thread : u # t /\ Leaving(u) => local[u].handle # r.handle
    PROVE  Leaves'
  <1>1. /\ pc'[t] = l /\ local'[t] = r
        /\ \A u \in Thread : u # t => pc'[u] = pc[u] /\ local'[u] = local[u]
    BY MoveFrame
  <1>2. /\ \A u \in Thread : u # t => (Leaving(u)' <=> Leaving(u)) /\ (Finisher(u)' <=> Finisher(u))
        /\ Leaving(t)' <=> l \in LeavingPc
        /\ Finisher(t)' => Finisher(t)
    BY <1>1 DEF Leaving, Finisher
  <1>3. \A u, v \in Thread : Leaving(u)' /\ Leaving(v)' /\ local'[u].handle = local'[v].handle => u = v
    BY <1>1, <1>2 DEF Leaves
  <1>4. \A u \in Thread : Finisher(u)' => finishing'
    BY <1>2 DEF Leaves
  <1>5. \A u, v \in Thread : Finisher(u)' /\ Finisher(v)' => u = v
    BY <1>2 DEF Leaves
  <1>6. \A u \in Thread : finishing' /\ Leaving(u)' => Finisher(u)'
    <2> SUFFICES ASSUME NEW u \in Thread, finishing, Leaving(u)' PROVE Finisher(u)'
      OBVIOUS
    <2>1. CASE u # t
      BY <1>2, <2>1 DEF Leaves
    <2>2. CASE u = t
      BY <1>1, <1>2, <2>2 DEF Finisher, Leaving
    <2> QED BY <2>1, <2>2
  <1> QED BY <1>3, <1>4, <1>5, <1>6 DEF Leaves


\* A thread inside the SDK, or one that may enter it: UpnpFinish() has not ended.
LEMMA StillUp ==
    ASSUME IInv, NEW t \in Thread
    PROVE  /\ pc[t] \notin {"out", "finished"} => UpnpSdkInit = 1
           /\ AppCall(t) => UpnpSdkInit = 1 /\ \A u \in Thread : ~Finisher(u)
           /\ PoolsUp => UpnpSdkInit = 1
  <1>1. UpnpSdkInit = 1 \/ UpnpSdkInit = 0
    BY DEF IInv, Table, HandleTypeOK
  <1>2. PoolsUp => UpnpSdkInit # 0
    BY DEF IInv, Ended, PoolsUp
  <1>3. AppCall(t) => \A u \in Thread : ~Finisher(u)
    BY DEF IInv, Leaves, AppCall
  <1>4. (\A u \in Thread : ~Finisher(u)) => UpnpSdkInit # 0
    BY DEF IInv, Ended, Finisher, FinishPc, EndedPc
  <1> QED BY <1>1, <1>2, <1>3, <1>4 DEF IInv, Ended

\* The table stays as it is.
LEMMA SameTable ==
    ASSUME Table, UNCHANGED <<tableVars, regs>>, UpnpSdkInit' \in {0, 1}, hidden \subseteq hidden'
    PROVE  Table'
  <1>1. HandleTypeOK'
    BY DEF Table, HandleTypeOK, tableVars
  <1>2. Clients' = Clients
    BY DEF Clients, GetHandleInfo, tableVars
  <1> QED BY <1>1, <1>2 DEF Table, tableVars

\* A move of a thread that does not end the loops of UpnpFinish().
LEMMA MoveEnded ==
    ASSUME Threads, Ended, NEW t \in Thread, NEW l, NEW r, Moves(t, l, r),
           UNCHANGED <<HandleTable, hidden, UpnpSdkInit>>, UpnpSdkInit = 1,
           l \in EndedPc => pc[t] \in EndedPc
    PROVE  Ended'
  <1>1. /\ pc'[t] = l /\ local'[t] = r
        /\ \A u \in Thread : u # t => pc'[u] = pc[u] /\ local'[u] = local[u]
    BY MoveFrame
  <1>2. \A u \in Thread : pc'[u] \in EndedPc => pc[u] \in EndedPc
    BY <1>1
  <1>3. UpnpSdkInit' # 0
    OBVIOUS
  <1> QED BY <1>2, <1>3 DEF Ended

\* Nobody who is about to schedule an advertisement gives it up.
LEMMA MoveAdvertised ==
    ASSUME Threads, Advertised, NEW t \in Thread, NEW l, NEW r, Moves(t, l, r),
           UNCHANGED <<HandleTable, timerDown, alive, unkept, adTimer>>,
           pc[t] \in AdvertisingPc =>
             \/ l \in AdvertisingPc /\ r.handle = local[t].handle
             \/ GetHandleInfo(local[t].handle) # "HND_DEVICE"
    PROVE  Advertised'
  <1>1. /\ pc'[t] = l /\ local'[t] = r
        /\ \A u \in Thread : u # t => pc'[u] = pc[u] /\ local'[u] = local[u]
    BY MoveFrame
  <1>2. ASSUME NEW h \in Handle, GetHandleInfo(h) = "HND_DEVICE", NEW u \in Thread, Advertises(u, h)
        PROVE  Advertises(u, h)'
    BY <1>1, <1>2 DEF Advertises
  <1>3. \A h \in Handle : GetHandleInfo(h)' = GetHandleInfo(h)
    BY DEF GetHandleInfo
  <1> QED BY <1>2, <1>3 DEF Advertised

\* Nobody begins or ends to tell of a search.
LEMMA MoveTold ==
    ASSUME Threads, Told, NEW t \in Thread, NEW l, NEW r, Moves(t, l, r),
           UNCHANGED <<HandleTable, regs, lastId, searches, timerDown, expiries>>,
           pc[t] # "tell", l # "tell"
    PROVE  Told'
  <1>1. /\ pc'[t] = l /\ local'[t] = r
        /\ \A u \in Thread : u # t => pc'[u] = pc[u] /\ local'[u] = local[u]
    BY MoveFrame
  <1>2. \A u \in Thread, id \in 1..lastId : Tells(u, id)' <=> Tells(u, id)
    BY <1>1 DEF Tells
  <1>3. \A h \in Handle, id \in 1..lastId : In(h, id)' <=> In(h, id)
    BY DEF In, Searches
  <1> QED BY <1>2, <1>3 DEF Told

\* The lists of searches stay as they are.
LEMMA SameLists ==
    ASSUME Lists, UNCHANGED <<HandleTable, lastId, searches>>
    PROVE  Lists'
  BY DEF Lists, Searches, GetHandleInfo

\* A step of one thread that changes neither the table nor what is observed.
LEMMA PlainMove ==
    ASSUME IInv, NEW t \in Thread, NEW l, NEW r, Moves(t, l, r), Well(l, r),
           UNCHANGED <<handleVars, adTimer, expiries, lastId, timerDown, finishing, seenVars>>,
           replyTimer' \in [Handle -> Nat], results' \subseteq 1..lastId, crashed' \in BOOLEAN,
           UpnpSdkInit = 1,
           l \in FinishPc => Finisher(t),
           l \in LeavingPc => /\ r.back = "finish" <=> Finisher(t)
                              /\ finishing => Finisher(t)
                              /\ \A u \in Thread : u # t /\ Leaving(u) => local[u].handle # r.handle,
           l \in EndedPc => pc[t] \in EndedPc,
           pc[t] \in AdvertisingPc =>
             \/ l \in AdvertisingPc /\ r.handle = local[t].handle
             \/ GetHandleInfo(local[t].handle) # "HND_DEVICE",
           pc[t] # "tell", l # "tell"
    PROVE  IInv'
  <1>0. /\ UNCHANGED <<HandleTable, regs, lastId, hidden, UpnpSdkInit, searches, timerDown, alive,
                       unkept, adTimer, expiries, finishing>>
        /\ UNCHANGED <<tableVars, regs>>
    BY DEF handleVars, tableVars, seenVars
  <1>1. Threads /\ Leaves /\ Ended /\ Advertised /\ Told /\ Table /\ Lists /\ TimerTypes /\ SeenTypes
    BY DEF IInv
  <1>2. Threads'
    BY <1>0, <1>1, MoveThreads
  <1>3. Leaves'
    BY <1>0, <1>1, MoveLeaves
  <1>4. Ended'
    BY <1>0, <1>1, MoveEnded
  <1>5. Advertised'
    BY <1>0, <1>1, MoveAdvertised
  <1>6. Told'
    BY <1>0, <1>1, MoveTold
  <1>7. Table'
    BY <1>0, <1>1, SameTable
  <1>8. Lists'
    BY <1>0, <1>1, SameLists
  <1>9. TimerTypes' /\ SeenTypes'
    BY <1>0, <1>1 DEF TimerTypes, SeenTypes
  <1> QED BY <1>2, <1>3, <1>4, <1>5, <1>6, <1>7, <1>8, <1>9 DEF IInv

-----------------------------------------------------------------------------
(* Looking handles up *)

\* The registered client with the lowest handle, and the next device of a family
\* behind a handle: what is returned is registered, and nothing is returned only
\* when there is nothing, or the flag of the family says so.
LEMMA LookUp ==
    ASSUME Table
    PROVE  /\ GetClientHandleInfo # NoHandle =>
                 /\ GetClientHandleInfo \in Clients
                 /\ \A h \in Clients : GetClientHandleInfo <= h
           /\ GetClientHandleInfo = NoHandle => Clients = {}
           /\ \A start \in Nat, af \in Family :
                 /\ GetDeviceHandleInfo(start, af) # NoHandle =>
                       GetDeviceHandleInfo(start, af) \in DevicesOf(af)
                 /\ GetDeviceHandleInfo(start, af) = NoHandle =>
                       \/ UpnpSdkDeviceRegistered[af] = 0
                       \/ \A h \in DevicesOf(af) : ~ (h > start)
  <1>1. ASSUME NEW S, S \subseteq Handle
        PROVE  /\ Lowest(S) # NoHandle => Lowest(S) \in S /\ \A h \in S : Lowest(S) <= h
               /\ Lowest(S) = NoHandle => S = {}
    <2>1. CASE S = {}
      BY <2>1 DEF Lowest
    <2>2. CASE S # {}
      <3>1. S \subseteq Nat
        BY <1>1, Handles
      <3>2. Min(S) \in S /\ \A y \in S : Min(S) <= y
        BY <2>2, <3>1, LeastExists
      <3>3. Lowest(S) = Min(S) /\ Min(S) # NoHandle
        <4>1. Min(S) \in Nat
          BY <3>1, <3>2
        <4>2. Lowest(S) = Min(S)
          BY <2>2 DEF Lowest
        <4>3. \A n \in Nat : n # NoHandle
          BY DEF NoHandle
        <4> QED BY <4>1, <4>2, <4>3
      <3> QED BY <3>2, <3>3
    <2> QED BY <2>1, <2>2
  <1>2. Clients \subseteq Handle /\ GetClientHandleInfo = Lowest(Clients)
    BY DEF Clients, GetClientHandleInfo
  <1>3. ASSUME NEW start \in Nat, NEW af \in Family
        PROVE  /\ GetDeviceHandleInfo(start, af) # NoHandle =>
                     GetDeviceHandleInfo(start, af) \in DevicesOf(af)
               /\ GetDeviceHandleInfo(start, af) = NoHandle =>
                     \/ UpnpSdkDeviceRegistered[af] = 0
                     \/ \A h \in DevicesOf(af) : ~ (h > start)
    <2> DEFINE S == {h \in DevicesOf(af) : h > start}
    <2>1. S \subseteq Handle
      BY DEF DevicesOf
    <2>2. /\ Lowest(S) # NoHandle => Lowest(S) \in S
          /\ Lowest(S) = NoHandle => S = {}
      BY <1>1, <2>1
    <2>3. \/ UpnpSdkDeviceRegistered[af] = 0 /\ GetDeviceHandleInfo(start, af) = NoHandle
          \/ GetDeviceHandleInfo(start, af) = Lowest(S)
      BY DEF GetDeviceHandleInfo
    <2> QED BY <2>2, <2>3
  <1> QED BY <1>1, <1>2, <1>3

-----------------------------------------------------------------------------
(* The steps that change neither the table nor what is observed *)

\* A call that frees no handle returns to the application, or to the pool.
LEMMA PlainReturn ==
    ASSUME IInv, NEW t \in Thread, Return(t),
           UNCHANGED <<handleVars, adTimer, expiries, lastId, timerDown, finishing, seenVars>>,
           replyTimer' \in [Handle -> Nat], results' \subseteq 1..lastId, crashed' \in BOOLEAN,
           pc[t] \notin LeavingPc \cup {"out", "finished", "tell"},
           pc[t] \in AdvertisingPc => GetHandleInfo(local[t].handle) # "HND_DEVICE"
    PROVE  IInv'
  <1>1. Well(pc[t], local[t]) /\ Moves(t, local[t].back, NoLocal)
    BY MoveForms DEF IInv
  <1>2. local[t].back = "out"
    BY <1>1 DEF Well, LocalType
  <1>3. Moves(t, "out", NoLocal)
    BY <1>1, <1>2
  <1>4. Well("out", NoLocal)
    BY NoLocalType DEF IInv
  <1>5. UpnpSdkInit = 1
    BY StillUp
  <1>6. PICK l : l = "out"
    OBVIOUS
  <1>7. l \notin FinishPc /\ l \notin LeavingPc /\ l \notin EndedPc /\ l # "tell"
    BY <1>6 DEF FinishPc, LeavingPc, EndedPc
  <1>8. pc[t] # "tell"
    OBVIOUS
  <1> QED BY <1>3, <1>4, <1>5, <1>6, <1>7, <1>8, PlainMove

\* A move that leaves the timer alone too.
LEMMA PlainGoto ==
    ASSUME IInv, NEW t \in Thread, NEW l, NEW r, Moves(t, l, r), Well(l, r),
           UNCHANGED <<handleVars, timerVars, finishing, seenVars>>, UpnpSdkInit = 1,
           l \notin FinishPc, pc[t] # "tell", l # "tell",
           l \in LeavingPc => /\ r.back = "finish" <=> Finisher(t)
                              /\ finishing => Finisher(t)
                              /\ \A u \in Thread : u # t /\ Leaving(u) => local[u].handle # r.handle,
           pc[t] \in AdvertisingPc =>
             \/ l \in AdvertisingPc /\ r.handle = local[t].handle
             \/ GetHandleInfo(local[t].handle) # "HND_DEVICE"
    PROVE  IInv'
  <1>1. UNCHANGED <<handleVars, adTimer, expiries, lastId, timerDown, finishing, seenVars>>
        /\ replyTimer' = replyTimer /\ results' = results /\ crashed' = crashed
    BY DEF timerVars
  <1>2. replyTimer' \in [Handle -> Nat] /\ results' \subseteq 1..lastId /\ crashed' \in BOOLEAN
    BY <1>1 DEF IInv, TimerTypes
  <1>3. l \notin EndedPc
    BY DEF FinishPc
  <1> QED BY <1>1, <1>2, <1>3, PlainMove

\* A return that leaves the timer alone too.
LEMMA PlainBack ==
    ASSUME IInv, NEW t \in Thread, Return(t),
           UNCHANGED <<handleVars, timerVars, finishing, seenVars>>,
           pc[t] \notin LeavingPc \cup {"out", "finished", "tell"},
           pc[t] \in AdvertisingPc => GetHandleInfo(local[t].handle) # "HND_DEVICE"
    PROVE  IInv'
  <1>1. UNCHANGED <<handleVars, adTimer, expiries, lastId, timerDown, finishing, seenVars>>
        /\ replyTimer' = replyTimer /\ results' = results /\ crashed' = crashed
    BY DEF timerVars
  <1>2. replyTimer' \in [Handle -> Nat] /\ results' \subseteq 1..lastId /\ crashed' \in BOOLEAN
    BY <1>1 DEF IInv, TimerTypes
  <1> QED BY <1>1, <1>2, PlainReturn

\* The locals with which calls begin.
LEMMA LocalsWith ==
    ASSUME IInv, NEW h \in Handle
    PROVE  /\ \A b \in {"out", "finish"} :
                 LET r == [NoLocal EXCEPT !.handle = h, !.back = b]
                 IN  r \in LocalType /\ r.handle = h /\ r.back = b /\ ~r.job /\ r.id <= lastId
           /\ \A j \in BOOLEAN :
                 LET r == [NoLocal EXCEPT !.handle = h, !.job = j]
                 IN  r \in LocalType /\ r.handle = h /\ r.back = "out" /\ r.id <= lastId
           /\ LET r == [NoLocal EXCEPT !.handle = h]
              IN  r \in LocalType /\ r.handle = h /\ r.back = "out" /\ r.id <= lastId
  <1>1. 0 <= lastId /\ h \in 0..NUM_HANDLE
    BY Handles DEF IInv, TimerTypes
  <1> QED BY <1>1 DEF LocalType, NoLocal

\* UpnpUnRegisterClient() and UpnpUnRegisterRootDevice() start, for the
\* application or for UpnpFinish().
LEMMA LeaveIInv ==
    ASSUME IInv, NEW t \in Thread, NEW h \in Handle, NEW b \in {"out", "finish"},
           NEW l \in {"unregisterClient", "byebye"},
           GotoWith(t, l, [NoLocal EXCEPT !.handle = h, !.back = b]),
           l = "unregisterClient" => GetHandleInfo(h) = "HND_CLIENT",
           l = "byebye" => GetHandleInfo(h) = "HND_DEVICE",
           UNCHANGED <<handleVars, timerVars, finishing, seenVars>>, UpnpSdkInit = 1,
           pc[t] \in {"out", "finish"},
           b = "finish" <=> Finisher(t), finishing => Finisher(t),
           \A u \in Thread : u # t /\ Leaving(u) => local[u].handle # h
    PROVE  IInv'
  <1> DEFINE r == [NoLocal EXCEPT !.handle = h, !.back = b]
  <1>1. r \in LocalType /\ r.handle = h /\ r.back = b /\ ~r.job /\ r.id <= lastId
    BY LocalsWith
  <1>2. GotoWith(t, l, r)
    OBVIOUS
  <1> HIDE DEF r
  <1>3. Moves(t, l, r)
    BY <1>2, MoveForms DEF IInv
  <1>4. /\ l \notin FinishPc /\ l \in LeavingPc /\ l # "tell" /\ pc[t] # "tell"
        /\ pc[t] \notin AdvertisingPc
    BY DEF FinishPc, LeavingPc, EndedPc, AdvertisingPc
  <1>5. Well(l, r)
    <2>1. l \in Pc /\ l \in HandlePc /\ (l \in DevicePc => l = "byebye")
          /\ l \notin {"request", "requestReply"} /\ l # "tell" /\ l # "ctrlptMsg"
      BY DEF Pc, HandlePc, LeavingPc, DevicePc
    <2> QED BY <1>1, <1>4, <2>1 DEF Well
  <1>6. \A u \in Thread : u # t /\ Leaving(u) => local[u].handle # r.handle
    BY <1>1
  <1> QED BY <1>1, <1>3, <1>4, <1>5, <1>6, PlainGoto

\* The application unregisters a client or a device.
LEMMA UnRegisterIInv ==
    ASSUME IInv, NEW t \in Thread, NEW h \in Handle,
           UpnpUnRegisterClient(t, h) \/ UpnpUnRegisterRootDevice(t, h)
    PROVE  IInv'
  <1>1. /\ AppCall(t) /\ NotLeaving(h) /\ pc[t] = "out"
        /\ UNCHANGED <<handleVars, timerVars, finishing, seenVars>>
    BY DEF UpnpUnRegisterClient, UpnpUnRegisterRootDevice, AppCall, At, boundVars
  <1>2. UpnpSdkInit = 1 /\ ~Finisher(t) /\ ~finishing
    BY <1>1, StillUp DEF AppCall
  <1>3. \A u \in Thread : u # t /\ Leaving(u) => local[u].handle # h
    BY <1>1 DEF NotLeaving, Leaving, LeavingPc
  <1>4. CASE UpnpUnRegisterClient(t, h)
    <2>1. /\ GetHandleInfo(h) = "HND_CLIENT"
          /\ GotoWith(t, "unregisterClient", [NoLocal EXCEPT !.handle = h, !.back = "out"])
      BY <1>4 DEF UpnpUnRegisterClient, UnRegisterClientStarts
    <2>2. PICK l \in {"unregisterClient", "byebye"}, b \in {"out", "finish"} :
             l = "unregisterClient" /\ b = "out"
      OBVIOUS
    <2>3. GotoWith(t, l, [NoLocal EXCEPT !.handle = h, !.back = b])
      BY <2>1, <2>2
    <2>4. l # "byebye" /\ b # "finish"
      BY <2>2
    <2> QED BY <1>1, <1>2, <1>3, <2>1, <2>3, <2>4, LeaveIInv
  <1>5. CASE UpnpUnRegisterRootDevice(t, h)
    <2>1. /\ GetHandleInfo(h) = "HND_DEVICE"
          /\ GotoWith(t, "byebye", [NoLocal EXCEPT !.handle = h, !.back = "out"])
      BY <1>5 DEF UpnpUnRegisterRootDevice, UnRegisterRootDeviceStarts
    <2>2. PICK l \in {"unregisterClient", "byebye"}, b \in {"out", "finish"} :
             l = "byebye" /\ b = "out"
      OBVIOUS
    <2>3. GotoWith(t, l, [NoLocal EXCEPT !.handle = h, !.back = b])
      BY <2>1, <2>2
    <2>4. l # "unregisterClient" /\ b # "finish"
      BY <2>2
    <2> QED BY <1>1, <1>2, <1>3, <2>1, <2>3, <2>4, LeaveIInv
  <1> QED BY <1>4, <1>5

\* The loops of UpnpFinish() over the devices and the clients.
LEMMA FinishLoopIInv ==
    ASSUME IInv, NEW t \in Thread,
           (\E af \in Family : FinishDevice(t, af)) \/ FinishClient(t)
    PROVE  IInv'
  <1>1. /\ At(t, "finish") /\ pc[t] = "finish"
        /\ UNCHANGED <<handleVars, timerVars, finishing, seenVars>>
    BY DEF FinishDevice, FinishClient, At, boundVars
  <1>2. UpnpSdkInit = 1
    BY <1>1, StillUp
  <1>3. Finisher(t)
    BY <1>1 DEF Finisher, FinishPc
  <1>4. finishing
    BY <1>3 DEF IInv, Leaves
  <1>5. \A u \in Thread : Leaving(u) => u = t
    BY <1>3, <1>4 DEF IInv, Leaves
  <1>6. ASSUME NEW af \in Family, FinishDevice(t, af) PROVE IInv'
    <2>1. PICK h : h = GetDeviceHandleInfo(0, af)
      OBVIOUS
    <2>2. /\ h # NoHandle /\ GetHandleInfo(h) = "HND_DEVICE"
          /\ GotoWith(t, "byebye", [NoLocal EXCEPT !.handle = h, !.back = "finish"])
      BY <1>6, <2>1 DEF FinishDevice, UnRegisterRootDeviceStarts
    <2>3. h \in Handle
      BY <2>1, <2>2, LookUp DEF DevicesOf, IInv
    <2>4. PICK l \in {"unregisterClient", "byebye"}, b \in {"out", "finish"} :
             l = "byebye" /\ b = "finish"
      OBVIOUS
    <2>5. GotoWith(t, l, [NoLocal EXCEPT !.handle = h, !.back = b])
      BY <2>2, <2>4
    <2>6. l # "unregisterClient" /\ b = "finish"
      BY <2>4
    <2> QED BY <1>1, <1>2, <1>3, <1>5, <2>2, <2>3, <2>5, <2>6, LeaveIInv
  <1>7. CASE FinishClient(t)
    <2>1. PICK h : h = GetClientHandleInfo
      OBVIOUS
    <2>2. /\ h # NoHandle /\ GetHandleInfo(h) = "HND_CLIENT"
          /\ GotoWith(t, "unregisterClient", [NoLocal EXCEPT !.handle = h, !.back = "finish"])
      BY <1>7, <2>1 DEF FinishClient, UnRegisterClientStarts
    <2>3. h \in Handle
      BY <2>1, <2>2, LookUp DEF Clients, IInv
    <2>4. PICK l \in {"unregisterClient", "byebye"}, b \in {"out", "finish"} :
             l = "unregisterClient" /\ b = "finish"
      OBVIOUS
    <2>5. GotoWith(t, l, [NoLocal EXCEPT !.handle = h, !.back = b])
      BY <2>2, <2>4
    <2>6. l # "byebye" /\ b = "finish"
      BY <2>4
    <2> QED BY <1>1, <1>2, <1>3, <1>5, <2>2, <2>3, <2>5, <2>6, LeaveIInv
  <1> QED BY <1>6, <1>7

\* A step that no thread is moved by.
LEMMA PlainStay ==
    ASSUME IInv,
           UNCHANGED <<handleVars, threadVars, adTimer, expiries, lastId, timerDown, finishing, seenVars>>,
           replyTimer' \in [Handle -> Nat], results' \subseteq 1..lastId, crashed' \in BOOLEAN
    PROVE  IInv'
  <1>0. /\ UNCHANGED <<HandleTable, regs, lastId, hidden, UpnpSdkInit, searches, timerDown, alive,
                       unkept, adTimer, expiries, finishing, pc, local>>
        /\ UNCHANGED <<tableVars, regs>>
    BY DEF handleVars, tableVars, seenVars, threadVars
  <1>1. Threads /\ Leaves /\ Ended /\ Advertised /\ Told /\ Table /\ Lists /\ TimerTypes /\ SeenTypes
    BY DEF IInv
  <1>2. Threads'
    BY <1>0, <1>1 DEF Threads, Well, GetHandleInfo
  <1>3. Leaves'
    BY <1>0, <1>1 DEF Leaves, Leaving, Finisher
  <1>4. Ended'
    BY <1>0, <1>1 DEF Ended
  <1>5. Advertised'
    BY <1>0, <1>1 DEF Advertised, Advertises, GetHandleInfo
  <1>6. Told'
    BY <1>0, <1>1 DEF Told, Tells, In, Searches
  <1>7. Table'
    BY <1>0, <1>1, SameTable DEF Table, HandleTypeOK
  <1>8. Lists'
    BY <1>0, <1>1, SameLists
  <1>9. TimerTypes' /\ SeenTypes'
    BY <1>0, <1>1 DEF TimerTypes, SeenTypes
  <1> QED BY <1>2, <1>3, <1>4, <1>5, <1>6, <1>7, <1>8, <1>9 DEF IInv

\* AdvertiseAndReply() looks its device up.
LEMMA AdvertiseStartsIInv ==
    ASSUME IInv, NEW t \in Thread, AdvertiseStarts(t)
    PROVE  IInv'
  <1>0. /\ pc[t] \in {"alive", "byebye", "reply"}
        /\ UNCHANGED <<handleVars, timerVars, finishing, seenVars>>
    BY DEF AdvertiseStarts, At, boundVars
  <1>1. UpnpSdkInit = 1
    BY <1>0, StillUp
  <1>2. Well(pc[t], local[t])
    BY MoveForms DEF IInv
  <1>3. CASE GetHandleInfo(local[t].handle) = "HND_DEVICE"
    <2>1. PICK l : /\ l = CASE pc[t] = "alive" -> "aliveSend"
                            [] pc[t] = "byebye" -> "byebyeSend"
                            [] pc[t] = "reply" -> "replySend"
      OBVIOUS
    <2>2. Goto(t, l)
      BY <1>3, <2>1 DEF AdvertiseStarts
    <2>3. Moves(t, l, local[t])
      BY <2>2, MoveForms DEF IInv
    <2>4. \/ pc[t] = "alive" /\ l = "aliveSend"
          \/ pc[t] = "byebye" /\ l = "byebyeSend"
          \/ pc[t] = "reply" /\ l = "replySend"
      BY <1>0, <2>1
    <2>5. Well(l, local[t])
      BY <1>2, <1>3, <2>4 DEF Well, Pc, HandlePc, DevicePc, LeavingPc, AdvertisingPc
    <2>6. l \notin FinishPc /\ pc[t] # "tell" /\ l # "tell"
      BY <2>4 DEF FinishPc, EndedPc
    <2>7. pc[t] \in AdvertisingPc => l \in AdvertisingPc
      BY <2>4 DEF AdvertisingPc
    <2>8. l \in LeavingPc => Leaving(t) /\ pc[t] \notin FinishPc
      BY <2>4 DEF LeavingPc, Leaving, FinishPc, EndedPc
    <2>9. l \in LeavingPc =>
             /\ local[t].back = "finish" <=> Finisher(t)
             /\ finishing => Finisher(t)
             /\ \A u \in Thread : u # t /\ Leaving(u) => local[u].handle # local[t].handle
      BY <2>8 DEF IInv, Leaves, Finisher
    <2> QED BY <1>0, <1>1, <2>3, <2>5, <2>6, <2>7, <2>9, PlainGoto
  <1>4. CASE GetHandleInfo(local[t].handle) # "HND_DEVICE"
    <2>1. Return(t)
      BY <1>4 DEF AdvertiseStarts
    <2>2. pc[t] # "byebye"
      BY <1>2, <1>4 DEF Well, DevicePc
    <2>3. pc[t] \notin LeavingPc \cup {"out", "finished", "tell"}
      BY <1>0, <2>2 DEF LeavingPc
    <2> QED BY <1>0, <1>4, <2>1, <2>3, PlainBack
  <1> QED BY <1>3, <1>4

\* The answer to a search is sent; a message has reached all.
LEMMA ReturnIInv ==
    ASSUME IInv, NEW t \in Thread, DeviceReply(t) \/ CtrlptMsgEnds(t)
    PROVE  IInv'
  <1>1. /\ pc[t] \in {"replySend", "ctrlptMsg"} /\ Return(t)
        /\ UNCHANGED <<handleVars, timerVars, finishing, seenVars>>
    BY DEF DeviceReply, CtrlptMsgEnds, At, boundVars
  <1>2. pc[t] \notin LeavingPc \cup {"out", "finished", "tell"} /\ pc[t] \notin AdvertisingPc
    BY <1>1 DEF LeavingPc, AdvertisingPc
  <1> QED BY <1>1, <1>2, PlainBack

\* UpnpSendAdvertisement() and UpnpSearchAsync() start.
LEMMA CallStartsIInv ==
    ASSUME IInv, NEW t \in Thread, NEW h \in Handle,
           UpnpSendAdvertisement(t, h) \/ UpnpSearchAsync(t, h)
    PROVE  IInv'
  <1>1. /\ AppCall(t) /\ pc[t] = "out"
        /\ UNCHANGED <<handleVars, timerVars, finishing, seenVars>>
    BY DEF UpnpSendAdvertisement, UpnpSearchAsync, AppCall, At
  <1>2. UpnpSdkInit = 1
    BY <1>1, StillUp
  <1>3. PICK l, r : /\ l \in {"alive", "search"} /\ GotoWith(t, l, r)
                    /\ r \in LocalType /\ r.handle = h /\ r.back = "out" /\ r.id <= lastId
    <2>1. CASE UpnpSendAdvertisement(t, h)
      <3>1. GotoWith(t, "alive", [NoLocal EXCEPT !.handle = h, !.job = FALSE])
        BY <2>1 DEF UpnpSendAdvertisement, SendAdvertisementStarts
      <3> QED BY <3>1, LocalsWith
    <2>2. CASE UpnpSearchAsync(t, h)
      <3>1. GotoWith(t, "search", [NoLocal EXCEPT !.handle = h])
        BY <2>2 DEF UpnpSearchAsync
      <3> QED BY <3>1, LocalsWith
    <2> QED BY <2>1, <2>2
  <1>4. Moves(t, l, r)
    BY <1>3, MoveForms DEF IInv
  <1>5. l \notin FinishPc /\ l \notin LeavingPc /\ l # "tell" /\ pc[t] # "tell"
        /\ pc[t] \notin AdvertisingPc
    BY <1>1, <1>3 DEF FinishPc, LeavingPc, EndedPc, AdvertisingPc
  <1>6. Well(l, r)
    BY <1>3 DEF Well, Pc, HandlePc, LeavingPc, DevicePc, AdvertisingPc
  <1> QED BY <1>1, <1>2, <1>4, <1>5, <1>6, PlainGoto

\* A message for the control points comes in: every client there is has to be
\* reached, and none has a handle below the first.
LEMMA CtrlptMsgIInv ==
    ASSUME IInv, NEW t \in Thread, NEW kind \in {"advert", "reply"}, CtrlptMsg(t, kind)
    PROVE  IInv'
  <1> DEFINE f == GetClientHandleInfo
             r == [NoLocal EXCEPT !.handle = f, !.job = TRUE, !.kind = kind,
                                  !.must = RegsOf(Clients)]
  <1>0. /\ JobStarts(t) /\ pc[t] = "out" /\ f # NoHandle /\ GotoWith(t, "ctrlptMsg", r)
        /\ UNCHANGED <<handleVars, timerVars, finishing, seenVars>>
    BY DEF CtrlptMsg, JobStarts, At
  <1>1. UpnpSdkInit = 1
    BY <1>0, StillUp DEF JobStarts
  <1>2. f \in Clients /\ f \in Handle /\ \A h \in Clients : f <= h
    BY <1>0, LookUp DEF IInv, Clients
  <1>3. /\ RegsOf(Clients) \subseteq 1..regs
        /\ \A h \in Handle : HandleTable[h].reg \in RegsOf(Clients) => h \in Clients
    BY DEF RegsOf, IInv, Table, Clients, GetHandleInfo
  <1> HIDE DEF f
  <1>4. /\ r \in LocalType /\ r.handle = f /\ r.back = "out" /\ r.must = RegsOf(Clients)
        /\ r.id <= lastId
    <2>1. 0 <= lastId /\ f \in 0..NUM_HANDLE
      BY <1>2, Handles DEF IInv, TimerTypes
    <2>2. regs \in Nat
      BY HandleAssumption DEF IInv, Table, HandleTypeOK
    <2>3. RegsOf(Clients) \in SUBSET Nat
      BY <1>3, <2>2
    <2> QED BY <2>1, <2>3 DEF LocalType, NoLocal
  <1> HIDE DEF r
  <1>5. Moves(t, "ctrlptMsg", r)
    BY <1>0, MoveForms DEF IInv
  <1>6. PICK l : l = "ctrlptMsg"
    OBVIOUS
  <1>7. l \notin FinishPc /\ l \notin LeavingPc /\ l # "tell" /\ pc[t] # "tell"
        /\ pc[t] \notin AdvertisingPc
    BY <1>0, <1>6 DEF FinishPc, LeavingPc, EndedPc, AdvertisingPc
  <1>8. Well(l, r)
    <2>1. /\ l \in Pc /\ l \notin HandlePc /\ l \notin DevicePc /\ l # "unregisterClient"
          /\ l \notin {"request", "requestReply"}
      BY <1>6 DEF Pc, HandlePc, LeavingPc, AdvertisingPc, DevicePc
    <2>2. r.handle >= 1
      BY <1>2, <1>4, Handles
    <2>3. ASSUME NEW h \in Handle, HandleTable[h].reg \in r.must
          PROVE  GetHandleInfo(h) = "HND_CLIENT" /\ ~ (h < r.handle)
      <3>1. h \in Clients
        BY <1>3, <1>4, <2>3
      <3>2. f <= h /\ f \in Nat /\ h \in Nat
        BY <1>2, <3>1, Handles
      <3> QED BY <1>4, <3>1, <3>2 DEF Clients
    <2> QED BY <1>3, <1>4, <1>7, <2>1, <2>2, <2>3 DEF Well
  <1> QED BY <1>0, <1>1, <1>5, <1>6, <1>7, <1>8, PlainGoto

\* A turn of its loop.
LEMMA CtrlptMsgTurnIInv ==
    ASSUME IInv, NEW t \in Thread, CtrlptMsgTurn(t)
    PROVE  IInv'
  <1> DEFINE h == local[t].handle
             listed == ToSet(HandleTable[h].SsdpSearchList) \ {INVALID_EVENT_ID}
  <1>0. /\ pc[t] = "ctrlptMsg" /\ h # NUM_HANDLE
        /\ UNCHANGED <<handleVars, adTimer, replyTimer, expiries, lastId, timerDown, crashed,
                       finishing, seenVars>>
    BY DEF CtrlptMsgTurn, At, LoopEnds, boundVars
  <1>1. UpnpSdkInit = 1
    BY <1>0, StillUp
  <1>2. Well(pc[t], local[t]) /\ local[t] \in LocalType
    BY MoveForms DEF IInv
  <1>3. h \in Handle /\ h + 1 \in 0..NUM_HANDLE /\ h + 1 >= 1
    <2>1. h \in 1..NUM_HANDLE
      BY <1>0, <1>2, Handles DEF Well, LocalType
    <2>2. h \in Handle
      BY <1>0, <2>1, Handles
    <2>3. h \in Nat /\ h + 1 \in 0..NUM_HANDLE
      BY <2>2, Handles
    <2> HIDE DEF h
    <2> QED BY <2>2, <2>3
  <1>4. listed \subseteq 1..lastId
    BY <1>3 DEF IInv, Lists, Searches, ToSet
  <1>5. results' \subseteq 1..lastId
    <2>1. UNCHANGED results \/ \E matched \in SUBSET listed : results' = results \cup matched
      BY DEF CtrlptMsgTurn
    <2> QED BY <1>4, <2>1 DEF IInv, TimerTypes
  <1>6. PICK r : /\ GotoWith(t, "ctrlptMsg", r) /\ r \in LocalType
                 /\ r.handle = h + 1 /\ r.must = local[t].must /\ local[t].heard \subseteq r.heard
                 /\ r.id = local[t].id /\ r.back = local[t].back
                 /\ GetHandleInfo(h) = "HND_CLIENT" => HandleTable[h].reg \in r.heard
    <2>1. CASE GetHandleInfo(h) # "HND_CLIENT"
      <3>1. GotoWith(t, "ctrlptMsg", [local[t] EXCEPT !.handle = h + 1])
        BY <2>1 DEF CtrlptMsgTurn
      <3> QED BY <1>2, <1>3, <2>1, <3>1 DEF LocalType
    <2>2. CASE GetHandleInfo(h) = "HND_CLIENT"
      <3> DEFINE r == [local[t] EXCEPT !.handle = h + 1, !.heard = @ \cup {HandleTable[h].reg}]
      <3>1. GotoWith(t, "ctrlptMsg", r)
        BY <2>2 DEF CtrlptMsgTurn
      <3>2. HandleTable[h].reg \in Nat
        BY <1>3 DEF IInv, Table, HandleTypeOK, HandleInfo
      <3>3. r \in LocalType /\ r.handle = h + 1 /\ r.must = local[t].must
            /\ r.heard = local[t].heard \cup {HandleTable[h].reg}
            /\ r.id = local[t].id /\ r.back = local[t].back
        BY <1>2, <1>3, <3>2 DEF LocalType
      <3> HIDE DEF r
      <3> QED BY <3>1, <3>3
    <2> QED BY <2>1, <2>2
  <1>7. Moves(t, "ctrlptMsg", r)
    BY <1>6, MoveForms DEF IInv
  <1>8. PICK l : l = "ctrlptMsg"
    OBVIOUS
  <1>9. l \notin FinishPc /\ l \notin LeavingPc /\ l # "tell" /\ pc[t] # "tell"
        /\ pc[t] \notin AdvertisingPc /\ l \notin EndedPc
    BY <1>0, <1>8 DEF FinishPc, LeavingPc, EndedPc, AdvertisingPc
  <1>10. Well(l, r)
    <2>1. /\ l \in Pc /\ l \notin HandlePc /\ l \notin DevicePc /\ l # "unregisterClient"
          /\ l \notin {"request", "requestReply"}
      BY <1>8 DEF Pc, HandlePc, LeavingPc, AdvertisingPc, DevicePc
    <2>2. /\ r.must \subseteq 1..regs /\ r.handle >= 1 /\ r.id <= lastId
          /\ r.back = "finish" => l \in LeavingPc
      BY <1>0, <1>2, <1>3, <1>6, <1>8 DEF Well
    <2>3. ASSUME NEW k \in Handle, HandleTable[k].reg \in r.must
          PROVE  /\ GetHandleInfo(k) = "HND_CLIENT"
                 /\ k < r.handle => HandleTable[k].reg \in r.heard
      <3>1. /\ GetHandleInfo(k) = "HND_CLIENT"
            /\ k < h => HandleTable[k].reg \in local[t].heard
        BY <1>0, <1>2, <1>6, <2>3 DEF Well
      <3>2. k < h + 1 => k < h \/ k = h
        BY <1>3, Handles
      <3> QED BY <1>6, <3>1, <3>2
    <2> QED BY <1>6, <1>9, <2>1, <2>2, <2>3 DEF Well
  <1>11. replyTimer' \in [Handle -> Nat] /\ crashed' \in BOOLEAN
    BY <1>0 DEF IInv, TimerTypes
  <1> HIDE DEF h, listed
  <1> QED BY <1>0, <1>1, <1>5, <1>7, <1>8, <1>9, <1>10, <1>11, PlainMove

\* A search comes in, and the loop over the devices that it asks for.
LEMMA DeviceRequestIInv ==
    ASSUME IInv, NEW t \in Thread,
           (\E af \in Family : DeviceRequest(t, af)) \/ DeviceRequestTurn(t)
    PROVE  IInv'
  <1>1. UNCHANGED <<handleVars, timerVars, finishing, seenVars>>
    BY DEF DeviceRequest, DeviceRequestTurn, boundVars
  <1>2. ASSUME NEW l \in {"request", "requestReply"}, NEW r \in LocalType, GotoWith(t, l, r),
               l = "requestReply" => r.handle \in Handle, r.af \in Family, r.back = "out",
               r.id <= lastId, pc[t] \in {"out", "request"}, UpnpSdkInit = 1
        PROVE  IInv'
    <2>1. Moves(t, l, r)
      BY <1>2, MoveForms DEF IInv
    <2>2. l \notin FinishPc /\ l \notin LeavingPc /\ l # "tell" /\ pc[t] # "tell"
          /\ pc[t] \notin AdvertisingPc
      BY <1>2 DEF FinishPc, LeavingPc, EndedPc, AdvertisingPc
    <2>3. /\ l \in Pc /\ (l \in HandlePc => l = "requestReply") /\ l \notin DevicePc
          /\ l # "unregisterClient" /\ l # "ctrlptMsg"
      BY <1>2 DEF Pc, HandlePc, LeavingPc, AdvertisingPc, DevicePc
    <2>4. Well(l, r)
      BY <1>2, <2>2, <2>3 DEF Well
    <2> QED BY <1>1, <1>2, <2>1, <2>2, <2>4, PlainGoto
  <1>3. ASSUME NEW af \in Family, DeviceRequest(t, af) PROVE IInv'
    <2> DEFINE r == [NoLocal EXCEPT !.af = af, !.job = TRUE]
    <2>1. JobStarts(t) /\ pc[t] = "out" /\ GotoWith(t, "request", r)
      BY <1>3 DEF DeviceRequest, JobStarts, At
    <2>2. UpnpSdkInit = 1
      BY <2>1, StillUp DEF JobStarts
    <2>3. r \in LocalType /\ r.af = af /\ r.back = "out" /\ r.id <= lastId
      <3>1. 0 <= lastId /\ 0 \in 0..NUM_HANDLE
        BY Handles DEF IInv, TimerTypes
      <3> QED BY <3>1 DEF NoLocal, LocalType
    <2> HIDE DEF r
    <2>4. PICK l \in {"request", "requestReply"} : l = "request"
      OBVIOUS
    <2>5. l # "requestReply" /\ GotoWith(t, l, r)
      BY <2>1, <2>4
    <2> QED BY <1>2, <2>1, <2>2, <2>3, <2>5
  <1>4. CASE DeviceRequestTurn(t)
    <2>1. PICK h : h = GetDeviceHandleInfo(local[t].handle, local[t].af)
      OBVIOUS
    <2>2. /\ pc[t] = "request"
          /\ \/ h = NoHandle /\ Return(t)
             \/ h # NoHandle /\ GotoWith(t, "requestReply", [local[t] EXCEPT !.handle = h])
      BY <1>4, <2>1 DEF DeviceRequestTurn, At
    <2>3. UpnpSdkInit = 1
      BY <2>2, StillUp
    <2>4. Well(pc[t], local[t]) /\ local[t] \in LocalType
      BY MoveForms DEF IInv
    <2>5. local[t].handle \in Nat /\ local[t].af \in Family
      BY <2>2, <2>4, Handles DEF Well, LocalType
    <2>6. CASE Return(t)
      <3>1. pc[t] \notin LeavingPc \cup {"out", "finished", "tell"} /\ pc[t] \notin AdvertisingPc
        BY <2>2 DEF LeavingPc, AdvertisingPc
      <3> QED BY <1>1, <2>6, <3>1, PlainBack
    <2>7. CASE h # NoHandle /\ GotoWith(t, "requestReply", [local[t] EXCEPT !.handle = h])
      <3> DEFINE r == [local[t] EXCEPT !.handle = h]
      <3>1. h \in Handle /\ h \in 0..NUM_HANDLE
        BY <2>1, <2>5, <2>7, LookUp, Handles DEF DevicesOf, IInv
      <3>2. local[t].back = "out" /\ local[t].id <= lastId
        BY <2>2, <2>4 DEF Well, LocalType, LeavingPc
      <3>3. r \in LocalType /\ r.handle = h /\ r.af \in Family /\ r.back = "out" /\ r.id <= lastId
        BY <2>4, <2>5, <3>1, <3>2 DEF LocalType
      <3>4. GotoWith(t, "requestReply", r)
        BY <2>7
      <3> HIDE DEF r
      <3>5. PICK l \in {"request", "requestReply"} : l = "requestReply"
        OBVIOUS
      <3>6. GotoWith(t, l, r)
        BY <3>4, <3>5
      <3> QED BY <1>2, <2>2, <2>3, <3>1, <3>3, <3>6
    <2> QED BY <2>2, <2>6, <2>7
  <1> QED BY <1>3, <1>4

\* The reply to a search is scheduled.
LEMMA DeviceRequestReplyIInv ==
    ASSUME IInv, NEW t \in Thread, DeviceRequestReply(t)
    PROVE  IInv'
  <1>1. /\ pc[t] = "requestReply" /\ Goto(t, "request")
        /\ UNCHANGED <<handleVars, adTimer, expiries, lastId, timerDown, finishing, seenVars>>
        /\ results' = results
    BY DEF DeviceRequestReply, At, boundVars
  <1>2. UpnpSdkInit = 1
    BY <1>1, StillUp
  <1>3. Well(pc[t], local[t]) /\ local[t] \in LocalType
    BY MoveForms DEF IInv
  <1>4. replyTimer' \in [Handle -> Nat] /\ results' \subseteq 1..lastId /\ crashed' \in BOOLEAN
    <2>1. replyTimer \in [Handle -> Nat] /\ crashed \in BOOLEAN /\ local[t].handle \in Handle
      BY <1>1, <1>3 DEF IInv, TimerTypes, Well, HandlePc
    <2>2. /\ \/ replyTimer' = [replyTimer EXCEPT ![local[t].handle] = @ + 1]
             \/ replyTimer' = replyTimer
          /\ crashed' = crashed \/ crashed' \in BOOLEAN
      BY DEF DeviceRequestReply
    <2>3. replyTimer' \in [Handle -> Nat]
      BY <2>1, <2>2
    <2>4. crashed' \in BOOLEAN
      BY <2>1, <2>2
    <2> QED BY <1>1, <2>3, <2>4 DEF IInv, TimerTypes
  <1>5. Moves(t, "request", local[t])
    BY <1>1, MoveForms DEF IInv
  <1>6. PICK l : l = "request"
    OBVIOUS
  <1>7. l \notin FinishPc /\ l \notin LeavingPc /\ l # "tell" /\ pc[t] # "tell"
        /\ pc[t] \notin AdvertisingPc /\ l \notin EndedPc
    BY <1>1, <1>6 DEF FinishPc, LeavingPc, EndedPc, AdvertisingPc
  <1>8. Well(l, local[t])
    <2>1. /\ l \in Pc /\ l \notin HandlePc /\ l \notin DevicePc
          /\ l # "unregisterClient" /\ l # "ctrlptMsg"
      BY <1>6 DEF Pc, HandlePc, LeavingPc, AdvertisingPc, DevicePc
    <2>2. /\ local[t].af \in Family /\ local[t].back # "finish" /\ local[t].id <= lastId
      BY <1>1, <1>3 DEF Well, LeavingPc
    <2> QED BY <1>3, <1>7, <2>1, <2>2 DEF Well
  <1> QED BY <1>1, <1>2, <1>4, <1>5, <1>6, <1>7, <1>8, PlainMove

\* The reply is due.
LEMMA ReplyThreadIInv ==
    ASSUME IInv, NEW t \in Thread, NEW h \in Handle, AdvertiseAndReplyThread(t, h)
    PROVE  IInv'
  <1> DEFINE r == [NoLocal EXCEPT !.handle = h, !.job = TRUE]
  <1>1. /\ JobStarts(t) /\ pc[t] = "out" /\ replyTimer[h] > 0
        /\ replyTimer' = [replyTimer EXCEPT ![h] = @ - 1]
        /\ UNCHANGED <<handleVars, adTimer, expiries, lastId, timerDown, finishing, seenVars>>
        /\ results' = results /\ crashed' = crashed
        /\ GotoWith(t, "reply", r) \/ UNCHANGED threadVars
    BY DEF AdvertiseAndReplyThread, JobStarts, At, boundVars
  <1>2. UpnpSdkInit = 1
    BY <1>1, StillUp DEF JobStarts
  <1>3. replyTimer' \in [Handle -> Nat] /\ results' \subseteq 1..lastId /\ crashed' \in BOOLEAN
    BY <1>1 DEF IInv, TimerTypes
  <1>4. r \in LocalType /\ r.handle = h /\ r.back = "out" /\ r.id <= lastId
    BY LocalsWith
  <1> HIDE DEF r
  <1>5. CASE UNCHANGED threadVars
    BY <1>1, <1>3, <1>5, PlainStay
  <1>6. CASE GotoWith(t, "reply", r)
    <2>1. Moves(t, "reply", r)
      BY <1>6, MoveForms DEF IInv
    <2>2. PICK l : l = "reply"
      OBVIOUS
    <2>3. l \notin FinishPc /\ l \notin LeavingPc /\ l # "tell" /\ pc[t] # "tell"
          /\ pc[t] \notin AdvertisingPc /\ l \notin EndedPc
      BY <1>1, <2>2 DEF FinishPc, LeavingPc, EndedPc, AdvertisingPc
    <2>4. Well(l, r)
      BY <1>4, <2>2 DEF Well, Pc, HandlePc, LeavingPc, DevicePc, AdvertisingPc
    <2> QED BY <1>1, <1>2, <1>3, <2>1, <2>2, <2>3, <2>4, PlainMove
  <1> QED BY <1>1, <1>5, <1>6

\* A job of send_search_result() runs.
LEMMA SendSearchResultIInv ==
    ASSUME IInv, NEW id \in results, SendSearchResult(id)
    PROVE  IInv'
  <1>1. /\ UNCHANGED <<handleVars, threadVars, adTimer, expiries, lastId, timerDown, finishing, seenVars>>
        /\ replyTimer' = replyTimer /\ results' = results \ {id} /\ crashed' = crashed
    BY DEF SendSearchResult, boundVars
  <1>2. replyTimer' \in [Handle -> Nat] /\ results' \subseteq 1..lastId /\ crashed' \in BOOLEAN
    BY <1>1 DEF IInv, TimerTypes
  <1> QED BY <1>1, <1>2, PlainStay

\* Nothing happens.
LEMMA StoppedIInv ==
    ASSUME IInv, UNCHANGED vars
    PROVE  IInv'
  <1>1. /\ UNCHANGED <<handleVars, threadVars, adTimer, expiries, lastId, timerDown, finishing, seenVars>>
        /\ replyTimer' = replyTimer /\ results' = results /\ crashed' = crashed
    BY DEF vars, timerVars, boundVars
  <1>2. replyTimer' \in [Handle -> Nat] /\ results' \subseteq 1..lastId /\ crashed' \in BOOLEAN
    BY <1>1 DEF IInv, TimerTypes
  <1> QED BY <1>1, <1>2, PlainStay

\* StopMiniServer().
LEMMA FinishServerIInv ==
    ASSUME IInv, NEW t \in Thread, FinishServer(t)
    PROVE  IInv'
  <1>1. /\ pc[t] = "finishServer" /\ Goto(t, "finishPools")
        /\ UNCHANGED <<handleVars, adTimer, expiries, lastId, timerDown, finishing, seenVars>>
        /\ replyTimer' = replyTimer /\ results' = results /\ crashed' = crashed
    BY DEF FinishServer, At, boundVars, timerVars
  <1>2. UpnpSdkInit = 1
    BY <1>1, StillUp
  <1>3. replyTimer' \in [Handle -> Nat] /\ results' \subseteq 1..lastId /\ crashed' \in BOOLEAN
    BY <1>1 DEF IInv, TimerTypes
  <1>4. Well(pc[t], local[t]) /\ local[t] \in LocalType
    BY MoveForms DEF IInv
  <1>5. Moves(t, "finishPools", local[t])
    BY <1>1, MoveForms DEF IInv
  <1>6. PICK l : l = "finishPools"
    OBVIOUS
  <1>7. l \notin LeavingPc /\ l # "tell" /\ pc[t] # "tell"
        /\ pc[t] \notin AdvertisingPc /\ pc[t] \in EndedPc /\ Finisher(t)
    BY <1>1, <1>6 DEF FinishPc, LeavingPc, EndedPc, AdvertisingPc, Finisher
  <1>8. Well(l, local[t])
    <2>1. /\ l \in Pc /\ l \notin HandlePc /\ l \notin DevicePc /\ l \notin {"request", "requestReply"}
          /\ l # "unregisterClient" /\ l # "ctrlptMsg"
      BY <1>6 DEF Pc, HandlePc, LeavingPc, AdvertisingPc, DevicePc, FinishPc, EndedPc
    <2>2. local[t].back # "finish" /\ local[t].id <= lastId
      BY <1>1, <1>4 DEF Well, LeavingPc
    <2> QED BY <1>4, <1>7, <2>1, <2>2 DEF Well
  <1> QED BY <1>1, <1>2, <1>3, <1>5, <1>6, <1>7, <1>8, PlainMove

-----------------------------------------------------------------------------
(* Advertising *)

\* A move that may change what is advertised.
LEMMA AdvertisingMove ==
    ASSUME IInv, NEW t \in Thread, NEW l, NEW r, Moves(t, l, r), Well(l, r),
           UNCHANGED <<handleVars, expiries, lastId, timerDown, finishing, hidden, searches>>,
           UpnpSdkInit = 1, l \notin FinishPc, pc[t] # "tell", l # "tell",
           l \in LeavingPc => /\ r.back = "finish" <=> Finisher(t)
                              /\ finishing => Finisher(t)
                              /\ \A u \in Thread : u # t /\ Leaving(u) => local[u].handle # r.handle,
           Advertised', TimerTypes', SeenTypes'
    PROVE  IInv'
  <1>0. /\ UNCHANGED <<HandleTable, regs, lastId, hidden, UpnpSdkInit, searches, timerDown,
                       expiries, finishing>>
        /\ UNCHANGED <<tableVars, regs>>
        /\ l \notin EndedPc
    BY DEF handleVars, tableVars, FinishPc
  <1>1. Threads /\ Leaves /\ Ended /\ Told /\ Table /\ Lists
    BY DEF IInv
  <1>2. Threads'
    BY <1>0, <1>1, MoveThreads
  <1>3. Leaves'
    BY <1>0, <1>1, MoveLeaves
  <1>4. Ended'
    BY <1>0, <1>1, MoveEnded
  <1>6. Told'
    BY <1>0, <1>1, MoveTold
  <1>7. Table'
    BY <1>0, <1>1, SameTable
  <1>8. Lists'
    BY <1>0, <1>1, SameLists
  <1> QED BY <1>2, <1>3, <1>4, <1>6, <1>7, <1>8 DEF IInv

\* The last copy of the advertisements is sent: the thread goes on to schedule
\* the next ones.
LEMMA DeviceAdvertisementIInv ==
    ASSUME IInv, NEW t \in Thread, DeviceAdvertisement(t)
    PROVE  IInv'
  <1>1. PICK h : h = local[t].handle
    OBVIOUS
  <1>2. /\ pc[t] = "aliveSend" /\ Goto(t, "schedule")
        /\ alive' = alive \cup {HandleTable[h].reg}
        /\ UNCHANGED <<HandleTable, regs, adTimer, replyTimer, results, crashed>>
        /\ UNCHANGED <<handleVars, expiries, lastId, timerDown, finishing, hidden, searches, unkept>>
    BY <1>1 DEF DeviceAdvertisement, At, timerVars, boundVars, handleVars, tableVars
  <1>3. UpnpSdkInit = 1
    BY <1>2, StillUp
  <1>4. Well(pc[t], local[t])
    BY MoveForms DEF IInv
  <1>5. h \in Handle /\ GetHandleInfo(h) = "HND_DEVICE"
    BY <1>1, <1>2, <1>4 DEF Well, HandlePc, DevicePc, AdvertisingPc
  <1>6. HandleTable[h].reg \in 1..regs /\ \A k \in Handle : HandleTable[k].reg = HandleTable[h].reg => k = h
    <2>1. HandleTable[h].reg \in 1..regs /\ regs \in Nat
      BY <1>5, HandleAssumption DEF IInv, Table, GetHandleInfo, HandleTypeOK
    <2>2. HandleTable[h].reg # 0
      BY <2>1
    <2> QED BY <1>5, <2>1, <2>2 DEF IInv, Table
  <1>7. PICK l : l = "schedule"
    OBVIOUS
  <1>8. Moves(t, l, local[t])
    BY <1>2, <1>7, MoveForms DEF IInv
  <1>9. l \notin FinishPc /\ pc[t] # "tell" /\ l # "tell" /\ l \notin LeavingPc
    BY <1>2, <1>7 DEF FinishPc, EndedPc, LeavingPc
  <1>10. Well(l, local[t])
    BY <1>2, <1>4, <1>7 DEF Well, Pc, HandlePc, DevicePc, LeavingPc, AdvertisingPc
  <1>11. Advertised'
    <2>1. /\ pc'[t] = l /\ local'[t] = local[t]
          /\ \A u \in Thread : u # t => pc'[u] = pc[u] /\ local'[u] = local[u]
      BY <1>8, MoveFrame DEF IInv
    <2>2. \A k \in Handle, u \in Thread : Advertises(u, k) => Advertises(u, k)'
      BY <1>7, <2>1 DEF Advertises, AdvertisingPc
    <2>3. Advertises(t, h)'
      BY <1>1, <1>7, <2>1 DEF Advertises, AdvertisingPc
    <2>4. \A k \in Handle : GetHandleInfo(k)' = GetHandleInfo(k)
      BY <1>2 DEF GetHandleInfo
    <2>5. \A k \in Handle : HandleTable[k].reg \in alive' => HandleTable[k].reg \in alive \/ k = h
      BY <1>2, <1>6
    <2> QED BY <1>2, <1>5, <2>2, <2>3, <2>4, <2>5 DEF IInv, Advertised
  <1>12. TimerTypes' /\ SeenTypes'
    BY <1>2, <1>6 DEF IInv, TimerTypes, SeenTypes
  <1> QED BY <1>2, <1>3, <1>8, <1>9, <1>10, <1>11, <1>12, AdvertisingMove

\* The last copy of the byebye messages is sent.
LEMMA DeviceShutdownIInv ==
    ASSUME IInv, NEW t \in Thread, DeviceShutdown(t)
    PROVE  IInv'
  <1>2. /\ pc[t] = "byebyeSend" /\ Goto(t, "unregisterDevice")
        /\ alive' \subseteq alive
        /\ UNCHANGED <<HandleTable, regs, adTimer, replyTimer, results, crashed>>
        /\ UNCHANGED <<handleVars, expiries, lastId, timerDown, finishing, hidden, searches, unkept>>
    BY DEF DeviceShutdown, At, timerVars, boundVars, handleVars, tableVars
  <1>3. UpnpSdkInit = 1
    BY <1>2, StillUp
  <1>4. Well(pc[t], local[t])
    BY MoveForms DEF IInv
  <1>7. PICK l : l = "unregisterDevice"
    OBVIOUS
  <1>8. Moves(t, l, local[t])
    BY <1>2, <1>7, MoveForms DEF IInv
  <1>9. l \notin FinishPc /\ pc[t] # "tell" /\ l # "tell" /\ Leaving(t) /\ pc[t] \notin FinishPc
    BY <1>2, <1>7 DEF FinishPc, EndedPc, LeavingPc, Leaving
  <1>10. Well(l, local[t])
    BY <1>2, <1>4, <1>7 DEF Well, Pc, HandlePc, DevicePc, LeavingPc, AdvertisingPc
  <1>11. Advertised'
    <2>1. /\ pc'[t] = l /\ local'[t] = local[t]
          /\ \A u \in Thread : u # t => pc'[u] = pc[u] /\ local'[u] = local[u]
      BY <1>8, MoveFrame DEF IInv
    <2>2. \A k \in Handle, u \in Thread : Advertises(u, k) => Advertises(u, k)'
      BY <1>2, <2>1 DEF Advertises, AdvertisingPc
    <2>4. \A k \in Handle : GetHandleInfo(k)' = GetHandleInfo(k)
      BY <1>2 DEF GetHandleInfo
    <2> QED BY <1>2, <2>2, <2>4 DEF IInv, Advertised
  <1>12. TimerTypes' /\ SeenTypes'
    BY <1>2 DEF IInv, TimerTypes, SeenTypes
  <1>13. /\ local[t].back = "finish" <=> Finisher(t)
         /\ finishing => Finisher(t)
         /\ \A u \in Thread : u # t /\ Leaving(u) => local[u].handle # local[t].handle
    BY <1>9 DEF IInv, Leaves, Finisher
  <1> QED BY <1>2, <1>3, <1>8, <1>9, <1>10, <1>11, <1>12, <1>13, AdvertisingMove

\* The next advertisement is scheduled, refused, or not needed any more.
LEMMA SendAdvertisementEndsIInv ==
    ASSUME IInv, NEW t \in Thread, SendAdvertisementEnds(t)
    PROVE  IInv'
  <1>1. PICK h : h = local[t].handle
    OBVIOUS
  <1>2. /\ pc[t] = "schedule" /\ Return(t)
        /\ UNCHANGED <<HandleTable, regs, replyTimer, results, alive>>
        /\ UNCHANGED <<handleVars, expiries, lastId, timerDown, finishing, hidden, searches>>
    BY DEF SendAdvertisementEnds, At, boundVars, handleVars, tableVars
  <1>3. UpnpSdkInit = 1
    BY <1>2, StillUp
  <1>4. Well(pc[t], local[t]) /\ Moves(t, local[t].back, NoLocal)
    BY <1>2, MoveForms DEF IInv
  <1>5. h \in Handle /\ local[t].back = "out"
    BY <1>1, <1>2, <1>4 DEF Well, LocalType, HandlePc, AdvertisingPc, LeavingPc
  <1>6. PICK l : l = "out"
    OBVIOUS
  <1>7. Moves(t, l, NoLocal) /\ Well(l, NoLocal)
    BY <1>4, <1>5, <1>6, NoLocalType DEF IInv
  <1>8. l \notin FinishPc /\ l \notin LeavingPc /\ pc[t] # "tell" /\ l # "tell"
    BY <1>2, <1>6 DEF FinishPc, LeavingPc, EndedPc
  <1>9. /\ adTimer \in [Handle -> Nat] /\ crashed \in BOOLEAN /\ unkept \subseteq 0..regs
        /\ HandleTable[h].reg \in 0..regs
    <2>1. HandleTable[h] \in HandleInfo /\ regs \in Nat
      BY <1>5, HandleAssumption DEF IInv, Table, HandleTypeOK
    <2>2. HandleTable[h].HType = "HND_INVALID" => HandleTable[h].reg = 0
      BY <1>5 DEF IInv, Table, Null
    <2>3. HandleTable[h].reg \in 0..regs
      BY <1>5, <2>1, <2>2 DEF IInv, Table
    <2> QED BY <2>3 DEF IInv, TimerTypes, SeenTypes
  <1>10. /\ \/ adTimer' = adTimer
            \/ adTimer' = [adTimer EXCEPT ![h] = @ + 1]
         /\ \/ unkept' = unkept
            \/ unkept' = unkept \cup {HandleTable[h].reg}
         /\ crashed' \in BOOLEAN
         /\ GetHandleInfo(h) = "HND_DEVICE" =>
               \/ timerDown
               \/ adTimer' = [adTimer EXCEPT ![h] = @ + 1]
               \/ unkept' = unkept \cup {HandleTable[h].reg}
    BY <1>1, <1>9 DEF SendAdvertisementEnds, ScheduleAutoAdvertise, UseAfterShutdown
  <1>11. /\ adTimer' \in [Handle -> Nat] /\ unkept' \subseteq 0..regs /\ unkept \subseteq unkept'
         /\ \A k \in Handle : adTimer[k] > 0 => adTimer'[k] > 0
         /\ adTimer' = [adTimer EXCEPT ![h] = @ + 1] => adTimer'[h] > 0
    <2>1. unkept' \subseteq 0..regs /\ unkept \subseteq unkept'
      BY <1>9, <1>10
    <2>2. CASE adTimer' = adTimer
      <3>1. adTimer[h] \in Nat
        BY <1>5, <1>9
      <3>2. adTimer' # [adTimer EXCEPT ![h] = @ + 1]
        BY <1>5, <1>9, <2>2, <3>1
      <3> QED BY <1>9, <2>1, <2>2, <3>2
    <2>3. CASE adTimer' = [adTimer EXCEPT ![h] = @ + 1]
      <3>1. /\ adTimer' \in [Handle -> Nat]
            /\ \A k \in Handle : adTimer'[k] = IF k = h THEN adTimer[h] + 1 ELSE adTimer[k]
        BY <1>5, <1>9, <2>3
      <3>2. adTimer[h] + 1 > 0
        BY <1>5, <1>9
      <3> QED BY <1>5, <2>1, <3>1, <3>2
    <2> QED BY <1>10, <2>2, <2>3
  <1>12. TimerTypes' /\ SeenTypes'
    BY <1>2, <1>10, <1>11 DEF IInv, TimerTypes, SeenTypes
  <1>13. Advertised'
    <2>1. /\ pc'[t] = l /\ local'[t] = NoLocal
          /\ \A u \in Thread : u # t => pc'[u] = pc[u] /\ local'[u] = local[u]
      BY <1>7, MoveFrame DEF IInv
    <2>2. \A k \in Handle, u \in Thread : u # t /\ Advertises(u, k) => Advertises(u, k)'
      BY <2>1 DEF Advertises
    <2>3. \A k \in Handle : Advertises(t, k) => k = h
      BY <1>1 DEF Advertises
    <2>4. \A k \in Handle : GetHandleInfo(k)' = GetHandleInfo(k)
      BY <1>2 DEF GetHandleInfo
    <2>5. ASSUME NEW k \in Handle, ~timerDown, HandleTable[k].reg \in alive, HandleTable[k].reg \notin unkept'
          PROVE  adTimer'[k] > 0 \/ \E u \in Thread : Advertises(u, k)'
      <3>1. GetHandleInfo(k) = "HND_DEVICE" /\ (adTimer[k] > 0 \/ \E u \in Thread : Advertises(u, k))
        BY <1>11, <2>5 DEF IInv, Advertised
      <3>2. CASE k = h
        BY <1>10, <1>11, <2>5, <3>1, <3>2
      <3>3. CASE k # h
        BY <1>11, <2>2, <2>3, <3>1, <3>3
      <3> QED BY <3>2, <3>3
    <2> QED BY <1>2, <2>4, <2>5 DEF IInv, Advertised
  <1> QED BY <1>2, <1>3, <1>7, <1>8, <1>12, <1>13, AdvertisingMove

\* An event of AutoAdvertise() leaves the timer.
LEMMA EventTaken ==
    ASSUME IInv, NEW h \in Handle, adTimer[h] > 0, adTimer' = [adTimer EXCEPT ![h] = @ - 1]
    PROVE  /\ adTimer' \in [Handle -> Nat]
           /\ \A k \in Handle : k # h => adTimer'[k] = adTimer[k]
  BY DEF IInv, TimerTypes

\* The event is due: the thread that takes it sends the next advertisements, if
\* the handle still is a device's.
LEMMA AutoAdvertiseIInv ==
    ASSUME IInv, NEW t \in Thread, NEW h \in Handle, AutoAdvertise(t, h)
    PROVE  IInv'
  <1>1. /\ JobStarts(t) /\ pc[t] = "out" /\ adTimer[h] > 0
        /\ adTimer' = [adTimer EXCEPT ![h] = @ - 1]
        /\ UNCHANGED <<HandleTable, regs, replyTimer, results, alive, crashed, unkept>>
        /\ UNCHANGED <<handleVars, expiries, lastId, timerDown, finishing, hidden, searches>>
    BY DEF AutoAdvertise, JobStarts, At, handleVars, tableVars, seenVars
  <1>2. UpnpSdkInit = 1
    BY <1>1, StillUp DEF JobStarts
  <1>3. TimerTypes' /\ SeenTypes'
    BY <1>1, EventTaken DEF IInv, TimerTypes, SeenTypes
  <1>4. \A k \in Handle : GetHandleInfo(k)' = GetHandleInfo(k)
    BY <1>1 DEF GetHandleInfo
  <1>5. PICK l, r : /\ Moves(t, l, r) /\ Well(l, r) /\ l \in {"out", "alive"}
                    /\ GetHandleInfo(h) = "HND_DEVICE" => l = "alive" /\ r.handle = h
    <2>1. CASE GetHandleInfo(h) = "HND_DEVICE"
      <3> DEFINE r == [NoLocal EXCEPT !.handle = h, !.job = TRUE]
      <3>1. GotoWith(t, "alive", r)
        BY <2>1 DEF AutoAdvertise, SendAdvertisementStarts
      <3>2. r \in LocalType /\ r.handle = h /\ r.back = "out" /\ r.id <= lastId
        BY LocalsWith
      <3> HIDE DEF r
      <3>3. Moves(t, "alive", r)
        BY <3>1, MoveForms DEF IInv
      <3>4. PICK l : l = "alive"
        OBVIOUS
      <3>5. Well(l, r)
        BY <3>2, <3>4 DEF Well, Pc, HandlePc, LeavingPc, DevicePc, AdvertisingPc
      <3> QED BY <2>1, <3>2, <3>3, <3>4, <3>5
    <2>2. CASE GetHandleInfo(h) # "HND_DEVICE"
      <3>1. UNCHANGED <<pc, local>>
        BY <2>2 DEF AutoAdvertise, SendAdvertisementStarts, threadVars
      <3>2. Moves(t, pc[t], local[t]) /\ Well(pc[t], local[t])
        BY <3>1 DEF Moves, IInv, Threads
      <3> QED BY <1>1, <2>2, <3>2
    <2> QED BY <2>1, <2>2
  <1>6. Advertised'
    <2>1. /\ pc'[t] = l /\ local'[t] = r
          /\ \A u \in Thread : u # t => pc'[u] = pc[u] /\ local'[u] = local[u]
      BY <1>5, MoveFrame DEF IInv
    <2>2. \A k \in Handle, u \in Thread : Advertises(u, k) => Advertises(u, k)'
      BY <1>1, <2>1 DEF Advertises, AdvertisingPc
    <2>3. GetHandleInfo(h) = "HND_DEVICE" => Advertises(t, h)'
      BY <1>5, <2>1 DEF Advertises, AdvertisingPc
    <2>4. \A k \in Handle : k # h => adTimer'[k] = adTimer[k]
      BY <1>1, EventTaken
    <2> QED BY <1>1, <1>4, <2>2, <2>3, <2>4 DEF IInv, Advertised
  <1>7. l \notin FinishPc /\ l \notin LeavingPc /\ pc[t] # "tell" /\ l # "tell"
    BY <1>1, <1>5 DEF FinishPc, LeavingPc, EndedPc
  <1> QED BY <1>1, <1>2, <1>3, <1>5, <1>6, <1>7, AdvertisingMove

\* The pool refuses the job.
LEMMA AutoAdvertiseRefusedIInv ==
    ASSUME IInv, NEW h \in Handle, AutoAdvertiseRefused(h)
    PROVE  IInv'
  <1>1. /\ adTimer[h] > 0 /\ adTimer' = [adTimer EXCEPT ![h] = @ - 1]
        /\ unkept' = unkept \cup {HandleTable[h].reg}
        /\ UNCHANGED <<HandleTable, regs, replyTimer, results, alive, crashed, lastId, hidden,
                       UpnpSdkInit, searches, timerDown, expiries, finishing, pc, local>>
        /\ UNCHANGED <<tableVars, regs>>
    BY DEF AutoAdvertiseRefused, handleVars, tableVars, threadVars, boundVars
  <1>2. /\ adTimer' \in [Handle -> Nat]
        /\ \A k \in Handle : k # h => adTimer'[k] = adTimer[k]
    BY <1>1, EventTaken
  <1>3. Threads /\ Leaves /\ Ended /\ Advertised /\ Told /\ Table /\ Lists /\ TimerTypes /\ SeenTypes
    BY DEF IInv
  <1>4. Threads'
    BY <1>1, <1>3 DEF Threads, Well, GetHandleInfo
  <1>5. Leaves' /\ Ended'
    BY <1>1, <1>3 DEF Leaves, Leaving, Finisher, Ended
  <1>6. Advertised'
    BY <1>1, <1>2, <1>3 DEF Advertised, Advertises, GetHandleInfo
  <1>7. Told'
    BY <1>1, <1>3 DEF Told, Tells, In, Searches
  <1>8. Table'
    BY <1>1, <1>3, SameTable DEF Table, HandleTypeOK
  <1>9. Lists'
    BY <1>1, <1>3, SameLists
  <1>10. HandleTable[h].reg \in 0..regs
    <2>1. HandleTable[h] \in HandleInfo /\ regs \in Nat
      BY <1>3, HandleAssumption DEF Table, HandleTypeOK
    <2>2. HandleTable[h].HType = "HND_INVALID" => HandleTable[h].reg = 0
      BY <1>3 DEF Table, Null
    <2> QED BY <1>3, <2>1, <2>2 DEF Table
  <1>11. TimerTypes' /\ SeenTypes'
    BY <1>1, <1>2, <1>3, <1>10 DEF TimerTypes, SeenTypes
  <1> QED BY <1>4, <1>5, <1>6, <1>7, <1>8, <1>9, <1>11 DEF IInv

-----------------------------------------------------------------------------
(* UpnpFinish() *)

\* UpnpFinish() starts: no handle is being freed.
LEMMA UpnpFinishIInv ==
    ASSUME IInv, NEW t \in Thread, UpnpFinish(t)
    PROVE  IInv'
  <1>0. /\ AppCall(t) /\ pc[t] = "out" /\ finishing' = TRUE /\ Goto(t, "finish")
        /\ \A u \in Thread : pc[u] = "out" \/ local[u].job
        /\ UNCHANGED <<HandleTable, regs, lastId, hidden, UpnpSdkInit, searches, timerDown, alive,
                       unkept, adTimer, expiries, replyTimer, results, crashed>>
        /\ UNCHANGED <<tableVars, regs>>
    BY DEF UpnpFinish, AppCall, At, handleVars, tableVars, timerVars, seenVars
  <1>1. Threads /\ Leaves /\ Ended /\ Advertised /\ Told /\ Table /\ Lists /\ TimerTypes /\ SeenTypes
    BY DEF IInv
  <1>2. UpnpSdkInit = 1 /\ \A u \in Thread : ~Finisher(u)
    BY <1>0, StillUp
  <1>3. Well(pc[t], local[t]) /\ local[t] \in LocalType
    BY MoveForms DEF IInv
  <1>4. PICK l : l = "finish"
    OBVIOUS
  <1>5. Moves(t, l, local[t])
    BY <1>0, <1>4, MoveForms DEF IInv
  <1>6. l \notin LeavingPc /\ l # "tell" /\ l \notin EndedPc /\ pc[t] # "tell"
        /\ pc[t] \notin AdvertisingPc
    BY <1>0, <1>4 DEF LeavingPc, AdvertisingPc, EndedPc
  <1>7. Well(l, local[t])
    <2>1. /\ l \in Pc /\ l \notin HandlePc /\ l \notin DevicePc /\ l \notin {"request", "requestReply"}
          /\ l # "unregisterClient" /\ l # "ctrlptMsg"
      BY <1>4 DEF Pc, HandlePc, LeavingPc, AdvertisingPc, DevicePc, FinishPc, EndedPc
    <2>2. local[t].back # "finish" /\ local[t].id <= lastId
      BY <1>0, <1>3 DEF Well, LeavingPc
    <2> QED BY <1>3, <1>6, <2>1, <2>2 DEF Well
  <1>8. Threads'
    BY <1>0, <1>1, <1>5, <1>7, MoveThreads
  <1>9. Leaves'
    <2>1. /\ pc'[t] = l /\ local'[t] = local[t]
          /\ \A u \in Thread : u # t => pc'[u] = pc[u] /\ local'[u] = local[u]
      BY <1>1, <1>5, MoveFrame
    <2>2. \A u \in Thread : ~Leaving(u)
      BY <1>0, <1>1 DEF Leaving, Threads, Well, LeavingPc
    <2>3. \A u \in Thread : ~Leaving(u)'
      BY <1>6, <2>1, <2>2 DEF Leaving
    <2>4. \A u \in Thread : Finisher(u)' => u = t
      BY <1>2, <2>1, <2>3 DEF Finisher
    <2> QED BY <1>0, <2>3, <2>4 DEF Leaves
  <1>10. Ended'
    BY <1>0, <1>1, <1>2, <1>5, <1>6, MoveEnded
  <1>11. Advertised'
    BY <1>0, <1>1, <1>5, <1>6, MoveAdvertised
  <1>12. Told'
    BY <1>0, <1>1, <1>5, <1>6, MoveTold
  <1>13. Table'
    BY <1>0, <1>1, SameTable DEF Table, HandleTypeOK
  <1>14. Lists'
    BY <1>0, <1>1, SameLists
  <1>15. TimerTypes' /\ SeenTypes'
    BY <1>0, <1>1 DEF TimerTypes, SeenTypes
  <1> QED BY <1>8, <1>9, <1>10, <1>11, <1>12, <1>13, <1>14, <1>15 DEF IInv

\* TimerThreadShutdown(), when the loops are over: no client is left, and no
\* device but those that were hidden from the loops.
LEMMA FinishTimerIInv ==
    ASSUME IInv, NEW t \in Thread, FinishTimer(t)
    PROVE  IInv'
  <1>0. /\ pc[t] = "finish" /\ Goto(t, "finishServer")
        /\ \A af \in Family : GetDeviceHandleInfo(0, af) = NoHandle
        /\ GetClientHandleInfo = NoHandle
        /\ timerDown' = TRUE
        /\ adTimer' = [h \in Handle |-> 0] /\ replyTimer' = [h \in Handle |-> 0] /\ expiries' = {}
        /\ UNCHANGED <<HandleTable, regs, lastId, hidden, UpnpSdkInit, searches, alive,
                       unkept, results, crashed, finishing>>
        /\ UNCHANGED <<tableVars, regs>>
    BY DEF FinishTimer, At, handleVars, tableVars, seenVars, boundVars
  <1>1. Threads /\ Leaves /\ Ended /\ Advertised /\ Told /\ Table /\ Lists /\ TimerTypes /\ SeenTypes
    BY DEF IInv
  <1>2. UpnpSdkInit = 1
    BY <1>0, StillUp
  <1>3. Well(pc[t], local[t]) /\ local[t] \in LocalType
    BY MoveForms DEF IInv
  <1>4. PICK l : l = "finishServer"
    OBVIOUS
  <1>5. Moves(t, l, local[t])
    BY <1>0, <1>4, MoveForms DEF IInv
  <1>6. l \notin LeavingPc /\ l # "tell" /\ pc[t] # "tell" /\ pc[t] \notin AdvertisingPc /\ Finisher(t)
    BY <1>0, <1>4 DEF LeavingPc, AdvertisingPc, Finisher, FinishPc
  <1>7. Well(l, local[t])
    <2>1. /\ l \in Pc /\ l \notin HandlePc /\ l \notin DevicePc /\ l \notin {"request", "requestReply"}
          /\ l # "unregisterClient" /\ l # "ctrlptMsg"
      BY <1>4 DEF Pc, HandlePc, LeavingPc, AdvertisingPc, DevicePc, FinishPc, EndedPc
    <2>2. local[t].back # "finish" /\ local[t].id <= lastId
      BY <1>0, <1>3 DEF Well, LeavingPc
    <2> QED BY <1>3, <1>6, <2>1, <2>2 DEF Well
  <1>8. Threads'
    BY <1>0, <1>1, <1>5, <1>7, MoveThreads
  <1>9. Leaves'
    BY <1>0, <1>1, <1>5, <1>6, MoveLeaves
  <1>f. /\ pc'[t] = l /\ local'[t] = local[t]
        /\ \A u \in Thread : u # t => pc'[u] = pc[u] /\ local'[u] = local[u]
    BY <1>1, <1>5, MoveFrame
  <1>10. Ended'
    <2>1. ASSUME NEW h \in Handle, HandleTable[h].HType # "HND_INVALID"
          PROVE  HandleTable[h].HType = "HND_DEVICE" /\ HandleTable[h].reg \in hidden
      <3>1. h \notin Clients
        BY <1>0, <1>1, LookUp
      <3>2. HandleTable[h].HType = "HND_DEVICE"
        BY <1>1, <2>1, <3>1 DEF Table, HandleTypeOK, HandleInfo, Clients, GetHandleInfo
      <3>3. PICK af \in Family : af = HandleTable[h].DeviceAf
        BY <1>1, <3>2 DEF Table
      <3>4. h \in DevicesOf(af) /\ h > 0
        BY <3>2, <3>3, Handles DEF DevicesOf, GetHandleInfo
      <3>5. UpnpSdkDeviceRegistered[af] = 0
        BY <1>0, <1>1, <3>4, LookUp
      <3> QED BY <1>1, <3>2, <3>3, <3>5 DEF Table
    <2>2. UpnpSdkInit' # 0
      BY <1>0, <1>2
    <2> QED BY <1>0, <2>1, <2>2 DEF Ended
  <1>11. Advertised'
    BY <1>0, <1>1 DEF Advertised, GetHandleInfo
  <1>12. Told'
    <2>1. \A u \in Thread, id \in 1..lastId : Tells(u, id)' <=> Tells(u, id)
      BY <1>6, <1>f DEF Tells
    <2>2. \A h \in Handle, id \in 1..lastId : In(h, id)' <=> In(h, id)
      BY <1>0 DEF In, Searches
    <2> QED BY <1>0, <1>1, <2>1, <2>2 DEF Told
  <1>13. Table'
    BY <1>0, <1>1, SameTable DEF Table, HandleTypeOK
  <1>14. Lists'
    BY <1>0, <1>1, SameLists
  <1>15. TimerTypes' /\ SeenTypes'
    BY <1>0, <1>1 DEF TimerTypes, SeenTypes
  <1> QED BY <1>8, <1>9, <1>10, <1>11, <1>12, <1>13, <1>14, <1>15 DEF IInv

\* The pools are shut down: nobody else is inside the SDK.
LEMMA FinishPoolsIInv ==
    ASSUME IInv, NEW t \in Thread, FinishPools(t)
    PROVE  IInv'
  <1>0. /\ pc[t] = "finishPools" /\ Goto(t, "finished") /\ WorkersGone(t)
        /\ results' = {} /\ UpnpSdkInit' = 0
        /\ UNCHANGED <<HandleTable, regs, lastId, hidden, searches, timerDown, alive,
                       unkept, adTimer, expiries, replyTimer, crashed, finishing>>
        /\ UNCHANGED <<tableVars, regs>>
    BY DEF FinishPools, At, tableVars, seenVars, boundVars
  <1>1. Threads /\ Leaves /\ Ended /\ Advertised /\ Told /\ Table /\ Lists /\ TimerTypes /\ SeenTypes
    BY DEF IInv
  <1>3. Well(pc[t], local[t]) /\ local[t] \in LocalType
    BY MoveForms DEF IInv
  <1>4. PICK l : l = "finished"
    OBVIOUS
  <1>5. Moves(t, l, local[t])
    BY <1>0, <1>4, MoveForms DEF IInv
  <1>6. l \notin LeavingPc /\ l # "tell" /\ pc[t] # "tell" /\ pc[t] \notin AdvertisingPc /\ Finisher(t)
        /\ pc[t] \in EndedPc
    BY <1>0, <1>4 DEF LeavingPc, AdvertisingPc, Finisher, FinishPc, EndedPc
  <1>7. Well(l, local[t])
    <2>1. /\ l \in Pc /\ l \notin HandlePc /\ l \notin DevicePc /\ l \notin {"request", "requestReply"}
          /\ l # "unregisterClient" /\ l # "ctrlptMsg"
      BY <1>4 DEF Pc, HandlePc, LeavingPc, AdvertisingPc, DevicePc, FinishPc, EndedPc
    <2>2. local[t].back # "finish" /\ local[t].id <= lastId
      BY <1>0, <1>3 DEF Well, LeavingPc
    <2> QED BY <1>3, <1>6, <2>1, <2>2 DEF Well
  <1>8. Threads'
    BY <1>0, <1>1, <1>5, <1>7, MoveThreads
  <1>9. Leaves'
    BY <1>0, <1>1, <1>5, <1>6, MoveLeaves
  <1>f. /\ pc'[t] = l /\ local'[t] = local[t]
        /\ \A u \in Thread : u # t => pc'[u] = pc[u] /\ local'[u] = local[u]
    BY <1>1, <1>5, MoveFrame
  <1>10. Ended'
    <2>1. \A u \in Thread : u # t => pc'[u] = "out"
      BY <1>0, <1>f DEF WorkersGone
    <2>2. \A h \in Handle : HandleTable[h].HType # "HND_INVALID" =>
             HandleTable[h].HType = "HND_DEVICE" /\ HandleTable[h].reg \in hidden
      BY <1>1, <1>6 DEF Ended
    <2> QED BY <1>0, <1>4, <1>f, <2>1, <2>2 DEF Ended
  <1>11. Advertised'
    BY <1>0, <1>1, <1>5, <1>6, MoveAdvertised
  <1>12. Told'
    BY <1>0, <1>1, <1>5, <1>6, MoveTold
  <1>13. Table'
    BY <1>0, <1>1, SameTable
  <1>14. Lists'
    BY <1>0, <1>1, SameLists
  <1>15. TimerTypes' /\ SeenTypes'
    BY <1>0, <1>1 DEF TimerTypes, SeenTypes
  <1> QED BY <1>8, <1>9, <1>10, <1>11, <1>12, <1>13, <1>14, <1>15 DEF IInv

-----------------------------------------------------------------------------
(* Registering and unregistering *)

\* An entry of the table is made or freed: neither a search nor an advertisement
\* belongs to it.
LEMMA EntryChanged ==
    ASSUME IInv, NEW f \in Handle, NEW e \in HandleInfo,
           HandleTable' = [HandleTable EXCEPT ![f] = e],
           e.SsdpSearchList = <<>>, e.reg \notin 1..regs, regs' \in {regs, regs + 1},
           UNCHANGED <<lastId, searches, timerDown, expiries, alive, unkept, adTimer>>,
           \A u \in Thread, id \in 1..lastId : Tells(u, id)' <=> Tells(u, id),
           \A u \in Thread, h \in Handle : Advertises(u, h) => Advertises(u, h)'
    PROVE  /\ HandleTable' \in [Handle -> HandleInfo] /\ HandleTable'[f] = e
           /\ \A h \in Handle : h # f => HandleTable'[h] = HandleTable[h]
           /\ Lists' /\ Told' /\ Advertised'
  <1>1. HandleTable \in [Handle -> HandleInfo] /\ regs \in Nat
    BY HandleAssumption DEF IInv, Table, HandleTypeOK
  <1>2. /\ HandleTable' \in [Handle -> HandleInfo] /\ HandleTable'[f] = e
        /\ \A h \in Handle : h # f => HandleTable'[h] = HandleTable[h]
    BY <1>1
  <1>3. \A h \in Handle : h # f => Searches(h)' = Searches(h)
    BY <1>2 DEF Searches
  <1>4. Searches(f)' = <<>>
    BY <1>2 DEF Searches
  <1>5. Lists'
    <2>1. \A h \in Handle : h # f => HandleTable'[h].reg = HandleTable[h].reg
      BY <1>2
    <2>2. DOMAIN Searches(f)' = {}
      BY <1>4
    <2>3. Lists
      BY DEF IInv
    <2>4. ASSUME NEW h \in Handle
          PROVE  /\ GetHandleInfo(h)' # "HND_CLIENT" => Searches(h)' = <<>>
                 /\ \A i \in DOMAIN Searches(h)' :
                      \/ Searches(h)'[i] = INVALID_EVENT_ID
                      \/ /\ Searches(h)'[i] \in 1..lastId
                         /\ searches[Searches(h)'[i]].reg = HandleTable'[h].reg
                 /\ \A i, j \in DOMAIN Searches(h)' :
                      Searches(h)'[i] = Searches(h)'[j] /\ Searches(h)'[i] # INVALID_EVENT_ID => i = j
      <3>1. CASE h = f
        BY <1>4, <2>2, <3>1
      <3>2. CASE h # f
        BY <1>2, <1>3, <2>1, <2>3, <3>2 DEF Lists, GetHandleInfo
      <3> QED BY <3>1, <3>2
    <2> QED BY <2>4 DEF Lists
  <1>6. Told'
    <2>1. \A id \in 1..lastId : ~In(f, id)'
      BY <1>4 DEF In
    <2>2. \A id \in 1..lastId, h \in Handle : h # f => (In(h, id)' <=> In(h, id))
      BY <1>3 DEF In
    <2>3. \A id \in 1..lastId : searches[id].reg \in 1..regs /\ HandleTable'[f].reg # searches[id].reg
      BY <1>2 DEF IInv, Told
    <2>4. 1..regs \subseteq 1..regs'
      BY <1>1
    <2>5. Told
      BY DEF IInv
    <2> QED BY <1>2, <2>1, <2>2, <2>3, <2>4, <2>5 DEF Told
  <1>7. Advertised'
    <2>1. \A h \in Handle : h # f => GetHandleInfo(h)' = GetHandleInfo(h)
      BY <1>2 DEF GetHandleInfo
    <2>2. HandleTable'[f].reg \notin alive
      BY <1>2 DEF IInv, SeenTypes
    <2>3. Advertised
      BY DEF IInv
    <2> QED BY <1>2, <2>1, <2>2, <2>3 DEF Advertised
  <1> QED BY <1>2, <1>5, <1>6, <1>7

\* UpnpRegisterClient() and UpnpRegisterRootDevice(): the free handle gets a
\* number of registration that nothing refers to yet.
LEMMA NewEntryIInv ==
    ASSUME IInv, NEW f \in Handle, NEW e \in HandleInfo, HandleTable[f] = Null,
           HandleTable' = [HandleTable EXCEPT ![f] = e],
           e.SsdpSearchList = <<>>, e.reg = regs + 1, regs' = regs + 1, regs < MaxRegs,
           \/ /\ e.HType = "HND_CLIENT"
              /\ UpnpSdkClientRegistered' = UpnpSdkClientRegistered + 1
              /\ UNCHANGED UpnpSdkDeviceRegistered
           \/ /\ e.HType = "HND_DEVICE" /\ e.DeviceAf \in Family
              /\ UpnpSdkDeviceRegistered' = [UpnpSdkDeviceRegistered EXCEPT ![e.DeviceAf] = 1]
              /\ UNCHANGED UpnpSdkClientRegistered,
           ~finishing, UpnpSdkInit = 1,
           UNCHANGED <<UpnpSdkInit, threadVars, timerVars, boundVars, seenVars>>
    PROVE  IInv'
  <1>0. UNCHANGED <<lastId, hidden, UpnpSdkInit, searches, timerDown, alive, pc, local,
                    unkept, adTimer, expiries, replyTimer, results, crashed, finishing>>
    BY DEF threadVars, timerVars, seenVars, boundVars
  <1>1. Threads /\ Leaves /\ Ended /\ Table /\ TimerTypes /\ SeenTypes
    BY DEF IInv
  <1>2. regs \in Nat /\ MaxRegs \in Nat /\ e.reg \notin 1..regs /\ regs + 1 \in 0..MaxRegs
        /\ 1..regs \subseteq 1..regs' /\ 0..regs \subseteq 0..regs' /\ regs + 1 \in 1..regs'
    BY <1>1, HandleAssumption DEF Table, HandleTypeOK
  <1>3. /\ \A u \in Thread, id \in 1..lastId : Tells(u, id)' <=> Tells(u, id)
        /\ \A u \in Thread, h \in Handle : Advertises(u, h) => Advertises(u, h)'
    BY <1>0 DEF Tells, Advertises
  <1>4. /\ HandleTable' \in [Handle -> HandleInfo] /\ HandleTable'[f] = e
        /\ \A h \in Handle : h # f => HandleTable'[h] = HandleTable[h]
        /\ Lists' /\ Told' /\ Advertised'
    BY <1>0, <1>2, <1>3, EntryChanged
  <1>5. HandleTable[f].HType = "HND_INVALID" /\ HandleTable[f].reg = 0
    BY DEF Null
  <1>6. Threads'
    <2>1. ASSUME NEW u \in Thread PROVE Well(pc[u], local[u])'
      <3>1. PICK l, r : l = pc[u] /\ r = local[u]
        OBVIOUS
      <3>2. Well(l, r)
        BY <1>1, <3>1 DEF Threads
      <3>3. l = "unregisterClient" \/ l \in DevicePc => r.handle \in Handle /\ r.handle # f
        BY <1>5, <3>2 DEF Well, GetHandleInfo, HandlePc, DevicePc, LeavingPc, AdvertisingPc
      <3>4. /\ l = "unregisterClient" => HandleTable'[r.handle].HType = "HND_CLIENT"
            /\ l \in DevicePc => HandleTable'[r.handle].HType = "HND_DEVICE"
        BY <1>4, <3>2, <3>3 DEF Well, GetHandleInfo
      <3>5. l = "ctrlptMsg" =>
               /\ r.must \subseteq 1..regs'
               /\ \A h \in Handle : HandleTable'[h].reg \in r.must =>
                     /\ HandleTable'[h].HType = "HND_CLIENT"
                     /\ h < r.handle => HandleTable'[h].reg \in r.heard
        <4>1. l = "ctrlptMsg" => r.must \subseteq 1..regs
          BY <3>2 DEF Well
        <4>2. l = "ctrlptMsg" => HandleTable'[f].reg \notin r.must
          BY <1>2, <1>4, <4>1
        <4> QED BY <1>2, <1>4, <3>2, <4>1, <4>2 DEF Well, GetHandleInfo
      <3>6. Well(l, r)'
        BY <1>0, <3>2, <3>4, <3>5 DEF Well, GetHandleInfo
      <3> QED BY <1>0, <3>1, <3>6 DEF Well, GetHandleInfo
    <2> QED BY <1>0, <1>1, <2>1 DEF Threads
  <1>7. Table'
    <2>1. HandleTypeOK'
      <3>1. UpnpSdkClientRegistered' \in Nat /\ UpnpSdkDeviceRegistered' \in [Family -> {0, 1}]
        BY <1>1 DEF Table, HandleTypeOK
      <3> QED BY <1>0, <1>1, <1>2, <1>4, <3>1 DEF Table, HandleTypeOK
    <2>2. ASSUME NEW h \in Handle
          PROVE  /\ HandleTable'[h].HType = "HND_INVALID" => HandleTable'[h] = Null
                 /\ HandleTable'[h].HType = "HND_DEVICE" => HandleTable'[h].DeviceAf \in Family
                 /\ HandleTable'[h].HType # "HND_INVALID" => HandleTable'[h].reg \in 1..regs'
      <3>1. CASE h = f
        BY <1>2, <1>4, <3>1
      <3>2. CASE h # f
        BY <1>1, <1>2, <1>4, <3>2 DEF Table
      <3> QED BY <3>1, <3>2
    <2>3. \A h \in Handle : HandleTable[h].reg # regs + 1
      <3>1. \A h \in Handle : HandleTable[h].HType = "HND_INVALID" => HandleTable[h].reg = 0
        BY <1>1 DEF Table, Null
      <3>2. \A h \in Handle : HandleTable[h].reg \in 0..regs
        BY <1>1, <1>2, <3>1 DEF Table
      <3> QED BY <1>2, <3>2
    <2>4. \A h, k \in Handle : HandleTable'[h].reg = HandleTable'[k].reg /\ HandleTable'[h].reg # 0 => h = k
      BY <1>1, <1>4, <2>3 DEF Table
    <2>5. UpnpSdkClientRegistered' = Cardinality(Clients')
      <3>1. IsFiniteSet(Clients) /\ f \notin Clients
        <4>1. Clients \subseteq Handle
          BY DEF Clients
        <4> QED BY <1>5, <4>1, Handles, FS_Subset DEF Clients, GetHandleInfo
      <3>2. Cardinality(Clients \cup {f}) = Cardinality(Clients) + 1
        BY <3>1, FS_AddElement
      <3>3. e.HType = "HND_CLIENT" => Clients' = Clients \cup {f}
        BY <1>4 DEF Clients, GetHandleInfo
      <3>4. e.HType = "HND_DEVICE" => Clients' = Clients
        BY <1>4, <1>5 DEF Clients, GetHandleInfo
      <3> QED BY <1>1, <3>2, <3>3, <3>4 DEF Table
    <2>6. ASSUME NEW h \in Handle, HandleTable'[h].HType = "HND_DEVICE"
          PROVE  UpnpSdkDeviceRegistered'[HandleTable'[h].DeviceAf] = 1 \/ HandleTable'[h].reg \in hidden
      <3>1. UpnpSdkDeviceRegistered \in [Family -> {0, 1}]
        BY <1>1 DEF Table, HandleTypeOK
      <3>2. CASE h = f
        BY <1>4, <2>6, <3>1, <3>2
      <3>3. CASE h # f
        <4>1. PICK af \in Family : af = HandleTable[h].DeviceAf
          BY <1>1, <1>4, <2>6, <3>3 DEF Table
        <4>2. UpnpSdkDeviceRegistered[af] = 1 \/ HandleTable[h].reg \in hidden
          BY <1>1, <1>4, <2>6, <3>3, <4>1 DEF Table
        <4>3. UpnpSdkDeviceRegistered[af] = 1 => UpnpSdkDeviceRegistered'[af] = 1
          BY <3>1
        <4> QED BY <1>4, <3>3, <4>1, <4>2, <4>3
      <3> QED BY <3>2, <3>3
    <2> QED BY <1>0, <2>1, <2>2, <2>4, <2>5, <2>6 DEF Table
  <1>8. Leaves'
    BY <1>0, <1>1 DEF Leaves, Leaving, Finisher
  <1>9. Ended'
    BY <1>0, <1>1 DEF Ended, Leaves, Finisher, FinishPc
  <1>10. TimerTypes' /\ SeenTypes'
    BY <1>0, <1>1, <1>2 DEF TimerTypes, SeenTypes
  <1> QED BY <1>4, <1>6, <1>7, <1>8, <1>9, <1>10 DEF IInv

\* The application registers a client or a device.
LEMMA RegisterIInv ==
    ASSUME IInv, UpnpRegisterClient \/ \E af \in Family : UpnpRegisterRootDevice(af)
    PROVE  IInv'
  <1>1. /\ ~finishing /\ UpnpSdkInit = 1 /\ FreeHandles # {} /\ regs < MaxRegs /\ regs' = regs + 1
        /\ UNCHANGED <<UpnpSdkInit, threadVars, timerVars, boundVars, seenVars>>
    BY DEF UpnpRegisterClient, UpnpRegisterRootDevice, RegisterClient, RegisterRootDevice
  <1>2. PICK f \in FreeHandles : f = GetFreeHandle
    <2>1. FreeHandles \subseteq Nat
      BY Handles DEF FreeHandles
    <2> QED BY <1>1, <2>1, LeastExists DEF GetFreeHandle
  <1>3. f \in Handle /\ HandleTable[f] = Null
    BY DEF FreeHandles
  <1>4. regs + 1 \in Nat
    BY HandleAssumption DEF IInv, Table, HandleTypeOK
  <1>5. CASE UpnpRegisterClient
    <2> DEFINE e == [Null EXCEPT !.HType = "HND_CLIENT", !.reg = regs + 1]
    <2>1. /\ HandleTable' = [HandleTable EXCEPT ![f] = e]
          /\ UpnpSdkClientRegistered' = UpnpSdkClientRegistered + 1
          /\ UNCHANGED UpnpSdkDeviceRegistered
      BY <1>2, <1>5 DEF UpnpRegisterClient, RegisterClient
    <2>2. /\ e \in HandleInfo /\ e.SsdpSearchList = <<>> /\ e.reg = regs + 1
          /\ e.HType = "HND_CLIENT"
      <3>1. PICK n : n = Null
        OBVIOUS
      <3>2. n \in HandleInfo /\ n.SsdpSearchList = <<>>
        BY <3>1 DEF Null, HandleInfo
      <3> QED BY <1>4, <3>1, <3>2 DEF HandleInfo
    <2> HIDE DEF e
    <2> QED BY <1>1, <1>3, <2>1, <2>2, NewEntryIInv
  <1>6. ASSUME NEW af \in Family, UpnpRegisterRootDevice(af) PROVE IInv'
    <2> DEFINE e == [Null EXCEPT !.HType = "HND_DEVICE", !.DeviceAf = af, !.reg = regs + 1]
    <2>1. /\ HandleTable' = [HandleTable EXCEPT ![f] = e]
          /\ UpnpSdkDeviceRegistered' = [UpnpSdkDeviceRegistered EXCEPT ![af] = 1]
          /\ UNCHANGED UpnpSdkClientRegistered
      BY <1>2, <1>6 DEF UpnpRegisterRootDevice, RegisterRootDevice
    <2>2. /\ e \in HandleInfo /\ e.SsdpSearchList = <<>> /\ e.reg = regs + 1
          /\ e.HType = "HND_DEVICE" /\ e.DeviceAf = af
      <3>1. PICK n : n = Null
        OBVIOUS
      <3>2. n \in HandleInfo /\ n.SsdpSearchList = <<>>
        BY <3>1 DEF Null, HandleInfo
      <3> QED BY <1>4, <3>1, <3>2 DEF HandleInfo
    <2> HIDE DEF e
    <2> QED BY <1>1, <1>3, <2>1, <2>2, NewEntryIInv
  <1> QED BY <1>5, <1>6

\* A handle is freed by the thread that is about to: no other thread frees it,
\* and nobody sends for it under the read lock.
LEMMA FreedIInv ==
    ASSUME IInv, NEW t \in Thread, NEW f, f = local[t].handle, WriteLock, Return(t),
           pc[t] \in {"unregisterClient", "unregisterDevice"},
           HandleTable' = [HandleTable EXCEPT ![f] = Null],
           \/ /\ pc[t] = "unregisterClient"
              /\ UpnpSdkClientRegistered' = UpnpSdkClientRegistered - 1
              /\ UNCHANGED <<UpnpSdkDeviceRegistered, hidden>>
           \/ /\ pc[t] = "unregisterDevice"
              /\ UpnpSdkDeviceRegistered' =
                    [UpnpSdkDeviceRegistered EXCEPT ![HandleTable[f].DeviceAf] = 0]
              /\ hidden' = hidden \cup RegsOf(DevicesOf(HandleTable[f].DeviceAf) \ {f})
              /\ UNCHANGED UpnpSdkClientRegistered,
           UNCHANGED <<UpnpSdkInit, regs, timerVars, boundVars, alive, unkept, searches>>
    PROVE  IInv'
  <1>0. UNCHANGED <<lastId, UpnpSdkInit, regs, searches, timerDown, alive,
                    unkept, adTimer, expiries, replyTimer, results, crashed, finishing>>
    BY DEF timerVars, boundVars
  <1>1. Threads /\ Leaves /\ Ended /\ Table /\ TimerTypes /\ SeenTypes
    BY DEF IInv
  <1>2. UpnpSdkInit = 1
    BY StillUp
  <1>3. PICK l : Well(pc[t], local[t]) /\ l = local[t].back /\ Moves(t, l, NoLocal)
    BY MoveForms DEF IInv
  <1>4. l \in {"out", "finish"} /\ Well(l, NoLocal)
    BY <1>1, <1>3, NoLocalType DEF Well, LocalType
  <1>5. f \in Handle /\ Leaving(t)
        /\ (pc[t] = "unregisterClient" => HandleTable[f].HType = "HND_CLIENT")
        /\ (pc[t] = "unregisterDevice" => HandleTable[f].HType = "HND_DEVICE")
    BY <1>3 DEF Well, HandlePc, LeavingPc, DevicePc, GetHandleInfo, Leaving
  <1>6. /\ pc'[t] = l /\ local'[t] = NoLocal
        /\ \A u \in Thread : u # t => pc'[u] = pc[u] /\ local'[u] = local[u]
    BY <1>1, <1>3, MoveFrame
  <1>7. /\ \A u \in Thread, id \in 1..lastId : Tells(u, id)' <=> Tells(u, id)
        /\ \A u \in Thread, h \in Handle : Advertises(u, h) => Advertises(u, h)'
    BY <1>4, <1>6 DEF Tells, Advertises, AdvertisingPc
  <1>8. /\ Null \in HandleInfo /\ Null.SsdpSearchList = <<>> /\ Null.reg = 0 /\ 0 \notin 1..regs
        /\ Null.HType = "HND_INVALID" /\ regs \in Nat
    BY <1>1, HandleAssumption DEF Null, HandleInfo, Table, HandleTypeOK
  <1>9. PICK e : e = Null
    OBVIOUS
  <1>10. /\ HandleTable' \in [Handle -> HandleInfo] /\ HandleTable'[f] = e
         /\ \A h \in Handle : h # f => HandleTable'[h] = HandleTable[h]
         /\ Lists' /\ Told' /\ Advertised'
    <2>1. e \in HandleInfo /\ e.SsdpSearchList = <<>> /\ e.reg \notin 1..regs
          /\ HandleTable' = [HandleTable EXCEPT ![f] = e]
      BY <1>8, <1>9
    <2> QED BY <1>0, <1>5, <1>7, <2>1, EntryChanged
  <1>11. HandleTable'[f].reg = 0 /\ HandleTable'[f].HType = "HND_INVALID"
    BY <1>8, <1>9, <1>10
  <1>12. Threads'
    <2>1. ASSUME NEW u \in Thread PROVE Well(pc[u], local[u])'
      <3>1. PICK p, r : p = pc'[u] /\ r = local'[u]
        OBVIOUS
      <3>2. Well(p, r)
        BY <1>1, <1>4, <1>6, <3>1 DEF Threads
      <3>3. p = "unregisterClient" \/ p \in DevicePc => r.handle \in Handle /\ r.handle # f
        <4>1. p \in LeavingPc => r.handle # f
          <5>1. p \in LeavingPc => u # t
            BY <1>4, <1>6, <3>1 DEF LeavingPc
          <5> QED BY <1>1, <1>5, <1>6, <3>1, <5>1 DEF Leaves, Leaving
        <4>2. p \notin Sending
          BY <1>4, <1>6, <3>1 DEF WriteLock, Sending
        <4>3. p = "unregisterClient" \/ p \in DevicePc => p \in LeavingPc \/ p \in Sending
          BY DEF DevicePc, LeavingPc, Sending
        <4> QED BY <3>2, <4>1, <4>2, <4>3 DEF Well, HandlePc
      <3>4. /\ p = "unregisterClient" => HandleTable'[r.handle].HType = "HND_CLIENT"
            /\ p \in DevicePc => HandleTable'[r.handle].HType = "HND_DEVICE"
        BY <1>10, <3>2, <3>3 DEF Well, GetHandleInfo
      <3>5. p = "ctrlptMsg" =>
               /\ r.must \subseteq 1..regs
               /\ \A h \in Handle : HandleTable'[h].reg \in r.must =>
                     /\ HandleTable'[h].HType = "HND_CLIENT"
                     /\ h < r.handle => HandleTable'[h].reg \in r.heard
        <4>1. p = "ctrlptMsg" => r.must \subseteq 1..regs
          BY <3>2 DEF Well
        <4>2. p = "ctrlptMsg" => HandleTable'[f].reg \notin r.must
          BY <1>8, <1>11, <4>1
        <4> QED BY <1>10, <3>2, <4>1, <4>2 DEF Well, GetHandleInfo
      <3>6. Well(p, r)'
        BY <1>0, <3>2, <3>4, <3>5 DEF Well, GetHandleInfo
      <3> QED BY <3>1, <3>6 DEF Well, GetHandleInfo
    <2>2. pc' \in [Thread -> Pc] /\ local' \in [Thread -> LocalType]
      BY <1>1, <1>3, <1>4 DEF Threads, Moves, Well
    <2> QED BY <2>1, <2>2 DEF Threads
  <1>13. Table'
    <2>1. IsFiniteSet(Clients) /\ (f \in Clients <=> pc[t] = "unregisterClient")
      <3>1. Clients \subseteq Handle
        BY DEF Clients
      <3> QED BY <1>5, <3>1, Handles, FS_Subset DEF Clients, GetHandleInfo
    <2>2. Clients' = Clients \ {f}
      BY <1>10, <1>11 DEF Clients, GetHandleInfo
    <2>3. UpnpSdkClientRegistered' = Cardinality(Clients')
      <3>1. pc[t] = "unregisterClient" => Cardinality(Clients \ {f}) = Cardinality(Clients) - 1
        BY <2>1, FS_RemoveElement
      <3>2. pc[t] = "unregisterDevice" => Clients \ {f} = Clients
        BY <2>1
      <3> QED BY <1>1, <2>2, <3>1, <3>2 DEF Table
    <2>4. UpnpSdkClientRegistered' \in Nat
      <3>1. IsFiniteSet(Clients \ {f})
        BY <2>1, FS_Subset
      <3> QED BY <2>2, <2>3, <3>1, FS_CardinalityType
    <2>5. HandleTypeOK'
      <3>1. UpnpSdkDeviceRegistered' \in [Family -> {0, 1}]
        BY <1>1 DEF Table, HandleTypeOK
      <3> QED BY <1>0, <1>1, <1>10, <2>4, <3>1 DEF Table, HandleTypeOK
    <2>6. ASSUME NEW h \in Handle
          PROVE  /\ HandleTable'[h].HType = "HND_INVALID" => HandleTable'[h] = Null
                 /\ HandleTable'[h].HType = "HND_DEVICE" => HandleTable'[h].DeviceAf \in Family
                 /\ HandleTable'[h].HType # "HND_INVALID" => HandleTable'[h].reg \in 1..regs
      <3>1. CASE h = f
        BY <1>9, <1>10, <1>11, <3>1
      <3>2. CASE h # f
        BY <1>1, <1>10, <3>2 DEF Table
      <3> QED BY <3>1, <3>2
    <2>7. \A h, k \in Handle : HandleTable'[h].reg = HandleTable'[k].reg /\ HandleTable'[h].reg # 0 => h = k
      BY <1>1, <1>10, <1>11 DEF Table
    <2>8. ASSUME NEW h \in Handle, HandleTable'[h].HType = "HND_DEVICE"
          PROVE  UpnpSdkDeviceRegistered'[HandleTable'[h].DeviceAf] = 1 \/ HandleTable'[h].reg \in hidden'
      <3>1. UpnpSdkDeviceRegistered \in [Family -> {0, 1}]
        BY <1>1 DEF Table, HandleTypeOK
      <3>2. h # f /\ HandleTable'[h] = HandleTable[h]
        BY <1>10, <1>11, <2>8
      <3>3. PICK af \in Family : af = HandleTable[h].DeviceAf
        BY <1>1, <2>8, <3>2 DEF Table
      <3>4. UpnpSdkDeviceRegistered[af] = 1 \/ HandleTable[h].reg \in hidden
        BY <1>1, <2>8, <3>2, <3>3 DEF Table
      <3>5. CASE pc[t] = "unregisterClient"
        BY <3>2, <3>3, <3>4, <3>5
      <3>6. CASE pc[t] = "unregisterDevice" /\ HandleTable[f].DeviceAf = af
        <4>1. HandleTable[h].reg \in RegsOf(DevicesOf(HandleTable[f].DeviceAf) \ {f})
          BY <2>8, <3>2, <3>3, <3>6 DEF RegsOf, DevicesOf, GetHandleInfo
        <4> QED BY <3>2, <3>6, <4>1
      <3>7. CASE pc[t] = "unregisterDevice" /\ HandleTable[f].DeviceAf # af
        <4>1. UpnpSdkDeviceRegistered'[af] = UpnpSdkDeviceRegistered[af] /\ hidden \subseteq hidden'
          BY <3>1, <3>7
        <4> QED BY <3>2, <3>3, <3>4, <4>1
      <3> QED BY <3>5, <3>6, <3>7
    <2> QED BY <1>0, <2>3, <2>5, <2>6, <2>7, <2>8 DEF Table
  <1>14. Leaves'
    <2>1. l \notin LeavingPc /\ (l \in FinishPc => Finisher(t))
      BY <1>3, <1>4, <1>5 DEF LeavingPc, FinishPc, EndedPc, Finisher
    <2> QED BY <1>0, <1>1, <1>3, <2>1, MoveLeaves
  <1>15. Ended'
    <2>1. \A u \in Thread : pc'[u] \in EndedPc => pc[u] \in EndedPc
      BY <1>4, <1>6 DEF EndedPc
    <2>2. hidden \subseteq hidden'
      OBVIOUS
    <2>3. UpnpSdkInit' # 0
      BY <1>0, <1>2
    <2> QED BY <1>1, <1>10, <1>11, <2>1, <2>2, <2>3 DEF Ended
  <1>16. TimerTypes'
    BY <1>0, <1>1 DEF TimerTypes
  <1>17. SeenTypes'
    <2>1. RegsOf(DevicesOf(HandleTable[f].DeviceAf) \ {f}) \subseteq 1..regs
      BY <1>1 DEF RegsOf, DevicesOf, GetHandleInfo, Table
    <2>2. hidden' \subseteq 1..regs
      BY <1>1, <2>1 DEF SeenTypes
    <2> QED BY <1>0, <1>1, <2>2 DEF SeenTypes
  <1> QED BY <1>10, <1>12, <1>13, <1>14, <1>15, <1>16, <1>17 DEF IInv

\* UpnpUnRegisterClient() and UpnpUnRegisterRootDevice() end.
LEMMA UnRegisterEndsIInv ==
    ASSUME IInv, NEW t \in Thread, UnRegisterClientEnds(t) \/ UnRegisterRootDeviceEnds(t)
    PROVE  IInv'
  <1>1. PICK f : f = local[t].handle
    OBVIOUS
  <1>2. CASE UnRegisterClientEnds(t)
    <2>1. /\ pc[t] = "unregisterClient" /\ WriteLock /\ Return(t)
          /\ HandleTable' = [HandleTable EXCEPT ![f] = Null]
          /\ UpnpSdkClientRegistered' = UpnpSdkClientRegistered - 1
          /\ UNCHANGED <<UpnpSdkDeviceRegistered, hidden>>
          /\ UNCHANGED <<UpnpSdkInit, regs, timerVars, boundVars, alive, unkept, searches>>
      BY <1>1, <1>2 DEF UnRegisterClientEnds, At, FreeClient, FreeHandle, seenVars
    <2> QED BY <1>1, <2>1, FreedIInv
  <1>3. CASE UnRegisterRootDeviceEnds(t)
    <2>1. /\ pc[t] = "unregisterDevice" /\ WriteLock /\ Return(t)
          /\ HandleTable' = [HandleTable EXCEPT ![f] = Null]
          /\ UpnpSdkDeviceRegistered' =
                [UpnpSdkDeviceRegistered EXCEPT ![HandleTable[f].DeviceAf] = 0]
          /\ hidden' = hidden \cup RegsOf(DevicesOf(HandleTable[f].DeviceAf) \ {f})
          /\ UNCHANGED UpnpSdkClientRegistered
          /\ UNCHANGED <<UpnpSdkInit, regs, timerVars, boundVars, alive, unkept, searches>>
      BY <1>1, <1>3 DEF UnRegisterRootDeviceEnds, At, FreeRootDevice, FreeHandle
    <2> QED BY <1>1, <2>1, FreedIInv
  <1> QED BY <1>2, <1>3

-----------------------------------------------------------------------------
(* Searching *)

\* The table but for the lists of searches.
SameEntries ==
    /\ HandleTable' \in [Handle -> HandleInfo]
    /\ \A h \in Handle : /\ HandleTable'[h].HType = HandleTable[h].HType
                         /\ HandleTable'[h].DeviceAf = HandleTable[h].DeviceAf
                         /\ HandleTable'[h].reg = HandleTable[h].reg
                         /\ HandleTable[h] = Null => HandleTable'[h] = Null

\* A thread moves while a list, or the number of searches, changes.
LEMMA SearchMove ==
    ASSUME IInv, NEW t \in Thread, NEW l, NEW r, Moves(t, l, r), Well(l, r), SameEntries,
           lastId' \in Nat, lastId <= lastId', UpnpSdkInit = 1,
           UNCHANGED <<regs, UpnpSdkInit, UpnpSdkClientRegistered, UpnpSdkDeviceRegistered,
                       hidden, timerDown, alive, unkept, adTimer, finishing>>,
           l \in {"out", "tell"}, pc[t] \notin AdvertisingPc
    PROVE  Threads' /\ Table' /\ Leaves' /\ Ended' /\ Advertised'
  <1>1. Threads /\ Leaves /\ Ended /\ Table /\ TimerTypes /\ SeenTypes /\ Advertised
    BY DEF IInv
  <1>2. /\ pc'[t] = l /\ local'[t] = r
        /\ \A u \in Thread : u # t => pc'[u] = pc[u] /\ local'[u] = local[u]
    BY <1>1, MoveFrame
  <1>3. l \notin FinishPc /\ l \notin LeavingPc /\ l \notin EndedPc /\ l \notin AdvertisingPc
    BY DEF FinishPc, LeavingPc, EndedPc, AdvertisingPc
  <1>4. \A h \in Handle : GetHandleInfo(h)' = GetHandleInfo(h)
    BY DEF GetHandleInfo, SameEntries
  <1>5. Threads'
    <2>1. pc' \in [Thread -> Pc] /\ local' \in [Thread -> LocalType]
      BY <1>1 DEF Threads, Moves, Well
    <2>2. ASSUME NEW u \in Thread PROVE Well(pc[u], local[u])'
      <3>1. PICK p, q : p = pc'[u] /\ q = local'[u]
        OBVIOUS
      <3>2. Well(p, q)
        BY <1>1, <1>2, <3>1 DEF Threads
      <3>3. p = "unregisterClient" \/ p \in DevicePc => q.handle \in Handle
        BY <3>2 DEF Well, HandlePc, DevicePc, LeavingPc, AdvertisingPc
      <3>4. /\ p = "unregisterClient" => HandleTable'[q.handle].HType = "HND_CLIENT"
            /\ p \in DevicePc => HandleTable'[q.handle].HType = "HND_DEVICE"
        BY <3>2, <3>3 DEF Well, GetHandleInfo, SameEntries
      <3>5. q.id <= lastId'
        <4>1. q.id \in Nat /\ q.id <= lastId /\ lastId \in Nat
          BY <1>1, <3>2 DEF Well, LocalType, TimerTypes
        <4> QED BY <4>1
      <3>6. p = "ctrlptMsg" =>
               /\ q.must \subseteq 1..regs
               /\ \A h \in Handle : HandleTable'[h].reg \in q.must =>
                     /\ HandleTable'[h].HType = "HND_CLIENT"
                     /\ h < q.handle => HandleTable'[h].reg \in q.heard
        BY <3>2 DEF Well, GetHandleInfo, SameEntries
      <3>7. Well(p, q)'
        BY <3>2, <3>4, <3>5, <3>6 DEF Well, GetHandleInfo
      <3> QED BY <3>1, <3>7 DEF Well, GetHandleInfo
    <2> QED BY <2>1, <2>2 DEF Threads
  <1>6. Table'
    <2>1. HandleTypeOK'
      BY <1>1 DEF Table, HandleTypeOK, SameEntries
    <2>2. Clients' = Clients
      BY <1>4 DEF Clients
    <2> QED BY <1>1, <2>1, <2>2 DEF Table, SameEntries
  <1>7. Leaves'
    BY <1>1, <1>3, MoveLeaves
  <1>8. Ended'
    <2>1. \A u \in Thread : pc'[u] \in EndedPc => pc[u] \in EndedPc
      BY <1>2, <1>3
    <2>2. UpnpSdkInit' # 0
      OBVIOUS
    <2> QED BY <1>1, <2>1, <2>2 DEF Ended, SameEntries
  <1>9. Advertised'
    <2>1. \A u \in Thread, h \in Handle : Advertises(u, h) => Advertises(u, h)'
      BY <1>2 DEF Advertises
    <2> QED BY <1>1, <1>4, <2>1 DEF Advertised, SameEntries
  <1> QED BY <1>5, <1>6, <1>7, <1>8, <1>9

\* A list of searches changes.
LEMMA ListChanged ==
    ASSUME IInv, NEW h \in Handle, GetHandleInfo(h) = "HND_CLIENT", NEW s \in Seq(Int),
           HandleTable' = [HandleTable EXCEPT ![h].SsdpSearchList = s]
    PROVE  /\ SameEntries
           /\ Searches(h)' = s
           /\ \A k \in Handle : k # h => Searches(k)' = Searches(k)
  <1>1. HandleTable \in [Handle -> HandleInfo] /\ HandleTable[h] \in HandleInfo
    BY DEF IInv, Table, HandleTypeOK
  <1> DEFINE e == [HandleTable[h] EXCEPT !.SsdpSearchList = s]
  <1>2. /\ e \in HandleInfo /\ e.HType = HandleTable[h].HType /\ e.DeviceAf = HandleTable[h].DeviceAf
        /\ e.reg = HandleTable[h].reg /\ e.SsdpSearchList = s
    BY <1>1 DEF HandleInfo
  <1>3. HandleTable' = [HandleTable EXCEPT ![h] = e]
    OBVIOUS
  <1> HIDE DEF e
  <1>4. /\ HandleTable' \in [Handle -> HandleInfo] /\ HandleTable'[h] = e
        /\ \A k \in Handle : k # h => HandleTable'[k] = HandleTable[k]
    BY <1>1, <1>2, <1>3
  <1>5. HandleTable[h] # Null
    BY DEF GetHandleInfo, Null
  <1> QED BY <1>2, <1>4, <1>5 DEF SameEntries, Searches

\* No list changes.
LEMMA SameEntriesSame ==
    ASSUME IInv, UNCHANGED HandleTable
    PROVE  SameEntries /\ \A k \in Handle : Searches(k)' = Searches(k)
  BY DEF SameEntries, Searches, IInv, Table, HandleTypeOK

\* What a list holds.
LEMMA ListType ==
    ASSUME IInv, NEW h \in Handle
    PROVE  /\ Searches(h) \in Seq(Int) /\ Len(Searches(h)) \in Nat
           /\ DOMAIN Searches(h) = 1..Len(Searches(h))
           /\ \A i \in 1..Len(Searches(h)) :
                 \/ Searches(h)[i] = -1
                 \/ /\ Searches(h)[i] \in 1..lastId
                    /\ searches[Searches(h)[i]].reg = HandleTable[h].reg
           /\ \A i, j \in 1..Len(Searches(h)) :
                 Searches(h)[i] = Searches(h)[j] /\ Searches(h)[i] # -1 => i = j
  <1>1. HandleTable[h] \in HandleInfo
    BY DEF IInv, Table, HandleTypeOK
  <1>2. Searches(h) \in Seq(Int)
    BY <1>1 DEF Searches, HandleInfo
  <1>3. Len(Searches(h)) \in Nat /\ DOMAIN Searches(h) = 1..Len(Searches(h))
    BY <1>2
  <1> QED BY <1>2, <1>3 DEF IInv, Lists, INVALID_EVENT_ID

\* The number of a registration names a handle.
LEMMA ClientReg ==
    ASSUME IInv, NEW h \in Handle, GetHandleInfo(h) = "HND_CLIENT"
    PROVE  /\ HandleTable[h].reg \in 1..regs
           /\ \A k \in Handle : HandleTable[k].reg = HandleTable[h].reg => k = h
  <1>1. HandleTable[h].reg \in 1..regs /\ regs \in Nat
    BY HandleAssumption DEF IInv, Table, GetHandleInfo, HandleTypeOK
  <1>2. HandleTable[h].reg # 0
    BY <1>1
  <1> QED BY <1>1, <1>2 DEF IInv, Table

\* SearchByTarget(): the search is listed together with its event, or without
\* one, or the client is gone.
LEMMA SearchByTargetIInv ==
    ASSUME IInv, NEW t \in Thread, SearchByTarget(t)
    PROVE  IInv'
  <1>1. PICK h : h = local[t].handle
    OBVIOUS
  <1>2. /\ pc[t] = "search" /\ Return(t)
        /\ UNCHANGED <<regs, UpnpSdkInit, UpnpSdkClientRegistered, UpnpSdkDeviceRegistered,
                       hidden, timerDown, alive, unkept, adTimer, finishing>>
        /\ UNCHANGED <<replyTimer, results, crashed>>
    BY DEF SearchByTarget, At, boundVars
  <1>3. UpnpSdkInit = 1
    BY <1>2, StillUp
  <1>4. Well(pc[t], local[t]) /\ Moves(t, local[t].back, NoLocal)
    BY <1>2, MoveForms DEF IInv
  <1>5. h \in Handle /\ local[t].back = "out"
    BY <1>1, <1>2, <1>4 DEF Well, LocalType, HandlePc, LeavingPc
  <1>6. PICK l \in {"out", "tell"} : l = "out"
    OBVIOUS
  <1>7. Moves(t, l, NoLocal) /\ Well(l, NoLocal) /\ pc[t] \notin AdvertisingPc
    BY <1>2, <1>4, <1>5, <1>6, NoLocalType DEF IInv, AdvertisingPc
  <1>8. /\ pc'[t] = l /\ local'[t] = NoLocal
        /\ \A u \in Thread : u # t => pc'[u] = pc[u] /\ local'[u] = local[u]
    BY <1>7, MoveFrame DEF IInv
  <1>9. \A u \in Thread : \A id : Tells(u, id)' <=> Tells(u, id)
    BY <1>2, <1>6, <1>8 DEF Tells
  <1>10. lastId \in Nat /\ TimerTypes /\ SeenTypes /\ Told /\ Lists
    BY DEF IInv, TimerTypes
  <1>11. CASE GetHandleInfo(h) # "HND_CLIENT"
    <2>1. UNCHANGED <<HandleTable, expiries, lastId, searches, crashed>>
      BY <1>1, <1>11 DEF SearchByTarget
    <2>2. pc[t] \notin LeavingPc \cup {"out", "finished", "tell"}
      BY <1>2 DEF LeavingPc
    <2>3. UNCHANGED <<handleVars, timerVars, finishing, seenVars>>
      BY <1>2, <2>1 DEF handleVars, tableVars, timerVars, seenVars
    <2> QED BY <1>2, <1>7, <2>2, <2>3, PlainBack
  <1>12. ASSUME GetHandleInfo(h) = "HND_CLIENT", NEW id \in Int,
                HandleTable' = [HandleTable EXCEPT ![h].SsdpSearchList = Append(@, id)]
         PROVE  /\ SameEntries /\ Len(Searches(h)') = Len(Searches(h)) + 1
                /\ DOMAIN Searches(h)' = 1..(Len(Searches(h)) + 1)
                /\ \A i \in 1..(Len(Searches(h)) + 1) :
                      Searches(h)'[i] = IF i = Len(Searches(h)) + 1 THEN id ELSE Searches(h)[i]
                /\ \A k \in Handle : k # h => Searches(k)' = Searches(k)
    <2>1. PICK s : s = Append(Searches(h), id)
      OBVIOUS
    <2>2. Searches(h) \in Seq(Int) /\ Len(Searches(h)) \in Nat
      BY <1>5, ListType
    <2>3. /\ s \in Seq(Int) /\ Len(s) = Len(Searches(h)) + 1
          /\ \A i \in 1..(Len(Searches(h)) + 1) :
                s[i] = IF i = Len(Searches(h)) + 1 THEN id ELSE Searches(h)[i]
      BY <2>1, <2>2
    <2>4. HandleTable' = [HandleTable EXCEPT ![h].SsdpSearchList = s]
      BY <1>12, <2>1 DEF Searches
    <2>5. /\ SameEntries /\ Searches(h)' = s
          /\ \A k \in Handle : k # h => Searches(k)' = Searches(k)
      BY <1>5, <1>12, <2>3, <2>4, ListChanged
    <2>6. DOMAIN s = 1..(Len(Searches(h)) + 1)
      BY <2>3
    <2> QED BY <2>3, <2>5, <2>6
  <1>13. CASE /\ GetHandleInfo(h) = "HND_CLIENT"
              /\ HandleTable' = [HandleTable EXCEPT ![h].SsdpSearchList = Append(@, INVALID_EVENT_ID)]
              /\ UNCHANGED <<expiries, lastId, searches, crashed>>
    <2>0. PICK m \in Int : m = -1 /\ m = INVALID_EVENT_ID
      BY DEF INVALID_EVENT_ID
    <2>1. /\ SameEntries /\ Len(Searches(h)') = Len(Searches(h)) + 1
          /\ DOMAIN Searches(h)' = 1..(Len(Searches(h)) + 1)
          /\ \A i \in 1..(Len(Searches(h)) + 1) :
                Searches(h)'[i] = IF i = Len(Searches(h)) + 1 THEN m ELSE Searches(h)[i]
          /\ \A k \in Handle : k # h => Searches(k)' = Searches(k)
      BY <1>12, <1>13, <2>0
    <2>2. lastId' \in Nat /\ lastId <= lastId'
      BY <1>10, <1>13
    <2>3. Threads' /\ Table' /\ Leaves' /\ Ended' /\ Advertised'
      BY <1>2, <1>3, <1>7, <2>1, <2>2, SearchMove
    <2>4. Lists'
      <3>1. ASSUME NEW k \in Handle
            PROVE  /\ GetHandleInfo(k)' # "HND_CLIENT" => Searches(k)' = <<>>
                   /\ \A i \in DOMAIN Searches(k)' :
                        \/ Searches(k)'[i] = m
                        \/ /\ Searches(k)'[i] \in 1..lastId
                           /\ searches[Searches(k)'[i]].reg = HandleTable'[k].reg
                   /\ \A i, j \in DOMAIN Searches(k)' :
                        Searches(k)'[i] = Searches(k)'[j] /\ Searches(k)'[i] # m => i = j
        <4>1. GetHandleInfo(k)' = GetHandleInfo(k) /\ HandleTable'[k].reg = HandleTable[k].reg
          BY <2>1 DEF SameEntries, GetHandleInfo
        <4>2. CASE k # h
          BY <1>10, <2>0, <2>1, <4>1, <4>2 DEF Lists
        <4>3. CASE k = h
          <5>1. /\ \A i \in 1..Len(Searches(h)) :
                     \/ Searches(h)[i] = m
                     \/ /\ Searches(h)[i] \in 1..lastId
                        /\ searches[Searches(h)[i]].reg = HandleTable[h].reg
                /\ \A i, j \in 1..Len(Searches(h)) :
                     Searches(h)[i] = Searches(h)[j] /\ Searches(h)[i] # m => i = j
                /\ Len(Searches(h)) \in Nat
            BY <1>5, <2>0, ListType
          <5>2. \A i \in 1..(Len(Searches(h)) + 1) : i # Len(Searches(h)) + 1 => i \in 1..Len(Searches(h))
            BY <5>1
          <5> QED BY <1>13, <2>1, <4>1, <4>3, <5>1, <5>2
        <4> QED BY <4>2, <4>3
      <3> QED BY <1>13, <2>0, <3>1 DEF Lists
    <2>5. Told'
      <3>1. \A k \in Handle, id \in 1..lastId : In(k, id)' <=> In(k, id)
        <4>1. ASSUME NEW k \in Handle, NEW id \in 1..lastId PROVE In(k, id)' <=> In(k, id)
          <5>1. CASE k # h
            BY <2>1, <5>1 DEF In
          <5>2. CASE k = h
            <6>1. DOMAIN Searches(h) = 1..Len(Searches(h)) /\ Len(Searches(h)) \in Nat
              BY <1>5, ListType
            <6>2. id # m
              BY <2>0
            <6>3. \A i \in 1..(Len(Searches(h)) + 1) : i # Len(Searches(h)) + 1 => i \in 1..Len(Searches(h))
              BY <6>1
            <6>4. \A i \in 1..Len(Searches(h)) : i \in 1..(Len(Searches(h)) + 1) /\ i # Len(Searches(h)) + 1
              BY <6>1
            <6> QED BY <2>1, <5>2, <6>1, <6>2, <6>3, <6>4 DEF In
          <5> QED BY <5>1, <5>2
        <4> QED BY <4>1
      <3> QED BY <1>2, <1>9, <1>10, <1>13, <2>1, <3>1 DEF Told, SameEntries
    <2>6. TimerTypes' /\ SeenTypes'
      BY <1>2, <1>10, <1>13 DEF TimerTypes, SeenTypes
    <2> QED BY <2>3, <2>4, <2>5, <2>6 DEF IInv
  <1>14. CASE /\ GetHandleInfo(h) = "HND_CLIENT"
              /\ lastId' = lastId + 1
              /\ expiries' = expiries \cup {[id |-> lastId', handle |-> h]}
              /\ searches' = Append(searches, [NotSeen EXCEPT !.reg = HandleTable[h].reg])
              /\ HandleTable' = [HandleTable EXCEPT ![h].SsdpSearchList = Append(@, lastId')]
    <2>0. PICK n \in Nat : n = lastId + 1 /\ n = lastId'
      BY <1>10, <1>14
    <2>1. /\ SameEntries /\ Len(Searches(h)') = Len(Searches(h)) + 1
          /\ DOMAIN Searches(h)' = 1..(Len(Searches(h)) + 1)
          /\ \A i \in 1..(Len(Searches(h)) + 1) :
                Searches(h)'[i] = IF i = Len(Searches(h)) + 1 THEN n ELSE Searches(h)[i]
          /\ \A k \in Handle : k # h => Searches(k)' = Searches(k)
      <3>1. HandleTable' = [HandleTable EXCEPT ![h].SsdpSearchList = Append(@, n)] /\ n \in Int
        BY <1>14, <2>0
      <3> QED BY <1>12, <1>14, <3>1
    <2>2. lastId' \in Nat /\ lastId <= lastId'
      BY <1>10, <1>14
    <2>3. Threads' /\ Table' /\ Leaves' /\ Ended' /\ Advertised'
      BY <1>2, <1>3, <1>7, <2>1, <2>2, SearchMove
    <2>4. /\ searches' \in Seq(SearchType) /\ Len(searches') = n
          /\ \A i \in 1..lastId : searches'[i] = searches[i]
          /\ searches'[n].reg = HandleTable[h].reg /\ searches'[n].told = 0
          /\ ~searches'[n].refused
      <3>1. PICK x : x = [NotSeen EXCEPT !.reg = HandleTable[h].reg]
        OBVIOUS
      <3>2. HandleTable[h].reg \in Nat
        BY <1>5 DEF IInv, Table, HandleTypeOK, HandleInfo
      <3>3. x \in SearchType /\ x.reg = HandleTable[h].reg /\ x.told = 0 /\ ~x.refused
        BY <3>1, <3>2 DEF NotSeen, SearchType
      <3>4. searches' = Append(searches, x) /\ searches \in Seq(SearchType) /\ Len(searches) = lastId
        BY <1>10, <1>14, <3>1 DEF SeenTypes
      <3> QED BY <1>10, <2>0, <3>3, <3>4
    <2>5. TimerTypes' /\ SeenTypes'
      <3>1. [id |-> n, handle |-> h] \in [id: 1..n, handle: Handle] /\ 1..lastId \subseteq 1..n
        BY <1>5, <1>10, <2>0
      <3>2. expiries' \subseteq [id: 1..n, handle: Handle]
        BY <1>10, <1>14, <2>0, <3>1 DEF TimerTypes
      <3>3. results' \subseteq 1..n
        BY <1>2, <1>10, <3>1 DEF TimerTypes
      <3> QED BY <1>2, <1>10, <2>0, <2>4, <3>2, <3>3 DEF TimerTypes, SeenTypes
    <2>6. /\ \A i \in 1..lastId : i \in 1..n /\ i # n /\ i # -1
          /\ \A i \in 1..n : i # n => i \in 1..lastId
          /\ n \in 1..n /\ n # -1
      BY <1>10, <2>0
    <2>7. /\ \A i \in 1..(Len(Searches(h)) + 1) : i # Len(Searches(h)) + 1 => i \in 1..Len(Searches(h))
          /\ \A i \in 1..Len(Searches(h)) : i \in 1..(Len(Searches(h)) + 1) /\ i # Len(Searches(h)) + 1
          /\ Len(Searches(h)) + 1 \in 1..(Len(Searches(h)) + 1)
          /\ DOMAIN Searches(h) = 1..Len(Searches(h))
      <3>1. Len(Searches(h)) \in Nat /\ DOMAIN Searches(h) = 1..Len(Searches(h))
        BY <1>5, ListType
      <3> QED BY <3>1
    <2>8. Lists'
      <3>1. ASSUME NEW k \in Handle
            PROVE  /\ GetHandleInfo(k)' # "HND_CLIENT" => Searches(k)' = <<>>
                   /\ \A i \in DOMAIN Searches(k)' :
                        \/ Searches(k)'[i] = -1
                        \/ /\ Searches(k)'[i] \in 1..n
                           /\ searches'[Searches(k)'[i]].reg = HandleTable'[k].reg
                   /\ \A i, j \in DOMAIN Searches(k)' :
                        Searches(k)'[i] = Searches(k)'[j] /\ Searches(k)'[i] # -1 => i = j
        <4>1. GetHandleInfo(k)' = GetHandleInfo(k) /\ HandleTable'[k].reg = HandleTable[k].reg
          BY <2>1 DEF SameEntries, GetHandleInfo
        <4>2. /\ \A i \in 1..Len(Searches(k)) :
                   \/ Searches(k)[i] = -1
                   \/ /\ Searches(k)[i] \in 1..lastId
                      /\ searches[Searches(k)[i]].reg = HandleTable[k].reg
              /\ \A i, j \in 1..Len(Searches(k)) :
                   Searches(k)[i] = Searches(k)[j] /\ Searches(k)[i] # -1 => i = j
              /\ DOMAIN Searches(k) = 1..Len(Searches(k))
          BY ListType
        <4>3. CASE k # h
          <5>1. Searches(k)' = Searches(k) /\ (GetHandleInfo(k) # "HND_CLIENT" => Searches(k) = <<>>)
            BY <1>10, <2>1, <4>3 DEF Lists
          <5> QED BY <2>4, <2>6, <4>1, <4>2, <5>1
        <4>4. CASE k = h
          <5>1. \A i \in 1..(Len(Searches(h)) + 1) :
                   \/ i = Len(Searches(h)) + 1 /\ Searches(h)'[i] = n
                   \/ i \in 1..Len(Searches(h)) /\ Searches(h)'[i] = Searches(h)[i] /\ Searches(h)[i] # n
            BY <2>1, <2>6, <2>7, <4>2, <4>4
          <5>2. \A i \in DOMAIN Searches(h)' :
                   \/ Searches(h)'[i] = -1
                   \/ Searches(h)'[i] \in 1..n /\ searches'[Searches(h)'[i]].reg = HandleTable'[h].reg
            BY <2>1, <2>4, <2>6, <4>1, <4>2, <4>4, <5>1
          <5>3. \A i, j \in DOMAIN Searches(h)' :
                   Searches(h)'[i] = Searches(h)'[j] /\ Searches(h)'[i] # -1 => i = j
            BY <2>1, <4>2, <4>4, <5>1
          <5> QED BY <1>14, <4>1, <4>4, <5>2, <5>3
        <4> QED BY <4>3, <4>4
      <3> QED BY <2>0, <3>1 DEF Lists, INVALID_EVENT_ID
    <2>9. Told'
      <3>1. ASSUME NEW k \in Handle, NEW id \in 1..lastId PROVE In(k, id)' <=> In(k, id)
        <4>1. CASE k # h
          BY <2>1, <4>1 DEF In
        <4>2. CASE k = h
          BY <2>1, <2>6, <2>7, <4>2 DEF In
        <4> QED BY <4>1, <4>2
      <3>2. In(h, n)'
        BY <2>1, <2>7 DEF In
      <3>3. \A u \in Thread : ~Tells(u, n)'
        <4>1. \A u \in Thread : local[u].id \in Nat /\ local[u].id <= lastId
          BY DEF IInv, Threads, Well, LocalType
        <4>2. \A u \in Thread : local[u].id # n
          BY <1>10, <2>0, <4>1
        <4> QED BY <1>9, <4>2 DEF Tells
      <3>4. /\ HandleTable[h].reg \in 1..regs
            /\ \A k \in Handle : HandleTable[k].reg = HandleTable[h].reg => k = h
        BY <1>5, <1>14, ClientReg
      <3>5. [id |-> n, handle |-> h] \in expiries' /\ expiries \subseteq expiries'
        BY <1>14, <2>0
      <3>6. ASSUME NEW id \in 1..n
            PROVE
        /\ searches'[id].reg \in 1..regs
        /\ searches'[id].told \in {0, 1}
        /\ \A u \in Thread : Tells(u, id)' => searches'[id].told = 0
        /\ \A u, v \in Thread : Tells(u, id)' /\ Tells(v, id)' => u = v
        /\ \A k \in Handle : In(k, id)' => searches'[id].told = 0 /\ \A u \in Thread : ~Tells(u, id)'
        /\ \A k \in Handle : HandleTable'[k].reg = searches'[id].reg /\ ~timerDown =>
             /\ In(k, id)' \/ searches'[id].told = 1 \/ \E u \in Thread : Tells(u, id)'
             /\ In(k, id)' /\ ~searches'[id].refused => [id |-> id, handle |-> k] \in expiries'
        <4>1. CASE id = n
          BY <2>1, <2>4, <3>2, <3>3, <3>4, <3>5, <4>1 DEF SameEntries
        <4>2. CASE id # n
          <5>1. id \in 1..lastId /\ searches'[id] = searches[id]
            BY <2>4, <2>6, <4>2
          <5>2. \A k \in Handle : HandleTable'[k].reg = HandleTable[k].reg
            BY <2>1 DEF SameEntries
          <5> QED BY <1>9, <1>10, <3>1, <3>5, <5>1, <5>2 DEF Told
        <4> QED BY <4>1, <4>2
      <3> QED BY <1>2, <2>0, <3>6 DEF Told
    <2> QED BY <2>3, <2>5, <2>8, <2>9 DEF IInv
  <1> QED BY <1>1, <1>11, <1>13, <1>14 DEF SearchByTarget

\* The place of a search in a list.
LEMMA Found ==
    ASSUME NEW s \in Seq(Int), NEW id \in Int
    PROVE  /\ FindSearch(s, id) # 0 => FindSearch(s, id) \in 1..Len(s) /\ s[FindSearch(s, id)] = id
           /\ (\E i \in 1..Len(s) : s[i] = id) => FindSearch(s, id) # 0
  <1>0. DOMAIN s = 1..Len(s) /\ Len(s) \in Nat
    OBVIOUS
  <1>1. CASE \E i \in 1..Len(s) : s[i] = id
    <2> DEFINE T == {i \in 1..Len(s) : s[i] = id}
    <2>1. T \subseteq Nat /\ T # {}
      BY <1>1
    <2>2. Min(T) \in T /\ \A y \in T : Min(T) <= y
      BY <2>1, LeastExists
    <2>3. PICK i \in 1..Len(s) : s[i] = id /\ \A y \in T : i <= y
      BY <2>2
    <2>4. \A j \in 1..(i - 1) : s[j] # id
      <3>1. \A j \in 1..(i - 1) : j \in 1..Len(s) /\ ~ (i <= j)
        BY <1>0
      <3> QED BY <2>3, <3>1
    <2>5. \E k \in DOMAIN s : s[k] = id /\ \A j \in 1..(k - 1) : s[j] # id
      BY <1>0, <2>3, <2>4
    <2>6. FindSearch(s, id) = CHOOSE k \in DOMAIN s : s[k] = id /\ \A j \in 1..(k - 1) : s[j] # id
      BY <1>0, <1>1 DEF FindSearch
    <2>7. FindSearch(s, id) \in 1..Len(s) /\ s[FindSearch(s, id)] = id
      BY <1>0, <2>5, <2>6
    <2> QED BY <1>0, <2>7
  <1>2. CASE ~ \E i \in 1..Len(s) : s[i] = id
    BY <1>0, <1>2 DEF FindSearch
  <1> QED BY <1>1, <1>2

\* searchExpired() finds its search: it leaves the list and its client is going
\* to be told.
LEMMA SearchFoundIInv ==
    ASSUME IInv, NEW t \in Thread, NEW e \in expiries, SearchExpired(t, e),
           GetHandleInfo(e.handle) = "HND_CLIENT", FindSearch(Searches(e.handle), e.id) > 0
    PROVE  IInv'
  <1>1. PICK h, n : h = e.handle /\ n = e.id
    OBVIOUS
  <1>2. PICK i, s : s = Searches(h) /\ i = FindSearch(s, n)
    OBVIOUS
  <1>3. /\ JobStarts(t) /\ pc[t] = "out" /\ expiries' = expiries \ {e}
        /\ GetHandleInfo(h) = "HND_CLIENT" /\ i > 0
        /\ HandleTable' = [HandleTable EXCEPT ![h].SsdpSearchList = RemoveAt(s, i)]
        /\ GotoWith(t, "tell", [NoLocal EXCEPT !.id = s[i], !.job = TRUE])
        /\ UNCHANGED <<regs, UpnpSdkInit, UpnpSdkClientRegistered, UpnpSdkDeviceRegistered,
                       hidden, timerDown, alive, unkept, adTimer, finishing>>
        /\ UNCHANGED <<replyTimer, results, crashed, lastId, searches>>
    BY <1>1, <1>2 DEF SearchExpired, JobStarts, At, boundVars, seenVars, Searches
  <1>4. UpnpSdkInit = 1
    BY <1>3, StillUp DEF JobStarts
  <1>5. TimerTypes /\ SeenTypes /\ Told /\ Lists /\ Threads
    BY DEF IInv
  <1>6. /\ h \in Handle /\ n \in 1..lastId /\ lastId \in Nat /\ n \in Int
        /\ e = [id |-> n, handle |-> h]
    <2>1. e \in [id: 1..lastId, handle: Handle] /\ lastId \in Nat
      BY <1>5 DEF TimerTypes
    <2> QED BY <1>1, <2>1
  <1>7. /\ s \in Seq(Int) /\ Len(s) \in Nat /\ DOMAIN s = 1..Len(s)
        /\ \A j \in 1..Len(s) :
              s[j] = -1 \/ (s[j] \in 1..lastId /\ searches[s[j]].reg = HandleTable[h].reg)
        /\ \A j, k \in 1..Len(s) : s[j] = s[k] /\ s[j] # -1 => j = k
    BY <1>2, <1>6, ListType
  <1>8. i \in 1..Len(s) /\ s[i] = n
    <2>1. i # 0
      BY <1>3
    <2> QED BY <1>2, <1>6, <1>7, <2>1, Found
  <1>9. PICK q : q = RemoveAt(s, i)
    OBVIOUS
  <1>10. /\ q \in Seq(Int) /\ Len(q) = Len(s) - 1 /\ DOMAIN q = 1..(Len(s) - 1)
         /\ \A j \in 1..(Len(s) - 1) : q[j] = IF j < i THEN s[j] ELSE s[j + 1]
    <2>1. /\ q \in Seq(Int) /\ Len(q) = Len(s) - 1
          /\ \A j \in 1..(Len(s) - 1) : q[j] = IF j < i THEN s[j] ELSE s[j + 1]
      BY <1>7, <1>8, <1>9, Removed
    <2> QED BY <2>1
  <1>11. /\ SameEntries /\ Searches(h)' = q
         /\ \A k \in Handle : k # h => Searches(k)' = Searches(k)
    BY <1>3, <1>6, <1>9, <1>10, ListChanged
  <1>12. PICK r : /\ r = [NoLocal EXCEPT !.id = s[i], !.job = TRUE]
                  /\ r \in LocalType /\ r.id = n /\ r.back = "out"
    <2> DEFINE r == [NoLocal EXCEPT !.id = s[i], !.job = TRUE]
    <2>1. 0 \in 0..NUM_HANDLE /\ s[i] \in Nat
      BY <1>6, <1>8, Handles
    <2>2. r \in LocalType /\ r.id = s[i] /\ r.back = "out"
      BY <2>1 DEF NoLocal, LocalType
    <2> QED BY <1>8, <2>2
  <1>13. PICK l \in {"out", "tell"} : l = "tell"
    OBVIOUS
  <1>14. Moves(t, l, r)
    BY <1>3, <1>12, <1>13, MoveForms DEF IInv
  <1>15. Well(l, r)
    <2>1. /\ l \in Pc /\ l \notin HandlePc /\ l \notin DevicePc /\ l \notin {"request", "requestReply"}
          /\ l # "unregisterClient" /\ l # "ctrlptMsg" /\ l \notin LeavingPc
      BY <1>13 DEF Pc, HandlePc, LeavingPc, AdvertisingPc, DevicePc, FinishPc, EndedPc
    <2>2. r.id >= 1 /\ r.id <= lastId
      BY <1>6, <1>12
    <2> QED BY <1>12, <2>1, <2>2 DEF Well
  <1>16. pc[t] \notin AdvertisingPc /\ lastId' \in Nat /\ lastId <= lastId'
    BY <1>3, <1>6 DEF AdvertisingPc
  <1>17. Threads' /\ Table' /\ Leaves' /\ Ended' /\ Advertised'
    BY <1>3, <1>4, <1>11, <1>14, <1>15, <1>16, SearchMove
  <1>18. /\ pc'[t] = l /\ local'[t] = r
         /\ \A u \in Thread : u # t => pc'[u] = pc[u] /\ local'[u] = local[u]
    BY <1>5, <1>14, MoveFrame
  <1>19. /\ Tells(t, n)' /\ \A id : ~Tells(t, id) /\ (id # n => ~Tells(t, id)')
         /\ \A u \in Thread : u # t => \A id : Tells(u, id)' <=> Tells(u, id)
    BY <1>3, <1>12, <1>13, <1>18 DEF Tells
  <1>20. \A j \in 1..(Len(s) - 1) : \E k \in 1..Len(s) : /\ q[j] = s[k] /\ k # i
                                                        /\ k = IF j < i THEN j ELSE j + 1
    <2>1. ASSUME NEW j \in 1..(Len(s) - 1)
          PROVE  \E k \in 1..Len(s) : /\ q[j] = s[k] /\ k # i
                                      /\ k = IF j < i THEN j ELSE j + 1
      <3>1. CASE j < i
        <4>1. j \in 1..Len(s) /\ j # i
          BY <1>7, <1>8, <3>1
        <4> QED BY <1>10, <3>1, <4>1
      <3>2. CASE ~ (j < i)
        <4>1. j + 1 \in 1..Len(s) /\ j + 1 # i
          BY <1>7, <1>8, <3>2
        <4> QED BY <1>10, <3>2, <4>1
      <3> QED BY <3>1, <3>2
    <2> QED BY <2>1
  <1>21. \A k \in 1..Len(s) : k # i => \E j \in 1..(Len(s) - 1) : q[j] = s[k]
    <2>1. ASSUME NEW k \in 1..Len(s), k # i PROVE \E j \in 1..(Len(s) - 1) : q[j] = s[k]
      <3>1. CASE k < i
        <4>1. k \in 1..(Len(s) - 1)
          BY <1>7, <1>8, <3>1
        <4> QED BY <1>10, <3>1, <4>1
      <3>2. CASE ~ (k < i)
        <4>1. k - 1 \in 1..(Len(s) - 1) /\ ~ (k - 1 < i) /\ (k - 1) + 1 = k
          BY <1>7, <1>8, <2>1, <3>2
        <4> QED BY <1>10, <4>1
      <3> QED BY <3>1, <3>2
    <2> QED BY <2>1
  <1>22. Lists'
    <2>1. ASSUME NEW k \in Handle
          PROVE  /\ GetHandleInfo(k)' # "HND_CLIENT" => Searches(k)' = <<>>
                 /\ \A j \in DOMAIN Searches(k)' :
                      \/ Searches(k)'[j] = -1
                      \/ /\ Searches(k)'[j] \in 1..lastId
                         /\ searches[Searches(k)'[j]].reg = HandleTable'[k].reg
                 /\ \A j, m \in DOMAIN Searches(k)' :
                      Searches(k)'[j] = Searches(k)'[m] /\ Searches(k)'[j] # -1 => j = m
      <3>1. GetHandleInfo(k)' = GetHandleInfo(k) /\ HandleTable'[k].reg = HandleTable[k].reg
        BY <1>11 DEF SameEntries, GetHandleInfo
      <3>2. CASE k # h
        BY <1>5, <1>11, <3>1, <3>2 DEF Lists, INVALID_EVENT_ID
      <3>3. CASE k = h
        <4>1. \A j \in 1..(Len(s) - 1) :
                \/ q[j] = -1
                \/ q[j] \in 1..lastId /\ searches[q[j]].reg = HandleTable[h].reg
          BY <1>7, <1>20
        <4>2. ASSUME NEW j \in 1..(Len(s) - 1), NEW m \in 1..(Len(s) - 1), q[j] = q[m], q[j] # -1
              PROVE  j = m
          <5>1. (IF j < i THEN j ELSE j + 1) = (IF m < i THEN m ELSE m + 1)
            BY <1>7, <1>20, <4>2
          <5> QED BY <1>7, <1>8, <5>1
        <4> QED BY <1>3, <1>10, <1>11, <3>1, <3>3, <4>1, <4>2
      <3> QED BY <3>2, <3>3
    <2> QED BY <1>3, <2>1 DEF Lists, INVALID_EVENT_ID
  <1>23. \A k \in Handle, id \in 1..lastId : id # n => (In(k, id)' <=> In(k, id))
    <2>1. ASSUME NEW k \in Handle, NEW id \in 1..lastId, id # n PROVE In(k, id)' <=> In(k, id)
      <3>1. CASE k # h
        BY <1>11, <3>1 DEF In
      <3>2. CASE k = h
        <4>1. In(h, id) <=> \E j \in 1..Len(s) : s[j] = id
          BY <1>2, <1>7 DEF In
        <4>2. In(h, id)' <=> \E j \in 1..(Len(s) - 1) : q[j] = id
          BY <1>10, <1>11 DEF In
        <4>3. (\E j \in 1..Len(s) : s[j] = id) => \E j \in 1..(Len(s) - 1) : q[j] = id
          BY <1>8, <1>21, <2>1
        <4>4. (\E j \in 1..(Len(s) - 1) : q[j] = id) => \E j \in 1..Len(s) : s[j] = id
          BY <1>20
        <4> QED BY <3>2, <4>1, <4>2, <4>3, <4>4
      <3> QED BY <3>1, <3>2
    <2> QED BY <2>1
  <1>24. \A k \in Handle : ~In(k, n)'
    <2>1. ASSUME NEW k \in Handle PROVE ~In(k, n)'
      <3>1. CASE k = h
        <4>1. \A j \in 1..(Len(s) - 1) : q[j] # n
          <5>1. n # -1
            BY <1>6
          <5> QED BY <1>7, <1>8, <1>20, <5>1
        <4> QED BY <1>10, <1>11, <3>1, <4>1 DEF In
      <3>2. CASE k # h
        <4>1. In(k, n)' => In(k, n)
          BY <1>11, <3>2 DEF In
        <4>2. In(k, n) => searches[n].reg = HandleTable[k].reg
          <5>1. n # -1
            BY <1>6
          <5> QED BY <5>1, ListType DEF In
        <4>3. searches[n].reg = HandleTable[h].reg
          <5>1. n # -1
            BY <1>6
          <5> QED BY <1>7, <1>8, <5>1
        <4>4. \A m \in Handle : HandleTable[m].reg = HandleTable[h].reg => m = h
          BY <1>3, <1>6, ClientReg
        <4> QED BY <3>2, <4>1, <4>2, <4>3, <4>4
      <3> QED BY <3>1, <3>2
    <2> QED BY <2>1
  <1>25. searches[n].told = 0 /\ \A u \in Thread : ~Tells(u, n)
    <2>1. In(h, n)
      BY <1>2, <1>7, <1>8 DEF In
    <2> QED BY <1>5, <1>6, <2>1 DEF Told
  <1>26. Told'
    <2>1. ASSUME NEW id \in 1..lastId
          PROVE
        /\ searches[id].reg \in 1..regs
        /\ searches[id].told \in {0, 1}
        /\ \A u \in Thread : Tells(u, id)' => searches[id].told = 0
        /\ \A u, v \in Thread : Tells(u, id)' /\ Tells(v, id)' => u = v
        /\ \A k \in Handle : In(k, id)' => searches[id].told = 0 /\ \A u \in Thread : ~Tells(u, id)'
        /\ \A k \in Handle : HandleTable'[k].reg = searches[id].reg /\ ~timerDown =>
             /\ In(k, id)' \/ searches[id].told = 1 \/ \E u \in Thread : Tells(u, id)'
             /\ In(k, id)' /\ ~searches[id].refused => [id |-> id, handle |-> k] \in expiries'
      <3>1. CASE id = n
        <4>1. searches[n].reg \in 1..regs
          BY <1>5, <1>6 DEF Told
        <4> QED BY <1>19, <1>24, <1>25, <3>1, <4>1
      <3>2. CASE id # n
        <4>1. \A k \in Handle : HandleTable'[k].reg = HandleTable[k].reg
          BY <1>11 DEF SameEntries
        <4>2. \A k \in Handle : [id |-> id, handle |-> k] \in expiries => [id |-> id, handle |-> k] \in expiries'
          BY <1>3, <1>6, <3>2
        <4>3. \A u \in Thread : Tells(u, id)' <=> Tells(u, id)
          BY <1>19, <3>2
        <4> QED BY <1>5, <1>23, <3>2, <4>1, <4>2, <4>3 DEF Told
      <3> QED BY <3>1, <3>2
    <2> QED BY <1>3, <2>1 DEF Told
  <1>27. TimerTypes' /\ SeenTypes'
    BY <1>3, <1>5 DEF TimerTypes, SeenTypes
  <1> QED BY <1>17, <1>22, <1>26, <1>27 DEF IInv

\* An event of searchExpired() leaves the timer without a search that waits for it.
LEMMA ExpiryTold ==
    ASSUME IInv, NEW e \in expiries, expiries' = expiries \ {e},
           UNCHANGED <<HandleTable, regs, lastId, timerDown, pc, local>>,
           NEW id \in 1..lastId, id = e.id => ~In(e.handle, id) \/ searches'[id].refused,
           searches'[id].reg = searches[id].reg, searches'[id].told = searches[id].told,
           searches[id].refused => searches'[id].refused
    PROVE  /\ searches'[id].reg \in 1..regs'
           /\ searches'[id].told \in {0, 1}
           /\ \A t \in Thread : Tells(t, id)' => searches'[id].told = 0
           /\ \A t, u \in Thread : Tells(t, id)' /\ Tells(u, id)' => t = u
           /\ \A h \in Handle : In(h, id)' => searches'[id].told = 0 /\ \A t \in Thread : ~Tells(t, id)'
           /\ \A h \in Handle : HandleTable'[h].reg = searches'[id].reg /\ ~timerDown' =>
                /\ In(h, id)' \/ searches'[id].told = 1 \/ \E t \in Thread : Tells(t, id)'
                /\ In(h, id)' /\ ~searches'[id].refused => [id |-> id, handle |-> h] \in expiries'
  <1>1. \A t \in Thread : Tells(t, id)' <=> Tells(t, id)
    BY DEF Tells
  <1>2. \A h \in Handle : In(h, id)' <=> In(h, id)
    BY DEF In, Searches
  <1>3. /\ searches[id].reg \in 1..regs
        /\ searches[id].told \in {0, 1}
        /\ \A t \in Thread : Tells(t, id) => searches[id].told = 0
        /\ \A t, u \in Thread : Tells(t, id) /\ Tells(u, id) => t = u
        /\ \A h \in Handle : In(h, id) => searches[id].told = 0 /\ \A t \in Thread : ~Tells(t, id)
        /\ \A h \in Handle : HandleTable[h].reg = searches[id].reg /\ ~timerDown =>
             /\ In(h, id) \/ searches[id].told = 1 \/ \E t \in Thread : Tells(t, id)
             /\ In(h, id) /\ ~searches[id].refused => [id |-> id, handle |-> h] \in expiries
    BY DEF IInv, Told
  <1>4. ASSUME NEW h \in Handle, HandleTable[h].reg = searches[id].reg, ~timerDown,
               In(h, id), ~searches'[id].refused
        PROVE  [id |-> id, handle |-> h] \in expiries'
    <2>1. [id |-> id, handle |-> h] \in expiries
      BY <1>3, <1>4
    <2>2. CASE [id |-> id, handle |-> h] = e
      <3>1. e.id = id /\ e.handle = h
        BY <2>2
      <3> QED BY <1>4, <3>1
    <2> QED BY <2>1, <2>2
  <1> QED BY <1>1, <1>2, <1>3, <1>4

\* The rest of the invariant, when an event of searchExpired() leaves the timer.
LEMMA ExpiryFrame ==
    ASSUME IInv, NEW e \in expiries, expiries' = expiries \ {e},
           UNCHANGED <<handleVars, threadVars, adTimer, replyTimer, results, lastId, timerDown, crashed,
                       finishing, alive, unkept, hidden>>
    PROVE  /\ Threads' /\ Table' /\ Leaves' /\ Ended' /\ Advertised' /\ TimerTypes'
           /\ UNCHANGED <<HandleTable, regs, lastId, timerDown, pc, local>>
  <1>0. /\ UNCHANGED <<HandleTable, regs, lastId, hidden, UpnpSdkInit, timerDown, alive, crashed,
                       unkept, adTimer, finishing, pc, local, replyTimer, results>>
        /\ UNCHANGED <<tableVars, regs>>
    BY DEF handleVars, tableVars, threadVars
  <1>1. Threads /\ Leaves /\ Ended /\ Advertised /\ Table /\ TimerTypes
    BY DEF IInv
  <1>2. Threads'
    BY <1>0, <1>1 DEF Threads, Well, GetHandleInfo
  <1>3. Leaves'
    BY <1>0, <1>1 DEF Leaves, Leaving, Finisher
  <1>4. Ended'
    BY <1>0, <1>1 DEF Ended
  <1>5. Advertised'
    BY <1>0, <1>1 DEF Advertised, Advertises, GetHandleInfo
  <1>6. Table'
    BY <1>0, <1>1, SameTable DEF Table, HandleTypeOK
  <1>7. TimerTypes'
    BY <1>0, <1>1 DEF TimerTypes
  <1> QED BY <1>0, <1>2, <1>3, <1>4, <1>5, <1>6, <1>7

\* searchExpired().
LEMMA SearchExpiredIInv ==
    ASSUME IInv, NEW t \in Thread, NEW e \in expiries, SearchExpired(t, e)
    PROVE  IInv'
  <1>1. CASE GetHandleInfo(e.handle) = "HND_CLIENT" /\ FindSearch(Searches(e.handle), e.id) > 0
    BY <1>1, SearchFoundIInv
  <1>2. CASE ~ (GetHandleInfo(e.handle) = "HND_CLIENT" /\ FindSearch(Searches(e.handle), e.id) > 0)
    <2>1. /\ expiries' = expiries \ {e}
          /\ GetHandleInfo(e.handle) # "HND_CLIENT" \/ FindSearch(Searches(e.handle), e.id) = 0
          /\ UNCHANGED <<handleVars, threadVars, adTimer, replyTimer, results, lastId, timerDown,
                         crashed, finishing, alive, unkept, hidden>>
          /\ UNCHANGED <<searches, HandleTable>>
      BY <1>2 DEF SearchExpired, boundVars, seenVars, handleVars, tableVars, Searches
    <2>2. /\ Threads' /\ Table' /\ Leaves' /\ Ended' /\ Advertised' /\ TimerTypes'
          /\ UNCHANGED <<HandleTable, regs, lastId, timerDown, pc, local>>
      BY <2>1, ExpiryFrame
    <2>3. e.handle \in Handle /\ e.id \in 1..lastId /\ e.id \in Int
      BY DEF IInv, TimerTypes
    <2>4. ~In(e.handle, e.id)
      <3>1. CASE GetHandleInfo(e.handle) # "HND_CLIENT"
        BY <2>3, <3>1 DEF IInv, Lists, In
      <3>2. CASE FindSearch(Searches(e.handle), e.id) = 0
        <4>1. PICK s : s = Searches(e.handle) /\ s \in Seq(Int) /\ DOMAIN s = 1..Len(s)
          BY <2>3, ListType
        <4>2. ~ \E i \in 1..Len(s) : s[i] = e.id
          BY <2>3, <3>2, <4>1, Found
        <4> QED BY <4>1, <4>2 DEF In
      <3> QED BY <2>1, <3>1, <3>2
    <2>5. Told'
      <3>1. \A id \in 1..lastId : id = e.id => ~In(e.handle, id)
        BY <2>4
      <3>2. \A id \in 1..lastId : searches'[id] = searches[id]
        BY <2>1
      <3> QED BY <2>1, <2>2, <3>1, <3>2, ExpiryTold DEF Told
    <2>6. Lists'
      BY <2>1, <2>2, SameLists DEF IInv
    <2>7. SeenTypes'
      BY <2>1, <2>2 DEF IInv, SeenTypes
    <2> QED BY <2>2, <2>5, <2>6, <2>7 DEF IInv
  <1> QED BY <1>1, <1>2

\* A field of one search changes.
LEMMA SearchChanged ==
    ASSUME SeenTypes, TimerTypes, NEW id \in 1..lastId, NEW x \in SearchType,
           searches' = [searches EXCEPT ![id] = x]
    PROVE  /\ searches' \in Seq(SearchType) /\ Len(searches') = lastId
           /\ searches'[id] = x /\ \A k \in 1..lastId : k # id => searches'[k] = searches[k]
           /\ searches[id] \in SearchType
  <1>1. searches \in Seq(SearchType) /\ Len(searches) = lastId /\ lastId \in Nat
    BY DEF SeenTypes, TimerTypes
  <1> QED BY <1>1

\* The lists of searches, when the table stays and the searches keep their clients.
LEMMA ListsKept ==
    ASSUME IInv, UNCHANGED <<HandleTable, lastId>>,
           \A id \in 1..lastId : searches'[id].reg = searches[id].reg
    PROVE  Lists'
  <1>1. \A h \in Handle : Searches(h)' = Searches(h) /\ GetHandleInfo(h)' = GetHandleInfo(h)
                          /\ HandleTable'[h].reg = HandleTable[h].reg
    BY DEF Searches, GetHandleInfo
  <1> QED BY <1>1 DEF IInv, Lists

\* The pool refuses the job.
LEMMA SearchExpiredRefusedIInv ==
    ASSUME IInv, NEW e \in expiries, SearchExpiredRefused(e)
    PROVE  IInv'
  <1>1. PICK n : n = e.id
    OBVIOUS
  <1>2. /\ expiries' = expiries \ {e}
        /\ searches' = [searches EXCEPT ![n].refused = TRUE]
        /\ UNCHANGED <<handleVars, threadVars, adTimer, replyTimer, results, lastId, timerDown,
                       crashed, finishing, alive, unkept, hidden>>
    BY <1>1 DEF SearchExpiredRefused, boundVars
  <1>3. /\ Threads' /\ Table' /\ Leaves' /\ Ended' /\ Advertised' /\ TimerTypes'
        /\ UNCHANGED <<HandleTable, regs, lastId, timerDown, pc, local>>
    BY <1>2, ExpiryFrame
  <1>4. n \in 1..lastId /\ lastId \in Nat
    BY <1>1 DEF IInv, TimerTypes
  <1>5. PICK x : x = [searches[n] EXCEPT !.refused = TRUE]
    OBVIOUS
  <1>6. /\ x \in SearchType /\ x.reg = searches[n].reg /\ x.told = searches[n].told /\ x.refused
    <2>1. searches[n] \in SearchType
      BY <1>4 DEF IInv, SeenTypes
    <2> QED BY <1>5, <2>1 DEF SearchType
  <1>7. searches' = [searches EXCEPT ![n] = x]
    BY <1>2, <1>5
  <1>8. /\ searches' \in Seq(SearchType) /\ Len(searches') = lastId
        /\ searches'[n] = x /\ \A k \in 1..lastId : k # n => searches'[k] = searches[k]
    BY <1>4, <1>6, <1>7, SearchChanged DEF IInv
  <1>9. \A id \in 1..lastId : /\ searches'[id].reg = searches[id].reg
                              /\ searches'[id].told = searches[id].told
                              /\ searches[id].refused => searches'[id].refused
                              /\ id = e.id => searches'[id].refused
    BY <1>1, <1>6, <1>8
  <1>10. Told'
    BY <1>2, <1>3, <1>9, ExpiryTold DEF Told
  <1>11. Lists'
    BY <1>3, <1>9, ListsKept
  <1>12. SeenTypes'
    BY <1>2, <1>3, <1>8 DEF IInv, SeenTypes
  <1> QED BY <1>3, <1>10, <1>11, <1>12 DEF IInv

\* The client is told: by one thread, of a search that is no longer listed.
LEMMA SearchTimeoutCallbackIInv ==
    ASSUME IInv, NEW t \in Thread, SearchTimeoutCallback(t)
    PROVE  IInv'
  <1>1. PICK n : n = local[t].id
    OBVIOUS
  <1>2. /\ pc[t] = "tell" /\ Return(t)
        /\ searches' = [searches EXCEPT ![n].told = @ + 1]
        /\ UNCHANGED <<regs, UpnpSdkInit, UpnpSdkClientRegistered, UpnpSdkDeviceRegistered,
                       hidden, timerDown, alive, unkept, adTimer, finishing>>
        /\ UNCHANGED <<replyTimer, results, crashed, lastId, HandleTable, expiries>>
    BY <1>1 DEF SearchTimeoutCallback, At, handleVars, tableVars, timerVars, boundVars
  <1>3. UpnpSdkInit = 1
    BY <1>2, StillUp
  <1>4. Well(pc[t], local[t]) /\ Moves(t, local[t].back, NoLocal)
    BY <1>2, MoveForms DEF IInv
  <1>5. local[t].back = "out" /\ n \in 1..lastId /\ lastId \in Nat
    BY <1>1, <1>2, <1>4 DEF Well, LocalType, LeavingPc, IInv, TimerTypes
  <1>6. PICK l \in {"out", "tell"} : l = "out"
    OBVIOUS
  <1>7. /\ Moves(t, l, NoLocal) /\ Well(l, NoLocal) /\ pc[t] \notin AdvertisingPc
        /\ lastId' \in Nat /\ lastId <= lastId'
    BY <1>2, <1>4, <1>5, <1>6, NoLocalType DEF IInv, AdvertisingPc
  <1>8. /\ pc'[t] = l /\ local'[t] = NoLocal
        /\ \A u \in Thread : u # t => pc'[u] = pc[u] /\ local'[u] = local[u]
    BY <1>7, MoveFrame DEF IInv
  <1>9. SameEntries
    BY <1>2, SameEntriesSame
  <1>10. Threads' /\ Table' /\ Leaves' /\ Ended' /\ Advertised'
    BY <1>2, <1>3, <1>7, <1>9, SearchMove
  <1>11. /\ \A id : ~Tells(t, id)'
         /\ \A u \in Thread : u # t => \A id : Tells(u, id)' <=> Tells(u, id)
         /\ Tells(t, n) /\ \A id : id # n => ~Tells(t, id)
    BY <1>1, <1>2, <1>6, <1>8 DEF Tells
  <1>12. searches[n].told = 0 /\ (\A u \in Thread : Tells(u, n) => u = t) /\ \A h \in Handle : ~In(h, n)
    BY <1>5, <1>11 DEF IInv, Told
  <1>13. PICK x : x = [searches[n] EXCEPT !.told = @ + 1]
    OBVIOUS
  <1>14. x \in SearchType /\ x.reg = searches[n].reg /\ x.told = 1 /\ x.refused = searches[n].refused
    <2>1. searches[n] \in SearchType
      BY <1>5 DEF IInv, SeenTypes
    <2> QED BY <1>12, <1>13, <2>1 DEF SearchType
  <1>15. searches' = [searches EXCEPT ![n] = x]
    BY <1>2, <1>13
  <1>16. /\ searches' \in Seq(SearchType) /\ Len(searches') = lastId
         /\ searches'[n] = x /\ \A k \in 1..lastId : k # n => searches'[k] = searches[k]
    BY <1>5, <1>14, <1>15, SearchChanged DEF IInv
  <1>17. \A h \in Handle, id \in 1..lastId : In(h, id)' <=> In(h, id)
    BY <1>2 DEF In, Searches
  <1>18. Told'
    <2>1. ASSUME NEW id \in 1..lastId
          PROVE
        /\ searches'[id].reg \in 1..regs
        /\ searches'[id].told \in {0, 1}
        /\ \A u \in Thread : Tells(u, id)' => searches'[id].told = 0
        /\ \A u, v \in Thread : Tells(u, id)' /\ Tells(v, id)' => u = v
        /\ \A h \in Handle : In(h, id)' => searches'[id].told = 0 /\ \A u \in Thread : ~Tells(u, id)'
        /\ \A h \in Handle : HandleTable'[h].reg = searches'[id].reg /\ ~timerDown =>
             /\ In(h, id)' \/ searches'[id].told = 1 \/ \E u \in Thread : Tells(u, id)'
             /\ In(h, id)' /\ ~searches'[id].refused => [id |-> id, handle |-> h] \in expiries
      <3>1. CASE id = n
        <4>1. searches[n].reg \in 1..regs
          BY <1>5 DEF IInv, Told
        <4>2. \A u \in Thread : ~Tells(u, n)'
          BY <1>11, <1>12
        <4> QED BY <1>12, <1>14, <1>16, <1>17, <3>1, <4>1, <4>2
      <3>2. CASE id # n
        <4>1. \A u \in Thread : Tells(u, id)' <=> Tells(u, id)
          BY <1>11, <3>2
        <4>2. searches'[id] = searches[id]
          BY <1>16, <3>2
        <4> QED BY <1>2, <1>17, <4>1, <4>2 DEF IInv, Told
      <3> QED BY <3>1, <3>2
    <2> QED BY <1>2, <2>1 DEF Told
  <1>19. Lists'
    <2>1. \A id \in 1..lastId : searches'[id].reg = searches[id].reg
      BY <1>14, <1>16
    <2> QED BY <1>2, <2>1, ListsKept
  <1>20. TimerTypes' /\ SeenTypes'
    BY <1>2, <1>16 DEF IInv, TimerTypes, SeenTypes
  <1> QED BY <1>10, <1>18, <1>19, <1>20 DEF IInv

-----------------------------------------------------------------------------
(* The theorems *)

\* The invariant holds at the start.
LEMMA InitIInv ==
    ASSUME Init
    PROVE  IInv
  <1>1. Null \in HandleInfo /\ Null.HType = "HND_INVALID" /\ Null.reg = 0 /\ Null.SsdpSearchList = <<>>
    BY DEF Null, HandleInfo
  <1>2. /\ HandleTable = [h \in Handle |-> Null] /\ UpnpSdkClientRegistered = 0
        /\ UpnpSdkDeviceRegistered = [af \in Family |-> 0] /\ UpnpSdkInit = 1 /\ regs = 0
        /\ pc = [t \in Thread |-> "out"] /\ local = [t \in Thread |-> NoLocal]
        /\ adTimer = [h \in Handle |-> 0] /\ replyTimer = [h \in Handle |-> 0]
        /\ expiries = {} /\ results = {} /\ lastId = 0
        /\ timerDown = FALSE /\ crashed = FALSE /\ finishing = FALSE
        /\ alive = {} /\ unkept = {} /\ hidden = {} /\ searches = <<>>
    BY DEF Init, HandleInit
  <1>3. \A h \in Handle : HandleTable[h] = Null
    BY <1>2
  <1>4. TimerTypes
    BY <1>2 DEF TimerTypes
  <1>5. SeenTypes
    BY <1>2 DEF SeenTypes
  <1>6. Threads
    <2>1. NoLocal \in LocalType /\ Well("out", NoLocal)
      BY <1>4, NoLocalType
    <2>2. "out" \in Pc
      BY DEF Pc
    <2> QED BY <1>2, <2>1, <2>2 DEF Threads
  <1>7. Table
    <2>1. Clients = {}
      BY <1>1, <1>3 DEF Clients, GetHandleInfo
    <2>2. Cardinality(Clients) = 0
      BY <2>1, FS_EmptySet
    <2>3. HandleTypeOK
      BY <1>1, <1>2, HandleAssumption DEF HandleTypeOK
    <2> QED BY <1>1, <1>2, <1>3, <2>2, <2>3 DEF Table
  <1>8. Leaves
    BY <1>2 DEF Leaves, Leaving, Finisher, LeavingPc, FinishPc, EndedPc
  <1>9. Ended
    BY <1>2 DEF Ended, EndedPc
  <1>10. Advertised
    BY <1>2 DEF Advertised
  <1>11. Lists
    <2>1. \A h \in Handle : Searches(h) = <<>>
      BY <1>1, <1>3 DEF Searches
    <2> QED BY <2>1 DEF Lists
  <1>12. Told
    BY <1>2 DEF Told
  <1> QED BY <1>4, <1>5, <1>6, <1>7, <1>8, <1>9, <1>10, <1>11, <1>12 DEF IInv

\* Every step keeps the invariant.
LEMMA NextIInv ==
    ASSUME IInv, [Next]_vars
    PROVE  IInv'
  <1>1. CASE UNCHANGED vars
    BY <1>1, StoppedIInv
  <1>2. CASE UpnpRegisterClient \/ \E af \in Family : UpnpRegisterRootDevice(af)
    BY <1>2, RegisterIInv
  <1>3. ASSUME NEW t \in Thread, Call(t) PROVE IInv'
    <2>1. ASSUME NEW h \in Handle, UpnpUnRegisterClient(t, h) \/ UpnpUnRegisterRootDevice(t, h)
          PROVE  IInv'
      BY <2>1, UnRegisterIInv
    <2>2. ASSUME NEW h \in Handle, UpnpSendAdvertisement(t, h) \/ UpnpSearchAsync(t, h)
          PROVE  IInv'
      BY <2>2, CallStartsIInv
    <2>3. CASE UpnpFinish(t)
      BY <2>3, UpnpFinishIInv
    <2> QED BY <1>3, <2>1, <2>2, <2>3 DEF Call
  <1>4. ASSUME NEW t \in Thread, Job(t) PROVE IInv'
    <2>1. ASSUME NEW h \in Handle, AutoAdvertise(t, h) PROVE IInv'
      BY <2>1, AutoAdvertiseIInv
    <2>2. ASSUME NEW h \in Handle, AdvertiseAndReplyThread(t, h) PROVE IInv'
      BY <2>2, ReplyThreadIInv
    <2>3. ASSUME NEW kind \in {"advert", "reply"}, CtrlptMsg(t, kind) PROVE IInv'
      BY <2>3, CtrlptMsgIInv
    <2>4. CASE \E af \in Family : DeviceRequest(t, af)
      BY <2>4, DeviceRequestIInv
    <2> QED BY <1>4, <2>1, <2>2, <2>3, <2>4 DEF Job
  <1>5. ASSUME NEW t \in Thread, Step(t) PROVE IInv'
    <2>1. CASE UnRegisterClientEnds(t) \/ UnRegisterRootDeviceEnds(t)
      BY <2>1, UnRegisterEndsIInv
    <2>2. CASE AdvertiseStarts(t)
      BY <2>2, AdvertiseStartsIInv
    <2>3. CASE DeviceAdvertisement(t)
      BY <2>3, DeviceAdvertisementIInv
    <2>4. CASE DeviceShutdown(t)
      BY <2>4, DeviceShutdownIInv
    <2>5. CASE DeviceReply(t) \/ CtrlptMsgEnds(t)
      BY <2>5, ReturnIInv
    <2>6. CASE SendAdvertisementEnds(t)
      BY <2>6, SendAdvertisementEndsIInv
    <2>7. CASE SearchByTarget(t)
      BY <2>7, SearchByTargetIInv
    <2>8. CASE SearchTimeoutCallback(t)
      BY <2>8, SearchTimeoutCallbackIInv
    <2>9. CASE CtrlptMsgTurn(t)
      BY <2>9, CtrlptMsgTurnIInv
    <2>10. CASE DeviceRequestTurn(t)
      BY <2>10, DeviceRequestIInv
    <2>11. CASE DeviceRequestReply(t)
      BY <2>11, DeviceRequestReplyIInv
    <2>12. CASE (\E af \in Family : FinishDevice(t, af)) \/ FinishClient(t)
      BY <2>12, FinishLoopIInv
    <2>13. CASE FinishTimer(t)
      BY <2>13, FinishTimerIInv
    <2>14. CASE FinishServer(t)
      BY <2>14, FinishServerIInv
    <2>15. CASE FinishPools(t)
      BY <2>15, FinishPoolsIInv
    <2> QED BY <1>5, <2>1, <2>2, <2>3, <2>4, <2>5, <2>6, <2>7, <2>8, <2>9, <2>10, <2>11, <2>12,
               <2>13, <2>14, <2>15 DEF Step
  <1>6. CASE Expiry
    BY <1>6, SearchExpiredIInv DEF Expiry
  <1>7. ASSUME NEW h \in Handle, AutoAdvertiseRefused(h) PROVE IInv'
    BY <1>7, AutoAdvertiseRefusedIInv
  <1>8. ASSUME NEW e \in expiries, SearchExpiredRefused(e) PROVE IInv'
    BY <1>8, SearchExpiredRefusedIInv
  <1>9. ASSUME NEW id \in results, SendSearchResult(id) PROVE IInv'
    BY <1>9, SendSearchResultIInv
  <1>10. CASE Stopped
    BY <1>1, <1>10 DEF Stopped
  <1> QED BY <1>1, <1>2, <1>3, <1>4, <1>5, <1>6, <1>7, <1>8, <1>9, <1>10 DEF Next

\* What the thread that tells of a search amounts to.
LEMMA Telling ==
    ASSUME IInv, NEW id \in 1..lastId, NEW S, S = {t \in Thread : pc[t] = "tell" /\ local[t].id = id}
    PROVE  /\ searches[id].told = 0 /\ (\A t \in Thread : ~Tells(t, id)) => Cardinality(S) = 0
           /\ (\E t \in Thread : Tells(t, id)) => Cardinality(S) = 1 /\ searches[id].told = 0
           /\ searches[id].told = 1 => Cardinality(S) = 0
  <1>1. S = {t \in Thread : Tells(t, id)}
    BY DEF Tells
  <1>2. (\A t \in Thread : ~Tells(t, id)) => Cardinality(S) = 0
    <2>1. (\A t \in Thread : ~Tells(t, id)) => S = {}
      BY <1>1
    <2> QED BY <2>1, FS_EmptySet
  <1>3. (\E t \in Thread : Tells(t, id)) => Cardinality(S) = 1 /\ searches[id].told = 0
    <2> SUFFICES ASSUME NEW t \in Thread, Tells(t, id)
                 PROVE  Cardinality(S) = 1 /\ searches[id].told = 0
      OBVIOUS
    <2>1. \A u \in Thread : Tells(u, id) => u = t
      BY DEF IInv, Told
    <2>2. S = {t}
      BY <1>1, <2>1
    <2>3. Cardinality({t}) = 1
      BY FS_Singleton
    <2> QED BY <2>2, <2>3 DEF IInv, Told
  <1> QED BY <1>2, <1>3

\* The invariant says what the properties say.
LEMMA IInvImplies ==
    ASSUME IInv
    PROVE  TypeOK /\ AdvertisementKept /\ SearchToldOnce /\ MessageReachesAll /\ FinishCleansUp
  <1>1. TypeOK
    <2>1. \A t \in Thread : local[t].handle \in 0..NUM_HANDLE /\ local[t].id \in 0..lastId
      BY DEF IInv, Threads, Well, LocalType, TimerTypes
    <2> QED BY <2>1 DEF IInv, TypeOK, Table, TimerTypes, SeenTypes
  <1>2. AdvertisementKept
    BY DEF IInv, Advertised, Advertises, AdvertisingPc, AdvertisementKept
  <1>3. SearchToldOnce
    <2>1. ASSUME NEW id \in 1..lastId, NEW S, S = {t \in Thread : pc[t] = "tell" /\ local[t].id = id}
          PROVE  /\ searches[id].told + Cardinality(S) <= 1
                 /\ \A h \in Handle :
                      (HandleTable[h].reg = searches[id].reg /\ ~timerDown) =>
                         /\ In(h, id) <=> (searches[id].told + Cardinality(S) = 0)
                         /\ In(h, id) /\ ~searches[id].refused => [id |-> id, handle |-> h] \in expiries
      <3>1. /\ searches[id].told \in {0, 1}
            /\ \A t \in Thread : Tells(t, id) => searches[id].told = 0
            /\ \A h \in Handle : In(h, id) => searches[id].told = 0 /\ \A t \in Thread : ~Tells(t, id)
            /\ \A h \in Handle : HandleTable[h].reg = searches[id].reg /\ ~timerDown =>
                 /\ In(h, id) \/ searches[id].told = 1 \/ \E t \in Thread : Tells(t, id)
                 /\ In(h, id) /\ ~searches[id].refused => [id |-> id, handle |-> h] \in expiries
        BY DEF IInv, Told
      <3>2. PICK c : c = Cardinality(S)
        OBVIOUS
      <3>3. /\ searches[id].told = 0 /\ (\A t \in Thread : ~Tells(t, id)) => c = 0
            /\ (\E t \in Thread : Tells(t, id)) => c = 1 /\ searches[id].told = 0
            /\ searches[id].told = 1 => c = 0
        BY <2>1, <3>2, Telling
      <3>4. /\ searches[id].told + c <= 1
            /\ searches[id].told + c = 0 <=> searches[id].told = 0 /\ \A t \in Thread : ~Tells(t, id)
        BY <3>1, <3>3
      <3> QED BY <3>1, <3>2, <3>4
    <2>2. \A h \in Handle, id \in 1..lastId : id \in ToSet(HandleTable[h].SsdpSearchList) <=> In(h, id)
      BY DEF ToSet, In, Searches
    <2> QED BY <2>1, <2>2 DEF SearchToldOnce
  <1>4. MessageReachesAll
    <2> SUFFICES ASSUME NEW t \in Thread, NEW h \in Handle, pc[t] = "ctrlptMsg",
                        HandleTable[h].reg \in local[t].must,
                        h < local[t].handle \/ LoopEnds(local[t].handle)
                 PROVE  HandleTable[h].reg \in local[t].heard
      BY DEF MessageReachesAll
    <2>1. h < local[t].handle
      BY Handles DEF LoopEnds
    <2> QED BY <2>1 DEF IInv, Threads, Well
  <1>5. FinishCleansUp
    <2> SUFFICES ASSUME UpnpSdkInit = 0
                 PROVE  /\ Clients = {} /\ UpnpSdkClientRegistered = 0
                        /\ \A t \in Thread : pc[t] \in {"out", "finished"}
                        /\ \A h \in Handle : HandleTable[h] # Null => HandleTable[h].reg \in hidden
      BY DEF FinishCleansUp
    <2>1. /\ \A t \in Thread : pc[t] \in {"out", "finished"}
          /\ \E t \in Thread : pc[t] \in EndedPc
      BY DEF IInv, Ended, EndedPc
    <2>2. \A h \in Handle : HandleTable[h].HType # "HND_INVALID" =>
             HandleTable[h].HType = "HND_DEVICE" /\ HandleTable[h].reg \in hidden
      BY <2>1 DEF IInv, Ended
    <2>3. Clients = {}
      BY <2>2 DEF Clients, GetHandleInfo
    <2>4. UpnpSdkClientRegistered = 0
      BY <2>3, FS_EmptySet DEF IInv, Table
    <2>5. \A h \in Handle : HandleTable[h] # Null => HandleTable[h].HType # "HND_INVALID"
      BY DEF IInv, Table
    <2> QED BY <2>1, <2>2, <2>3, <2>4, <2>5
  <1> QED BY <1>1, <1>2, <1>3, <1>4, <1>5

\* The inductive invariant holds in every state of every behaviour.
THEOREM Invariance == Spec => []IInv
  <1>1. Init => IInv
    BY InitIInv
  <1>2. IInv /\ [Next]_vars => IInv'
    BY NextIInv
  <1> QED BY <1>1, <1>2, PTL DEF Spec

\* Every variable has its type; in particular the number of clients never drops
\* below zero (UpnpSdkClientRegistered), and the handle of a call is in the table.
THEOREM TypeCorrect == Spec => []TypeOK
  <1>1. IInv => TypeOK
    BY IInvImplies
  <1> QED BY <1>1, Invariance, PTL

\* An advertised device stays advertised until it says byebye: UpnpSendAdvertisement()
\* and AutoAdvertise() hand the duty on to each other, whatever comes in between.
THEOREM AdvertisementCorrect == Spec => []AdvertisementKept
  <1>1. IInv => AdvertisementKept
    BY IInvImplies
  <1> QED BY <1>1, Invariance, PTL

\* A client is told of the end of each of its searches, and once: searchExpired()
\* finds the search that SearchByTarget() listed, and no other.
THEOREM SearchCorrect == Spec => []SearchToldOnce
  <1>1. IInv => SearchToldOnce
    BY IInvImplies
  <1> QED BY <1>1, Invariance, PTL

\* A message reaches every client that stays registered while the loop of
\* ssdp_handle_ctrlpt_msg() runs, although the lock is released at every turn.
THEOREM MessageCorrect == Spec => []MessageReachesAll
  <1>1. IInv => MessageReachesAll
    BY IInvImplies
  <1> QED BY <1>1, Invariance, PTL

\* UpnpFinish() leaves no client and no job behind, and of the devices only those
\* that their family's flag did not show to its loop.
THEOREM FinishCorrect == Spec => []FinishCleansUp
  <1>1. IInv => FinishCleansUp
    BY IInvImplies
  <1> QED BY <1>1, Invariance, PTL

===============================================================================
