--------------------------- MODULE GenaCtrlptProofs ---------------------------
(***************************************************************************)
(* Theorems about GenaCtrlpt for any number of threads, handles,           *)
(* subscriptions and timer events, and whatever fails.                     *)
(***************************************************************************)
EXTENDS GenaCtrlpt, SequenceLemmas

Pc == {"out", "unregister", "unregisterSend", "unregisterFree", "subscribe", "subscribeLock",
       "subscribeInvalid", "subscribeSent", "renewSent", "renewFailed", "unsubscribeSent",
       "unsubscribeRemove", "notify", "notifyLock", "notifyLocked", "callback"}
Subscribing == {"subscribe", "subscribeLock", "subscribeSent"}
Cancelling == {"renewSent", "renewFailed", "unsubscribeSent", "unsubscribeRemove"}
Notifying == {"notify", "notifyLock", "notifyLocked", "callback"}

Local == [handle: Handle \cup {0}, SID: Nat, ActualSID: Nat, RenewEventId: Int,
          auto: BOOLEAN, eventKey: 0..1, ok: BOOLEAN, epoch: Nat]
Observed == [handle: Handle \cup {0}, own: BOOLEAN, granted: TimeOuts,
             refused: BOOLEAN, settled: BOOLEAN]

\* The types of what TypeOK leaves open.
Types ==
    /\ TypeOK
    /\ bound \in Bounds
    /\ pc \in [Thread -> Pc] /\ local \in [Thread -> Local]
    /\ epoch \in [Handle -> Nat]
    /\ seen \in [1..bound.subs -> Observed]
    /\ rejected \subseteq initial
    /\ \A t \in Thread : pc[t] # "out" => local[t].handle \in Handle

\* Every subscription in a list has a SID of its own, which was made for the
\* handle of that list.
ListsApart ==
    /\ \A h \in Handle \ registered : ClientSubList[h] = <<>>
    /\ \A h \in Handle : \A i \in DOMAIN ClientSubList[h] :
          LET sub == ClientSubList[h][i]
          IN  /\ sub.SID \in SIDs /\ seen[sub.SID].handle = h
              /\ sub.ActualSID \in 1..lastActual
    /\ \A h \in Handle : \A i, k \in DOMAIN ClientSubList[h] :
          ClientSubList[h][i].SID = ClientSubList[h][k].SID => i = k
    /\ \A sid \in 1..bound.subs : seen[sid].handle \in registered \cup {0}

\* An identifier of a timer event, in a list or in a copy, names the event of
\* that subscription or none.
EventsApart ==
    /\ \A e \in timer : e.id < lastEventId
    /\ \A e \in timer \cup fired : e.SID \in SIDs
    /\ \A h \in Handle : \A i \in DOMAIN ClientSubList[h] :
          LET sub == ClientSubList[h][i]
          IN  /\ sub.RenewEventId < lastEventId
              /\ \A e \in timer : e.id = sub.RenewEventId => e.handle = h /\ e.SID = sub.SID
    /\ \A t \in Thread :
          LET l == local[t]
          IN  /\ pc[t] \in {"unregisterSend", "unsubscribeSent"} => l.RenewEventId < lastEventId
              /\ pc[t] = "unregisterSend" => \A e \in timer : e.id # l.RenewEventId
              /\ pc[t] = "unsubscribeSent" => \A e \in timer :
                    e.id = l.RenewEventId => e.handle = l.handle /\ e.SID = l.SID

\* A thread that is about to end a subscription: the handle may be gone.
CallsKnown ==
    \A t \in Thread : pc[t] \in Cancelling =>
        /\ local[t].SID \in SIDs
        /\ seen[local[t].SID].handle \in {local[t].handle, 0}

\* The mutex is held while a subscription is asked for, so that there is one
\* answer at most that has no SID yet.
OneAsks ==
    /\ \A t \in Thread : pc[t] \in {"subscribeSent", "notifyLocked"} => subscribeLock = t
    /\ lastSID <= lastActual
    /\ \A t \in Thread :
          /\ pc[t] \in {"subscribe", "subscribeLock"} => local[t].ActualSID = 0
          /\ pc[t] = "subscribeSent" => local[t].ActualSID <= lastActual
          /\ pc[t] = "subscribeSent" /\ local[t].ActualSID # 0 => lastSID < lastActual
          /\ pc[t] \in Subscribing => local[t].epoch <= epoch[local[t].handle]

\* The initial event of the publisher's subscription a was not rejected, and no
\* thread has passed the handle h with it in vain.
NotPassed(a, h) ==
    /\ a \notin rejected
    /\ \A t \in Thread :
          pc[t] \in Notifying /\ local[t].eventKey = 0 /\ local[t].ActualSID = a =>
              local[t].ok \/ local[t].handle <= h

\* So it is for every subscription of a client who asked for it itself, from the
\* moment the publisher has accepted it.
EventsWait ==
    /\ \A t \in Thread :
          /\ pc[t] \in Notifying => local[t].ActualSID \in initial
          /\ pc[t] = "callback" => local[t].ok
    /\ \A h \in registered : \A i \in DOMAIN ClientSubList[h] :
          seen[ClientSubList[h][i].SID].own => NotPassed(ClientSubList[h][i].ActualSID, h)
    /\ \A t \in Thread :
          LET l == local[t]
          IN  /\ pc[t] = "subscribeSent" /\ l.ActualSID # 0
              /\ l.handle \in registered /\ l.epoch = epoch[l.handle]
              => NotPassed(l.ActualSID, l.handle)

\* The inductive invariant.
IInv ==
    /\ Types /\ ListsApart /\ EventsApart /\ CallsKnown /\ OneAsks /\ EventsWait
    /\ RenewalUnderWay /\ NoSilentLoss
-----------------------------------------------------------------------------
(* What a step of one thread leaves alone *)

\* Only the thread t goes on.
Others(t) == \A x \in Thread : x # t => pc'[x] = pc[x] /\ local'[x] = local[x]

\* GotoWith() and Return() set the program counter and the locals of one thread.
LEMMA Moves ==
    ASSUME Types, NEW t \in Thread, NEW l \in Pc, NEW rec \in Local, GotoWith(t, l, rec)
    PROVE  /\ pc' \in [Thread -> Pc] /\ local' \in [Thread -> Local]
           /\ pc'[t] = l /\ local'[t] = rec /\ Others(t)
  BY DEF Types, GotoWith, Others

\* Goto() keeps the locals.
LEMMA MovesOn ==
    ASSUME Types, NEW t \in Thread, NEW l \in Pc, Goto(t, l)
    PROVE  /\ pc' \in [Thread -> Pc] /\ local' \in [Thread -> Local]
           /\ pc'[t] = l /\ local' = local /\ Others(t)
  BY DEF Types, Goto, Others

\* The fields of the locals.
LEMMA LocalTypes ==
    ASSUME NEW l \in Local
    PROVE  /\ l.handle \in Handle \cup {0} /\ l.SID \in Nat /\ l.ActualSID \in Nat
           /\ l.RenewEventId \in Int /\ l.auto \in BOOLEAN /\ l.eventKey \in 0..1
           /\ l.ok \in BOOLEAN /\ l.epoch \in Nat
  BY DEF Local

\* A thread outside the library has no locals.
LEMMA NoLocalType == NoLocal \in Local
  BY DEF NoLocal, Local, NoId

\* The locals with which UpnpSubscribe() begins.
SubscribeLocals(h, n) == [NoLocal EXCEPT !.handle = h, !.epoch = n]

\* They are locals of the calls.
LEMMA SubscribeLocal ==
    ASSUME NEW h \in Handle, NEW n \in Nat,
           NEW l, l = SubscribeLocals(h, n)
    PROVE  /\ l \in Local /\ l.handle = h /\ l.epoch = n /\ l.ActualSID = 0
  <1> DEFINE k1 == [NoLocal EXCEPT !.handle = h]
             k2 == [k1 EXCEPT !.epoch = n]
  <1>1. k1 \in Local /\ k1.handle = h /\ k1.ActualSID = 0
    BY NoLocalType DEF NoLocal, Local, NoId
  <1> HIDE DEF k1
  <1>2. k2 \in Local /\ k2.handle = h /\ k2.epoch = n /\ k2.ActualSID = 0
    BY <1>1 DEF Local
  <1> QED BY <1>2 DEF SubscribeLocals, k1

\* The locals with which genaUnregisterClient() begins.
UnregisterLocals(h, id) == [NoLocal EXCEPT !.handle = h, !.RenewEventId = id]

\* They are locals of the calls.
LEMMA UnregisterLocal ==
    ASSUME NEW h \in Handle, NEW id \in Int,
           NEW l, l = UnregisterLocals(h, id)
    PROVE  /\ l \in Local /\ l.handle = h /\ l.RenewEventId = id
  <1> DEFINE k1 == [NoLocal EXCEPT !.handle = h]
             k2 == [k1 EXCEPT !.RenewEventId = id]
  <1>1. k1 \in Local /\ k1.handle = h
    BY NoLocalType DEF NoLocal, Local, NoId
  <1> HIDE DEF k1
  <1>2. k2 \in Local /\ k2.handle = h /\ k2.RenewEventId = id
    BY <1>1 DEF Local
  <1> QED BY <1>2 DEF UnregisterLocals, k1

\* The locals with which genaRenewSubscription() begins.
AutoLocals(h, sid) == [NoLocal EXCEPT !.handle = h, !.SID = sid, !.auto = TRUE]
RenewLocals(h, sid) == [NoLocal EXCEPT !.handle = h, !.SID = sid, !.auto = FALSE]

\* They are locals of the calls.
LEMMA RenewLocal ==
    ASSUME NEW h \in Handle, NEW sid \in Nat,
           NEW l, l = AutoLocals(h, sid) \/ l = RenewLocals(h, sid)
    PROVE  /\ l \in Local /\ l.handle = h /\ l.SID = sid
  <1> DEFINE k1 == [NoLocal EXCEPT !.handle = h]
             k2 == [k1 EXCEPT !.SID = sid]
             k3 == [k2 EXCEPT !.auto = TRUE]
             k4 == [k2 EXCEPT !.auto = FALSE]
  <1>1. k1 \in Local /\ k1.handle = h
    BY NoLocalType DEF NoLocal, Local, NoId
  <1> HIDE DEF k1
  <1>2. k2 \in Local /\ k2.handle = h /\ k2.SID = sid
    BY <1>1 DEF Local
  <1> HIDE DEF k2
  <1>3. k3 \in Local /\ k3.handle = h /\ k3.SID = sid
    BY <1>2 DEF Local
  <1>4. k4 \in Local /\ k4.handle = h /\ k4.SID = sid
    BY <1>2 DEF Local
  <1>5. l = k3 \/ l = k4
    BY DEF RenewLocals, AutoLocals, k1, k2
  <1> HIDE DEF k3, k4
  <1> QED BY <1>3, <1>4, <1>5

\* The locals with which genaUnSubscribe() begins.
UnSubscribeLocals(h, sid, id) == [NoLocal EXCEPT !.handle = h, !.SID = sid, !.RenewEventId = id]

\* They are locals of the calls.
LEMMA UnSubscribeLocal ==
    ASSUME NEW h \in Handle, NEW sid \in Nat, NEW id \in Int,
           NEW l, l = UnSubscribeLocals(h, sid, id)
    PROVE  /\ l \in Local /\ l.handle = h /\ l.SID = sid /\ l.RenewEventId = id
  <1> DEFINE k1 == [NoLocal EXCEPT !.handle = h]
             k2 == [k1 EXCEPT !.SID = sid]
             k3 == [k2 EXCEPT !.RenewEventId = id]
  <1>1. k1 \in Local /\ k1.handle = h
    BY NoLocalType DEF NoLocal, Local, NoId
  <1> HIDE DEF k1
  <1>2. k2 \in Local /\ k2.handle = h /\ k2.SID = sid
    BY <1>1 DEF Local
  <1> HIDE DEF k2
  <1>3. k3 \in Local /\ k3.handle = h /\ k3.SID = sid /\ k3.RenewEventId = id
    BY <1>2 DEF Local
  <1> QED BY <1>3 DEF UnSubscribeLocals, k1, k2

\* The locals with which gena_process_notification_event() begins.
NotifyLocals(h, a, key) == [NoLocal EXCEPT !.handle = h, !.ActualSID = a, !.eventKey = key]

\* They are locals of the calls.
LEMMA NotifyLocal ==
    ASSUME NEW h \in Handle, NEW a \in Nat, NEW key \in 0..1,
           NEW l, l = NotifyLocals(h, a, key)
    PROVE  /\ l \in Local /\ l.handle = h /\ l.ActualSID = a /\ l.eventKey = key
  <1> DEFINE k1 == [NoLocal EXCEPT !.handle = h]
             k2 == [k1 EXCEPT !.ActualSID = a]
             k3 == [k2 EXCEPT !.eventKey = key]
  <1>1. k1 \in Local /\ k1.handle = h
    BY NoLocalType DEF NoLocal, Local, NoId
  <1> HIDE DEF k1
  <1>2. k2 \in Local /\ k2.handle = h /\ k2.ActualSID = a
    BY <1>1 DEF Local
  <1> HIDE DEF k2
  <1>3. k3 \in Local /\ k3.handle = h /\ k3.ActualSID = a /\ k3.eventKey = key
    BY <1>2 DEF Local
  <1> QED BY <1>3 DEF NotifyLocals, k1, k2

\* Nothing but the threads and the locks is changed by most of the steps.
Still == UNCHANGED <<handleVars, timerVars, lastSID, broken, bound, epoch, seen>>

\* Such a step leaves the lists as they were, while the publisher may make SIDs.
LEMMA ListsStill ==
    ASSUME IInv, Still, lastActual' \in Nat, lastActual' >= lastActual
    PROVE  ListsApart'
  <1>1. lastActual \in Nat
    BY DEF IInv, Types, TypeOK
  <1>2. SIDs' = SIDs
    BY DEF SIDs, Still
  <1>3. \A h \in Handle : \A i \in DOMAIN ClientSubList[h] :
           ClientSubList[h][i].ActualSID \in 1..lastActual'
    BY <1>1 DEF IInv, ListsApart
  <1> QED BY <1>2, <1>3 DEF IInv, ListsApart, Still, handleVars

\* It leaves the timer events to their subscriptions.
LEMMA EventsStill ==
    ASSUME IInv, Still, NEW t \in Thread, Others(t),
           pc'[t] \notin {"unregisterSend", "unsubscribeSent"}
    PROVE  EventsApart'
  <1>1. UNCHANGED <<SIDs, ClientSubList, timer, fired, lastEventId>>
    BY DEF SIDs, Still, handleVars, timerVars
  <1> QED BY <1>1 DEF IInv, EventsApart, Others

\* It makes no SID unknown that a thread is about to end.
LEMMA CallsStill ==
    ASSUME IInv, Still, NEW t \in Thread, Others(t), pc'[t] \notin Cancelling
    PROVE  CallsKnown'
  <1>1. UNCHANGED <<SIDs, seen>>
    BY DEF SIDs, Still
  <1> QED BY <1>1 DEF IInv, CallsKnown, Others, Cancelling

\* It takes no event away, nor a call that will renew or cancel.
LEMMA RenewalStill ==
    ASSUME IInv, Still, NEW t \in Thread, Others(t),
           pc[t] \notin {"renewSent", "unsubscribeRemove"}
    PROVE  RenewalUnderWay'
  <1>1. UNCHANGED <<ClientSubList, registered, seen, timer, fired, broken>>
    BY DEF Still, handleVars, timerVars
  <1> QED BY <1>1 DEF IInv, RenewalUnderWay, Others

\* It loses no subscription.
LEMMA LossStill ==
    ASSUME IInv, Still, NEW t \in Thread, Others(t), pc[t] # "renewFailed"
    PROVE  NoSilentLoss'
  <1>1. UNCHANGED <<SIDs, ClientSubList, registered, seen>>
    BY DEF SIDs, Still, handleVars
  <1>2. \A h, sid : HasSID(h, sid)' <=> HasSID(h, sid)
    BY <1>1 DEF HasSID
  <1> QED BY <1>1, <1>2 DEF IInv, NoSilentLoss, Others

\* It lets no initial event pass a client.
LEMMA WaitStill ==
    ASSUME IInv, Still, NEW t \in Thread, Others(t), UNCHANGED <<initial, rejected>>,
           pc'[t] \notin Notifying \cup {"subscribeSent"}
    PROVE  EventsWait'
  <1>1. UNCHANGED <<ClientSubList, registered, seen, epoch>>
    BY DEF Still, handleVars
  <1>2. \A a, h : NotPassed(a, h) => NotPassed(a, h)'
    BY DEF NotPassed, Others
  <1> QED BY <1>1, <1>2 DEF IInv, EventsWait, Others, Notifying

\* A step that brings the thread t to a place where it promises nothing new.
LEMMA QuietStep ==
    ASSUME IInv, Still, NEW t \in Thread, Others(t), UNCHANGED <<initial, rejected, lastActual>>,
           pc[t] \notin {"renewSent", "renewFailed", "unsubscribeRemove"},
           pc'[t] \in {"out", "subscribe", "subscribeLock", "subscribeInvalid",
                      "unregister", "unregisterFree"},
           Types', OneAsks'
    PROVE  IInv'
  <1>1. lastActual' \in Nat /\ lastActual' >= lastActual
    BY DEF IInv, Types, TypeOK
  <1> QED BY <1>1, ListsStill, EventsStill, CallsStill, RenewalStill, LossStill, WaitStill
          DEF IInv, Cancelling, Notifying

-----------------------------------------------------------------------------
(* Steps that change neither lists nor events *)

\* UpnpSubscribe() up to the check of the handle.
LEMMA SubscribeBegins ==
    ASSUME IInv, NEW t \in Thread, NEW h \in Handle, UpnpSubscribe(t, h)
    PROVE  IInv'
  <1>0. PICK l : l = SubscribeLocals(h, epoch[h])
    OBVIOUS
  <1>1. epoch[h] \in Nat
    BY DEF IInv, Types
  <1>2. l \in Local /\ l.handle = h /\ l.epoch = epoch[h] /\ l.ActualSID = 0
    BY <1>0, <1>1, SubscribeLocal
  <1>3. /\ pc' \in [Thread -> Pc] /\ local' \in [Thread -> Local]
        /\ pc'[t] = "subscribe" /\ local'[t] = l /\ Others(t)
    BY <1>0, <1>2, Moves DEF UpnpSubscribe, IInv, Pc, SubscribeLocals
  <1>4. /\ Still /\ pc[t] = "out"
        /\ UNCHANGED <<lockVars, initial, rejected, lastActual>>
    BY DEF UpnpSubscribe, Still, At, seenVars
  <1>5. Types'
    BY <1>2, <1>3, <1>4 DEF IInv, Types, TypeOK, Still, handleVars, timerVars, lockVars, Others
  <1>6. OneAsks'
    BY <1>1, <1>2, <1>3, <1>4 DEF IInv, OneAsks, Types, Others, Still, lockVars, Subscribing
  <1> QED BY <1>3, <1>4, <1>5, <1>6, QuietStep

\* The handle is checked, and an invalid one given back.
LEMMA SubscribeChecks ==
    ASSUME IInv, NEW t \in Thread, SubscribeCheck(t) \/ SubscribeInvalid(t) \/ SubscribeFails(t)
    PROVE  IInv'
  <1>1. /\ Still /\ UNCHANGED <<initial, rejected, lastActual>>
        /\ pc[t] \in {"subscribe", "subscribeInvalid", "subscribeSent"}
        /\ readers' \subseteq readers \cup {t}
    BY DEF SubscribeCheck, SubscribeInvalid, SubscribeFails, ErrorHandler, Still, At, seenVars,
           nameVars, handleVars, timerVars
  <1>2. CASE SubscribeCheck(t)
    <2>1. /\ pc' \in [Thread -> Pc] /\ local' = local /\ local' \in [Thread -> Local] /\ Others(t)
          /\ pc'[t] \in {"subscribeLock", "subscribeInvalid"}
          /\ subscribeLock' = subscribeLock /\ pc[t] = "subscribe"
      BY <1>2, MovesOn DEF SubscribeCheck, IInv, Pc, At
    <2>2. Types'
      BY <1>1, <2>1 DEF IInv, Types, TypeOK, Still, handleVars, timerVars, Others
    <2>3. OneAsks'
      BY <1>1, <2>1 DEF IInv, OneAsks, Types, Others, Still, Subscribing
    <2> QED BY <1>1, <2>1, <2>2, <2>3, QuietStep
  <1>3. CASE SubscribeInvalid(t) \/ SubscribeFails(t)
    <2>1. /\ pc' \in [Thread -> Pc] /\ local' \in [Thread -> Local] /\ Others(t)
          /\ pc'[t] = "out" /\ local'[t] = NoLocal
      BY <1>3, Moves, NoLocalType
         DEF SubscribeInvalid, SubscribeFails, ErrorHandler, Return, IInv, Pc
    <2>2. \/ subscribeLock' = subscribeLock /\ pc[t] = "subscribeInvalid"
          \/ subscribeLock' = Nobody /\ pc[t] = "subscribeSent"
      BY <1>3 DEF SubscribeInvalid, SubscribeFails, ErrorHandler, At
    <2>3. Types'
      BY <1>1, <2>1, <2>2, NoLocalType, LocalTypes DEF IInv, Types, TypeOK, Still, handleVars, timerVars, Others
    <2>4. OneAsks'
      BY <1>1, <2>1, <2>2 DEF IInv, OneAsks, Types, Others, Still, Subscribing
    <2> QED BY <1>1, <2>1, <2>3, <2>4, QuietStep
  <1> QED BY <1>2, <1>3

\* The request is sent with the mutex held, so no event for the new subscription
\* was looked for yet.
LEMMA SubscribeSends ==
    ASSUME IInv, NEW t \in Thread, SubscribeSend(t)
    PROVE  IInv'
  <1>1. /\ Still /\ UNCHANGED <<initial, rejected, readers>> /\ pc[t] = "subscribeLock"
        /\ subscribeLock = Nobody /\ subscribeLock' = t /\ pc'[t] = "subscribeSent"
        /\ pc' = [pc EXCEPT ![t] = "subscribeSent"]
    BY DEF SubscribeSend, Still, At, seenVars, Goto, GotoWith, IInv, Types
  <1>2. lastActual \in Nat /\ local[t] \in Local /\ local[t].ActualSID = 0 /\ bound.subs \in Nat
    BY <1>1, CtrlptAssumption DEF IInv, Types, TypeOK, OneAsks
  <1>3. ASSUME NEW a \in {0, lastActual + 1}, NEW l, l = [local[t] EXCEPT !.ActualSID = a],
               local' = [local EXCEPT ![t] = l], lastActual' = IF a = 0 THEN lastActual ELSE a,
               lastActual' \in 0..bound.subs
        PROVE  IInv'
    <2>1. l \in Local /\ l.handle = local[t].handle /\ l.epoch = local[t].epoch /\ l.ActualSID = a
      BY <1>2, <1>3 DEF Local
    <2>2. /\ pc' \in [Thread -> Pc] /\ local' \in [Thread -> Local]
          /\ local'[t] = l /\ Others(t)
      BY <1>1, <1>3, <2>1 DEF IInv, Types, Pc, Others
    <2>3. lastActual' \in Nat /\ lastActual' >= lastActual
      BY <1>2, <1>3
    <2>4. Types'
      BY <1>1, <1>2, <1>3, <2>1, <2>2, <2>3
         DEF IInv, Types, TypeOK, Still, handleVars, timerVars, Others
    <2>5. OneAsks'
      BY <1>1, <1>2, <1>3, <2>1, <2>2, <2>3, CtrlptAssumption
         DEF IInv, OneAsks, Types, TypeOK, Others, Still, Subscribing
    <2>6. EventsWait'
      <3>1. UNCHANGED <<ClientSubList, registered, seen, epoch, initial>>
        BY <1>1 DEF Still, handleVars
      <3>2. \A x, h : NotPassed(x, h) => NotPassed(x, h)'
        BY <1>1, <2>2 DEF NotPassed, Others, Notifying
      <3>3. \A x, h : x = lastActual + 1 => NotPassed(x, h)'
        <4>1. lastActual + 1 \notin initial
          BY <1>2 DEF IInv, Types, TypeOK
        <4>2. \A x \in Thread : pc'[x] \in Notifying => local'[x].ActualSID \in initial
          BY <1>1, <2>2 DEF IInv, EventsWait, Others, Notifying
        <4> QED BY <1>1, <4>1, <4>2 DEF NotPassed, IInv, Types
      <3> QED BY <1>1, <1>3, <2>1, <2>2, <3>1, <3>2, <3>3 DEF IInv, EventsWait, Others, Notifying
    <2> QED BY <1>1, <2>2, <2>3, <2>4, <2>5, <2>6, ListsStill, EventsStill, CallsStill,
               RenewalStill, LossStill DEF IInv, Cancelling
  <1>4. CASE Goto(t, "subscribeSent") /\ UNCHANGED lastActual
    <2> DEFINE l == [local[t] EXCEPT !.ActualSID = 0]
    <2>1. l = local[t]
      BY <1>2 DEF Local
    <2>2. local' = [local EXCEPT ![t] = l]
      BY <1>4, <2>1 DEF Goto, IInv, Types
    <2>3. lastActual' \in 0..bound.subs
      BY <1>1, <1>4 DEF IInv, Types, TypeOK, Still
    <2> QED BY <1>3, <1>4, <2>2, <2>3
  <1>5. CASE /\ lastActual < bound.subs /\ lastActual' = lastActual + 1
             /\ GotoWith(t, "subscribeSent", [local[t] EXCEPT !.ActualSID = lastActual'])
    <2>1. local' = [local EXCEPT ![t] = [local[t] EXCEPT !.ActualSID = lastActual + 1]]
      BY <1>5 DEF GotoWith
    <2>2. lastActual' \in 0..bound.subs /\ lastActual + 1 # 0
      BY <1>2, <1>5
    <2> QED BY <1>3, <1>5, <2>1, <2>2
  <1> QED BY <1>4, <1>5 DEF SubscribeSend

-----------------------------------------------------------------------------
(* Events of the publisher *)

\* A step of a thread that looks for the client of an event.
LEMMA NotifyStep ==
    ASSUME IInv, Still, NEW t \in Thread, Others(t), UNCHANGED <<lastActual, readers>>,
           pc[t] \in Notifying \cup {"out"}, pc'[t] \in Notifying \cup {"out"},
           pc' \in [Thread -> Pc], local' \in [Thread -> Local],
           pc'[t] # "out" => local'[t].handle \in Handle,
           \/ subscribeLock' = subscribeLock /\ pc'[t] # "notifyLocked" /\ pc[t] # "notifyLocked"
           \/ subscribeLock = Nobody /\ subscribeLock' = t
           \/ subscribeLock' = Nobody /\ pc[t] = "notifyLocked" /\ pc'[t] # "notifyLocked",
           initial' \subseteq 1..lastActual, rejected' \subseteq initial', EventsWait'
    PROVE  IInv'
  <1>1. lastActual' \in Nat /\ lastActual' >= lastActual
    BY DEF IInv, Types, TypeOK
  <1>2. local'[t] \in Local
    OBVIOUS
  <1>3. Types'
    BY <1>2, LocalTypes DEF IInv, Types, TypeOK, Still, handleVars, timerVars, Others
  <1>4. OneAsks'
    BY CtrlptAssumption DEF IInv, OneAsks, Types, Others, Still, Subscribing, Notifying
  <1> QED BY <1>1, <1>3, <1>4, ListsStill, EventsStill, CallsStill, RenewalStill, LossStill
          DEF IInv, Cancelling, Notifying

\* The loop goes on to the next handle, or ends after the last one.
LEMMA NextHandleMoves ==
    ASSUME IInv, NEW t \in Thread, pc[t] \in Notifying, NextHandle(t, local[t])
    PROVE  /\ pc' \in [Thread -> Pc] /\ local' \in [Thread -> Local] /\ Others(t)
           /\ \/ /\ pc'[t] = "notify" /\ rejected' = rejected
                 /\ local'[t].handle = local[t].handle + 1 /\ local'[t].handle \in Handle
                 /\ local'[t].ActualSID = local[t].ActualSID /\ local'[t].ok = local[t].ok
                 /\ local'[t].eventKey = local[t].eventKey
              \/ /\ pc'[t] = "out" /\ local[t].handle = NUM_HANDLE - 1
                 /\ rejected' = IF local[t].eventKey = 0 /\ ~local[t].ok
                                THEN rejected \cup {local[t].ActualSID} ELSE rejected
  <1>1. local[t] \in Local /\ local[t].handle \in Handle
    BY DEF IInv, Types, Notifying
  <1>2. CASE local[t].handle + 1 < NUM_HANDLE
    <2> DEFINE l == [local[t] EXCEPT !.handle = @ + 1]
    <2>1. /\ l \in Local /\ l.handle = local[t].handle + 1 /\ l.handle \in Handle
          /\ l.ActualSID = local[t].ActualSID /\ l.ok = local[t].ok
          /\ l.eventKey = local[t].eventKey
      <3>1. local[t].handle + 1 \in Handle
        BY <1>1, <1>2, CtrlptAssumption DEF Handle
      <3> QED BY <1>1, <3>1 DEF Local
    <2>2. GotoWith(t, "notify", l) /\ rejected' = rejected
      BY <1>2 DEF NextHandle
    <2> HIDE DEF l
    <2> QED BY <2>1, <2>2, Moves DEF IInv, Pc
  <1>3. CASE ~(local[t].handle + 1 < NUM_HANDLE)
    <2>1. local[t].handle = NUM_HANDLE - 1
      BY <1>1, <1>3, CtrlptAssumption DEF Handle
    <2>2. /\ Return(t)
          /\ rejected' = IF local[t].eventKey = 0 /\ ~local[t].ok
                         THEN rejected \cup {local[t].ActualSID} ELSE rejected
      BY <1>3 DEF NextHandle
    <2> QED BY <2>1, <2>2, Moves, NoLocalType DEF IInv, Pc, Return
  <1> QED BY <1>2, <1>3

\* An event that leaves a handle other than h, or for another subscription, or
\* that was delivered, does not pass h in vain.
LEMMA NextHandleWaits ==
    ASSUME IInv, NEW t \in Thread, pc[t] \in Notifying, NextHandle(t, local[t]),
           NEW a, NEW h \in Handle, NotPassed(a, h),
           local[t].eventKey = 0 /\ local[t].ActualSID = a /\ ~local[t].ok => local[t].handle # h
    PROVE  NotPassed(a, h)'
  <1>1. local[t].handle \in Handle /\ local[t].ok \in BOOLEAN
    BY LocalTypes DEF IInv, Types, Notifying
  <1>2. \A x \in Thread : x # t => pc'[x] = pc[x] /\ local'[x] = local[x]
    BY NextHandleMoves DEF Others
  <1>3. a \notin rejected'
    BY <1>1, NextHandleMoves, CtrlptAssumption DEF NotPassed, Handle
  <1>4. pc'[t] \in Notifying /\ local'[t].eventKey = 0 /\ local'[t].ActualSID = a =>
            local'[t].ok \/ local'[t].handle <= h
    BY <1>1, NextHandleMoves, CtrlptAssumption DEF NotPassed, Handle, Notifying
  <1> QED BY <1>2, <1>3, <1>4 DEF NotPassed

\* A thread that leaves a handle, which is not the client's, or has called it.
LEMMA LeavesHandle ==
    ASSUME IInv, Still, NEW t \in Thread, pc[t] \in Notifying, NextHandle(t, local[t]),
           UNCHANGED <<lastActual, readers, initial>>,
           \/ subscribeLock' = subscribeLock /\ pc[t] # "notifyLocked"
           \/ subscribeLock' = Nobody /\ pc[t] = "notifyLocked",
           \/ local[t].ok \/ local[t].eventKey # 0
           \/ local[t].handle \notin registered
           \/ pc[t] = "notifyLocked" /\ ~Found(local[t].handle, local[t].ActualSID)
    PROVE  IInv'
  <1>1. UNCHANGED <<ClientSubList, registered, seen, epoch>> /\ registered \subseteq Handle
    BY DEF Still, handleVars, IInv, Types, TypeOK
  <1>2. ASSUME NEW h \in registered, NEW i \in DOMAIN ClientSubList[h],
               seen[ClientSubList[h][i].SID].own
        PROVE  NotPassed(ClientSubList[h][i].ActualSID, h)'
    <2>1. NotPassed(ClientSubList[h][i].ActualSID, h)
      BY <1>2 DEF IInv, EventsWait
    <2>2. local[t].ActualSID = ClientSubList[h][i].ActualSID /\ local[t].handle = h
             => Found(local[t].handle, local[t].ActualSID)
      BY DEF Found, HasActualSID
    <2>3. PICK a : a = ClientSubList[h][i].ActualSID
      OBVIOUS
    <2>4. NotPassed(a, h)'
      BY <1>1, <2>1, <2>2, <2>3, NextHandleWaits
    <2> QED BY <1>1, <2>3, <2>4
  <1>3. ASSUME NEW x \in Thread, pc[x] = "subscribeSent", local[x].ActualSID # 0,
               local[x].handle \in registered, local[x].epoch = epoch[local[x].handle],
               NEW a, a = local[x].ActualSID, NEW h, h = local[x].handle
        PROVE  NotPassed(a, h)'
    <2>1. NotPassed(a, h) /\ h \in Handle
      BY <1>1, <1>3 DEF IInv, EventsWait
    <2>2. pc[t] # "notifyLocked"
      BY <1>3 DEF IInv, OneAsks
    <2> QED BY <1>3, <2>1, <2>2, NextHandleWaits
  <1>4. Others(t) /\ pc' \in [Thread -> Pc] /\ local' \in [Thread -> Local]
        /\ pc'[t] \in {"notify", "out"} /\ (pc'[t] = "notify" => local'[t].handle \in Handle)
        /\ (pc'[t] = "notify" => local'[t].ActualSID = local[t].ActualSID)
        /\ rejected' \subseteq rejected \cup {local[t].ActualSID}
    BY NextHandleMoves
  <1>5. local[t].ActualSID \in initial
    BY DEF IInv, EventsWait
  <1>6. EventsWait'
    <2>1. \A x \in Thread :
             /\ pc'[x] \in Notifying => local'[x].ActualSID \in initial'
             /\ pc'[x] = "callback" => local'[x].ok
      BY <1>4, <1>5 DEF IInv, EventsWait, Others, Notifying
    <2>2. \A x \in Thread : pc'[x] = "subscribeSent" => pc[x] = "subscribeSent" /\ local'[x] = local[x]
      BY <1>4 DEF Others
    <2> QED BY <1>1, <1>2, <1>3, <2>1, <2>2 DEF EventsWait
  <1>7. initial' \subseteq 1..lastActual /\ rejected' \subseteq initial'
    BY <1>4, <1>5 DEF IInv, Types, TypeOK
  <1> QED BY <1>4, <1>6, <1>7, NotifyStep DEF Notifying

\* A thread that stays at its handle, to call the client or to wait for the mutex.
LEMMA StaysAtHandle ==
    ASSUME IInv, Still, NEW t \in Thread, Others(t), UNCHANGED <<lastActual, readers, initial, rejected>>,
           pc[t] \in Notifying, pc'[t] \in Notifying,
           pc' \in [Thread -> Pc], local' \in [Thread -> Local],
           local'[t].handle = local[t].handle, local'[t].ActualSID = local[t].ActualSID,
           local'[t].eventKey = local[t].eventKey, local[t].ok => local'[t].ok,
           pc'[t] = "callback" => local'[t].ok,
           \/ subscribeLock' = subscribeLock /\ pc'[t] # "notifyLocked" /\ pc[t] # "notifyLocked"
           \/ subscribeLock = Nobody /\ subscribeLock' = t
           \/ subscribeLock' = Nobody /\ pc[t] = "notifyLocked" /\ pc'[t] # "notifyLocked"
    PROVE  IInv'
  <1>1. UNCHANGED <<ClientSubList, registered, seen, epoch>>
    BY DEF Still, handleVars
  <1>2. \A a, h : NotPassed(a, h) => NotPassed(a, h)'
    BY DEF NotPassed, Others
  <1>3. EventsWait'
    <2>1. \A x \in Thread :
             /\ pc'[x] \in Notifying => local'[x].ActualSID \in initial'
             /\ pc'[x] = "callback" => local'[x].ok
      BY DEF IInv, EventsWait, Others
    <2>2. \A x \in Thread : pc'[x] = "subscribeSent" => pc[x] = "subscribeSent" /\ local'[x] = local[x]
      BY DEF Others, Notifying
    <2> QED BY <1>1, <1>2, <2>1, <2>2 DEF IInv, EventsWait
  <1>4. initial' \subseteq 1..lastActual /\ rejected' \subseteq initial'
    BY DEF IInv, Types, TypeOK
  <1>5. local'[t].handle \in Handle
    BY DEF IInv, Types, Notifying
  <1> QED BY <1>3, <1>4, <1>5, NotifyStep

\* The callback is called for the handle the thread is at.
LEMMA CallbackMoves ==
    ASSUME IInv, NEW t \in Thread, pc[t] \in Notifying, ToCallback(t)
    PROVE  /\ pc' \in [Thread -> Pc] /\ local' \in [Thread -> Local] /\ Others(t)
           /\ pc'[t] = "callback" /\ local'[t].ok /\ rejected' = rejected
           /\ local'[t].handle = local[t].handle /\ local'[t].ActualSID = local[t].ActualSID
           /\ local'[t].eventKey = local[t].eventKey
  <1> DEFINE l == [local[t] EXCEPT !.ok = TRUE]
  <1>1. local[t] \in Local
    BY DEF IInv, Types
  <1>2. /\ l \in Local /\ l.ok /\ l.handle = local[t].handle
        /\ l.ActualSID = local[t].ActualSID /\ l.eventKey = local[t].eventKey
    BY <1>1 DEF Local
  <1>3. GotoWith(t, "callback", l) /\ rejected' = rejected
    BY DEF ToCallback
  <1> HIDE DEF l
  <1> QED BY <1>2, <1>3, Moves DEF IInv, Pc

\* The steps of gena_process_notification_event() after its begin.
LEMMA NotifySteps ==
    ASSUME IInv, NEW t \in Thread,
           NotifyLook(t) \/ NotifyLock(t) \/ NotifyLookAgain(t) \/ NotifyCallback(t)
    PROVE  IInv'
  <1>1. Still /\ UNCHANGED <<lastActual, readers, initial>>
    BY DEF NotifyLook, NotifyLock, NotifyLookAgain, NotifyCallback, Still, nameVars, lockVars, seenVars
  <1>2. CASE NotifyLook(t)
    <2>1. pc[t] = "notify" /\ subscribeLock' = subscribeLock /\ pc[t] \in Notifying
      BY <1>2 DEF NotifyLook, At, lockVars, Notifying
    <2>2. CASE ToCallback(t)
      BY <1>1, <2>1, <2>2, CallbackMoves, StaysAtHandle DEF Notifying
    <2>3. CASE Goto(t, "notifyLock") /\ UNCHANGED rejected
      BY <1>1, <2>1, <2>3, MovesOn, StaysAtHandle DEF Notifying, Pc, IInv
    <2>4. CASE NextHandle(t, local[t])
               /\ (local[t].handle \notin registered \/ local[t].eventKey # 0)
      BY <1>1, <2>1, <2>4, LeavesHandle
    <2> QED BY <1>2, <2>2, <2>3, <2>4 DEF NotifyLook
  <1>3. CASE NotifyLock(t)
    <2>1. pc[t] = "notifyLock" /\ subscribeLock = Nobody /\ subscribeLock' = t
          /\ Goto(t, "notifyLocked") /\ UNCHANGED rejected
      BY <1>3 DEF NotifyLock, At, seenVars
    <2> QED BY <1>1, <2>1, MovesOn, StaysAtHandle DEF Notifying, Pc, IInv
  <1>4. CASE NotifyLookAgain(t)
    <2>1. pc[t] = "notifyLocked" /\ subscribeLock' = Nobody /\ pc[t] \in Notifying
      BY <1>4 DEF NotifyLookAgain, At, Notifying
    <2>2. CASE Found(local[t].handle, local[t].ActualSID)
      <3>1. ToCallback(t)
        BY <1>4, <2>2 DEF NotifyLookAgain
      <3> QED BY <1>1, <2>1, <3>1, CallbackMoves, StaysAtHandle DEF Notifying
    <2>3. CASE ~Found(local[t].handle, local[t].ActualSID)
      <3>1. NextHandle(t, local[t])
        BY <1>4, <2>3 DEF NotifyLookAgain
      <3> QED BY <1>1, <2>1, <2>3, <3>1, LeavesHandle
    <2> QED BY <2>2, <2>3
  <1>5. CASE NotifyCallback(t)
    <2>1. pc[t] = "callback" /\ subscribeLock' = subscribeLock /\ pc[t] \in Notifying
          /\ NextHandle(t, local[t])
      BY <1>5 DEF NotifyCallback, At, lockVars, Notifying
    <2>2. local[t].ok
      BY <2>1 DEF IInv, EventsWait
    <2> QED BY <1>1, <2>1, <2>2, LeavesHandle
  <1> QED BY <1>2, <1>3, <1>4, <1>5

\* An event arrives.  Its search begins at the first handle there is, so an
\* initial event passes no client by.
LEMMA NotificationArrives ==
    ASSUME IInv, NEW t \in Thread, NEW actual \in 1..lastActual, NEW key \in 0..1,
           Notification(t, actual, key)
    PROVE  IInv'
  <1>1. /\ Still /\ UNCHANGED <<lastActual, readers, subscribeLock>> /\ pc[t] = "out"
        /\ initial' = initial \cup {actual} /\ (key = 0 => actual \notin initial)
    BY DEF Notification, Still, At, lockVars
  <1>2. UNCHANGED <<ClientSubList, registered, seen, epoch>> /\ registered \subseteq Handle
        /\ lastActual \in Nat /\ initial \subseteq 1..lastActual /\ rejected \subseteq initial
    BY <1>1 DEF Still, handleVars, IInv, Types, TypeOK
  <1>3. CASE registered = {}
    <2>1. /\ UNCHANGED <<pc, local>> /\ Others(t)
          /\ rejected' = IF key = 0 THEN rejected \cup {actual} ELSE rejected
      BY <1>3 DEF Notification, threadVars, Others
    <2>2. EventsWait'
      BY <1>1, <1>2, <1>3, <2>1 DEF IInv, EventsWait
    <2> QED BY <1>1, <1>2, <2>1, <2>2, NotifyStep DEF IInv, Types
  <1>4. CASE registered # {}
    <2>0. registered \subseteq Nat /\ actual \in Nat
      BY <1>2, CtrlptAssumption DEF Handle
    <2>1. Min(registered) \in registered /\ \A h \in registered : Min(registered) <= h
      BY <1>4, <2>0, LeastExists
    <2>m. PICK m \in Handle : m = Min(registered)
      BY <1>2, <2>1
    <2>l. PICK l : l = NotifyLocals(m, actual, key)
      OBVIOUS
    <2>2. l \in Local /\ l.handle = Min(registered) /\ l.ActualSID = actual /\ l.eventKey = key
      BY <2>0, <2>l, <2>m, NotifyLocal
    <2>3. GotoWith(t, "notify", l) /\ rejected' = rejected
      BY <1>4, <2>l, <2>m DEF Notification, NotifyLocals
    <2>4. /\ pc' \in [Thread -> Pc] /\ local' \in [Thread -> Local] /\ Others(t)
          /\ pc'[t] = "notify" /\ local'[t] = l
      BY <2>2, <2>3, Moves DEF IInv, Pc
    <2>5. ASSUME NEW a, NEW h \in registered, NotPassed(a, h) PROVE NotPassed(a, h)'
      BY <2>1, <2>2, <2>3, <2>4, <2>5 DEF NotPassed, Others
    <2>6. EventsWait'
      <3>1. \A x \in Thread :
               /\ pc'[x] \in Notifying => local'[x].ActualSID \in initial'
               /\ pc'[x] = "callback" => local'[x].ok
        BY <1>1, <2>2, <2>4 DEF IInv, EventsWait, Others
      <3>2. \A x \in Thread : pc'[x] = "subscribeSent" => pc[x] = "subscribeSent" /\ local'[x] = local[x]
        BY <2>4 DEF Others
      <3> QED BY <1>2, <2>5, <3>1, <3>2 DEF IInv, EventsWait
    <2>7. initial' \subseteq 1..lastActual /\ rejected' \subseteq initial'
      BY <1>1, <1>2, <2>3
    <2>8. pc'[t] \in Notifying \cup {"out"} /\ local'[t].handle \in Handle /\ pc'[t] # "notifyLocked"
          /\ pc[t] \in Notifying \cup {"out"} /\ pc[t] # "notifyLocked"
      BY <1>1, <1>2, <2>1, <2>2, <2>4 DEF Notifying
    <2> QED BY <1>1, <2>4, <2>6, <2>7, <2>8, NotifyStep
  <1> QED BY <1>3, <1>4

-----------------------------------------------------------------------------
(* A subscription leaves the list of its client *)

\* RemoveClientSubClientSID() takes out the subscription with that SID, if there
\* is one, and no other.
LEMMA WithoutSID ==
    ASSUME IInv, NEW h \in Handle, NEW sid, NEW w, w = Without(h, sid)
    PROVE  /\ w \in Seq(Subscription)
           /\ \A i \in DOMAIN w : /\ w[i].SID # sid
                                 /\ \E k \in DOMAIN ClientSubList[h] : w[i] = ClientSubList[h][k]
           /\ \A i, k \in DOMAIN w : w[i].SID = w[k].SID => i = k
           /\ \A k \in DOMAIN ClientSubList[h] :
                 ClientSubList[h][k].SID # sid => \E i \in DOMAIN w : w[i] = ClientSubList[h][k]
  <1> DEFINE list == ClientSubList[h]
             I == {i \in 1..Len(list) : list[i].SID = sid}
  <1>1. /\ list \in Seq(Subscription) /\ Len(list) \in Nat /\ DOMAIN list = 1..Len(list)
        /\ \A i, k \in DOMAIN list : list[i].SID = list[k].SID => i = k
    BY DEF IInv, Types, TypeOK, ListsApart
  <1>2. w = IF I # {} THEN RemoveAt(list, Min(I)) ELSE list
    BY DEF Without, RemoveFirstMatch, SelectInSeq
  <1> HIDE DEF list
  <1>3. CASE I = {}
    BY <1>1, <1>2, <1>3 DEF list
  <1>4. CASE I # {}
    <2>1. PICK n \in 1..Len(list) : n = Min(I) /\ list[n].SID = sid
      <3>1. I \subseteq Nat
        OBVIOUS
      <3>2. Min(I) \in I
        BY <1>4, <3>1, LeastExists
      <3> QED BY <3>2
    <2>2. w = RemoveAt(list, n)
      BY <1>2, <1>4, <2>1
    <2>3. /\ w \in Seq(Subscription) /\ Len(w) = Len(list) - 1
          /\ \A i \in 1..(Len(list) - 1) : w[i] = IF i < n THEN list[i] ELSE list[i + 1]
      <3>1. /\ RemoveAt(list, n) \in Seq(Subscription) /\ Len(RemoveAt(list, n)) = Len(list) - 1
            /\ \A i \in 1..(Len(list) - 1) :
                  RemoveAt(list, n)[i] = IF i < n THEN list[i] ELSE list[i + 1]
        BY <1>1, Removed
      <3> QED BY <2>2, <3>1
    <2>4. DOMAIN w = 1..(Len(list) - 1)
      BY <2>3
    <2>5. ASSUME NEW i \in DOMAIN w
          PROVE  \E k \in DOMAIN list : k # n /\ w[i] = list[k] /\ k = IF i < n THEN i ELSE i + 1
      BY <1>1, <2>3, <2>4
    <2>6. ASSUME NEW k \in DOMAIN list, list[k].SID # sid
          PROVE  \E i \in DOMAIN w : w[i] = list[k]
      <3>1. k \in 1..Len(list) /\ k # n
        BY <1>1, <2>1, <2>6
      <3>2. CASE k < n
        BY <1>1, <2>3, <2>4, <3>1, <3>2
      <3>3. CASE k > n
        <4>1. k - 1 \in 1..(Len(list) - 1) /\ ~(k - 1 < n) /\ (k - 1) + 1 = k
          BY <1>1, <3>1, <3>3
        <4> QED BY <2>3, <2>4, <4>1
      <3>4. k < n \/ k > n
        BY <1>1, <3>1
      <3> QED BY <3>2, <3>3, <3>4, Zenon
    <2>7. \A i \in DOMAIN w : w[i].SID # sid
      BY <1>1, <2>1, <2>5
    <2>8. ASSUME NEW i \in DOMAIN w, NEW k \in DOMAIN w, w[i].SID = w[k].SID PROVE i = k
      <3>1. (IF i < n THEN i ELSE i + 1) = (IF k < n THEN k ELSE k + 1)
        BY <1>1, <2>5, <2>8
      <3> QED BY <1>1, <2>4, <3>1
    <2> QED BY <2>3, <2>5, <2>6, <2>7, <2>8 DEF list
  <1> QED BY <1>3, <1>4

\* The observations of a SID whose end the client knows are kept.
LEMMA SettleSeen ==
    ASSUME IInv, NEW sid \in SIDs, Settle(sid)
    PROVE  /\ seen' \in [1..bound.subs -> Observed] /\ sid \in 1..bound.subs
           /\ seen'[sid].settled
           /\ \A x \in 1..bound.subs :
                 /\ seen'[x].handle = seen[x].handle /\ seen'[x].own = seen[x].own
                 /\ seen'[x].granted = seen[x].granted /\ seen'[x].refused = seen[x].refused
                 /\ seen[x].settled => seen'[x].settled
  <1>1. sid \in 1..bound.subs /\ seen \in [1..bound.subs -> Observed]
    BY CtrlptAssumption DEF IInv, Types, TypeOK, SIDs
  <1> DEFINE r == [seen[sid] EXCEPT !.settled = TRUE]
  <1>2. /\ r \in Observed /\ r.settled /\ r.handle = seen[sid].handle /\ r.own = seen[sid].own
        /\ r.granted = seen[sid].granted /\ r.refused = seen[sid].refused
    <2>1. seen[sid] \in Observed
      BY <1>1
    <2> QED BY <2>1 DEF Observed
  <1>3. seen' = [seen EXCEPT ![sid] = r]
    BY DEF Settle
  <1> HIDE DEF r
  <1> QED BY <1>1, <1>2, <1>3

\* What a step that only takes a subscription out of a list leaves alone.
OnlyLists == UNCHANGED <<registered, lockVars, lastEventId, fired, nameVars, broken,
                         epoch, bound, rejected>>

\* The observations on which a list depends.
SeenKept(S) ==
    \A x \in S :
        /\ seen'[x].handle = seen[x].handle /\ seen'[x].own = seen[x].own
        /\ seen'[x].granted = seen[x].granted /\ seen'[x].refused = seen[x].refused
        /\ seen[x].settled => seen'[x].settled

\* The subscription sid of the client h is removed by the thread t, which is the
\* one that renews or cancels it or that unregisters the client.  The client
\* knows, or will be told.
LEMMA RemovalStep ==
    ASSUME IInv, NEW t \in Thread, NEW h \in registered, NEW sid \in SIDs,
           RemoveClientSubClientSID(h, sid), OnlyLists, Others(t),
           pc' \in [Thread -> Pc], local' \in [Thread -> Local],
           pc'[t] # "out" => local'[t].handle \in Handle,
           pc[t] \in {"out", "unregister", "renewSent", "unsubscribeRemove"},
           pc[t] \in {"renewSent", "unsubscribeRemove"} => local[t].SID = sid,
           seen[sid].handle \in {h, 0},
           pc'[t] \in {"out", "unregisterSend", "renewFailed"},
           pc'[t] = "renewFailed" => local'[t] = local[t] /\ pc[t] = "renewSent",
           pc'[t] = "unregisterSend" => local'[t].RenewEventId < lastEventId
                                        /\ \A e \in timer' : e.id # local'[t].RenewEventId,
           \/ Settle(sid)
           \/ seen' = seen /\ pc'[t] = "renewFailed"
    PROVE  IInv'
  <1>0. PICK w : w = Without(h, sid)
    OBVIOUS
  <1>1. /\ h \in Handle /\ sid \in 1..bound.subs /\ ClientSubList \in [Handle -> Seq(Subscription)]
        /\ registered \subseteq Handle /\ SIDs \subseteq 1..bound.subs
    BY CtrlptAssumption DEF IInv, Types, TypeOK, SIDs
  <1>2. /\ w \in Seq(Subscription)
        /\ \A i \in DOMAIN w : /\ w[i].SID # sid
                              /\ \E k \in DOMAIN ClientSubList[h] : w[i] = ClientSubList[h][k]
        /\ \A i, k \in DOMAIN w : w[i].SID = w[k].SID => i = k
        /\ \A k \in DOMAIN ClientSubList[h] :
              ClientSubList[h][k].SID # sid => \E i \in DOMAIN w : w[i] = ClientSubList[h][k]
    BY <1>0, <1>1, WithoutSID
  <1>3. /\ ClientSubList' \in [Handle -> Seq(Subscription)] /\ ClientSubList'[h] = w
        /\ \A x \in Handle : x # h => ClientSubList'[x] = ClientSubList[x]
    BY <1>0, <1>1, <1>2 DEF RemoveClientSubClientSID
  <1>4. /\ \A x \in Handle : \A i \in DOMAIN ClientSubList'[x] :
              /\ \E k \in DOMAIN ClientSubList[x] : ClientSubList'[x][i] = ClientSubList[x][k]
              /\ x = h => ClientSubList'[x][i].SID # sid
        /\ \A x \in Handle : \A i, k \in DOMAIN ClientSubList'[x] :
              ClientSubList'[x][i].SID = ClientSubList'[x][k].SID => i = k
        /\ \A x \in Handle : \A k \in DOMAIN ClientSubList[x] :
              ClientSubList[x][k].SID # sid =>
                  \E i \in DOMAIN ClientSubList'[x] : ClientSubList'[x][i] = ClientSubList[x][k]
    <2>1. \A x \in Handle : \A i, k \in DOMAIN ClientSubList[x] :
              ClientSubList[x][i].SID = ClientSubList[x][k].SID => i = k
      BY DEF IInv, ListsApart
    <2>2. ASSUME NEW x \in Handle
          PROVE  /\ \A i \in DOMAIN ClientSubList'[x] :
                       /\ \E k \in DOMAIN ClientSubList[x] : ClientSubList'[x][i] = ClientSubList[x][k]
                       /\ x = h => ClientSubList'[x][i].SID # sid
                 /\ \A i, k \in DOMAIN ClientSubList'[x] :
                       ClientSubList'[x][i].SID = ClientSubList'[x][k].SID => i = k
                 /\ \A k \in DOMAIN ClientSubList[x] : ClientSubList[x][k].SID # sid =>
                       \E i \in DOMAIN ClientSubList'[x] : ClientSubList'[x][i] = ClientSubList[x][k]
      <3>1. CASE x = h
        <4>1. ClientSubList'[x] = w /\ ClientSubList[x] = ClientSubList[h]
          BY <1>3, <3>1
        <4> QED BY <1>2, <4>1
      <3>2. CASE x # h
        <4>1. ClientSubList'[x] = ClientSubList[x]
          BY <1>3, <3>2
        <4> QED BY <2>1, <3>2, <4>1, Zenon
      <3> QED BY <3>1, <3>2
    <2> QED BY <2>2, Zenon
  <1>5. /\ seen' \in [1..bound.subs -> Observed] /\ SeenKept(1..bound.subs)
        /\ seen'[sid].settled \/ (pc'[t] = "renewFailed" /\ local'[t].SID = sid)
    <2>1. CASE Settle(sid)
      BY <2>1, SettleSeen DEF SeenKept
    <2>2. CASE seen' = seen /\ pc'[t] = "renewFailed"
      BY <2>2 DEF SeenKept, IInv, Types
    <2> QED BY <2>1, <2>2
  <1>6. /\ UNCHANGED <<SIDs, registered, subscribeLock, readers, lastEventId, fired, lastSID,
                       lastActual, initial, broken, epoch, bound, rejected>>
        /\ timer' \subseteq timer
    BY DEF OnlyLists, SIDs, lockVars, nameVars, RemoveClientSubClientSID, TimerThreadRemove
  <1>7. Types'
    BY <1>3, <1>5, <1>6, LocalTypes DEF IInv, Types, TypeOK, Others
  <1>8. ListsApart'
    <2>1. \A x \in Handle \ registered : ClientSubList'[x] = <<>>
      BY <1>3 DEF IInv, ListsApart
    <2>2. \A x \in Handle : \A i \in DOMAIN ClientSubList'[x] :
             LET sub == ClientSubList'[x][i]
             IN  /\ sub.SID \in SIDs /\ seen'[sub.SID].handle = x
                 /\ sub.ActualSID \in 1..lastActual
      <3> SUFFICES ASSUME NEW x \in Handle, NEW i \in DOMAIN ClientSubList'[x],
                          NEW sub, sub = ClientSubList'[x][i]
                   PROVE  /\ sub.SID \in SIDs /\ seen'[sub.SID].handle = x
                          /\ sub.ActualSID \in 1..lastActual
        BY Zenon
      <3>1. PICK k \in DOMAIN ClientSubList[x] : sub = ClientSubList[x][k]
        BY <1>4
      <3>2. sub.SID \in SIDs /\ seen[sub.SID].handle = x /\ sub.ActualSID \in 1..lastActual
        BY <3>1 DEF IInv, ListsApart
      <3> QED BY <1>1, <1>5, <3>2 DEF SeenKept
    <2>3. \A x \in 1..bound.subs : seen'[x].handle \in registered \cup {0}
      BY <1>5 DEF IInv, ListsApart, SeenKept
    <2> QED BY <1>4, <1>6, <2>1, <2>2, <2>3 DEF ListsApart
  <1>9. EventsApart'
    <2>1. \A x \in Handle : \A i \in DOMAIN ClientSubList'[x] :
             LET sub == ClientSubList'[x][i]
             IN  /\ sub.RenewEventId < lastEventId
                 /\ \A e \in timer' : e.id = sub.RenewEventId => e.handle = x /\ e.SID = sub.SID
      BY <1>4, <1>6 DEF IInv, EventsApart
    <2> QED BY <1>6, <2>1 DEF IInv, EventsApart, Others
  <1>10. CallsKnown'
    <2>1. \A y \in Thread : pc'[y] \in Cancelling => pc[y] \in Cancelling /\ local'[y] = local[y]
      BY DEF Others, Cancelling
    <2>2. \A y \in Thread : pc[y] \in Cancelling =>
             local[y].SID \in SIDs /\ seen'[local[y].SID].handle \in {local[y].handle, 0}
      BY <1>1, <1>5 DEF IInv, CallsKnown, SeenKept
    <2> QED BY <1>6, <2>1, <2>2 DEF CallsKnown
  <1>11. OneAsks'
    BY <1>6 DEF IInv, OneAsks, Others, Subscribing
  <1>12. EventsWait'
    <2>1. \A a, x : NotPassed(a, x) => NotPassed(a, x)'
      BY <1>6 DEF NotPassed, Others, Notifying
    <2>2. ASSUME NEW x \in registered, NEW i \in DOMAIN ClientSubList'[x],
                 seen'[ClientSubList'[x][i].SID].own
          PROVE  \A a : a = ClientSubList'[x][i].ActualSID => NotPassed(a, x)'
      <3>1. PICK k \in DOMAIN ClientSubList[x] : ClientSubList'[x][i] = ClientSubList[x][k]
        BY <1>1, <1>4
      <3>2. seen[ClientSubList[x][k].SID].own
        <4>1. ClientSubList[x][k].SID \in 1..bound.subs
          BY <1>1 DEF IInv, ListsApart
        <4> QED BY <1>5, <2>2, <3>1, <4>1 DEF SeenKept
      <3>3. NotPassed(ClientSubList[x][k].ActualSID, x)
        BY <3>2 DEF IInv, EventsWait
      <3> QED BY <2>1, <3>1, <3>3
    <2> QED BY <1>6, <2>1, <2>2 DEF IInv, EventsWait, Others, Notifying
  <1>13. RenewalUnderWay'
    <2> SUFFICES ASSUME ~broken, NEW x \in registered, NEW i \in DOMAIN ClientSubList'[x],
                        NEW s, s = ClientSubList'[x][i].SID
                 PROVE  \/ seen'[s].granted = "infinite"
                        \/ seen'[s].refused
                        \/ \E e \in timer' \cup fired : e.handle = x /\ e.SID = s
                        \/ \E y \in Thread : /\ local'[y].handle = x /\ local'[y].SID = s
                                             /\ pc'[y] \in {"renewSent", "unsubscribeRemove"}
      BY <1>6 DEF RenewalUnderWay
    <2>1. PICK k \in DOMAIN ClientSubList[x] : ClientSubList'[x][i] = ClientSubList[x][k]
      BY <1>1, <1>4
    <2>2. s \in SIDs /\ s # sid /\ seen[s].handle = x
      <3>1. s \in SIDs /\ seen[s].handle = x
        BY <1>1, <2>1 DEF IInv, ListsApart
      <3>2. CASE x = h
        BY <1>1, <1>4, <3>1, <3>2
      <3>3. CASE x # h
        <4>1. 0 \notin Handle
          BY DEF Handle
        <4> QED BY <1>1, <3>1, <3>3, <4>1
      <3> QED BY <3>2, <3>3
    <2>3. \/ seen[s].granted = "infinite"
          \/ seen[s].refused
          \/ \E e \in timer \cup fired : e.handle = x /\ e.SID = s
          \/ \E y \in Thread : /\ local[y].handle = x /\ local[y].SID = s
                               /\ pc[y] \in {"renewSent", "unsubscribeRemove"}
      BY <2>1 DEF IInv, RenewalUnderWay
    <2>4. \A e \in timer : e.SID = s => e \in timer'
      <3>1. \A e \in timer : e.id \in EventsOf(h, sid) => e.SID = sid
        BY <1>1 DEF IInv, EventsApart, EventsOf, ToSet
      <3> QED BY <2>2, <3>1 DEF RemoveClientSubClientSID, TimerThreadRemove
    <2> QED BY <1>1, <1>5, <1>6, <2>2, <2>3, <2>4 DEF SeenKept, Others
  <1>14. NoSilentLoss'
    <2> SUFFICES ASSUME NEW s \in SIDs, NEW x \in registered, x = seen'[s].handle
                 PROVE  \/ \E i \in DOMAIN ClientSubList'[x] : ClientSubList'[x][i].SID = s
                        \/ seen'[s].settled
                        \/ \E y \in Thread : pc'[y] = "renewFailed" /\ local'[y].SID = s
      BY <1>6 DEF NoSilentLoss, HasSID
    <2>0. x \in Handle
      BY <1>1
    <2>1. seen'[s].handle = seen[s].handle
      BY <1>1, <1>5 DEF SeenKept
    <2>2. CASE s = sid
      BY <1>5, <2>2
    <2>3. CASE s # sid /\ HasSID(seen[s].handle, s)
      <3>1. \E i \in DOMAIN ClientSubList'[x] : ClientSubList'[x][i].SID = s
        <4>1. PICK k \in DOMAIN ClientSubList[x] : ClientSubList[x][k].SID = s
          BY <2>1, <2>3 DEF HasSID
        <4> QED BY <1>4, <2>0, <2>3, <4>1
      <3> QED BY <3>1
    <2>4. CASE s # sid /\ ~HasSID(seen[s].handle, s)
      <3>1. \/ seen[s].settled
            \/ \E y \in Thread : pc[y] = "renewFailed" /\ local[y].SID = s
        BY <2>1, <2>4 DEF IInv, NoSilentLoss
      <3>2. CASE seen[s].settled
        BY <1>1, <1>5, <3>2 DEF SeenKept
      <3>3. CASE \E y \in Thread : pc[y] = "renewFailed" /\ local[y].SID = s
        <4>1. PICK y \in Thread : pc[y] = "renewFailed" /\ local[y].SID = s
          BY <3>3
        <4>2. pc'[y] = "renewFailed" /\ local'[y].SID = s
          BY <4>1 DEF Others
        <4> QED BY <4>2
      <3> QED BY <3>1, <3>2, <3>3
    <2> QED BY <2>2, <2>3, <2>4
  <1> QED BY <1>7, <1>8, <1>9, <1>10, <1>11, <1>12, <1>13, <1>14 DEF IInv

\* genaUnregisterClient() up to a request.  The event of the subscription it takes
\* is removed with it.
LEMMA UnregisterTakes ==
    ASSUME IInv, NEW t \in Thread, NEW h \in Handle, UnregisterTake(t, h),
           pc[t] \in {"out", "unregister"}
    PROVE  IInv'
  <1>1. CASE h \notin registered /\ Return(t) /\ UNCHANGED <<ClientSubList, timer, seen>>
    <2>1. /\ Still /\ UNCHANGED <<initial, rejected, lastActual, subscribeLock, readers>>
      BY <1>1 DEF UnregisterTake, Still, handleVars, timerVars, nameVars, lockVars
    <2>2. /\ pc' \in [Thread -> Pc] /\ local' \in [Thread -> Local] /\ Others(t)
          /\ pc'[t] = "out" /\ local'[t] = NoLocal
      BY <1>1, Moves, NoLocalType DEF Return, IInv, Pc
    <2>3. Types'
      BY <2>1, <2>2, NoLocalType, LocalTypes DEF IInv, Types, TypeOK, Still, handleVars, timerVars, Others
    <2>4. OneAsks'
      BY <2>1, <2>2 DEF IInv, OneAsks, Others, Still, Subscribing
    <2> QED BY <2>1, <2>2, <2>3, <2>4, QuietStep
  <1>2. CASE /\ GotoWith(t, "unregisterFree", [NoLocal EXCEPT !.handle = h])
             /\ UNCHANGED <<ClientSubList, timer, seen>>
    <2>1. /\ Still /\ UNCHANGED <<initial, rejected, lastActual, subscribeLock, readers>>
      BY <1>2 DEF UnregisterTake, Still, handleVars, timerVars, nameVars, lockVars
    <2> DEFINE l == [NoLocal EXCEPT !.handle = h]
    <2>2. l \in Local /\ l.handle = h
      BY NoLocalType DEF NoLocal, Local, NoId
    <2>3. GotoWith(t, "unregisterFree", l)
      BY <1>2
    <2> HIDE DEF l
    <2>4. /\ pc' \in [Thread -> Pc] /\ local' \in [Thread -> Local] /\ Others(t)
          /\ pc'[t] = "unregisterFree" /\ local'[t] = l
      BY <2>2, <2>3, Moves DEF IInv, Pc
    <2>5. Types'
      BY <2>1, <2>2, <2>4 DEF IInv, Types, TypeOK, Still, handleVars, timerVars, Others
    <2>6. OneAsks'
      BY <2>1, <2>4 DEF IInv, OneAsks, Others, Still, Subscribing
    <2> QED BY <2>1, <2>4, <2>5, <2>6, QuietStep
  <1>3. ASSUME h \in registered, ClientSubList[h] # <<>>,
               NEW sub, sub = Head(ClientSubList[h]),
               RemoveClientSubClientSID(h, sub.SID), Settle(sub.SID),
               GotoWith(t, "unregisterSend",
                       [NoLocal EXCEPT !.handle = h, !.RenewEventId = sub.RenewEventId])
        PROVE  IInv'
    <2>1. OnlyLists
      BY DEF UnregisterTake, OnlyLists
    <2>2. /\ 1 \in DOMAIN ClientSubList[h] /\ sub = ClientSubList[h][1]
          /\ sub \in Subscription
      <3>1. ClientSubList[h] \in Seq(Subscription)
        BY DEF IInv, Types, TypeOK
      <3> QED BY <1>3, <3>1
    <2>3. /\ sub.RenewEventId \in Int /\ sub.RenewEventId < lastEventId
          /\ sub.SID \in SIDs /\ seen[sub.SID].handle = h
      BY <2>2 DEF IInv, ListsApart, EventsApart, Subscription
    <2>4. PICK l : l = UnregisterLocals(h, sub.RenewEventId)
      OBVIOUS
    <2>5. l \in Local /\ l.handle = h /\ l.RenewEventId = sub.RenewEventId
      BY <2>3, <2>4, UnregisterLocal
    <2>6. /\ pc' \in [Thread -> Pc] /\ local' \in [Thread -> Local]
          /\ pc'[t] = "unregisterSend" /\ local'[t] = l /\ Others(t)
      BY <1>3, <2>4, <2>5, Moves DEF IInv, Pc, UnregisterLocals
    <2>7. \A e \in timer' : e.id # sub.RenewEventId
      BY <1>3, <2>2 DEF RemoveClientSubClientSID, TimerThreadRemove, EventsOf, ToSet
    <2>8. local'[t].handle \in Handle /\ local'[t].RenewEventId < lastEventId
          /\ \A e \in timer' : e.id # local'[t].RenewEventId
      BY <2>3, <2>5, <2>6, <2>7
    <2>9. PICK s \in SIDs : s = sub.SID
      BY <2>3
    <2> QED BY <1>3, <2>1, <2>3, <2>6, <2>8, <2>9, RemovalStep
  <1> QED BY <1>1, <1>2, <1>3 DEF UnregisterTake

\* UpnpUnRegisterClient() begins, or goes on with the next subscription.
LEMMA UnregisterSteps ==
    ASSUME IInv, NEW t \in Thread,
           UnregisterNext(t) \/ \E h \in Handle : UpnpUnRegisterClient(t, h)
    PROVE  IInv'
  <1>1. CASE UnregisterNext(t)
    <2>1. pc[t] = "unregister" /\ local[t].handle \in Handle
      BY <1>1 DEF UnregisterNext, At, IInv, Types
    <2> QED BY <1>1, <2>1, UnregisterTakes DEF UnregisterNext
  <1>2. ASSUME NEW h \in Handle, UpnpUnRegisterClient(t, h) PROVE IInv'
    BY <1>2, UnregisterTakes DEF UpnpUnRegisterClient, At
  <1> QED BY <1>1, <1>2

\* The answer to UNSUBSCRIBE of genaUnregisterClient(): the event of the copy is
\* not in the timer any more.
LEMMA UnregisterAnswered ==
    ASSUME IInv, NEW t \in Thread, UnregisterSent(t)
    PROVE  IInv'
  <1> DEFINE l == [local[t] EXCEPT !.RenewEventId = NoId]
  <1>1. pc[t] = "unregisterSend" /\ local[t] \in Local /\ local[t].handle \in Handle
    BY DEF UnregisterSent, At, IInv, Types
  <1>2. l \in Local /\ l.handle = local[t].handle
    BY <1>1 DEF Local, NoId
  <1>3. GotoWith(t, "unregister", l)
    BY DEF UnregisterSent
  <1> HIDE DEF l
  <1>4. /\ pc' \in [Thread -> Pc] /\ local' \in [Thread -> Local] /\ Others(t)
        /\ pc'[t] = "unregister" /\ local'[t] = l
    BY <1>2, <1>3, Moves DEF IInv, Pc
  <1>5. timer' = timer
    BY <1>1 DEF UnregisterSent, TimerThreadRemove, IInv, EventsApart
  <1>6. /\ Still /\ UNCHANGED <<initial, rejected, lastActual, subscribeLock, readers>>
    BY <1>5 DEF UnregisterSent, Still, timerVars, nameVars, lockVars, seenVars
  <1>7. Types'
    BY <1>1, <1>2, <1>4, <1>6 DEF IInv, Types, TypeOK, Still, handleVars, timerVars, Others
  <1>8. OneAsks'
    BY <1>4, <1>6 DEF IInv, OneAsks, Others, Still, Subscribing
  <1> QED BY <1>1, <1>4, <1>6, <1>7, <1>8, QuietStep

\* FreeHandle(): the list goes with the handle, and its SIDs are forgotten.
LEMMA UnregisterEnds ==
    ASSUME IInv, NEW t \in Thread, UnregisterFree(t)
    PROVE  IInv'
  <1>1. /\ pc[t] = "unregisterFree" /\ local[t].handle \in Handle
        /\ ClientSubList \in [Handle -> Seq(Subscription)] /\ registered \subseteq Handle
        /\ seen \in [1..bound.subs -> Observed]
        /\ SIDs \subseteq 1..bound.subs
    BY CtrlptAssumption DEF UnregisterFree, At, IInv, Types, TypeOK, SIDs
  <1>2. PICK h \in Handle : h = local[t].handle
    BY <1>1
  <1>3. /\ pc' \in [Thread -> Pc] /\ local' \in [Thread -> Local] /\ Others(t)
        /\ pc'[t] = "out" /\ local'[t] = NoLocal
    BY Moves, NoLocalType DEF UnregisterFree, Return, IInv, Pc
  <1>4. /\ registered' = registered \ {h} /\ ClientSubList' = [ClientSubList EXCEPT ![h] = <<>>]
        /\ seen' = [x \in 1..bound.subs |-> IF seen[x].handle = h THEN NotSeen ELSE seen[x]]
        /\ UNCHANGED <<SIDs, subscribeLock, readers, timer, lastEventId, fired, lastSID,
                       lastActual, initial, broken, epoch, bound, rejected>>
    BY <1>1, <1>2 DEF UnregisterFree, lockVars, timerVars, nameVars, SIDs
  <1>5. /\ ClientSubList' \in [Handle -> Seq(Subscription)] /\ ClientSubList'[h] = <<>>
        /\ \A x \in Handle : x # h => ClientSubList'[x] = ClientSubList[x]
    BY <1>1, <1>4
  <1>6. /\ seen' \in [1..bound.subs -> Observed]
        /\ \A x \in 1..bound.subs : seen'[x].handle = h => seen[x].handle = 0 \/ h = 0
        /\ \A x \in 1..bound.subs : seen'[x].handle \in {seen[x].handle, 0}
        /\ \A x \in 1..bound.subs : seen[x].handle # h => seen'[x] = seen[x]
    <2>1. NotSeen \in Observed /\ NotSeen.handle = 0
      BY DEF NotSeen, Observed, TimeOuts
    <2>2. seen' \in [1..bound.subs -> Observed]
      BY <1>1, <1>4, <2>1
    <2>3. \A x \in 1..bound.subs : seen'[x] = IF seen[x].handle = h THEN NotSeen ELSE seen[x]
      BY <1>4
    <2> QED BY <2>1, <2>2, <2>3
  <1>7. Types'
    BY <1>3, <1>4, <1>5, <1>6, NoLocalType, LocalTypes DEF IInv, Types, TypeOK, Others
  <1>8. ListsApart'
    <2>1. \A x \in Handle \ registered' : ClientSubList'[x] = <<>>
      BY <1>4, <1>5 DEF IInv, ListsApart
    <2>2. \A x \in Handle : \A i \in DOMAIN ClientSubList'[x] :
             LET sub == ClientSubList'[x][i]
             IN  /\ sub.SID \in SIDs /\ seen'[sub.SID].handle = x
                 /\ sub.ActualSID \in 1..lastActual
      <3> SUFFICES ASSUME NEW x \in Handle, NEW i \in DOMAIN ClientSubList'[x],
                          NEW sub, sub = ClientSubList'[x][i]
                   PROVE  /\ sub.SID \in SIDs /\ seen'[sub.SID].handle = x
                          /\ sub.ActualSID \in 1..lastActual
        BY Zenon
      <3>1. x # h /\ i \in DOMAIN ClientSubList[x] /\ sub = ClientSubList[x][i]
        BY <1>5
      <3>2. sub.SID \in SIDs /\ seen[sub.SID].handle = x /\ sub.ActualSID \in 1..lastActual
        BY <3>1 DEF IInv, ListsApart
      <3> QED BY <1>1, <1>6, <3>1, <3>2
    <2>3. \A x \in Handle : \A i, k \in DOMAIN ClientSubList'[x] :
             ClientSubList'[x][i].SID = ClientSubList'[x][k].SID => i = k
      BY <1>5 DEF IInv, ListsApart
    <2>4. \A x \in 1..bound.subs : seen'[x].handle \in registered' \cup {0}
      BY <1>4, <1>6 DEF IInv, ListsApart
    <2>5. UNCHANGED <<SIDs, lastActual, bound>>
      BY <1>4
    <2> QED BY <2>1, <2>2, <2>3, <2>4, <2>5 DEF ListsApart
  <1>9. EventsApart'
    <2>1. \A x \in Handle : \A i \in DOMAIN ClientSubList'[x] :
             LET sub == ClientSubList'[x][i]
             IN  /\ sub.RenewEventId < lastEventId
                 /\ \A e \in timer : e.id = sub.RenewEventId => e.handle = x /\ e.SID = sub.SID
      BY <1>5 DEF IInv, EventsApart
    <2> QED BY <1>3, <1>4, <2>1 DEF IInv, EventsApart, Others
  <1>10. CallsKnown'
    <2>1. \A y \in Thread : pc'[y] \in Cancelling => pc[y] \in Cancelling /\ local'[y] = local[y]
      BY <1>3 DEF Others, Cancelling
    <2>2. \A y \in Thread : pc[y] \in Cancelling =>
             local[y].SID \in SIDs /\ seen'[local[y].SID].handle \in {local[y].handle, 0}
      BY <1>1, <1>6 DEF IInv, CallsKnown
    <2> QED BY <1>4, <2>1, <2>2 DEF CallsKnown
  <1>11. OneAsks'
    BY <1>1, <1>3, <1>4 DEF IInv, OneAsks, Others, Subscribing
  <1>12. EventsWait'
    <2>1. \A a, x : NotPassed(a, x) => NotPassed(a, x)'
      BY <1>1, <1>3, <1>4 DEF NotPassed, Others, Notifying
    <2>2. ASSUME NEW x \in registered', NEW i \in DOMAIN ClientSubList'[x],
                 seen'[ClientSubList'[x][i].SID].own
          PROVE  \A a : a = ClientSubList'[x][i].ActualSID => NotPassed(a, x)'
      <3>1. x \in registered /\ x \in Handle /\ x # h /\ ClientSubList'[x] = ClientSubList[x]
        BY <1>1, <1>4, <1>5
      <3>2. ClientSubList[x][i].SID \in 1..bound.subs /\ seen[ClientSubList[x][i].SID].handle = x
        BY <1>1, <2>2, <3>1 DEF IInv, ListsApart
      <3>3. seen[ClientSubList[x][i].SID].own
        BY <1>6, <2>2, <3>1, <3>2
      <3>4. NotPassed(ClientSubList[x][i].ActualSID, x)
        BY <2>2, <3>1, <3>3 DEF IInv, EventsWait
      <3> QED BY <2>1, <3>1, <3>4
    <2>3. \A y \in Thread :
             /\ pc'[y] \in Notifying => local'[y].ActualSID \in initial'
             /\ pc'[y] = "callback" => local'[y].ok
      BY <1>3, <1>4 DEF IInv, EventsWait, Others, Notifying
    <2>4. \A y \in Thread : pc'[y] = "subscribeSent" => pc[y] = "subscribeSent" /\ local'[y] = local[y]
      BY <1>3 DEF Others
    <2>5. \A y \in Thread : local[y].handle \in registered' => local[y].handle \in registered
      BY <1>4
    <2>6. epoch' = epoch
      BY <1>4
    <2>7. ASSUME NEW y \in Thread, pc'[y] = "subscribeSent", local'[y].ActualSID # 0,
                 local'[y].handle \in registered', local'[y].epoch = epoch'[local'[y].handle]
          PROVE  \A a, x : a = local'[y].ActualSID /\ x = local'[y].handle => NotPassed(a, x)'
      BY <2>1, <2>4, <2>5, <2>6, <2>7 DEF IInv, EventsWait
    <2> QED BY <2>2, <2>3, <2>7 DEF EventsWait
  <1>13. RenewalUnderWay'
    <2> SUFFICES ASSUME ~broken, NEW x \in registered', NEW i \in DOMAIN ClientSubList'[x],
                        NEW s, s = ClientSubList'[x][i].SID
                 PROVE  \/ seen'[s].granted = "infinite"
                        \/ seen'[s].refused
                        \/ \E e \in timer \cup fired : e.handle = x /\ e.SID = s
                        \/ \E y \in Thread : /\ local'[y].handle = x /\ local'[y].SID = s
                                             /\ pc'[y] \in {"renewSent", "unsubscribeRemove"}
      BY <1>4 DEF RenewalUnderWay
    <2>1. x \in registered /\ x \in Handle /\ x # h /\ ClientSubList'[x] = ClientSubList[x]
      BY <1>1, <1>4, <1>5
    <2>2. s \in 1..bound.subs /\ seen[s].handle = x
      BY <1>1, <2>1 DEF IInv, ListsApart
    <2>3. seen'[s] = seen[s]
      BY <1>6, <2>1, <2>2
    <2>4. \/ seen[s].granted = "infinite"
          \/ seen[s].refused
          \/ \E e \in timer \cup fired : e.handle = x /\ e.SID = s
          \/ \E y \in Thread : /\ local[y].handle = x /\ local[y].SID = s
                               /\ pc[y] \in {"renewSent", "unsubscribeRemove"}
      BY <2>1 DEF IInv, RenewalUnderWay
    <2> QED BY <1>1, <1>3, <2>3, <2>4 DEF Others
  <1>14. NoSilentLoss'
    <2> SUFFICES ASSUME NEW s \in SIDs, NEW x \in registered', x = seen'[s].handle
                 PROVE  \/ \E i \in DOMAIN ClientSubList'[x] : ClientSubList'[x][i].SID = s
                        \/ seen'[s].settled
                        \/ \E y \in Thread : pc'[y] = "renewFailed" /\ local'[y].SID = s
      BY <1>4 DEF NoSilentLoss, HasSID
    <2>0. x \in Handle /\ x # h /\ x \in registered /\ s \in 1..bound.subs /\ x # 0
      BY <1>1, <1>4 DEF Handle
    <2>1. seen'[s] = seen[s] /\ ClientSubList'[x] = ClientSubList[x]
      BY <1>5, <1>6, <2>0
    <2>2. \/ \E i \in DOMAIN ClientSubList[x] : ClientSubList[x][i].SID = s
          \/ seen[s].settled
          \/ \E y \in Thread : pc[y] = "renewFailed" /\ local[y].SID = s
      BY <2>0, <2>1 DEF IInv, NoSilentLoss, HasSID
    <2> QED BY <1>1, <1>3, <2>1, <2>2 DEF Others
  <1> QED BY <1>7, <1>8, <1>9, <1>10, <1>11, <1>12, <1>13, <1>14 DEF IInv

\* A handle is given out: its list is empty, and calls for an earlier
\* registration of it know an earlier epoch.
LEMMA RegisterStep ==
    ASSUME IInv, UpnpRegisterClient
    PROVE  IInv'
  <1>1. /\ registered \subseteq Handle /\ registered # Handle /\ Handle \subseteq Nat
        /\ ClientSubList \in [Handle -> Seq(Subscription)] /\ epoch \in [Handle -> Nat]
        /\ 0 \notin Handle /\ SIDs \subseteq 1..bound.subs
    BY CtrlptAssumption DEF UpnpRegisterClient, IInv, Types, TypeOK, Handle, SIDs
  <1>2. PICK h \in Handle \ registered : h = Min(Handle \ registered)
    <2>1. Handle \ registered \subseteq Nat /\ Handle \ registered # {}
      BY <1>1
    <2> QED BY <2>1, LeastExists
  <1>3. /\ registered' = registered \cup {h} /\ ClientSubList' = [ClientSubList EXCEPT ![h] = <<>>]
        /\ epoch' = [epoch EXCEPT ![h] = @ + 1]
        /\ UNCHANGED <<SIDs, subscribeLock, readers, pc, local, timer, lastEventId, fired, lastSID,
                       lastActual, initial, broken, bound, seen, rejected>>
    BY <1>2 DEF UpnpRegisterClient, lockVars, threadVars, timerVars, nameVars, SIDs
  <1>4. ClientSubList[h] = <<>>
    BY <1>2 DEF IInv, ListsApart
  <1>5. ClientSubList' = ClientSubList
    BY <1>1, <1>3, <1>4
  <1>6. /\ epoch' \in [Handle -> Nat] /\ epoch'[h] = epoch[h] + 1
        /\ \A x \in Handle : epoch'[x] >= epoch[x] /\ (x # h => epoch'[x] = epoch[x])
    BY <1>1, <1>3
  <1>7. Types'
    BY <1>1, <1>3, <1>5, <1>6 DEF IInv, Types, TypeOK
  <1>8. ListsApart'
    BY <1>3, <1>4, <1>5 DEF IInv, ListsApart
  <1>9. EventsApart' /\ CallsKnown'
    BY <1>3, <1>5 DEF IInv, EventsApart, CallsKnown
  <1>10. OneAsks'
    <2>1. \A y \in Thread : pc[y] \in Subscribing =>
              local[y].handle \in Handle /\ local[y].epoch \in Nat
      BY LocalTypes DEF IInv, Types, Subscribing
    <2>2. \A y \in Thread : pc[y] \in Subscribing => local[y].epoch <= epoch'[local[y].handle]
      <3> SUFFICES ASSUME NEW y \in Thread, pc[y] \in Subscribing
                   PROVE  local[y].epoch <= epoch'[local[y].handle]
        OBVIOUS
      <3>1. local[y].epoch <= epoch[local[y].handle]
        BY DEF IInv, OneAsks
      <3>2. epoch[local[y].handle] <= epoch'[local[y].handle]
        BY <1>6, <2>1
      <3>3. epoch[local[y].handle] \in Nat /\ epoch'[local[y].handle] \in Nat /\ local[y].epoch \in Nat
        BY <1>1, <1>6, <2>1
      <3> QED BY <3>1, <3>2, <3>3
    <2> QED BY <1>3, <2>2 DEF IInv, OneAsks
  <1>11. EventsWait'
    <2>1. \A a, x : NotPassed(a, x) => NotPassed(a, x)'
      BY <1>3 DEF NotPassed
    <2>2. \A y \in Thread : pc[y] = "subscribeSent" /\ local[y].epoch = epoch'[local[y].handle] =>
              local[y].handle # h /\ local[y].epoch = epoch[local[y].handle]
      <3>1. \A y \in Thread : pc[y] = "subscribeSent" =>
               /\ local[y].handle \in Handle /\ local[y].epoch \in Nat
               /\ local[y].epoch <= epoch[local[y].handle]
        BY LocalTypes DEF IInv, Types, OneAsks, Subscribing
      <3> SUFFICES ASSUME NEW y \in Thread, pc[y] = "subscribeSent",
                          local[y].epoch = epoch'[local[y].handle]
                   PROVE  local[y].handle # h /\ local[y].epoch = epoch[local[y].handle]
        OBVIOUS
      <3>2. CASE local[y].handle = h
        <4>1. epoch[h] \in Nat /\ local[y].epoch \in Nat /\ local[y].epoch <= epoch[h]
              /\ local[y].epoch = epoch[h] + 1
          BY <1>1, <1>6, <3>1, <3>2
        <4> QED BY <4>1
      <3>3. CASE local[y].handle # h
        BY <1>6, <3>1, <3>3
      <3> QED BY <3>2, <3>3
    <2> QED BY <1>3, <1>4, <1>5, <2>1, <2>2 DEF IInv, EventsWait
  <1>12. RenewalUnderWay'
    BY <1>3, <1>4, <1>5 DEF IInv, RenewalUnderWay
  <1>13. NoSilentLoss'
    <2>1. \A x, s : HasSID(x, s)' <=> HasSID(x, s)
      BY <1>5 DEF HasSID
    <2>2. \A s \in SIDs : seen[s].handle # h
      BY <1>1, <1>2 DEF IInv, ListsApart
    <2> QED BY <1>3, <2>1, <2>2 DEF IInv, NoSilentLoss
  <1> QED BY <1>7, <1>8, <1>9, <1>10, <1>11, <1>12, <1>13 DEF IInv

-----------------------------------------------------------------------------
(* Steps that leave the lists as they are and may take events from the timer *)

\* Where a thread may go in such a step: it stays, returns, or is at a place of
\* genaUnSubscribe() with a SID of that client.
Advances(x) ==
    \/ pc'[x] = pc[x] /\ local'[x] = local[x]
    \/ pc'[x] = "out"
    \/ /\ pc'[x] \in {"unsubscribeSent", "unsubscribeRemove"}
       /\ local'[x].handle \in Handle /\ local'[x].SID \in SIDs
       /\ seen[local'[x].SID].handle \in {local'[x].handle, 0}
       /\ pc'[x] = "unsubscribeSent" =>
             /\ local'[x].RenewEventId < lastEventId
             /\ \A e \in timer : e.id = local'[x].RenewEventId =>
                   e.handle = local'[x].handle /\ e.SID = local'[x].SID

\* Such a step keeps the invariant if it keeps the renewals, and if a thread that
\* owes the client an event either stays or has told it, unless the client is gone.
LEMMA EventStep ==
    ASSUME IInv, RenewalUnderWay',
           UNCHANGED <<registered, ClientSubList, lastEventId, lockVars, lastSID, lastActual,
                       initial, rejected, broken, bound, epoch>>,
           pc' \in [Thread -> Pc], local' \in [Thread -> Local],
           timer' \subseteq timer, fired' \subseteq timer \cup fired,
           seen' \in [1..bound.subs -> Observed],
           \A x \in 1..bound.subs :
              /\ seen'[x].handle = seen[x].handle /\ seen'[x].own = seen[x].own
              /\ seen[x].settled => seen'[x].settled,
           \A x \in Thread : Advances(x),
           \A x \in Thread : pc[x] = "renewFailed" =>
              \/ pc'[x] = pc[x] /\ local'[x] = local[x]
              \/ seen'[local[x].SID].settled
              \/ seen[local[x].SID].handle \notin registered
    PROVE  IInv'
  <1>1. /\ SIDs' = SIDs /\ SIDs \subseteq 1..bound.subs
        /\ UNCHANGED <<subscribeLock, readers>>
    BY CtrlptAssumption DEF SIDs, IInv, Types, TypeOK, lockVars
  <1>2. Types'
    <2>1. \A x \in Thread : pc'[x] # "out" => local'[x].handle \in Handle
      BY DEF Advances, IInv, Types
    <2> QED BY <1>1, <2>1, LocalTypes DEF IInv, Types, TypeOK
  <1>3. ListsApart'
    BY <1>1 DEF IInv, ListsApart
  <1>4. EventsApart'
    <2>1. \A x \in Thread :
             LET l == local'[x]
             IN  /\ pc'[x] \in {"unregisterSend", "unsubscribeSent"} => l.RenewEventId < lastEventId
                 /\ pc'[x] = "unregisterSend" => \A e \in timer' : e.id # l.RenewEventId
                 /\ pc'[x] = "unsubscribeSent" => \A e \in timer' :
                       e.id = l.RenewEventId => e.handle = l.handle /\ e.SID = l.SID
      BY DEF IInv, EventsApart, Advances
    <2>2. \A x \in Handle : \A i \in DOMAIN ClientSubList[x] :
             LET sub == ClientSubList[x][i]
             IN  /\ sub.RenewEventId < lastEventId
                 /\ \A e \in timer' : e.id = sub.RenewEventId => e.handle = x /\ e.SID = sub.SID
      BY DEF IInv, EventsApart
    <2>3. (\A e \in timer' : e.id < lastEventId) /\ (\A e \in timer' \cup fired' : e.SID \in SIDs)
      BY DEF IInv, EventsApart
    <2> QED BY <1>1, <2>1, <2>2, <2>3 DEF EventsApart
  <1>5. CallsKnown'
    <2> SUFFICES ASSUME NEW x \in Thread, pc'[x] \in Cancelling
                 PROVE  local'[x].SID \in SIDs /\ seen'[local'[x].SID].handle \in {local'[x].handle, 0}
      BY <1>1 DEF CallsKnown
    <2>1. local'[x].SID \in SIDs /\ seen[local'[x].SID].handle \in {local'[x].handle, 0}
      BY DEF IInv, CallsKnown, Advances, Cancelling
    <2> QED BY <1>1, <2>1
  <1>6. OneAsks'
    BY <1>1 DEF IInv, OneAsks, Advances, Subscribing
  <1>7. EventsWait'
    <2>1. \A a, x : NotPassed(a, x) => NotPassed(a, x)'
      BY DEF NotPassed, Advances, Notifying
    <2>2. \A x \in registered : \A i \in DOMAIN ClientSubList[x] :
             seen'[ClientSubList[x][i].SID].own = seen[ClientSubList[x][i].SID].own
      BY <1>1 DEF IInv, ListsApart, Types, TypeOK
    <2>3. \A y \in Thread :
             /\ pc'[y] \in Notifying => local'[y].ActualSID \in initial'
             /\ pc'[y] = "callback" => local'[y].ok
      BY DEF IInv, EventsWait, Advances, Notifying
    <2>4. \A y \in Thread : pc'[y] = "subscribeSent" => pc[y] = "subscribeSent" /\ local'[y] = local[y]
      BY DEF Advances
    <2> QED BY <2>1, <2>2, <2>3, <2>4 DEF IInv, EventsWait
  <1>8. NoSilentLoss'
    <2> SUFFICES ASSUME NEW z \in SIDs, NEW x \in registered, x = seen'[z].handle
                 PROVE  \/ \E i \in DOMAIN ClientSubList[x] : ClientSubList[x][i].SID = z
                        \/ seen'[z].settled
                        \/ \E y \in Thread : pc'[y] = "renewFailed" /\ local'[y].SID = z
      BY <1>1 DEF NoSilentLoss, HasSID
    <2>1. seen'[z].handle = seen[z].handle /\ (seen[z].settled => seen'[z].settled)
      BY <1>1
    <2>2. \/ \E i \in DOMAIN ClientSubList[x] : ClientSubList[x][i].SID = z
          \/ seen[z].settled
          \/ \E y \in Thread : pc[y] = "renewFailed" /\ local[y].SID = z
      BY <2>1 DEF IInv, NoSilentLoss, HasSID
    <2> QED BY <2>1, <2>2
  <1> QED BY <1>2, <1>3, <1>4, <1>5, <1>6, <1>7, <1>8 DEF IInv

\* The timer gives an event to the pool, which may refuse the job.
LEMMA TimerStep ==
    ASSUME IInv, NEW e \in timer, TimerFires(e)
    PROVE  IInv'
  <1>1. /\ UNCHANGED <<registered, ClientSubList, lastEventId, lockVars, lastSID, lastActual,
                       initial, rejected, broken, bound, epoch, pc, local>>
        /\ timer' = timer \ {e} /\ e \in RenewEvent /\ e.SID \in SIDs /\ e.SID \in 1..bound.subs
        /\ seen \in [1..bound.subs -> Observed]
    BY CtrlptAssumption
       DEF TimerFires, handleVars, threadVars, nameVars, IInv, Types, TypeOK, EventsApart, SIDs
  <1>2. \/ fired' = fired \cup {e} /\ seen' = seen
        \/ fired' = fired /\ seen' = [seen EXCEPT ![e.SID].refused = TRUE]
    BY DEF TimerFires
  <1>3. /\ seen' \in [1..bound.subs -> Observed]
        /\ \A x \in 1..bound.subs :
              /\ seen'[x].handle = seen[x].handle /\ seen'[x].own = seen[x].own
              /\ seen'[x].granted = seen[x].granted
              /\ seen[x].settled => seen'[x].settled
              /\ seen[x].refused => seen'[x].refused
        /\ e \in fired' \/ seen'[e.SID].refused
    <2>1. CASE fired' = fired \cup {e} /\ seen' = seen
      BY <1>1, <2>1
    <2>2. CASE seen' = [seen EXCEPT ![e.SID].refused = TRUE]
      <3> DEFINE r == [seen[e.SID] EXCEPT !.refused = TRUE]
      <3>1. seen[e.SID] \in Observed
        BY <1>1
      <3>2. /\ r \in Observed /\ r.settled = seen[e.SID].settled /\ r.handle = seen[e.SID].handle
            /\ r.own = seen[e.SID].own /\ r.granted = seen[e.SID].granted /\ r.refused
        BY <3>1 DEF Observed
      <3>3. seen' = [seen EXCEPT ![e.SID] = r]
        BY <2>2
      <3> HIDE DEF r
      <3> QED BY <1>1, <3>2, <3>3
    <2> QED BY <1>2, <2>1, <2>2
  <1>4. RenewalUnderWay'
    <2> SUFFICES ASSUME ~broken, NEW x \in registered, NEW i \in DOMAIN ClientSubList[x],
                        NEW s, s = ClientSubList[x][i].SID
                 PROVE  \/ seen'[s].granted = "infinite"
                        \/ seen'[s].refused
                        \/ \E f \in timer' \cup fired' : f.handle = x /\ f.SID = s
                        \/ \E y \in Thread : /\ local[y].handle = x /\ local[y].SID = s
                                             /\ pc[y] \in {"renewSent", "unsubscribeRemove"}
      BY <1>1 DEF RenewalUnderWay
    <2>1. s \in 1..bound.subs
      BY CtrlptAssumption DEF IInv, ListsApart, Types, TypeOK, SIDs
    <2>2. \/ seen[s].granted = "infinite"
          \/ seen[s].refused
          \/ \E f \in timer \cup fired : f.handle = x /\ f.SID = s
          \/ \E y \in Thread : /\ local[y].handle = x /\ local[y].SID = s
                               /\ pc[y] \in {"renewSent", "unsubscribeRemove"}
      BY DEF IInv, RenewalUnderWay
    <2>3. \A f \in timer \cup fired : f \in timer' \cup fired' \/ f = e
      BY <1>1, <1>2
    <2> QED BY <1>3, <2>1, <2>2, <2>3
  <1>5. \A x \in Thread : Advances(x)
    BY <1>1 DEF Advances
  <1>6. fired' \subseteq timer \cup fired
    BY <1>2
  <1>7. pc' \in [Thread -> Pc] /\ local' \in [Thread -> Local]
    BY <1>1 DEF IInv, Types
  <1> QED BY <1>1, <1>3, <1>4, <1>5, <1>6, <1>7, EventStep

\* UpnpUnSubscribe() keeps a copy of the subscription with the identifier of its event.
LEMMA UnSubscribeBegins ==
    ASSUME IInv, NEW t \in Thread, NEW h \in Handle, NEW sid \in SIDs, UpnpUnSubscribe(t, h, sid)
    PROVE  IInv'
  <1>1. /\ UNCHANGED <<registered, ClientSubList, lastEventId, lockVars, lastSID, lastActual,
                       initial, rejected, broken, bound, epoch, timer, fired, seen>>
        /\ pc[t] = "out" /\ h \in registered /\ HasSID(h, sid) /\ sid \in Nat
    BY DEF UpnpUnSubscribe, handleVars, timerVars, seenVars, At, SIDs, IInv, Types, TypeOK
  <1>2. PICK i \in DOMAIN ClientSubList[h] :
           i = GetClientSubClientSID(h, sid) /\ ClientSubList[h][i].SID = sid
    BY <1>1 DEF HasSID, GetClientSubClientSID
  <1>3. PICK id : id = ClientSubList[h][i].RenewEventId
    OBVIOUS
  <1>4. /\ id \in Int /\ id < lastEventId /\ seen[sid].handle = h
        /\ \A e \in timer : e.id = id => e.handle = h /\ e.SID = sid
    <2>1. ClientSubList[h][i] \in Subscription
      BY DEF IInv, Types, TypeOK
    <2> QED BY <1>2, <1>3, <2>1 DEF IInv, ListsApart, EventsApart, Subscription
  <1>5. PICK l : l = UnSubscribeLocals(h, sid, id)
    OBVIOUS
  <1>6. l \in Local /\ l.handle = h /\ l.SID = sid /\ l.RenewEventId = id
    BY <1>1, <1>4, <1>5, UnSubscribeLocal
  <1>7. /\ pc' \in [Thread -> Pc] /\ local' \in [Thread -> Local]
        /\ pc'[t] = "unsubscribeSent" /\ local'[t] = l /\ Others(t)
    BY <1>2, <1>3, <1>5, <1>6, Moves DEF UpnpUnSubscribe, IInv, Pc, UnSubscribeLocals
  <1>8. RenewalUnderWay'
    BY <1>1, <1>7 DEF IInv, RenewalUnderWay, Others
  <1>9. Advances(t)
    BY <1>4, <1>6, <1>7 DEF Advances
  <1>10. \A x \in Thread : Advances(x) /\ (pc[x] = "renewFailed" => pc'[x] = pc[x] /\ local'[x] = local[x])
    BY <1>1, <1>7, <1>9 DEF Advances, Others
  <1>11. seen' \in [1..bound.subs -> Observed]
    BY <1>1 DEF IInv, Types
  <1> QED BY <1>1, <1>7, <1>8, <1>10, <1>11, EventStep

\* The answer to UNSUBSCRIBE: the event goes, and the subscription will.
LEMMA UnSubscribeAnswered ==
    ASSUME IInv, NEW t \in Thread, UnSubscribeSent(t)
    PROVE  IInv'
  <1>1. /\ UNCHANGED <<registered, ClientSubList, lastEventId, lockVars, lastSID, lastActual,
                       initial, rejected, broken, bound, epoch, fired, seen>>
        /\ pc[t] = "unsubscribeSent" /\ timer' = {e \in timer : e.id # local[t].RenewEventId}
    BY DEF UnSubscribeSent, TimerThreadRemove, handleVars, nameVars, seenVars, At
  <1>2. /\ local[t].handle \in Handle /\ local[t].SID \in SIDs
        /\ seen[local[t].SID].handle \in {local[t].handle, 0}
        /\ \A e \in timer : e \in timer' \/ (e.handle = local[t].handle /\ e.SID = local[t].SID)
    BY <1>1 DEF IInv, Types, CallsKnown, Cancelling, EventsApart
  <1>3. /\ pc' \in [Thread -> Pc] /\ local' \in [Thread -> Local]
        /\ pc'[t] = "unsubscribeRemove" /\ local' = local /\ Others(t)
    BY MovesOn DEF UnSubscribeSent, IInv, Pc
  <1>4. RenewalUnderWay'
    <2> SUFFICES ASSUME ~broken, NEW x \in registered, NEW i \in DOMAIN ClientSubList[x],
                        NEW s, s = ClientSubList[x][i].SID
                 PROVE  \/ seen[s].granted = "infinite"
                        \/ seen[s].refused
                        \/ \E f \in timer' \cup fired : f.handle = x /\ f.SID = s
                        \/ \E y \in Thread : /\ local[y].handle = x /\ local[y].SID = s
                                             /\ pc'[y] \in {"renewSent", "unsubscribeRemove"}
      BY <1>1, <1>3 DEF RenewalUnderWay
    <2>1. \/ seen[s].granted = "infinite"
          \/ seen[s].refused
          \/ \E f \in timer \cup fired : f.handle = x /\ f.SID = s
          \/ \E y \in Thread : /\ local[y].handle = x /\ local[y].SID = s
                               /\ pc[y] \in {"renewSent", "unsubscribeRemove"}
      BY DEF IInv, RenewalUnderWay
    <2> QED BY <1>1, <1>2, <1>3, <2>1 DEF Others
  <1>5. Advances(t)
    BY <1>2, <1>3 DEF Advances
  <1>6. \A x \in Thread : Advances(x) /\ (pc[x] = "renewFailed" => pc'[x] = pc[x] /\ local'[x] = local[x])
    BY <1>1, <1>3, <1>5 DEF Advances, Others
  <1>7. seen' \in [1..bound.subs -> Observed] /\ timer' \subseteq timer
    BY <1>1 DEF IInv, Types
  <1> QED BY <1>1, <1>3, <1>4, <1>6, <1>7, EventStep

\* The handle of a call is gone, or its SID is.
Gone(t) ==
    \/ local[t].handle \notin registered
    \/ pc[t] # "renewFailed" /\ ~HasSID(local[t].handle, local[t].SID)

\* Such a call returns and changes nothing.
OnlyReturns ==
    UNCHANGED <<registered, ClientSubList, lastEventId, lockVars, lastSID, lastActual,
                initial, rejected, broken, bound, epoch, timer, fired, seen>>

\* Nobody waited for what it was to do.
LEMMA ReturnStep ==
    ASSUME IInv, NEW t \in Thread, Return(t), pc[t] \in Cancelling, OnlyReturns, Gone(t)
    PROVE  IInv'
  <1>1. /\ pc' \in [Thread -> Pc] /\ local' \in [Thread -> Local]
        /\ pc'[t] = "out" /\ Others(t)
    BY Moves, NoLocalType DEF Return, IInv, Pc
  <1>2. \A x \in Thread : Advances(x)
    BY <1>1 DEF Advances, Others
  <1>3. pc[t] = "renewFailed" => seen[local[t].SID].handle \notin registered
    BY DEF IInv, CallsKnown, Types, TypeOK, Handle, Gone
  <1>4. RenewalUnderWay'
    BY <1>1 DEF IInv, RenewalUnderWay, Others, HasSID, Gone, OnlyReturns
  <1>5. seen' \in [1..bound.subs -> Observed]
    BY DEF IInv, Types, OnlyReturns
  <1> QED BY <1>1, <1>2, <1>3, <1>4, <1>5, EventStep DEF Others, OnlyReturns

\* genaUnSubscribe() ends.
LEMMA UnSubscribeEnds ==
    ASSUME IInv, NEW t \in Thread, UnSubscribeRemove(t)
    PROVE  IInv'
  <1>1. /\ pc[t] = "unsubscribeRemove" /\ pc[t] \in Cancelling /\ OnlyLists
        /\ local[t].SID \in SIDs /\ seen[local[t].SID].handle \in {local[t].handle, 0}
    BY DEF UnSubscribeRemove, At, Cancelling, OnlyLists, IInv, CallsKnown
  <1>2. CASE local[t].handle \notin registered /\ UNCHANGED <<ClientSubList, timer, seen>>
    <2>1. OnlyReturns /\ Gone(t)
      BY <1>1, <1>2 DEF OnlyLists, nameVars, OnlyReturns, Gone
    <2> QED BY <1>1, <1>2, <2>1, ReturnStep DEF UnSubscribeRemove
  <1>3. CASE /\ local[t].handle \in registered
             /\ RemoveClientSubClientSID(local[t].handle, local[t].SID) /\ Settle(local[t].SID)
    <2>1. /\ pc' \in [Thread -> Pc] /\ local' \in [Thread -> Local]
          /\ pc'[t] = "out" /\ Others(t)
      BY Moves, NoLocalType DEF UnSubscribeRemove, Return, IInv, Pc
    <2>2. PICK h \in registered : h = local[t].handle
      BY <1>3
    <2>3. PICK sid \in SIDs : sid = local[t].SID
      BY <1>1
    <2> QED BY <1>1, <1>3, <2>1, <2>2, <2>3, RemovalStep
  <1> QED BY <1>2, <1>3 DEF UnSubscribeRemove

\* The publisher refuses to renew, or a timer event cannot be had: RenewError()
\* after the removal.
LEMMA RenewErrorStep ==
    ASSUME IInv, NEW t \in Thread, pc[t] = "renewSent", OnlyLists,
           local[t].handle \in registered,
           RemoveClientSubClientSID(local[t].handle, local[t].SID), RenewError(t)
    PROVE  IInv'
  <1>1. /\ local[t].SID \in SIDs /\ seen[local[t].SID].handle \in {local[t].handle, 0}
        /\ local[t].handle \in Handle
    BY DEF Cancelling, IInv, CallsKnown, Types
  <1>2. PICK h \in registered : h = local[t].handle
    OBVIOUS
  <1>3. PICK sid \in SIDs : sid = local[t].SID
    BY <1>1
  <1>4. CASE local[t].auto
    <2>1. /\ pc' \in [Thread -> Pc] /\ local' \in [Thread -> Local]
          /\ pc'[t] = "renewFailed" /\ local' = local /\ Others(t) /\ seen' = seen
      BY <1>4, MovesOn DEF RenewError, IInv, Pc
    <2> QED BY <1>1, <1>2, <1>3, <2>1, RemovalStep
  <1>5. CASE ~local[t].auto
    <2>1. /\ pc' \in [Thread -> Pc] /\ local' \in [Thread -> Local]
          /\ pc'[t] = "out" /\ Others(t) /\ Settle(sid)
      BY <1>3, <1>5, Moves, NoLocalType DEF RenewError, Return, IInv, Pc
    <2> QED BY <1>1, <1>2, <1>3, <2>1, RemovalStep
  <1> QED BY <1>4, <1>5

\* The publisher refuses to renew.
LEMMA RenewIsRefused ==
    ASSUME IInv, NEW t \in Thread, RenewRefused(t)
    PROVE  IInv'
  <1>1. pc[t] = "renewSent" /\ pc[t] \in Cancelling /\ OnlyLists
    BY DEF RenewRefused, At, Cancelling, OnlyLists
  <1>2. CASE local[t].handle \notin registered /\ Return(t) /\ UNCHANGED <<ClientSubList, timer, seen>>
    <2>1. OnlyReturns /\ Gone(t)
      BY <1>1, <1>2 DEF OnlyLists, nameVars, OnlyReturns, Gone
    <2> QED BY <1>1, <1>2, <2>1, ReturnStep
  <1>3. CASE /\ local[t].handle \in registered
             /\ RemoveClientSubClientSID(local[t].handle, local[t].SID) /\ RenewError(t)
    BY <1>1, <1>3, RenewErrorStep
  <1> QED BY <1>2, <1>3 DEF RenewRefused

\* The client is told that the automatic renewal has failed.
LEMMA RenewIsReported ==
    ASSUME IInv, NEW t \in Thread, RenewFailed(t)
    PROVE  IInv'
  <1>1. /\ pc[t] = "renewFailed" /\ pc[t] \in Cancelling /\ Return(t)
        /\ UNCHANGED <<registered, ClientSubList, lastEventId, lockVars, lastSID, lastActual,
                       initial, rejected, broken, bound, epoch, timer, fired>>
        /\ local[t].SID \in SIDs
    BY DEF RenewFailed, At, Cancelling, handleVars, timerVars, nameVars, IInv, CallsKnown
  <1>2. CASE local[t].handle \notin registered
    <2>1. OnlyReturns /\ Gone(t)
      BY <1>1, <1>2 DEF RenewFailed, OnlyReturns, Gone
    <2> QED BY <1>1, <2>1, ReturnStep
  <1>3. CASE local[t].handle \in registered
    <2>1. PICK sid \in SIDs : sid = local[t].SID
      BY <1>1
    <2>2. /\ seen' \in [1..bound.subs -> Observed]
          /\ seen'[sid].settled
          /\ \A x \in 1..bound.subs :
                /\ seen'[x].handle = seen[x].handle /\ seen'[x].own = seen[x].own
                /\ seen'[x].granted = seen[x].granted /\ seen'[x].refused = seen[x].refused
                /\ seen[x].settled => seen'[x].settled
      BY <1>3, <2>1, SettleSeen DEF RenewFailed
    <2>3. /\ pc' \in [Thread -> Pc] /\ local' \in [Thread -> Local]
          /\ pc'[t] = "out" /\ Others(t)
      BY <1>1, Moves, NoLocalType DEF Return, IInv, Pc
    <2>4. \A x \in Thread : Advances(x)
      BY <2>3 DEF Advances, Others
    <2>5. RenewalUnderWay'
      <3>1. \A x \in registered : \A i \in DOMAIN ClientSubList[x] :
                ClientSubList[x][i].SID \in 1..bound.subs
        BY CtrlptAssumption DEF IInv, ListsApart, Types, TypeOK, SIDs
      <3> QED BY <1>1, <2>2, <2>3, <3>1 DEF IInv, RenewalUnderWay, Others
    <2> QED BY <1>1, <2>1, <2>2, <2>3, <2>4, <2>5, EventStep DEF Others
  <1> QED BY <1>2, <1>3

-----------------------------------------------------------------------------
(* A subscription is renewed *)

\* The lists with the identifier of the event set in one entry of one list.
WithId(h, i, n) == [ClientSubList EXCEPT ![h][i].RenewEventId = n]

\* The rest of that entry and the other entries are kept.
LEMMA IdSet ==
    ASSUME IInv, NEW h \in Handle, NEW i \in DOMAIN ClientSubList[h], NEW n \in Int,
           ClientSubList' = WithId(h, i, n)
    PROVE  /\ ClientSubList' \in [Handle -> Seq(Subscription)]
           /\ \A x \in Handle : x # h => ClientSubList'[x] = ClientSubList[x]
           /\ \A x \in Handle :
                 /\ DOMAIN ClientSubList'[x] = DOMAIN ClientSubList[x]
                 /\ \A k \in DOMAIN ClientSubList[x] :
                       /\ ClientSubList'[x][k].SID = ClientSubList[x][k].SID
                       /\ ClientSubList'[x][k].ActualSID = ClientSubList[x][k].ActualSID
                       /\ \/ ClientSubList'[x][k].RenewEventId = ClientSubList[x][k].RenewEventId
                          \/ x = h /\ k = i /\ ClientSubList'[x][k].RenewEventId = n
  <1> DEFINE list == ClientSubList[h]
             sub == [list[i] EXCEPT !.RenewEventId = n]
             new == [list EXCEPT ![i] = sub]
  <1>1. ClientSubList \in [Handle -> Seq(Subscription)] /\ list \in Seq(Subscription)
    BY DEF IInv, Types, TypeOK
  <1>2. list[i] \in Subscription
    BY <1>1
  <1>3. /\ sub \in Subscription /\ sub.SID = list[i].SID /\ sub.ActualSID = list[i].ActualSID
        /\ sub.RenewEventId = n
    BY <1>2 DEF Subscription
  <1>4. ClientSubList' = [ClientSubList EXCEPT ![h] = new]
    BY DEF WithId
  <1> HIDE DEF sub
  <1>5. /\ new \in Seq(Subscription) /\ DOMAIN new = DOMAIN list /\ new[i] = sub
        /\ \A k \in DOMAIN list : k # i => new[k] = list[k]
    BY <1>1, <1>3
  <1> HIDE DEF new
  <1>6. /\ ClientSubList' \in [Handle -> Seq(Subscription)] /\ ClientSubList'[h] = new
        /\ \A x \in Handle : x # h => ClientSubList'[x] = ClientSubList[x]
    BY <1>1, <1>4, <1>5
  <1>7. ASSUME NEW x \in Handle
        PROVE  /\ DOMAIN ClientSubList'[x] = DOMAIN ClientSubList[x]
               /\ \A k \in DOMAIN ClientSubList[x] :
                     /\ ClientSubList'[x][k].SID = ClientSubList[x][k].SID
                     /\ ClientSubList'[x][k].ActualSID = ClientSubList[x][k].ActualSID
                     /\ \/ ClientSubList'[x][k].RenewEventId = ClientSubList[x][k].RenewEventId
                        \/ x = h /\ k = i /\ ClientSubList'[x][k].RenewEventId = n
    <2>1. CASE x = h
      BY <1>3, <1>5, <1>6, <2>1
    <2>2. CASE x # h
      BY <1>6, <2>2
    <2> QED BY <2>1, <2>2
  <1> QED BY <1>6, <1>7

\* What the renewal of one subscription leaves alone.
OnlyRenews ==
    UNCHANGED <<registered, lockVars, lastSID, lastActual, initial, rejected, broken, bound, epoch>>

\* The thread t renews the subscription sid, the entry i of the list of h: it sets
\* the identifier of its event to that of an event for this subscription, or none.
LEMMA RescheduleStep ==
    ASSUME IInv, RenewalUnderWay', OnlyRenews, NEW t \in Thread, Others(t),
           NEW h \in registered, NEW i \in DOMAIN ClientSubList[h], NEW n \in Int,
           NEW sid, sid = ClientSubList[h][i].SID,
           ClientSubList' = WithId(h, i, n),
           lastEventId' \in 0..bound.events, lastEventId' >= lastEventId, n < lastEventId',
           timer' \subseteq RenewEvent, fired' \subseteq fired,
           \A e \in timer' :
              \/ e \in timer
              \/ e.id = lastEventId /\ e.id < lastEventId' /\ e.handle = h /\ e.SID = sid,
           \A e \in timer' : e.id = n => e.handle = h /\ e.SID = sid,
           seen' \in [1..bound.subs -> Observed],
           \A x \in 1..bound.subs :
              /\ seen'[x].handle = seen[x].handle /\ seen'[x].own = seen[x].own
              /\ seen[x].settled => seen'[x].settled,
           pc' \in [Thread -> Pc], local' \in [Thread -> Local],
           pc[t] \in {"out", "renewSent"}, pc'[t] \in {"out", "renewSent"},
           pc'[t] = "renewSent" => local'[t].handle = h /\ local'[t].SID = sid
    PROVE  IInv'
  <1>1. /\ UNCHANGED <<registered, subscribeLock, readers, SIDs, lastActual, initial, rejected,
                       broken, bound, epoch>>
        /\ h \in Handle /\ SIDs \subseteq 1..bound.subs /\ registered \subseteq Handle
        /\ lastEventId \in Nat /\ lastEventId' \in Nat
        /\ timer \subseteq RenewEvent
    BY CtrlptAssumption DEF OnlyRenews, lockVars, SIDs, IInv, Types, TypeOK
  <1>2. /\ ClientSubList' \in [Handle -> Seq(Subscription)]
        /\ \A x \in Handle : x # h => ClientSubList'[x] = ClientSubList[x]
        /\ \A x \in Handle :
              /\ DOMAIN ClientSubList'[x] = DOMAIN ClientSubList[x]
              /\ \A k \in DOMAIN ClientSubList[x] :
                    /\ ClientSubList'[x][k].SID = ClientSubList[x][k].SID
                    /\ ClientSubList'[x][k].ActualSID = ClientSubList[x][k].ActualSID
                    /\ \/ ClientSubList'[x][k].RenewEventId = ClientSubList[x][k].RenewEventId
                       \/ x = h /\ k = i /\ ClientSubList'[x][k].RenewEventId = n
    BY <1>1, IdSet
  <1>3. sid \in SIDs /\ seen[sid].handle = h
    BY <1>1 DEF IInv, ListsApart
  <1>4. Types'
    <2>1. \A x \in Thread : pc'[x] # "out" => local'[x].handle \in Handle
      BY <1>1 DEF Others, IInv, Types
    <2>2. fired' \subseteq RenewEvent
      BY DEF IInv, Types, TypeOK
    <2>3. lastSID' = lastSID
      BY DEF OnlyRenews
    <2> QED BY <1>1, <1>2, <2>1, <2>2, <2>3, LocalTypes DEF IInv, Types, TypeOK
  <1>5. ListsApart'
    <2>1. \A x \in Handle \ registered : ClientSubList'[x] = <<>>
      BY <1>2 DEF IInv, ListsApart
    <2>2. \A x \in Handle : \A k \in DOMAIN ClientSubList'[x] :
             LET sub == ClientSubList'[x][k]
             IN  /\ sub.SID \in SIDs /\ seen'[sub.SID].handle = x
                 /\ sub.ActualSID \in 1..lastActual
      <3> SUFFICES ASSUME NEW x \in Handle, NEW k \in DOMAIN ClientSubList'[x],
                          NEW sub, sub = ClientSubList'[x][k]
                   PROVE  /\ sub.SID \in SIDs /\ seen'[sub.SID].handle = x
                          /\ sub.ActualSID \in 1..lastActual
        BY Zenon
      <3>1. sub.SID \in SIDs /\ seen[sub.SID].handle = x /\ sub.ActualSID \in 1..lastActual
        BY <1>2 DEF IInv, ListsApart
      <3> QED BY <1>1, <3>1
    <2>3. \A x \in Handle : \A j, k \in DOMAIN ClientSubList'[x] :
             ClientSubList'[x][j].SID = ClientSubList'[x][k].SID => j = k
      BY <1>2 DEF IInv, ListsApart
    <2>4. \A x \in 1..bound.subs : seen'[x].handle \in registered \cup {0}
      BY DEF IInv, ListsApart
    <2> QED BY <1>1, <2>1, <2>2, <2>3, <2>4 DEF ListsApart
  <1>6. EventsApart'
    <2>0. \A e \in timer : e.id \in Nat /\ e.id < lastEventId /\ e.SID \in SIDs
      BY <1>1 DEF IInv, EventsApart, RenewEvent
    <2>1. (\A e \in timer' : e.id < lastEventId') /\ (\A e \in timer' \cup fired' : e.SID \in SIDs)
      BY <1>1, <1>3, <2>0 DEF IInv, EventsApart
    <2>2. ASSUME NEW x \in Handle, NEW k \in DOMAIN ClientSubList'[x],
                 NEW sub, sub = ClientSubList'[x][k]
          PROVE  /\ sub.RenewEventId < lastEventId'
                 /\ \A e \in timer' : e.id = sub.RenewEventId => e.handle = x /\ e.SID = sub.SID
      <3>1. CASE sub.RenewEventId = n /\ x = h /\ k = i
        BY <1>2, <3>1, <2>2
      <3>2. CASE sub.RenewEventId = ClientSubList[x][k].RenewEventId
        <4>1. /\ sub.RenewEventId \in Int /\ sub.RenewEventId < lastEventId /\ k \in DOMAIN ClientSubList[x]
              /\ sub.SID = ClientSubList[x][k].SID
              /\ \A e \in timer : e.id = sub.RenewEventId => e.handle = x /\ e.SID = sub.SID
          <5>1. k \in DOMAIN ClientSubList[x] /\ sub.SID = ClientSubList[x][k].SID
            BY <1>2, <2>2
          <5>2. ClientSubList[x][k] \in Subscription
            BY <5>1 DEF IInv, Types, TypeOK
          <5> QED BY <3>2, <5>1, <5>2 DEF IInv, EventsApart, Subscription
        <4> QED BY <1>1, <4>1
      <3> QED BY <1>2, <2>2, <3>1, <3>2
    <2>3. ASSUME NEW x \in Thread, NEW l, l = local'[x]
          PROVE  /\ pc'[x] \in {"unregisterSend", "unsubscribeSent"} => l.RenewEventId < lastEventId'
                 /\ pc'[x] = "unregisterSend" => \A e \in timer' : e.id # l.RenewEventId
                 /\ pc'[x] = "unsubscribeSent" => \A e \in timer' :
                       e.id = l.RenewEventId => e.handle = l.handle /\ e.SID = l.SID
      <3>1. l.RenewEventId \in Int
        BY <2>3, LocalTypes
      <3>2. pc'[x] \in {"unregisterSend", "unsubscribeSent"} => pc'[x] = pc[x] /\ l = local[x]
        BY <2>3 DEF Others
      <3> QED BY <1>1, <3>1, <3>2 DEF IInv, EventsApart
    <2> QED BY <1>1, <2>1, <2>2, <2>3 DEF EventsApart
  <1>7. CallsKnown'
    <2> SUFFICES ASSUME NEW x \in Thread, pc'[x] \in Cancelling
                 PROVE  local'[x].SID \in SIDs /\ seen'[local'[x].SID].handle \in {local'[x].handle, 0}
      BY <1>1 DEF CallsKnown
    <2>1. local'[x].SID \in SIDs /\ seen[local'[x].SID].handle \in {local'[x].handle, 0}
      BY <1>3 DEF IInv, CallsKnown, Others, Cancelling
    <2> QED BY <1>1, <2>1
  <1>8. OneAsks'
    BY <1>1 DEF IInv, OneAsks, OnlyRenews, Others, Subscribing
  <1>9. EventsWait'
    <2>1. \A a, x : NotPassed(a, x) => NotPassed(a, x)'
      BY <1>1 DEF NotPassed, Others, Notifying
    <2>2. ASSUME NEW x \in registered, NEW k \in DOMAIN ClientSubList'[x],
                 seen'[ClientSubList'[x][k].SID].own
          PROVE  \A a : a = ClientSubList'[x][k].ActualSID => NotPassed(a, x)'
      <3>1. /\ x \in Handle /\ k \in DOMAIN ClientSubList[x]
            /\ ClientSubList'[x][k].SID = ClientSubList[x][k].SID
            /\ ClientSubList'[x][k].ActualSID = ClientSubList[x][k].ActualSID
        <4>1. x \in Handle
          BY <1>1
        <4>2. k \in DOMAIN ClientSubList[x]
          BY <1>2, <2>2, <4>1
        <4> QED BY <1>2, <4>1, <4>2
      <3>2. ClientSubList[x][k].SID \in 1..bound.subs
        BY <1>1, <3>1 DEF IInv, ListsApart
      <3>3. seen[ClientSubList[x][k].SID].own
        BY <2>2, <3>1, <3>2
      <3>4. NotPassed(ClientSubList[x][k].ActualSID, x)
        BY <3>1, <3>3 DEF IInv, EventsWait
      <3> QED BY <2>1, <3>1, <3>4
    <2>3. \A y \in Thread :
             /\ pc'[y] \in Notifying => local'[y].ActualSID \in initial'
             /\ pc'[y] = "callback" => local'[y].ok
      BY <1>1 DEF IInv, EventsWait, Others, Notifying
    <2>4. \A y \in Thread : pc'[y] = "subscribeSent" => pc[y] = "subscribeSent" /\ local'[y] = local[y]
      BY DEF Others
    <2>5. UNCHANGED <<registered, epoch>>
      BY <1>1
    <2>6. ASSUME NEW y \in Thread, pc'[y] = "subscribeSent", local'[y].ActualSID # 0,
                 local'[y].handle \in registered', local'[y].epoch = epoch'[local'[y].handle]
          PROVE  \A a, x : a = local'[y].ActualSID /\ x = local'[y].handle => NotPassed(a, x)'
      BY <2>1, <2>4, <2>5, <2>6 DEF IInv, EventsWait
    <2> QED BY <2>2, <2>3, <2>5, <2>6 DEF EventsWait
  <1>10. NoSilentLoss'
    <2> SUFFICES ASSUME NEW z \in SIDs, NEW x \in registered, x = seen'[z].handle
                 PROVE  \/ \E k \in DOMAIN ClientSubList'[x] : ClientSubList'[x][k].SID = z
                        \/ seen'[z].settled
                        \/ \E y \in Thread : pc'[y] = "renewFailed" /\ local'[y].SID = z
      BY <1>1 DEF NoSilentLoss, HasSID
    <2>1. seen'[z].handle = seen[z].handle /\ (seen[z].settled => seen'[z].settled) /\ x \in Handle
      BY <1>1
    <2>2. \/ \E k \in DOMAIN ClientSubList[x] : ClientSubList[x][k].SID = z
          \/ seen[z].settled
          \/ \E y \in Thread : pc[y] = "renewFailed" /\ local[y].SID = z
      BY <2>1 DEF IInv, NoSilentLoss, HasSID
    <2>3. ASSUME NEW k \in DOMAIN ClientSubList[x], ClientSubList[x][k].SID = z
          PROVE  \E j \in DOMAIN ClientSubList'[x] : ClientSubList'[x][j].SID = z
      <3>1. k \in DOMAIN ClientSubList'[x] /\ ClientSubList'[x][k].SID = z
        BY <1>2, <2>1, <2>3
      <3> QED BY <3>1
    <2>4. ASSUME NEW y \in Thread, pc[y] = "renewFailed", local[y].SID = z
          PROVE  pc'[y] = "renewFailed" /\ local'[y].SID = z
      BY <2>4 DEF Others
    <2> QED BY <2>1, <2>2, <2>3, <2>4
  <1> QED BY <1>4, <1>5, <1>6, <1>7, <1>8, <1>9, <1>10 DEF IInv

\* A thread that begins to renew a subscription takes its event and any job for it,
\* and has the renewal to do itself.
LEMMA RenewTakes ==
    ASSUME IInv, NEW t \in Thread, NEW h \in Handle, NEW sid \in Nat,
           RenewTake(t, h, sid, TRUE) \/ RenewTake(t, h, sid, FALSE), pc[t] = "out",
           OnlyRenews, lastEventId' = lastEventId, seen' = seen,
           fired' \subseteq fired, \A e \in fired : e \in fired' \/ (e.handle = h /\ e.SID = sid)
    PROVE  IInv'
  <1>1. /\ h \in registered /\ HasSID(h, sid)
    BY DEF RenewTake
  <1>2. PICK i \in DOMAIN ClientSubList[h] :
           i = GetClientSubClientSID(h, sid) /\ ClientSubList[h][i].SID = sid
    BY <1>1 DEF HasSID, GetClientSubClientSID
  <1>3. /\ timer' = {e \in timer : e.id # ClientSubList[h][i].RenewEventId}
        /\ ClientSubList' = WithId(h, i, NoId)
    BY <1>2 DEF RenewTake, TimerThreadRemove, WithId
  <1>4. PICK l : /\ l = AutoLocals(h, sid) \/ l = RenewLocals(h, sid)
                 /\ GotoWith(t, "renewSent", l)
    BY DEF RenewTake, RenewLocals, AutoLocals
  <1>5. l \in Local /\ l.handle = h /\ l.SID = sid
    BY <1>4, RenewLocal
  <1>6. /\ pc' \in [Thread -> Pc] /\ local' \in [Thread -> Local]
        /\ pc'[t] = "renewSent" /\ local'[t] = l /\ Others(t)
    BY <1>4, <1>5, Moves DEF IInv, Pc
  <1>7. /\ lastEventId' \in 0..bound.events /\ lastEventId \in Nat /\ timer \subseteq RenewEvent
        /\ timer' \subseteq timer /\ NoId \in Int /\ NoId < lastEventId
        /\ seen' \in [1..bound.subs -> Observed]
        /\ \A e \in timer : e.id # NoId
    BY <1>3, CtrlptAssumption DEF IInv, Types, TypeOK, NoId, RenewEvent
  <1>8. \A e \in timer \cup fired : e \in timer' \cup fired' \/ (e.handle = h /\ e.SID = sid)
    <2>1. \A e \in timer : e.id = ClientSubList[h][i].RenewEventId => e.handle = h /\ e.SID = sid
      BY <1>2 DEF IInv, EventsApart
    <2> QED BY <1>3, <2>1
  <1>9. RenewalUnderWay'
    <2> SUFFICES ASSUME ~broken, NEW x \in registered, NEW k \in DOMAIN ClientSubList'[x],
                        NEW s, s = ClientSubList'[x][k].SID
                 PROVE  \/ seen[s].granted = "infinite"
                        \/ seen[s].refused
                        \/ \E f \in timer' \cup fired' : f.handle = x /\ f.SID = s
                        \/ \E y \in Thread : /\ local'[y].handle = x /\ local'[y].SID = s
                                             /\ pc'[y] \in {"renewSent", "unsubscribeRemove"}
      BY DEF RenewalUnderWay, OnlyRenews
    <2>1. x \in Handle
      BY DEF IInv, Types, TypeOK
    <2>2. k \in DOMAIN ClientSubList[x] /\ s = ClientSubList[x][k].SID
      BY <1>3, <1>7, <2>1, IdSet
    <2>3. \/ seen[s].granted = "infinite"
          \/ seen[s].refused
          \/ \E f \in timer \cup fired : f.handle = x /\ f.SID = s
          \/ \E y \in Thread : /\ local[y].handle = x /\ local[y].SID = s
                               /\ pc[y] \in {"renewSent", "unsubscribeRemove"}
      BY <2>2 DEF IInv, RenewalUnderWay
    <2>4. CASE x = h /\ s = sid
      BY <1>5, <1>6, <2>4
    <2>5. CASE ~(x = h /\ s = sid)
      <3>1. \A y \in Thread : pc[y] \in {"renewSent", "unsubscribeRemove"} =>
               pc'[y] = pc[y] /\ local'[y] = local[y]
        BY <1>6 DEF Others
      <3> QED BY <1>8, <2>3, <2>5, <3>1
    <2> QED BY <2>4, <2>5
  <1>10. PICK n \in Int : n = NoId /\ n < lastEventId' /\ ClientSubList' = WithId(h, i, n)
                           /\ \A e \in timer' : e.id # n
    BY <1>3, <1>7
  <1>11. timer' \subseteq RenewEvent /\ lastEventId' >= lastEventId
    BY <1>7
  <1> QED BY <1>1, <1>2, <1>5, <1>6, <1>7, <1>9, <1>10, <1>11, RescheduleStep

\* UpnpRenewSubscription() and GenaAutoRenewSubscription() up to the request.
LEMMA RenewBegins ==
    ASSUME IInv, NEW t \in Thread,
           \/ \E h \in Handle, sid \in SIDs : UpnpRenewSubscription(t, h, sid)
           \/ \E e \in fired : GenaAutoRenewSubscription(t, e)
    PROVE  IInv'
  <1>1. ASSUME NEW h \in Handle, NEW sid \in SIDs, UpnpRenewSubscription(t, h, sid) PROVE IInv'
    <2>1. /\ pc[t] = "out" /\ RenewTake(t, h, sid, FALSE) /\ OnlyRenews
          /\ UNCHANGED <<lastEventId, seen, fired>>
      BY <1>1 DEF UpnpRenewSubscription, At, OnlyRenews, seenVars
    <2>2. sid \in Nat
      BY DEF SIDs, IInv, Types, TypeOK
    <2> QED BY <2>1, <2>2, RenewTakes
  <1>2. ASSUME NEW e \in fired, GenaAutoRenewSubscription(t, e) PROVE IInv'
    <2>1. /\ pc[t] = "out" /\ OnlyRenews /\ UNCHANGED <<lastEventId, seen>>
          /\ fired' = fired \ {e} /\ e.handle \in Handle /\ e.SID \in Nat
      BY <1>2 DEF GenaAutoRenewSubscription, At, OnlyRenews, seenVars, nameVars,
                  IInv, Types, TypeOK, RenewEvent
    <2>2. CASE RenewTake(t, e.handle, e.SID, TRUE)
      <3>2. PICK h \in Handle : h = e.handle
        BY <2>1
      <3>3. PICK sid \in Nat : sid = e.SID
        BY <2>1
      <3> QED BY <2>1, <2>2, <3>2, <3>3, RenewTakes
    <2>3. CASE /\ e.handle \notin registered \/ ~HasSID(e.handle, e.SID)
               /\ UNCHANGED <<ClientSubList, timer, threadVars>>
      <3>1. UNCHANGED <<registered, ClientSubList, lastEventId, lockVars, lastSID, lastActual,
                        initial, rejected, broken, bound, epoch, timer, seen, pc, local>>
        BY <2>1, <2>3 DEF OnlyRenews, threadVars
      <3>2. RenewalUnderWay'
        BY <2>1, <2>3, <3>1 DEF IInv, RenewalUnderWay, HasSID
      <3>3. /\ \A x \in Thread : Advances(x)
            /\ pc' \in [Thread -> Pc] /\ local' \in [Thread -> Local]
            /\ seen' \in [1..bound.subs -> Observed]
        BY <3>1 DEF Advances, IInv, Types
      <3> QED BY <2>1, <3>1, <3>2, <3>3, EventStep
    <2> QED BY <1>2, <2>2, <2>3 DEF GenaAutoRenewSubscription
  <1> QED BY <1>1, <1>2

\* What the publisher has granted is observed.
LEMMA GrantSeen ==
    ASSUME IInv, NEW sid \in SIDs, NEW timeout \in TimeOuts,
           seen' = [seen EXCEPT ![sid].granted = timeout]
    PROVE  /\ seen' \in [1..bound.subs -> Observed]
           /\ seen'[sid].granted = timeout
           /\ \A x \in 1..bound.subs :
                 /\ seen'[x].handle = seen[x].handle /\ seen'[x].own = seen[x].own
                 /\ seen[x].settled => seen'[x].settled
                 /\ seen[x].refused => seen'[x].refused
                 /\ x # sid => seen'[x] = seen[x]
  <1>1. sid \in 1..bound.subs /\ seen \in [1..bound.subs -> Observed]
    BY CtrlptAssumption DEF IInv, Types, TypeOK, SIDs
  <1> DEFINE r == [seen[sid] EXCEPT !.granted = timeout]
  <1>2. /\ r \in Observed /\ r.settled = seen[sid].settled /\ r.handle = seen[sid].handle
        /\ r.own = seen[sid].own /\ r.granted = timeout /\ r.refused = seen[sid].refused
    <2>1. seen[sid] \in Observed
      BY <1>1
    <2> QED BY <2>1 DEF Observed
  <1>3. seen' = [seen EXCEPT ![sid] = r]
    OBVIOUS
  <1> HIDE DEF r
  <1> QED BY <1>1, <1>2, <1>3

\* The publisher has renewed: the next event is scheduled with a new identifier,
\* or none is needed, or none can be had.
LEMMA RenewIsGranted ==
    ASSUME IInv, NEW t \in Thread, NEW timeout \in TimeOuts, RenewGranted(t, timeout)
    PROVE  IInv'
  <1>1. /\ pc[t] = "renewSent" /\ pc[t] \in Cancelling /\ ~broken
        /\ UNCHANGED <<registered, lockVars, fired, lastSID, lastActual, initial, broken,
                       epoch, bound, rejected>>
        /\ UNCHANGED nameVars
        /\ local[t].SID \in SIDs /\ local[t].handle \in Handle
    BY DEF RenewGranted, At, Cancelling, nameVars, IInv, CallsKnown, Types
  <1>2. PICK h \in Handle : h = local[t].handle
    BY <1>1
  <1>3. PICK sid \in SIDs : sid = local[t].SID
    BY <1>1
  <1>4. CASE /\ h \notin registered \/ ~HasSID(h, sid)
             /\ Return(t) /\ UNCHANGED <<ClientSubList, timer, lastEventId, seen>>
    <2>1. OnlyReturns /\ Gone(t)
      BY <1>1, <1>2, <1>3, <1>4 DEF OnlyReturns, Gone
    <2> QED BY <1>1, <1>4, <2>1, ReturnStep
  <1>5. CASE /\ h \in registered /\ HasSID(h, sid)
             /\ RemoveClientSubClientSID(h, sid) /\ RenewError(t) /\ UNCHANGED lastEventId
    <2>1. OnlyLists
      BY <1>1, <1>5 DEF OnlyLists
    <2> QED BY <1>1, <1>2, <1>3, <1>5, <2>1, RenewErrorStep
  <1>6. ASSUME Return(t), seen' = [seen EXCEPT ![sid].granted = timeout]
        PROVE  /\ pc' \in [Thread -> Pc] /\ local' \in [Thread -> Local] /\ pc'[t] = "out" /\ Others(t)
               /\ seen' \in [1..bound.subs -> Observed]
               /\ seen'[sid].granted = timeout
               /\ \A x \in 1..bound.subs :
                     /\ seen'[x].handle = seen[x].handle /\ seen'[x].own = seen[x].own
                     /\ seen[x].settled => seen'[x].settled
                     /\ seen[x].refused => seen'[x].refused
                     /\ x # sid => seen'[x] = seen[x]
    <2>1. /\ pc' \in [Thread -> Pc] /\ local' \in [Thread -> Local] /\ pc'[t] = "out" /\ Others(t)
      BY <1>6, Moves, NoLocalType DEF Return, IInv, Pc
    <2> QED BY <1>6, <2>1, GrantSeen
  <1>7. CASE /\ timeout = "infinite" /\ Return(t)
             /\ seen' = [seen EXCEPT ![sid].granted = timeout]
             /\ UNCHANGED <<ClientSubList, timer, lastEventId>>
    <2>1. RenewalUnderWay'
      <3> SUFFICES ASSUME NEW x \in registered, NEW i \in DOMAIN ClientSubList[x],
                          NEW s, s = ClientSubList[x][i].SID
                   PROVE  \/ seen'[s].granted = "infinite"
                          \/ seen'[s].refused
                          \/ \E f \in timer \cup fired : f.handle = x /\ f.SID = s
                          \/ \E y \in Thread : /\ local'[y].handle = x /\ local'[y].SID = s
                                               /\ pc'[y] \in {"renewSent", "unsubscribeRemove"}
        BY <1>1, <1>7 DEF RenewalUnderWay
      <3>1. CASE s = sid
        BY <1>6, <1>7, <3>1
      <3>2. CASE s # sid
        <4>1. s \in 1..bound.subs
          BY CtrlptAssumption DEF IInv, ListsApart, Types, TypeOK, SIDs
        <4>2. seen'[s] = seen[s]
          BY <1>6, <1>7, <3>2, <4>1
        <4>3. \/ seen[s].granted = "infinite"
              \/ seen[s].refused
              \/ \E f \in timer \cup fired : f.handle = x /\ f.SID = s
              \/ \E y \in Thread : /\ local[y].handle = x /\ local[y].SID = s
                                   /\ pc[y] \in {"renewSent", "unsubscribeRemove"}
          BY <1>1 DEF IInv, RenewalUnderWay
        <4> QED BY <1>3, <1>6, <1>7, <3>2, <4>2, <4>3 DEF Others
      <3> QED BY <3>1, <3>2
    <2>2. \A x \in Thread : Advances(x)
      BY <1>6, <1>7 DEF Advances, Others
    <2>3. \A x \in Thread : pc[x] = "renewFailed" => pc'[x] = pc[x] /\ local'[x] = local[x]
      BY <1>1, <1>6, <1>7 DEF Others
    <2> QED BY <1>1, <1>6, <1>7, <2>1, <2>2, <2>3, EventStep
  <1>8. CASE /\ h \in registered /\ HasSID(h, sid) /\ lastEventId < bound.events
             /\ ClientSubList' = WithId(h, GetClientSubClientSID(h, sid), lastEventId)
             /\ timer' = timer \cup {[id |-> lastEventId, handle |-> h, SID |-> sid]}
             /\ lastEventId' = lastEventId + 1
             /\ Return(t)
             /\ seen' = [seen EXCEPT ![sid].granted = timeout]
    <2>1. PICK i \in DOMAIN ClientSubList[h] :
             i = GetClientSubClientSID(h, sid) /\ ClientSubList[h][i].SID = sid
      BY <1>8 DEF HasSID, GetClientSubClientSID
    <2>2. PICK n \in Int : n = lastEventId
      BY DEF IInv, Types, TypeOK
    <2>3. /\ n \in Nat /\ bound.events \in Nat /\ sid \in Nat /\ lastEventId' \in 0..bound.events
          /\ timer \subseteq RenewEvent
      BY <1>8, <2>2, CtrlptAssumption DEF IInv, Types, TypeOK, SIDs
    <2> DEFINE e == [id |-> n, handle |-> h, SID |-> sid]
    <2>4. e \in RenewEvent /\ e.id = n /\ e.handle = h /\ e.SID = sid
      BY <2>3 DEF RenewEvent
    <2>5. timer' = timer \cup {e}
      BY <1>8, <2>2
    <2> HIDE DEF e
    <2>6. RenewalUnderWay'
      <3> SUFFICES ASSUME NEW x \in registered, NEW k \in DOMAIN ClientSubList'[x],
                          NEW s, s = ClientSubList'[x][k].SID
                   PROVE  \/ seen'[s].granted = "infinite"
                          \/ seen'[s].refused
                          \/ \E f \in timer' \cup fired : f.handle = x /\ f.SID = s
                          \/ \E y \in Thread : /\ local'[y].handle = x /\ local'[y].SID = s
                                               /\ pc'[y] \in {"renewSent", "unsubscribeRemove"}
        BY <1>1 DEF RenewalUnderWay
      <3>1. x \in Handle
        BY DEF IInv, Types, TypeOK
      <3>2. ClientSubList' = WithId(h, i, n)
        BY <1>8, <2>1, <2>2
      <3>3. k \in DOMAIN ClientSubList[x] /\ s = ClientSubList[x][k].SID
        BY <3>1, <3>2, IdSet
      <3>4. s \in 1..bound.subs /\ seen[s].handle = x /\ seen[sid].handle = h
        BY <2>1, <3>1, <3>3, CtrlptAssumption DEF IInv, ListsApart, Types, TypeOK, SIDs
      <3>5. CASE s = sid
        BY <2>4, <2>5, <3>4, <3>5
      <3>6. CASE s # sid
        <4>1. seen'[s] = seen[s]
          BY <1>6, <1>8, <3>4, <3>6
        <4>2. \/ seen[s].granted = "infinite"
              \/ seen[s].refused
              \/ \E f \in timer \cup fired : f.handle = x /\ f.SID = s
              \/ \E y \in Thread : /\ local[y].handle = x /\ local[y].SID = s
                                   /\ pc[y] \in {"renewSent", "unsubscribeRemove"}
          BY <1>1, <3>3 DEF IInv, RenewalUnderWay
        <4>3. \A y \in Thread : local[y].SID = s => pc'[y] = pc[y] /\ local'[y] = local[y]
          BY <1>3, <1>6, <1>8, <3>6 DEF Others
        <4> QED BY <2>5, <4>1, <4>2, <4>3
      <3> QED BY <3>5, <3>6
    <2>7. OnlyRenews /\ fired' \subseteq fired
      BY <1>1 DEF OnlyRenews
    <2>8. /\ lastEventId' >= lastEventId /\ n < lastEventId' /\ timer' \subseteq RenewEvent
          /\ \A f \in timer' : f \in timer
                \/ (f.id = lastEventId /\ f.id < lastEventId' /\ f.handle = h /\ f.SID = sid)
      BY <1>8, <2>2, <2>3, <2>4, <2>5
    <2>9. \A f \in timer' : f.id = n => f.handle = h /\ f.SID = sid
      <3>1. \A f \in timer : f.id < n /\ f.id \in Nat
        BY <2>2, <2>3 DEF IInv, EventsApart, RenewEvent
      <3> QED BY <2>3, <2>4, <2>5, <3>1
    <2>10. ClientSubList' = WithId(h, i, n) /\ h \in registered
      BY <1>8, <2>1, <2>2
    <2> QED BY <1>1, <1>6, <1>8, <2>1, <2>3, <2>6, <2>7, <2>8, <2>9, <2>10, RescheduleStep
  <1>9. ASSUME NEW o \in Outcomes(timeout)
        PROVE  /\ o = "none" => timeout = "infinite"
               /\ o = "scheduled" => lastEventId < bound.events
    BY DEF Outcomes
  <1> QED BY <1>2, <1>3, <1>4, <1>5, <1>7, <1>8, <1>9 DEF RenewGranted, WithId

-----------------------------------------------------------------------------
(* A subscription is made *)

\* The publisher has granted the subscription that the thread t asked for.
LEMMA SubscribeIsGranted ==
    ASSUME IInv, NEW t \in Thread, NEW timeout \in TimeOuts, SubscribeGranted(t, timeout)
    PROVE  IInv'
  <1>1. /\ pc[t] = "subscribeSent" /\ local[t] \in Local /\ local[t].ActualSID # 0
        /\ UNCHANGED <<readers, lastActual, initial, calls, epoch, bound, rejected>>
        /\ local[t].handle \in Handle
    BY DEF SubscribeGranted, At, IInv, Types
  <1>2. /\ pc' \in [Thread -> Pc] /\ local' \in [Thread -> Local] /\ pc'[t] = "out" /\ Others(t)
        /\ local'[t] = NoLocal /\ subscribeLock' = Nobody
    <2>1. Return(t) /\ subscribeLock' = Nobody
      BY DEF SubscribeGranted, ErrorHandler
    <2> QED BY <2>1, Moves, NoLocalType DEF Return, IInv, Pc
  <1>3. CASE local[t].handle \notin registered /\ ErrorHandler(t)
    <2>1. Still
      BY <1>1, <1>3 DEF ErrorHandler, Still
    <2>2. Types'
      BY <1>1, <1>2, <2>1, NoLocalType, LocalTypes
         DEF IInv, Types, TypeOK, Still, handleVars, timerVars, Others
    <2>3. OneAsks'
      BY <1>1, <1>2, <2>1 DEF IInv, OneAsks, Types, Others, Still, Subscribing
    <2> QED BY <1>1, <1>2, <2>1, <2>2, <2>3, QuietStep
  <1>4. CASE local[t].handle \in registered
    <2>a. PICK h \in registered : h = local[t].handle
      BY <1>4
    <2>b. PICK sid : sid = lastSID + 1
      OBVIOUS
    <2>c. /\ \E o \in Outcomes(timeout) :
                LET id == IF o = "scheduled" THEN lastEventId ELSE NoId
                    new == [SID |-> sid, ActualSID |-> local[t].ActualSID, RenewEventId |-> id]
                IN  /\ ClientSubList' = [ClientSubList EXCEPT ![h] = <<new>> \o @]
                    /\ IF o = "scheduled"
                       THEN /\ timer' = timer \cup {[id |-> id, handle |-> h, SID |-> sid]}
                            /\ lastEventId' = id + 1
                       ELSE UNCHANGED <<timer, lastEventId>>
                    /\ broken' = (o = "failed")
          /\ lastSID' = sid
          /\ seen' = [seen EXCEPT ![sid] =
                [NotSeen EXCEPT !.handle = h, !.granted = timeout,
                                !.own = epoch[h] = local[t].epoch]]
          /\ UNCHANGED <<registered, fired>>
      BY <1>4, <2>a, <2>b DEF SubscribeGranted
    <2>d. PICK o \in Outcomes(timeout) :
                LET id == IF o = "scheduled" THEN lastEventId ELSE NoId
                    new == [SID |-> sid, ActualSID |-> local[t].ActualSID, RenewEventId |-> id]
                IN  /\ ClientSubList' = [ClientSubList EXCEPT ![h] = <<new>> \o @]
                    /\ IF o = "scheduled"
                       THEN /\ timer' = timer \cup {[id |-> id, handle |-> h, SID |-> sid]}
                            /\ lastEventId' = id + 1
                       ELSE UNCHANGED <<timer, lastEventId>>
                    /\ broken' = (o = "failed")
      BY <2>c
    <2>e. PICK id : id = IF o = "scheduled" THEN lastEventId ELSE NoId
      OBVIOUS
    <2>f. PICK new : new = [SID |-> sid, ActualSID |-> local[t].ActualSID, RenewEventId |-> id]
      OBVIOUS
    <2>g. /\ ClientSubList' = [ClientSubList EXCEPT ![h] = <<new>> \o @]
          /\ IF o = "scheduled"
             THEN /\ timer' = timer \cup {[id |-> id, handle |-> h, SID |-> sid]}
                  /\ lastEventId' = id + 1
             ELSE UNCHANGED <<timer, lastEventId>>
          /\ broken' = (o = "failed")
      BY <2>d, <2>e, <2>f
    <2>0. /\ h = local[t].handle /\ sid = lastSID + 1 /\ lastSID' = sid
          /\ id = (IF o = "scheduled" THEN lastEventId ELSE NoId)
          /\ new = [SID |-> sid, ActualSID |-> local[t].ActualSID, RenewEventId |-> id]
          /\ ClientSubList' = [ClientSubList EXCEPT ![h] = <<new>> \o @]
          /\ IF o = "scheduled"
             THEN /\ timer' = timer \cup {[id |-> id, handle |-> h, SID |-> sid]}
                  /\ lastEventId' = id + 1
             ELSE UNCHANGED <<timer, lastEventId>>
          /\ broken' = (o = "failed")
          /\ seen' = [seen EXCEPT ![sid] =
                [NotSeen EXCEPT !.handle = h, !.granted = timeout,
                                !.own = epoch[h] = local[t].epoch]]
          /\ UNCHANGED <<registered, fired>>
      <3>1. /\ seen' = [seen EXCEPT ![sid] =
                [NotSeen EXCEPT !.handle = h, !.granted = timeout,
                                !.own = epoch[h] = local[t].epoch]]
        BY <2>c, Zenon
      <3>2. UNCHANGED <<registered, fired>> /\ lastSID' = sid
        BY <2>c
      <3>3. broken' = (o = "failed")
        BY <2>g, Zenon
      <3>4. /\ ClientSubList' = [ClientSubList EXCEPT ![h] = <<new>> \o @]
            /\ IF o = "scheduled"
               THEN /\ timer' = timer \cup {[id |-> id, handle |-> h, SID |-> sid]}
                    /\ lastEventId' = id + 1
               ELSE UNCHANGED <<timer, lastEventId>>
        BY <2>g
      <3> QED BY <2>a, <2>b, <2>e, <2>f, <3>1, <3>2, <3>3, <3>4, Zenon
    <2>1. /\ h \in Handle /\ registered \subseteq Handle /\ lastSID \in Nat /\ lastActual \in Nat
          /\ bound.subs \in Nat /\ bound.events \in Nat /\ lastEventId \in 0..bound.events
          /\ lastActual <= bound.subs /\ lastSID < lastActual /\ lastEventId \in Nat
          /\ local[t].ActualSID \in 1..lastActual /\ timer \subseteq RenewEvent
      BY <1>1, CtrlptAssumption, LocalTypes DEF IInv, Types, TypeOK, OneAsks
    <2>2. sid \in 1..bound.subs /\ sid \notin SIDs /\ SIDs' = SIDs \cup {sid} /\ sid \in Nat
          /\ SIDs \subseteq 1..bound.subs
      BY <2>0, <2>1 DEF SIDs
    <2>3. id \in Int /\ lastEventId' \in 0..bound.events /\ lastEventId' >= lastEventId
          /\ id < lastEventId' /\ lastEventId' \in Nat
      BY <2>0, <2>1 DEF Outcomes, NoId
    <2>4. /\ new \in Subscription /\ new.SID = sid /\ new.ActualSID = local[t].ActualSID
          /\ new.RenewEventId = id
      BY <2>0, <2>1, <2>2, <2>3 DEF Subscription
    <2>5. /\ timer' \subseteq RenewEvent
          /\ \A e \in timer' : e \in timer \/ (e.id = lastEventId /\ e.id = id /\ e.id < lastEventId'
                                               /\ e.handle = h /\ e.SID = sid)
          /\ timer \subseteq timer'
          /\ o = "scheduled" => \E e \in timer' : e.handle = h /\ e.SID = sid
      <3> DEFINE e == [id |-> lastEventId, handle |-> h, SID |-> sid]
      <3>1. e \in RenewEvent /\ e.id = lastEventId /\ e.handle = h /\ e.SID = sid
        BY <2>1, <2>2 DEF RenewEvent
      <3>2. timer' = (IF o = "scheduled" THEN timer \cup {e} ELSE timer)
        BY <2>0
      <3> HIDE DEF e
      <3> QED BY <2>0, <2>1, <2>3, <3>1, <3>2
    <2>6. /\ ClientSubList' \in [Handle -> Seq(Subscription)]
          /\ \A x \in Handle : x # h => ClientSubList'[x] = ClientSubList[x]
          /\ ClientSubList'[h] = <<new>> \o ClientSubList[h]
      <3>1. ClientSubList \in [Handle -> Seq(Subscription)]
        BY DEF IInv, Types, TypeOK
      <3>2. <<new>> \o ClientSubList[h] \in Seq(Subscription)
        BY <2>1, <2>4, <3>1
      <3> QED BY <2>0, <2>1, <3>1, <3>2
    <2>7. ASSUME NEW x \in Handle, NEW k \in DOMAIN ClientSubList'[x]
          PROVE  \/ x = h /\ k = 1 /\ ClientSubList'[x][k] = new
                 \/ x # h /\ k \in DOMAIN ClientSubList[x] /\ ClientSubList'[x][k] = ClientSubList[x][k]
                 \/ /\ x = h /\ k \in Nat /\ k - 1 \in DOMAIN ClientSubList[x]
                    /\ ClientSubList'[x][k] = ClientSubList[x][k - 1]
      <3>1. CASE x # h
        BY <2>6, <3>1
      <3>2. CASE x = h
        <4>1. ClientSubList[h] \in Seq(Subscription) /\ Len(ClientSubList[h]) \in Nat
          BY <2>1 DEF IInv, Types, TypeOK
        <4>2. PICK list \in Seq(Subscription) : list = ClientSubList[h]
          BY <4>1
        <4>3. /\ DOMAIN (<<new>> \o list) = 1..(Len(list) + 1) /\ (<<new>> \o list)[1] = new
              /\ \A j \in 1..(Len(list) + 1) : j # 1 => (<<new>> \o list)[j] = list[j - 1]
          BY <2>4
        <4>4. k \in 1..(Len(list) + 1) /\ ClientSubList'[x] = <<new>> \o list
          BY <2>6, <3>2, <4>2, <4>3
        <4>5. CASE k = 1
          BY <3>2, <4>3, <4>4, <4>5
        <4>6. CASE k # 1
          <5>1. k - 1 \in 1..Len(list) /\ k \in Nat
            BY <4>1, <4>2, <4>4, <4>6
          <5> QED BY <3>2, <4>2, <4>3, <4>4, <4>6, <5>1
        <4> QED BY <4>5, <4>6
      <3> QED BY <3>1, <3>2
    <2>8. ASSUME NEW x \in Handle, NEW k \in DOMAIN ClientSubList[x]
          PROVE  \E j \in DOMAIN ClientSubList'[x] : ClientSubList'[x][j] = ClientSubList[x][k]
      <3>1. CASE x # h
        BY <2>6, <3>1
      <3>2. CASE x = h
        <4>1. PICK list \in Seq(Subscription) : list = ClientSubList[h]
          BY <2>1 DEF IInv, Types, TypeOK
        <4>2. /\ DOMAIN (<<new>> \o list) = 1..(Len(list) + 1)
              /\ \A j \in 1..Len(list) : (<<new>> \o list)[j + 1] = list[j]
          BY <2>4
        <4>3. k \in 1..Len(list) /\ k + 1 \in 1..(Len(list) + 1)
          BY <3>2, <4>1
        <4> QED BY <2>6, <3>2, <4>1, <4>2, <4>3
      <3> QED BY <3>1, <3>2
    <2>9. 1 \in DOMAIN ClientSubList'[h] /\ ClientSubList'[h][1] = new
      <3>1. PICK list \in Seq(Subscription) : list = ClientSubList[h]
        BY <2>1 DEF IInv, Types, TypeOK
      <3>2. 1 \in DOMAIN (<<new>> \o list) /\ (<<new>> \o list)[1] = new
        BY <2>4
      <3> QED BY <2>6, <3>1, <3>2
    <2>10. /\ seen' \in [1..bound.subs -> Observed]
           /\ \A x \in 1..bound.subs : x # sid => seen'[x] = seen[x]
           /\ seen'[sid].handle = h /\ seen'[sid].granted = timeout
           /\ seen'[sid].own => epoch[h] = local[t].epoch
      <3> DEFINE r1 == [NotSeen EXCEPT !.handle = h]
                 r2 == [r1 EXCEPT !.granted = timeout]
                 r3 == [r2 EXCEPT !.own = epoch[h] = local[t].epoch]
      <3>1. r1 \in Observed /\ r1.handle = h
        BY <2>1 DEF NotSeen, Observed, TimeOuts
      <3> HIDE DEF r1
      <3>2. r2 \in Observed /\ r2.handle = h /\ r2.granted = timeout
        BY <3>1 DEF Observed
      <3> HIDE DEF r2
      <3>3. /\ r3 \in Observed /\ r3.handle = h /\ r3.granted = timeout
            /\ r3.own => epoch[h] = local[t].epoch
        BY <3>2 DEF Observed
      <3>4. seen' = [seen EXCEPT ![sid] = r3]
        BY <2>0 DEF r1, r2
      <3> HIDE DEF r3
      <3> QED BY <2>2, <3>3, <3>4 DEF IInv, Types
    <2>11. Types'
      <3>1. \A x \in Thread : pc'[x] # "out" => local'[x].handle \in Handle
        BY <1>2 DEF Others, IInv, Types
      <3>2. lastSID' \in 0..bound.subs /\ broken' \in BOOLEAN /\ fired' \subseteq RenewEvent
        BY <2>0, <2>2 DEF IInv, Types, TypeOK
      <3> QED BY <1>1, <1>2, <2>0, <2>3, <2>5, <2>6, <2>10, <3>1, <3>2, LocalTypes
              DEF IInv, Types, TypeOK
    <2>12. ListsApart'
      <3>1. \A x \in Handle \ registered : ClientSubList'[x] = <<>>
        BY <2>6 DEF IInv, ListsApart
      <3>2. ASSUME NEW x \in Handle, NEW k \in DOMAIN ClientSubList'[x],
                   NEW sub, sub = ClientSubList'[x][k]
            PROVE  /\ sub.SID \in SIDs \cup {sid} /\ seen'[sub.SID].handle = x
                   /\ sub.ActualSID \in 1..lastActual
        <4>1. CASE sub = new /\ x = h
          BY <2>1, <2>2, <2>4, <2>10, <4>1
        <4>2. ASSUME NEW j \in DOMAIN ClientSubList[x], sub = ClientSubList[x][j]
              PROVE  /\ sub.SID \in SIDs /\ seen[sub.SID].handle = x
                     /\ sub.ActualSID \in 1..lastActual
          BY <4>2 DEF IInv, ListsApart
        <4>3. (sub = new /\ x = h) \/ \E j \in DOMAIN ClientSubList[x] : sub = ClientSubList[x][j]
          BY <2>7, <3>2
        <4> QED BY <2>2, <2>10, <4>1, <4>2, <4>3
      <3>3. ASSUME NEW x \in Handle, NEW j \in DOMAIN ClientSubList'[x],
                   NEW k \in DOMAIN ClientSubList'[x],
                   ClientSubList'[x][j].SID = ClientSubList'[x][k].SID
            PROVE  j = k
        <4>1. \A m \in DOMAIN ClientSubList[x] : ClientSubList[x][m].SID # sid
          BY <2>2 DEF IInv, ListsApart
        <4>2. \A m, n \in DOMAIN ClientSubList[x] : ClientSubList[x][m].SID = ClientSubList[x][n].SID => m = n
          BY DEF IInv, ListsApart
        <4>3. CASE x # h
          BY <2>7, <3>3, <4>2, <4>3
        <4>4. CASE x = h
          <5>1. \/ j = 1 /\ ClientSubList'[x][j].SID = sid
                \/ /\ j \in Nat /\ j - 1 \in DOMAIN ClientSubList[x]
                   /\ ClientSubList'[x][j].SID = ClientSubList[x][j - 1].SID
            BY <2>4, <2>7, <4>4
          <5>2. \/ k = 1 /\ ClientSubList'[x][k].SID = sid
                \/ /\ k \in Nat /\ k - 1 \in DOMAIN ClientSubList[x]
                   /\ ClientSubList'[x][k].SID = ClientSubList[x][k - 1].SID
            BY <2>4, <2>7, <4>4
          <5>3. (j = 1 /\ k = 1) \/ (j \in Nat /\ k \in Nat /\ j - 1 = k - 1)
            BY <3>3, <4>1, <4>2, <5>1, <5>2
          <5> QED BY <5>3
        <4> QED BY <4>3, <4>4
      <3>4. \A x \in 1..bound.subs : seen'[x].handle \in registered \cup {0}
        BY <2>10 DEF IInv, ListsApart
      <3>5. UNCHANGED <<registered, bound, lastActual>>
        BY <1>1, <2>0
      <3> QED BY <2>2, <3>1, <3>2, <3>3, <3>4, <3>5 DEF ListsApart
    <2>13. EventsApart'
      <3>1. \A e \in timer : e.id \in Nat /\ e.id < lastEventId /\ e.SID \in SIDs
        BY <2>1 DEF IInv, EventsApart, RenewEvent
      <3>2. (\A e \in timer' : e.id < lastEventId') /\ (\A e \in timer' \cup fired : e.SID \in SIDs \cup {sid})
        BY <2>1, <2>3, <2>5, <3>1 DEF IInv, EventsApart
      <3>3. ASSUME NEW x \in Handle, NEW k \in DOMAIN ClientSubList'[x],
                   NEW sub, sub = ClientSubList'[x][k]
            PROVE  /\ sub.RenewEventId < lastEventId'
                   /\ \A e \in timer' : e.id = sub.RenewEventId => e.handle = x /\ e.SID = sub.SID
        <4>1. CASE sub = new /\ x = h
          <5>1. \A e \in timer : e.id # id
            BY <2>0, <2>1, <3>1 DEF NoId
          <5> QED BY <2>3, <2>4, <2>5, <4>1, <5>1
        <4>2. ASSUME NEW j \in DOMAIN ClientSubList[x], sub = ClientSubList[x][j]
              PROVE  /\ sub.RenewEventId \in Int /\ sub.RenewEventId < lastEventId
                     /\ \A e \in timer : e.id = sub.RenewEventId => e.handle = x /\ e.SID = sub.SID
          <5>1. ClientSubList[x][j] \in Subscription
            BY DEF IInv, Types, TypeOK
          <5> QED BY <4>2, <5>1 DEF IInv, EventsApart, Subscription
        <4>3. (sub = new /\ x = h) \/ \E j \in DOMAIN ClientSubList[x] : sub = ClientSubList[x][j]
          BY <2>7, <3>3
        <4>4. CASE \E j \in DOMAIN ClientSubList[x] : sub = ClientSubList[x][j]
          <5>1. /\ sub.RenewEventId \in Int /\ sub.RenewEventId < lastEventId
                /\ \A e \in timer : e.id = sub.RenewEventId => e.handle = x /\ e.SID = sub.SID
            BY <4>2, <4>4
          <5> QED BY <2>1, <2>3, <2>5, <5>1
        <4> QED BY <4>1, <4>3, <4>4
      <3>4. ASSUME NEW x \in Thread, NEW l, l = local'[x]
            PROVE  /\ pc'[x] \in {"unregisterSend", "unsubscribeSent"} => l.RenewEventId < lastEventId'
                   /\ pc'[x] = "unregisterSend" => \A e \in timer' : e.id # l.RenewEventId
                   /\ pc'[x] = "unsubscribeSent" => \A e \in timer' :
                         e.id = l.RenewEventId => e.handle = l.handle /\ e.SID = l.SID
        <4>1. l.RenewEventId \in Int
          BY <1>2, <3>4, LocalTypes
        <4>2. pc'[x] \in {"unregisterSend", "unsubscribeSent"} => pc'[x] = pc[x] /\ l = local[x]
          BY <1>2, <3>4 DEF Others
        <4> QED BY <2>1, <2>3, <2>5, <4>1, <4>2 DEF IInv, EventsApart
      <3>5. SIDs' = SIDs \cup {sid} /\ fired' = fired
        BY <2>0, <2>2
      <3> QED BY <3>2, <3>3, <3>4, <3>5 DEF EventsApart
    <2>14. CallsKnown'
      <3>1. \A y \in Thread : pc'[y] \in Cancelling => pc[y] \in Cancelling /\ local'[y] = local[y]
        BY <1>2 DEF Others, Cancelling
      <3>2. \A y \in Thread : pc[y] \in Cancelling =>
               local[y].SID \in SIDs /\ seen'[local[y].SID].handle \in {local[y].handle, 0}
        BY <2>2, <2>10 DEF IInv, CallsKnown
      <3> QED BY <2>2, <3>1, <3>2 DEF CallsKnown
    <2>15. OneAsks'
      <3>1. \A y \in Thread : y # t => pc[y] # "subscribeSent" /\ pc[y] # "notifyLocked"
        BY <1>1 DEF IInv, OneAsks
      <3>2. lastSID' <= lastActual'
        BY <1>1, <2>0, <2>1
      <3>3. UNCHANGED <<lastActual, epoch>>
        BY <1>1
      <3> QED BY <1>2, <3>1, <3>2, <3>3 DEF IInv, OneAsks, Others, Subscribing
    <2>16. EventsWait'
      <3>1. \A a, x : NotPassed(a, x) => NotPassed(a, x)'
        BY <1>1, <1>2 DEF NotPassed, Others, Notifying
      <3>2. ASSUME NEW x \in registered, NEW k \in DOMAIN ClientSubList'[x],
                   seen'[ClientSubList'[x][k].SID].own
            PROVE  \A a : a = ClientSubList'[x][k].ActualSID => NotPassed(a, x)'
        <4>0. x \in Handle
          BY <2>1
        <4>1. CASE ClientSubList'[x][k] = new /\ x = h
          <5>1. epoch[h] = local[t].epoch
            BY <2>4, <2>10, <3>2, <4>1
          <5>2. NotPassed(local[t].ActualSID, h)
            BY <1>1, <2>0, <5>1 DEF IInv, EventsWait
          <5> QED BY <2>4, <3>1, <4>1, <5>2
        <4>2. ASSUME NEW j \in DOMAIN ClientSubList[x], ClientSubList'[x][k] = ClientSubList[x][j]
              PROVE  NotPassed(ClientSubList[x][j].ActualSID, x)
          <5>1. ClientSubList[x][j].SID \in SIDs
            BY <4>0 DEF IInv, ListsApart
          <5>2. seen[ClientSubList[x][j].SID].own
            BY <2>2, <2>10, <3>2, <4>2, <5>1
          <5> QED BY <5>2 DEF IInv, EventsWait
        <4>3. \/ ClientSubList'[x][k] = new /\ x = h
              \/ \E j \in DOMAIN ClientSubList[x] : ClientSubList'[x][k] = ClientSubList[x][j]
          BY <2>7, <4>0
        <4> QED BY <3>1, <4>1, <4>2, <4>3
      <3>3. \A y \in Thread :
               /\ pc'[y] \in Notifying => local'[y].ActualSID \in initial'
               /\ pc'[y] = "callback" => local'[y].ok
        BY <1>1, <1>2 DEF IInv, EventsWait, Others, Notifying
      <3>4. \A y \in Thread : pc'[y] # "subscribeSent"
        BY <1>1, <1>2 DEF IInv, OneAsks, Others
      <3>5. registered' = registered
        BY <2>0
      <3> QED BY <3>2, <3>3, <3>4, <3>5 DEF EventsWait
    <2>17. RenewalUnderWay'
      <3> SUFFICES ASSUME ~broken', NEW x \in registered, NEW k \in DOMAIN ClientSubList'[x],
                          NEW s, s = ClientSubList'[x][k].SID
                   PROVE  \/ seen'[s].granted = "infinite"
                          \/ seen'[s].refused
                          \/ \E f \in timer' \cup fired : f.handle = x /\ f.SID = s
                          \/ \E y \in Thread : /\ local'[y].handle = x /\ local'[y].SID = s
                                               /\ pc'[y] \in {"renewSent", "unsubscribeRemove"}
        <4>1. UNCHANGED <<registered, fired>>
          BY <2>0
        <4> QED BY <4>1 DEF RenewalUnderWay
      <3>0. x \in Handle /\ ~broken
        BY <2>1 DEF SubscribeGranted, At
      <3>1. CASE s = sid /\ x = h
        <4>1. timeout = "infinite" \/ o = "scheduled"
          BY <2>0 DEF Outcomes
        <4> QED BY <2>5, <2>10, <3>1, <4>1
      <3>2. ASSUME NEW j \in DOMAIN ClientSubList[x], s = ClientSubList[x][j].SID
            PROVE  \/ seen'[s].granted = "infinite"
                   \/ seen'[s].refused
                   \/ \E f \in timer' \cup fired : f.handle = x /\ f.SID = s
                   \/ \E y \in Thread : /\ local'[y].handle = x /\ local'[y].SID = s
                                        /\ pc'[y] \in {"renewSent", "unsubscribeRemove"}
        <4>1. s \in SIDs
          BY <3>0, <3>2 DEF IInv, ListsApart
        <4>2. seen'[s] = seen[s]
          BY <2>2, <2>10, <4>1
        <4>3. \/ seen[s].granted = "infinite"
              \/ seen[s].refused
              \/ \E f \in timer \cup fired : f.handle = x /\ f.SID = s
              \/ \E y \in Thread : /\ local[y].handle = x /\ local[y].SID = s
                                   /\ pc[y] \in {"renewSent", "unsubscribeRemove"}
          BY <3>0, <3>2 DEF IInv, RenewalUnderWay
        <4>4. \A y \in Thread : pc[y] \in {"renewSent", "unsubscribeRemove"} =>
                 pc'[y] = pc[y] /\ local'[y] = local[y]
          BY <1>1, <1>2 DEF Others
        <4> QED BY <2>5, <4>2, <4>3, <4>4
      <3>3. (s = sid /\ x = h) \/ \E j \in DOMAIN ClientSubList[x] : s = ClientSubList[x][j].SID
        BY <2>4, <2>7, <3>0
      <3> QED BY <3>1, <3>2, <3>3
    <2>18. NoSilentLoss'
      <3> SUFFICES ASSUME NEW z \in SIDs \cup {sid}, NEW x \in registered, x = seen'[z].handle
                   PROVE  \/ \E k \in DOMAIN ClientSubList'[x] : ClientSubList'[x][k].SID = z
                          \/ seen'[z].settled
                          \/ \E y \in Thread : pc'[y] = "renewFailed" /\ local'[y].SID = z
        BY <2>0, <2>2 DEF NoSilentLoss, HasSID
      <3>1. CASE z = sid
        BY <2>4, <2>9, <2>10, <3>1
      <3>2. CASE z \in SIDs
        <4>1. seen'[z] = seen[z] /\ x \in Handle
          BY <2>1, <2>2, <2>10, <3>2
        <4>2. \/ \E k \in DOMAIN ClientSubList[x] : ClientSubList[x][k].SID = z
              \/ seen[z].settled
              \/ \E y \in Thread : pc[y] = "renewFailed" /\ local[y].SID = z
          BY <3>2, <4>1 DEF IInv, NoSilentLoss, HasSID
        <4>3. \A y \in Thread : pc[y] = "renewFailed" => pc'[y] = pc[y] /\ local'[y] = local[y]
          BY <1>1, <1>2 DEF Others
        <4>4. ASSUME NEW k \in DOMAIN ClientSubList[x], ClientSubList[x][k].SID = z
              PROVE  \E j \in DOMAIN ClientSubList'[x] : ClientSubList'[x][j].SID = z
          BY <2>8, <4>1, <4>4
        <4> QED BY <4>1, <4>2, <4>3, <4>4
      <3> QED BY <3>1, <3>2
    <2> QED BY <2>11, <2>12, <2>13, <2>14, <2>15, <2>16, <2>17, <2>18 DEF IInv
  <1> QED BY <1>3, <1>4 DEF SubscribeGranted

-----------------------------------------------------------------------------
(* The theorems *)

\* At the start no client is registered, nothing is subscribed and no event
\* pending.
LEMMA InitHolds == Init => IInv
  <1> SUFFICES ASSUME Init PROVE IInv
    OBVIOUS
  <1>1. bound \in Bounds /\ bound.subs \in Nat /\ bound.events \in Nat
    BY CtrlptAssumption DEF Init
  <1>2. TypeOK
    <2>1. ClientSubList \in [Handle -> Seq(Subscription)]
      BY DEF Init
    <2>2. \A t \in Thread : local[t].handle = 0
      BY DEF Init, NoLocal
    <2>3. /\ lastSID \in 0..bound.subs /\ lastActual \in 0..bound.subs
          /\ lastEventId \in 0..bound.events
      BY <1>1 DEF Init
    <2>4. /\ registered \subseteq Handle /\ readers \subseteq Thread /\ timer \subseteq RenewEvent
          /\ fired \subseteq RenewEvent /\ initial \subseteq 1..lastActual
      BY DEF Init
    <2>5. subscribeLock \in Thread \cup {Nobody} /\ broken \in BOOLEAN
      BY DEF Init
    <2> QED BY <2>1, <2>2, <2>3, <2>4, <2>5 DEF TypeOK
  <1>3. seen \in [1..bound.subs -> Observed]
    <2>1. NotSeen \in Observed
      BY DEF NotSeen, Observed, TimeOuts
    <2> QED BY <2>1 DEF Init
  <1>4. pc \in [Thread -> Pc] /\ local \in [Thread -> Local] /\ epoch \in [Handle -> Nat]
    BY NoLocalType DEF Init, Pc
  <1>5. Types
    BY <1>1, <1>2, <1>3, <1>4 DEF Types, Init
  <1>6. ListsApart
    <2>1. \A sid \in 1..bound.subs : seen[sid].handle = 0
      BY DEF Init, NotSeen
    <2> QED BY <2>1 DEF Init, ListsApart
  <1>7. EventsApart /\ CallsKnown
    BY DEF Init, EventsApart, CallsKnown, Cancelling
  <1>8. OneAsks /\ EventsWait
    BY DEF Init, OneAsks, EventsWait, Subscribing, Notifying
  <1>9. RenewalUnderWay /\ NoSilentLoss
    BY DEF Init, RenewalUnderWay, NoSilentLoss
  <1> QED BY <1>5, <1>6, <1>7, <1>8, <1>9 DEF IInv

\* A step that changes nothing keeps the invariant.
LEMMA Stutters ==
    ASSUME IInv, UNCHANGED vars
    PROVE  IInv'
  <1>1. /\ UNCHANGED <<registered, ClientSubList, subscribeLock, readers, pc, local, timer,
                       lastEventId, fired, lastSID, lastActual, initial, bound, broken, epoch,
                       seen, rejected>>
        /\ UNCHANGED <<SIDs, lockVars>>
    BY DEF vars, handleVars, lockVars, threadVars, timerVars, nameVars, seenVars, SIDs
  <1>2. RenewalUnderWay'
    BY <1>1 DEF IInv, RenewalUnderWay
  <1>3. /\ pc' \in [Thread -> Pc] /\ local' \in [Thread -> Local]
        /\ seen' \in [1..bound.subs -> Observed]
    BY <1>1 DEF IInv, Types
  <1>4. \A x \in Thread : Advances(x)
    BY <1>1 DEF Advances
  <1> QED BY <1>1, <1>2, <1>3, <1>4, EventStep

\* The invariant holds of every state.
LEMMA InvariantHolds == Spec => []IInv
  <1>1. IInv /\ [Next]_vars => IInv'
    <2> SUFFICES ASSUME IInv, [Next]_vars PROVE IInv'
      OBVIOUS
    <2>1. CASE UpnpRegisterClient
      BY <2>1, RegisterStep
    <2>2. ASSUME NEW e \in timer, TimerFires(e) PROVE IInv'
      BY <2>2, TimerStep
    <2>3. ASSUME NEW t \in Thread, CallBegins(t) PROVE IInv'
      <3>1. ASSUME NEW h \in Handle, UpnpSubscribe(t, h) PROVE IInv'
        BY <3>1, SubscribeBegins
      <3>2. ASSUME NEW h \in Handle, NEW sid \in SIDs, UpnpUnSubscribe(t, h, sid) PROVE IInv'
        BY <3>2, UnSubscribeBegins
      <3>3. ASSUME NEW actual \in 1..lastActual, NEW key \in 0..1, Notification(t, actual, key)
            PROVE  IInv'
        BY <3>3, NotificationArrives
      <3> QED BY <2>3, <3>1, <3>2, <3>3, UnregisterSteps, RenewBegins DEF CallBegins
    <2>4. ASSUME NEW t \in Thread, CallStep(t) PROVE IInv'
      BY <2>4, UnregisterSteps, UnregisterAnswered, UnregisterEnds, SubscribeChecks, SubscribeSends,
         RenewIsRefused, RenewIsReported, UnSubscribeAnswered, UnSubscribeEnds, NotifySteps
         DEF CallStep
    <2>5. ASSUME NEW t \in Thread, Granted(t) PROVE IInv'
      BY <2>5, SubscribeIsGranted, RenewIsGranted DEF Granted
    <2>6. CASE UNCHANGED vars
      BY <2>6, Stutters
    <2> QED BY <2>1, <2>2, <2>3, <2>4, <2>5, <2>6 DEF Next
  <1> QED BY <1>1, InitHolds, PTL DEF Spec

\* Every variable of the control point keeps its type.
THEOREM TypeCorrect == Spec => []TypeOK
  <1>1. IInv => TypeOK
    BY DEF IInv, Types
  <1> QED BY <1>1, InvariantHolds, PTL

\* A subscription that runs out is renewed, or about to be, or cancelled, however
\* genaRenewSubscription(), genaUnSubscribe(), genaUnregisterClient() and the timer
\* overtake each other.
THEOREM RenewalCorrect == Spec => []RenewalUnderWay
  <1>1. IInv => RenewalUnderWay
    BY DEF IInv
  <1> QED BY <1>1, InvariantHolds, PTL

\* The initial event of a subscription is not rejected, even if it overtakes the
\* answer to the request.
THEOREM InitialEventCorrect == Spec => []InitialEventKept
  <1>1. IInv => InitialEventKept
    BY DEF IInv, EventsWait, NotPassed, InitialEventKept
  <1> QED BY <1>1, InvariantHolds, PTL

\* No subscription of a registered client disappears without the client knowing.
THEOREM LossCorrect == Spec => []NoSilentLoss
  <1>1. IInv => NoSilentLoss
    BY DEF IInv
  <1> QED BY <1>1, InvariantHolds, PTL
=============================================================================
