# A TLA+ model of the UPnP library

This directory is a verification project for the UPnP library in `compa/` (the
C++ re-engineering of pupnp).  It models the parts whose correctness depends on
the order in which threads, timers, messages and failures meet: TLC checks the
models on small instances, and TLAPS proves the safety properties of the thread
pool, the timer, eventing on both sides, discovery with registration, and the mini
server for every size, and that the trees of the XML library, which are made of
pointers, implement a forest of lists of children.

## 1. The system

The library is a set of C++ translations of C modules around a few global
objects.  An application calls the functions of `api/upnpapi.cpp`; the library
calls it back from threads of its own.

| Part | State | Operations | How it meets the others |
|---|---|---|---|
| Thread pool, `threadutil/ThreadPool.cpp` | three job queues, one slot for a persistent job, counters of threads, one mutex and two condition variables | init, add, add persistent, remove, get/set attributes, shutdown; the worker loop | three pools (send, receive, mini server) run all other parts |
| Timer, `threadutil/TimerThread.cpp` | event queue ordered by time, next identifier | init, schedule, remove, shutdown; the worker loop | its worker is a persistent job of the send pool; jobs schedule events |
| GENA device, `gena/gena_device.cpp`, `service-table/` | subscriptions of each service, each with a queue of events; counted property sets | subscribe, renew, unsubscribe, initial event, notify all, unregister; the notification job | requests come from the mini server's pool, notifications go through the send pool, all under the handle lock |
| GENA control point, `gena/gena_ctrlpt.cpp`, `client_table/` | subscriptions of each client with their renewal timers | subscribe, renew, unsubscribe, automatic renewal, incoming events | handle lock, subscribe lock, timer |
| Mini server, `miniserver/miniserver.cpp` | its state, its sockets | start, stop, the select loop, one job per connection | a persistent job; gives requests to SOAP, GENA and the web server |
| SDK, `api/upnpapi.cpp` | whether it is initialized, the handle table | init, finish, registration, the interface functions | starts and ends everything |
| SSDP, `ssdp/` | searches of each client | advertise, search, reply | timer, pools, mini server sockets |
| XML, `pupnp/ixml/` | trees of nodes, four pointers each | create, append, insert, replace, remove, clone, free | descriptions, property sets and actions are such trees |
| HTTP, `net/http/httpparser.cpp`, `httpreadwrite.cpp` | a parser with the message so far; a connection handle | append and parse, receive a message, download, open, write and end a request, get and read a response, cancel | the mini server, SOAP and GENA receive and send with it, applications call it through `upnpapi.cpp` |
| SOAP, web server, URI, sockets, lists, UUID | mostly none, or local to a call | | called by the parts above |

What is hard here:

* *Concurrency.*  Waiting gives up a mutex in the middle of an operation
  (`CreateWorker()`, `ThreadPoolAddPersistent()`, `TimerThreadShutdown()`), or an
  operation works on copies without its lock (`genaNotifyThread()`).  What was read
  before is stale afterwards.
* *Failure.*  Threads, memory and queue places run out in the middle of an
  operation; control points do not answer.
* *Ordering.*  Events must reach a control point in order although any thread
  sends them; timers must fire although events are inserted while the worker
  sleeps.
* *Reuse.*  A handle or an event identifier that was kept across a wait may belong to
  somebody else afterwards.
* *Arrival.*  A message comes in pieces cut anywhere, and the connection may close or
  time out between any two of them.
* *Ends.*  Shutdown happens while jobs run that still use what is shut down.

What makes each part correct is stated as properties below; `PROJECT.json` lists
the hazards line by line with the properties that would catch them.

## 2. Modules

| Module | Models | Run by |
|---|---|---|
| `ThreadPool` | `ThreadPool.cpp` | `MCThreadPool` |
| `ThreadPoolProofs` | theorems about `ThreadPool` | (TLAPS) |
| `TimerThread` | `TimerThread.cpp`, the pool external | `MCTimerThread` |
| `TimerThreadProofs` | theorems about `TimerThread` | (TLAPS) |
| `GenaDevice` | `gena_device.cpp` and the subscriptions of `service_table.cpp`; pool, network and application external | `MCGenaDevice` |
| `GenaDeviceProofs` | theorems about `GenaDevice` | (TLAPS) |
| `GenaCtrlpt` | `gena_ctrlpt.cpp`, `client_table.cpp`, the client calls of `upnpapi.cpp`; timer and pool reduced to their events and jobs | `MCGenaCtrlpt` |
| `GenaCtrlptProofs` | theorems about `GenaCtrlpt` | (TLAPS) |
| `HandleTable` | the handle table of `upnpapi.cpp` | (extended by `Ssdp`) |
| `Ssdp` | `ssdp/`, registration and `UpnpFinish()`, over `HandleTable` | `MCSsdp` |
| `SsdpProofs` | theorems about `Ssdp` and `HandleTable` | (TLAPS) |
| `MiniServer` | `miniserver.cpp` between `UpnpInit2()` and `UpnpFinish()` | `MCMiniServer` |
| `MiniServerProofs` | theorems about `MiniServer` | (TLAPS) |
| `DomTree` | what the calls of ixml do to a forest of nodes: the abstract specification | (by `Ixml`) |
| `Ixml` | `node.cpp` and the creation of nodes in `document.cpp`; implements `DomTree` | `MCIxml` |
| `IxmlProofs` | theorems about `Ixml` and its refinement of `DomTree` | (TLAPS) |
| `HttpParser` | `httpparser.cpp`: operators, no state | (extended by the next two) |
| `HttpConnection` | the reading half of `httpreadwrite.cpp`, `http_RecvPostMessage()` of `webserver.cpp` | `MCHttp` |
| `HttpRequest` | the writing half of `httpreadwrite.cpp`: operators on a handle | `MCHttp`, which reads what they write |
| `SequenceLemmas` | what inserting into and removing from a sequence leaves; used by the proofs of the timer, of eventing, of discovery and of ixml | (TLAPS) |

In all of them one critical section of the code is one action, so that a mutex is
not a variable.  An operation that waits in the middle is several actions, and its
local variables are state.  A definition whose comment begins with "Mutant" is a
deliberate error: it stands before the definition it would replace, is used nowhere,
and shows that a property notices.

### ThreadPool

`attr` ... `persistentJob` are the fields of `struct ThreadPool`.  A worker is where
`wpc` says: created, ready, waiting on `tp->condition`, woken, timed out, running
`wjob`.  A call in progress is `cpc` (at which wait) and `call` (its locals);
`sleeping` is the wait set of `tp->start_and_shutdown`.  Clients call any function,
running jobs those a scenario gives them.

| Code | Actions |
|---|---|
| `WorkerThread()` | `WorkerStart`, `WorkerWait`, `WorkerRetire`, `WorkerStop`, `WorkerTakePersistent`, `WorkerTake`, `WaitReturns` |
| `CreateWorker()`, `AddWorker()` | `CreateWorker`, `AddWorkers` inside the calls, `WakeCreate`, `WakeStart` for their waits |
| interface | `ThreadPoolInit`, `ThreadPoolAdd`, `ThreadPoolAddPersistent` with `WakePersistent`, `ThreadPoolRemove`, `ThreadPoolGetAttr` with `GetAttrLocked`, `ThreadPoolSetAttr`, `ThreadPoolShutdown` with `WakeShutdown` |

Time passes by `Tick`, which ages the queued jobs.  Statistics, scheduling policy
and thread priorities are left out: nothing else depends on them.

### TimerThread

`eventQ`, `lastEventId`, `shutdown` are the fields of `struct TIMERTHREAD`.  The
worker's loop is `WorkerStop`, `HandOver`, `HandOverPersistent`, `PersistentTaken`,
`WorkerWait` and `WaitTimesOut`.  `TimerThreadSchedule()` is two actions, because it
reads the clock before it takes the mutex.  The one section that can block with the
mutex held, adding a persistent job, is `wpc = "adding"`, which disables all others.
`waiting` is the one condition variable that worker and `TimerThreadShutdown()` share.
`owed` counts for each job how often its argument is in the timer's hands.

### GenaDevice

One service of one device.  `subscriptionList`, `TotalSubscriptions` and `sub` are the
service's list; `pool` and `sending` are the notification jobs before and during the
sending; `reference_count` belongs to a property set, which is one event.  The lookups
`GetSubscriptionSID()` and `GetNextSubscription()` remove what has expired; the actions
that call them do so too (`Dropped`, `expired` in `NotifyAll`).  `genaNotifyThread()` is
`NotifyStart` and `NotifyEnd`; what the control point answers is `Reply`.  Header
checks, URL lists and message texts are left out: a refused request changes nothing.
Exhausted memory is left out as well, but the pool may refuse a job.

### GenaCtrlpt

`registered` and `ClientSubList` are the handle table as the control point uses it.
Both locks are variables here, because their order is the question: `subscribeLock` is
`GlobalClientSubscribeMutex`, `readers` are the threads that keep the handle lock while
they wait for it; every other section under the handle lock is one action.  A call is a
program counter and its locals, with a step before and after each request to the
publisher.  `TimerFires` turns an event into a job, `GenaAutoRenewSubscription` starts
it.  `Notification` and the `Notify...` steps are `gena_process_notification_event()`,
which looks for the subscription again under the subscribe mutex.  When the timer
refuses the event of a new subscription the code deletes a list element that stays
linked (gena_ctrlpt.cpp:586); the model then sets `broken` and says no more.  `seen`,
`rejected` and `epoch` are observations.

### HandleTable and Ssdp

`HandleTable` has the table, the counters and flags beside it and the lookups, as
operators on records; `reg` in a record tells two registrations under one handle apart.
`Ssdp` extends it with the operations whose sections the handle lock separates:
unregistering (which sends byebye messages between two sections),
`UpnpSendAdvertisement()` and its repetition `AutoAdvertise()`, searches and
`searchExpired()`, the handlers of messages from the network, and `UpnpFinish()` with
its loops and its shutdown of timer, server and pools.  Sending keeps the read lock;
`WriteLock` waits for it.  A use of the timer after its shutdown is `crashed`.

### MiniServer

`gMServState` is read and written without a lock by the thread that starts and stops the
server and by the server, so each access is a step.  `sock` and `array` are the
`MiniServerSockArray` that both use: a descriptor is invalid, open or closed, the memory
live or freed.  A connection is queued, served, complete or dropped, and `closes` counts
how often it was closed.  `misuse` observes a read of freed memory or a second close.
Which failures have happened since the start is kept in `fault`, because two properties
name the failures under which the code does go wrong.

### DomTree and Ixml

`DomTree` has a sequence of children per node; a call either does what it should to these
sequences or returns an error that applies and changes nothing.  Its errors and effects are
those of `ixml.hpp`, but for three which it has as the code has them and names: a null
`refChild` is refused, a new child without an owner is refused by `insertBefore()` and
`replaceChild()`, and a node that is removed or replaced keeps its owner.  `Ixml` has the
pointers, and each call is the assignments of the function in their order,
`ixmlNode_free()` included, whose walk without recursion is `FreeWalk`.  `list`, what a
reader finds by following `firstChild` and `nextSibling`, is the refinement mapping: `Dom ==
INSTANCE DomTree WITH children <- list`.

The actions are the functions; what is asked of their callers stands apart, in `Call`.
`CarefulInsert`: a node that is put into a tree is new, was removed, or is already a child
there (the library itself always creates it just before).  `DomTree` moves the child of
another parent, as `ixml.hpp` says; the code does not, and no forest describes what it
leaves.  `CarefulClone`: no text in a tree that is cloned has a sibling after it, and no
document two roots.  What happens otherwise is below.

### HttpParser, HttpConnection and HttpRequest

`HttpParser` has an operator for every function from `scanner_get_token()` to
`parser_append()`; a function that changes the parser returns its status and the changed
record, whose fields are those of `http_parser_t`.  A message is a sequence of symbols: a
character, or a piece of an identifier that is only ever compared (a method, the name of
a header).  White space, line ends, quotes, separators, digits and control characters
are symbols of their own, because the scanner tells them apart, so a message can be cut
wherever it matters.

`HttpConnection` reads one such message in one of three ways (`use`): a server with
`http_RecvMessage()` and, for a POST, `http_RecvPostMessage()`; `http_Download()`; an
application with `http_GetHttpResponse()` and `http_ReadHttpResponse()`.  `pc` tells in
which loop `sock_read()` is called; it returns data, the end or an error (`ReadData`,
`ReadClosed`, `ReadError`), and what the call does until the next one is the same step.
`http_CancelHttpGet()` comes from another thread.  Every message of `MCHttp` says
what it means (its entity, whether it is well formed), from its construction and not
from the parser.

`HttpRequest` has `http_OpenHttpConnection()`, `http_MakeHttpRequest()`,
`http_WriteHttpRequest()` and `http_EndHttpRequest()`, as operators from a handle to a
handle.  `MCHttp` composes them with the reader: the requests of `Written` are what these
functions write, for every sequence of up to two parts, and a write that fails is a
message that ends early (`ReadClosed`).

## 3. Runs

| Run | Shows |
|---|---|
| `pool` | thread counters are the numbers of threads they stand for, never more than `maxThreads`, never less than `minThreads`; no wake-up is lost; every job is in one place; nothing is destroyed in use; no job is starved while somebody serves its queue; a call that never returns is one of those `WaitsInVain` names |
| `pool_v_remove` | disagreement: `ThreadPoolRemove()` removes another caller's job |
| `pool_v_persistent` | disagreement: `ThreadPoolAddPersistent()` waits for ever, instead of failing, when all workers are persistent |
| `timer` | arguments are neither leaked nor freed twice, the worker never sleeps past an event, identifiers name their own event; events leave the queue and the shutdown returns |
| `gena_device` | exactly the head of each queue is on its way, property sets are freed with their last holder, the subscription counter is right, events are sent in order with the right SEQ; no queue stalls |
| `gena_v_stall` | disagreement: after a refusal by the pool a queue has a head that nobody sends |
| `ctrlpt` | a subscription in the list is always about to be renewed, no initial event that overtakes the answer is rejected, no subscription disappears without its client being told; calls return |
| `ctrlpt_v_deadlock` | disagreement: subscribing with a handle that was just unregistered can block two threads, and with them the handle table, for ever |
| `sdk` | advertised devices are advertised again, searches end once and for their own client, messages reach every client, `UpnpFinish()` ends and leaves nothing but hidden devices; all with reused handles |
| `miniserver` | connections and sockets are released exactly once by the end; a socket array with two owners, and a stop that never returns, happen only after the failures that `ArrayHasOneOwner` and `WaitsInVain` name |
| `ixml` | for callers as above: pointers agree in both directions and never lead to a freed node; every call does to the lists of children what `DomTree` says |
| `http` | however a message is cut, and with timeouts, cancels and closing in between: its entity is delivered once and in order, what is accepted does not depend on the cuts (but for one kind of request, see below), no call waits when the end has arrived; messages that the library has written itself included |

The disagreements are explained under "findings" in `PROJECT.json`, with the lines of
the code and of the comment or document they contradict.

Other things the models contain as the code has them, which no document contradicts
and no property therefore condemns: a second `ThreadPoolAddPersistent()` overwrites the
slot of the first (ThreadPool.cpp:789); the removal of a persistent job, and the shutdown,
do not wake the caller that waits for its pick-up (902, 1021); a job that adds a job
during `ThreadPoolShutdown()` can stay in the loop of `AddWorker()`, and the shutdown with
it, as the workers it creates leave at once (`WorkersStay`); `ThreadPoolSetAttr()` shuts the pool down when a
concurrent submission has just created the thread it wanted (958);
`ThreadPoolShutdown()` does not look at `pendingWorkerThreadStart` (1026);
`ThreadPoolGetAttr()` reads `shutdown` twice without the mutex (916-920); an event
scheduled after `TimerThreadShutdown()` has begun is never run nor freed; a persistent
timer event deadlocks when every thread of the pool runs a job that waits for the
timer (the library schedules only short jobs); a refused initial event leaves its
subscription active without one (gena_device.cpp:527); a subscription granted while its
client unregisters is lost with the handle (upnpapi.cpp:1416); when the timer refuses the
event of a new subscription, the subscription is deleted and stays the head of
`ClientSubList` (gena_ctrlpt.cpp:586); a request of HTTP 0.9 with a blank at its end is
refused when it is cut between the two characters of its line end, as the second format
then does not match (httpparser.cpp:1256), and accepted otherwise (`CutSimpleRequest`).

Disagreements that TLC confirmed on these models and that have no run of their own,
because each is visible in a line or two once it is known:

* `BumpPriority()` compares the head of the low priority queue with `maxIdleTime`, not
  with `starvationTime` (ThreadPool.cpp:371 against ThreadPool.hpp:148).
* A job that a running job adds during `ThreadPoolShutdown()` is accepted and neither
  runs nor is freed (ThreadPool.cpp:812 against ThreadPool.hpp:314).
* A queue of events holds one event more than the maximum (gena_device.cpp:688 against
  the comment at 667, "The list size can never go over MAX_SUBSCRIPTION_QUEUED_EVENTS").
  The bound that holds, `OneAboveMaximum`, is proved.
* An event callback may come after `UpnpUnRegisterClient()` has returned, as the lock is
  given up before it is called (gena_ctrlpt.cpp:822 against upnp.hpp:957).
* An advertisement by the timer can go out between the byebye messages of
  `UpnpUnRegisterRootDevice()` and its end: the device is gone and stays announced
  (upnpapi.cpp:1300 against upnp.hpp:880).
* `StartMiniServer()` takes the positive errors of `ThreadPoolAddPersistent()` for success
  (miniserver.cpp:1244) and polls for 500 seconds.
* With two devices of a family `UpnpFinish()` unregisters one: the first clears the flag of
  the family, and `GetDeviceHandleInfo()` finds none any more (upnpapi.cpp:1325 against
  upnp.hpp:583 "Unregisters either the client or device").  `FinishCleansUp` names these
  devices (`hidden`).
* A downloaded document need not be followed by a terminator: when two trailers of a
  chunked response arrive in two pieces, `parser_parse_chunky_headers()` takes out only
  those of its last call, and `http_Download()` copies the first character of the others
  (httpparser.cpp:1645, httpreadwrite.cpp:805 against the comment at 804).
* The maximum content length is compared with `content_length`, which is 0 for a chunked
  message, and only when the message is complete (httpreadwrite.cpp:406 against
  upnp.hpp:986).
* `handle->contentLength` is tested by `http_WriteHttpRequest()` and
  `http_EndHttpRequest()` and assigned by nobody, so a request announced as chunked is
  written without chunks, or the other way round, as the memory has it
  (httpreadwrite.cpp:1190 against upnp.hpp:2324).  `Written` has the requests for which
  the memory agrees.
* ixml: a child of another parent is not removed there before it is appended or inserted
  (node.cpp:535, 636 against ixml.hpp:414, 445 and 503), so it is in two lists and is freed
  twice; a node can be appended to itself (`isAncestor()`, 400); `insertBefore()` with a
  null `refChild` ends in an assertion or an error instead of an append (530 against
  ixml.hpp:409); `insertBefore()` and `replaceChild()` refuse a new child that has no owner
  (526, 575 against ixml.hpp:411 and 423), a clone for example, which `appendChild()`
  takes; a node that is removed or replaced keeps its owner (592 against ixml.hpp:480 and
  447); a deep clone leaves out what follows a text (973 against ixml.hpp:537); freeing a
  node that is still linked frees the siblings after it when it has no children (138).

### Bounds

* Pool: two workers, two clients, up to three jobs in a scenario, of which up to three
  persistent; one or two threads allowed (one with `minThreads` 0, so that two callers meet
  in `CreateWorker()` with two workers to choose from), attributes that raise and lower that.  Two workers
  and two callers meet in every waiting place; three jobs fill a queue of `maxJobsTotal` 2,
  and three persistent jobs are one more than there are threads.  Ages are told apart up to
  `MaxAge`, which the starvation times do not exceed; a scenario whose ages do not matter
  has `age` 0.  Identifiers are counted modulo `IdModulus`.  The run unites eight
  scenarios (who calls what), chosen in `Init`; in one, two jobs of high priority are
  submitted again and again.
* Timer: three events at times 0, 1 and 2, two clients and a job that call it, two
  pool threads.  Three events suffice for insertion before, between and after.
* Eventing: two subscriptions share property sets, up to five events; a queue limit of
  1, an age limit of 0 and a largest key of 1 make discarding, ageing and wrapping
  happen within them.  Each scenario bounds events and clock separately.
* Control point: two threads, two handles that are given out once more, publishers
  that refuse, do not answer, or grant for a time or without end.  The run unites five
  combinations of bounds (`SmallBounds`; registrations, subscriptions, timer events,
  calls): 1-2-2-2 for two subscriptions with renewals, 2-1-2-2 for a stale
  handle, 2-2-0-2 for two clients whose subscriptions need no renewal, 1-1-2-3 for many
  calls and 1-1-3-2 for many renewals of one subscription.  Two threads are enough for
  every pair of overlapping calls; the second registration makes a handle stale.
* SDK: two threads, of which one is a worker, two handles, two families, up to three
  registrations and up to three pieces of work (an advertisement, a search or a
  message, the timer's included), four of both together (`MaxTotal`).  A third
  registration makes a handle that is in use elsewhere change its owner.
* Mini server: three connections (one served, one queued, one refused), two starts, all
  failures in any combination.
* ixml: a document, three elements and a text: a child between two others, a
  grandchild, and the clone of a tree of two.
* HTTP: the messages of `AllMessages`, 135 of them, up to 55 symbols: bodies of 0, 2 and 3
  symbols (also such as look like a line end, a size or a header) with a length, with a
  folded header, in no, one or two chunks with no, one or two trailers, until the
  connection is closed, with something after the end; malformed lines, headers and
  chunks; requests written in up to two parts.  `ReadData` cuts anywhere.  Reads of 1 and 2
  symbols and a buffer of 2 for a POST need several turns for a body of 3.  One error
  makes one retry; `IntModulus` is larger than every length.

Deadlock checking is off where the bounds, not the system, end a behaviour.

### Fairness

* Pool: workers and waiting callers that can go on do (weak fairness of the threads,
  as the operating system schedules them), jobs that are not persistent end, and the
  clock of the idle wait runs.  Nobody is obliged to call anything.  `NoStarvation` and
  `CallsReturn` say, for what lasts for ever, that an excuse lasts as well; each excuse
  was seen to be needed, as TLC finds a behaviour without it.
* Timer: the same for its worker, its callers and the pool; the clock runs.
* Eventing: the pool runs a job it has taken, and sending ends, because
  `notify_send_and_recv()` has timeouts for sending and answering.
* Control point: a thread in a call goes on when its lock is free, and a request is
  answered or times out.  Timer events need not fire.
* SDK: threads inside a call go on, and due expiries start, as the timer thread and the
  pools run; advertisements by the timer need not come.
* Mini server: the application's thread, the server and the request jobs go on while
  they can; failures never have to happen.

## 4. Proofs

Each theorem has the form `Spec => []P` (`OrderCorrect` and `TreeCorrect`: `Spec => P`) and
holds for any number of threads, jobs, handles, subscriptions, searches, connections and
nodes, for all limits
and with all faults the model knows.  The assumptions are the named `ASSUME`s of the
modules; they say that some sets are finite or disjoint and that limits have the types of
the variables they stand for, and TLC evaluates them in every run.

| Module | Theorems | Assumptions |
|---|---|---|
| `ThreadPoolProofs` | `TypeCorrect`, `AccountingCorrect`, `MaximumCorrect`, `WakeupCorrect` (`NoLostWakeup`), `MinimumCorrect` (`NeverLessThanMin`), `JobsCorrect` (`JobInOnePlace`) | `ConstantsAssumption` |
| `TimerThreadProofs` | `TypeCorrect`, `ArgumentCorrect` (`ArgumentConserved`), `WakeupCorrect` (`NoMissedEvent`), `IdCorrect` (`IdNamesItsEvent`) | `TimerAssumption` |
| `GenaDeviceProofs` | `TypeCorrect`, `TotalCorrect` (`TotalIsLength`), `QueueCorrect` (`OneAboveMaximum`), `HeadCorrect` (`HeadOnTheWay`), `CountsCorrect` (`CountsHolders`), `OrderCorrect` (the action property `SentInOrder`) | `GenaAssumption` |
| `GenaCtrlptProofs` | `TypeCorrect`, `RenewalCorrect` (`RenewalUnderWay`), `InitialEventCorrect` (`InitialEventKept`), `LossCorrect` (`NoSilentLoss`) | `CtrlptAssumption` |
| `SsdpProofs` | `TypeCorrect`, `AdvertisementCorrect` (`AdvertisementKept`), `SearchCorrect` (`SearchToldOnce`), `MessageCorrect` (`MessageReachesAll`), `FinishCorrect` (`FinishCleansUp`) | `HandleAssumption`, `SsdpAssumption` |
| `MiniServerProofs` | `TypeCorrect`, `FinishCorrect` (`FinishReleasesAll`), `OwnerCorrect` (`ArrayHasOneOwner`) | `MiniServerAssumption` |
| `IxmlProofs` | `LinksCorrect` (`LinksAgree`), `TreeCorrect` (`ImplementsTree`, the refinement of `DomTree`) | `IxmlAssumption` |

Every proof has the same layout: an inductive invariant as a conjunction of named parts,
one lemma per action (or per group of actions with the same effect), and theorems that
follow from the invariant.  Before it was proved each invariant was checked with TLC on
the instances of the module's own run: 315,323 states for the pool, 180,412 for the timer, 59,558 for the
device, 210,478 for the control point, 151,076 for discovery, 127,127 for the mini server, 7,093
for ixml.
It is not repeated as a run, since it is now a theorem.

**Thread pool.**  `IInv == TypeOK /\ Accounting /\ NeverMoreThanMax`.  None but the first
is inductive alone.  `NeverMoreThanMax` compares `maxThreads` with the workers that run
and the one that is being started; `CreateWorker()` looks only at `totalThreads` and
`pendingWorkerThreadStart`, so only `Accounting` tells that `totalThreads < maxThreads`
without a pending start leaves room for one more.  `Accounting` needs that persistent
jobs and others are never confused, because a worker that returns counts itself down by
what its job was.  `JInv` adds to it `WakeKept` (sleeping workers against waiting jobs
and the submitters that have still to signal, as numbers), `MinKept` (who still has to
raise the number of threads) and `InitAlone` (nobody else is inside while
`ThreadPoolInit()` runs).  `JobInOnePlace` follows from `Known`: two places never
hold the same job, and what the queues, the workers and the calls hold are jobs that were
submitted.  `DestroyedUnused` has no theorem, for it does not hold in general: it says
that an application which makes its calls in the order of the scenarios finds nothing
destroyed, and the code has nothing that enforces that order.

**Timer.**  The argument of an event is conserved because a job is at most once in
the queue and a thread between the two halves of `TimerThreadSchedule()` has a job and an
identifier of its own (`CallsApart`).  `NoMissedEvent` needs `QueueOrdered`: the worker looks
at the head only, and the caller signals only when its event is the new head.  `WaitersApart`
is needed because the worker and the caller of `TimerThreadShutdown()` wait for the same
condition variable and a single signal must not wake the wrong one.  Stale
identifiers are harmless because `lastEventId` has passed all of them (`IdsBehind`).

**GENA device.**  The invariant describes each subscription by itself (`Fitting`), apart
from the others, in three cases: in the list (`Served`), in it and never refused a job by the
pool (`Prompt`), no longer in it (`Gone`).  `HeadOnTheWay` alone is not inductive: that a
notification which ends belongs to the head it removes needs that a subscription has one
notification under way at most and a queue each event once, and that nothing is left of
an identity that was never used (`UnusedKept`).  `SentInOrder` needs the key: while an event is
being sent without the lock `ToSendEventKey` is the one it is sent with, otherwise the one that
follows the last.  The counters are compared with two sets, the subscriptions that hold the
event behind their head and those of which it is on its way; that sets are
enough follows from the order of the queues.

**GENA control point.**  `RenewalUnderWay` and `NoSilentLoss` relate a list to timer events,
jobs and the locals of threads; they need that a SID is in one list once (`ListsApart`) and that an
identifier, in the list or in a copy which a thread took before it unlocked, names the
event of that subscription or none (`EventsApart`).  `InitialEventKept` rests on the subscribe
lock: one thread asks at a time (`OneAsks`), so an event that overtakes the answer
waits for it and cannot pass the handle (`EventsWait`).

**Discovery and registration.**  The difficulty is that handles are reused.  `Table` says that a
number of registration names one handle, that the counter is the number of clients and
that only hidden devices are not found through their family's flag; `Well` says what a
thread may rely on at each point, given whether it holds the lock there.  `Leaves` (two
threads never free one handle) is what makes `UpnpFinish()` end with an empty table,
`Told` and `Lists` what makes a search end once.

**Mini server.**  `gMServState` is read and written without a lock.  `StateOfServer` and
`ServerOfApp` say what its value still tells about the other thread, `OwnerOfArray` who has
the sockets; each names the faults after which it no longer holds, and `ArrayHasOneOwner` and
`FinishReleasesAll` follow with the same exceptions.

**ixml.**  The invariant compares the four pointers with the lists: `Shape(tree, list)` says
which pointers the lists stand for, at every place of every list and for every node without
a parent; `Acyclic(list)` gives each node a height above its children; `Fit` says that only
nodes that exist are in lists and that their types allow it.  `LinksAgree` follows at once, but
is not inductive: it says nothing of the first child, nor that a walk ends.  For each call
there are three steps.  The assignments of the code, in their order, turn the pointers of
the lists before into those of the lists after (`UnlinkedAt`, `LinkedBefore`,
`LinkedLast`).  The lists after are acyclic because the checks are right: what
`ixmlNode_isAncestor()` visits is more than the subtree when the node has siblings, and
yet the answer is that of the subtree (`CheckedRight`).  What `ChildList` reads
afterwards are these lists (`ListFollows`), so that the step is one of `DomTree`.

The walks are recursive functions, and what they come to is proved by induction over the
number of turns or over a height (`Induction`, `RankInduction`, which follow from the least
element of a set of numbers).  A search reaches the least set that is closed under its
edges (`FoundLeast`); this gives what `ixmlNode_isAncestor()` and the deep clone visit, and
`Subtree` of `DomTree`.  `ixmlNode_free()` has an invariant of its own, `Walks`: the nodes freed so
far are below the one to free, whatever they lead to was freed before, and the pointers that
were cleared are exactly those that led to them.  Every turn frees one more (`TurnKeeps`), so
that after as many turns as there are nodes the subtree is gone, and nothing else
(`WalkEnds`).  A deep clone copies the subtree because no text in it has a sibling after it
(`CopiedIs`): this is what `CarefulClone` is needed for.  `TreeCorrect` says
that the pointers implement the forest of `DomTree`, and not that the code does all that
`ixml.hpp` says: it has the preconditions on callers that `Call` states, and `DomTree` has
the three effects of the code named above.  The divergences above the bounds in section 3
are what happens without the one and what the header says instead of the other.

A few operators have the form they have for the sake of the proofs: `Without` in `GenaCtrlpt`
and in `GenaDevice` (removal from a list) and the end of `ChildList` in `Ixml`, as
`SelectSeq` is defined by recursion; `Without` in `DomTree` removes the first occurrence, and in
a forest there is no second.

Only model-checked, and why:

* all liveness, which this prover does not handle;
* `EntityDelivered` and `ArrivalIndependent` of HTTP: the parser is made of recursive operators;
* `DestroyedUnused`, see above.

## 5. Not modelled, and the plan

`PROJECT.json` lists every part with the reason.

* Conversions of text that keep no state between calls: the XML parser and printer, SOAP
  messages, URIs, the URLs of descriptions.
* HTTP: escapes within quoted strings, error codes, URLs, letter case, the exception for
  SSDP's NOTIFY without a length, exhausted memory, a failing write of the file of a POST,
  a second request over one handle; bodies whose length does not fit an `int`
  (httpparser.cpp:774).
* Web server: the alias document is worth a module.  Two of its faults are visible by
  reading: every copy of an alias has a counter of its own, so that the document is
  freed while a request sends it (webserver.cpp:188, 448), and the call that should
  remove the alias is refused (221, called at upnpapi.cpp:1321 with null content).
  `web_server_destroy()` comes before the end of the jobs that use the web server
  (upnpapi.cpp:682).
* Exhausted memory in eventing: `genaInitNotifyCommon()` then unlocks what it has not
  locked (gena_device.cpp:489).  A failed `TimerThreadInit()` is followed by the
  shutdown of a timer without a worker (upnpapi.cpp:465).
* Wrappers of system calls, file serving, UUID and MD5, statistics.
* `pupnp/upnp/` is the library from which `compa/` was made, with nearly the same text;
  `openssl/` holds headers of another project, `utest/`, `umock/` and `sample/` use the
  library.  Together they are most of the repository's lines, and no part of the model.

Next:

1. Abstract specifications: a bag of jobs each run at most once, implemented by
   `ThreadPool`; the pool that `TimerThread` assumes, implemented by `ThreadPool`.
2. The alias of the web server beside the mini server's request jobs.
