------------------------------ MODULE MiniServer ------------------------------
(***************************************************************************)
(* The mini server (genlib/miniserver/miniserver.cpp) between UpnpInit2()  *)
(* and UpnpFinish(): the application's thread that starts and stops it,    *)
(* the persistent job RunMiniServer(), and the jobs that serve the         *)
(* connections it accepts.                                                 *)
(*                                                                         *)
(* gMServState is shared without a lock, so each access to it is a step of *)
(* its own.  The sockets of the array are one per purpose; a descriptor is *)
(* "invalid" where the array holds INVALID_SOCKET and "closed" where it    *)
(* holds the number of a closed one.  The pool is reduced to what the      *)
(* server sees of it (ThreadPool has the rest): it takes a job, refuses    *)
(* it, or drops it at its shutdown.                                        *)
(***************************************************************************)
EXTENDS Naturals, FiniteSets

CONSTANTS
    Faults,     \* what may fail: "sock" when starting, "refuse" a job, "late"
                \* start, "select", "recv" and "ssdp" while serving, "stopSock"
    MaxConns,   \* bound: connections accepted
    MaxStarts   \* bound: calls of UpnpInit2()

ASSUME MiniServerAssumption ==
    /\ Faults \subseteq {"sock", "refuse", "late", "select", "recv", "ssdp", "stopSock"}
    /\ MaxConns \in Nat /\ MaxStarts \in Nat

VARIABLES
    gMServState,
    app,        \* where the application's thread is
    server,     \* where the job of RunMiniServer() is
    sock,       \* the MiniServerSockArray
    array,      \* the memory of it: "none", "live", "freed"
    ready,      \* the server's rdSet after select()
    told,       \* "ShutDown" waits on the stop socket
    conn,       \* the connections, in the order they are accepted
    closes,     \* how often each was closed
    poolDown,   \* ThreadPoolShutdown() has set shutdown
    starts,     \* what counts for the bound MaxStarts
    fault,      \* observed: what has failed since UpnpInit2()
    misuse      \* observed: uses of freed memory or of a closed descriptor

vars == <<gMServState, app, server, sock, array, ready, told, conn, closes,
          poolDown, starts, fault, misuse>>
appVars == <<app, starts>>
sockVars == <<sock, array>>
connVars == <<conn, closes>>
seenVars == <<fault, misuse>>

Sock == {"http", "ssdp", "stop"}
Conn == 1..MaxConns
Invalid == [s \in Sock |-> "invalid"]

Fails(f) == f \in Faults /\ fault' = fault \union {f}

\* sock_close() on every descriptor of the array, which may be freed memory
\* or hold descriptors that are closed already.
CloseAll ==
    /\ sock' = [s \in Sock |-> IF sock[s] = "open" THEN "closed" ELSE sock[s]]
    /\ misuse' = misuse
          \union (IF array = "freed" THEN {"freed"} ELSE {})
          \union (IF \E s \in Sock : sock[s] = "closed" THEN {"closedTwice"} ELSE {})

-----------------------------------------------------------------------------
(* The application's thread: UpnpInit2() *)

\* The pool is a new one, so a job that the last one still had is lost.
UpnpInit2 ==
    /\ app = "down" /\ starts < MaxStarts
    /\ app' = "startTest"
    /\ starts' = starts + 1
    /\ poolDown' = FALSE
    /\ sock' = Invalid /\ array' = "none" /\ told' = FALSE
    /\ conn' = [c \in Conn |-> IF conn[c] = "queued" THEN "lost" ELSE conn[c]]
    /\ fault' = {} /\ misuse' = {}
    /\ UNCHANGED <<gMServState, server, ready, closes>>

\* StartMiniServer() up to the job.  Where a socket fails, those that exist are
\* closed and the array is freed before it returns.
StartTest ==
    /\ app = "startTest"
    /\ \/ /\ gMServState = "IDLE"
          /\ app' = "addJob"
          /\ sock' = [s \in Sock |-> "open"] /\ array' = "live"
          /\ UNCHANGED fault
       \/ /\ gMServState = "IDLE" /\ Fails("sock")
          /\ app' = "stopTest"
          /\ sock' = [s \in Sock |-> "closed"] /\ array' = "freed"
       \/ /\ gMServState # "IDLE"
          /\ app' = "stopTest"
          /\ UNCHANGED <<sockVars, fault>>
    /\ UNCHANGED <<gMServState, server, ready, told, connVars, poolDown, starts, misuse>>

\* ThreadPoolAddPersistent() returns when a worker has the job, or a positive
\* error, which `ret_code < 0` takes for success.
AddPersistent ==
    /\ app = "addJob"
    /\ \/ server' = "taken" /\ UNCHANGED fault
       \/ Fails("refuse") /\ UNCHANGED server
    /\ app' = "poll"
    /\ UNCHANGED <<gMServState, sockVars, ready, told, connVars, poolDown, starts, misuse>>

PollSeesRunning ==
    /\ app = "poll" /\ gMServState = "RUNNING"
    /\ app' = "ports"
    /\ UNCHANGED <<gMServState, server, sockVars, ready, told, connVars, poolDown,
                   starts, seenVars>>

\* After max_count turns: there is no server, or it is late.
PollTimesOut ==
    /\ app = "poll" /\ gMServState # "RUNNING"
    /\ \/ server = "none" /\ UNCHANGED fault
       \/ server # "none" /\ Fails("late")
    /\ CloseAll
    /\ app' = "stopTest"
    /\ UNCHANGED <<gMServState, server, array, ready, told, connVars, poolDown, starts>>

\* The ports come from the array, which the server frees.
ReadPorts ==
    /\ app = "ports"
    /\ misuse' = IF array = "freed" THEN misuse \union {"freed"} ELSE misuse
    /\ app' = "up"
    /\ UNCHANGED <<gMServState, server, sockVars, ready, told, connVars, poolDown,
                   starts, fault>>

-----------------------------------------------------------------------------
(* The application's thread: UpnpFinish() *)

UpnpFinish ==
    /\ app = "up"
    /\ app' = "stopTest"
    /\ UNCHANGED <<gMServState, server, sockVars, ready, told, connVars, poolDown,
                   starts, seenVars>>

StopTest ==
    /\ app = "stopTest"
    /\ app' = IF gMServState = "RUNNING" THEN "stopSet" ELSE "shutdown"
    /\ UNCHANGED <<gMServState, server, sockVars, ready, told, connVars, poolDown,
                   starts, seenVars>>

\* STOPPING overwrites what the server may have set since the test.
StopSet ==
    /\ app = "stopSet"
    /\ gMServState' = "STOPPING"
    /\ \/ app' = "stopLoop" /\ UNCHANGED fault
       \/ app' = "shutdown" /\ Fails("stopSock")
    /\ UNCHANGED <<server, sockVars, ready, told, connVars, poolDown, starts, misuse>>

\* One turn: the datagram is lost when nobody owns the port.
StopSends ==
    /\ app = "stopLoop" /\ gMServState # "IDLE"
    /\ told' = (sock["stop"] = "open")
    /\ UNCHANGED <<gMServState, appVars, server, sockVars, ready, connVars, poolDown,
                   seenVars>>

StopSeesIdle ==
    /\ app = "stopLoop" /\ gMServState = "IDLE"
    /\ app' = "shutdown"
    /\ UNCHANGED <<gMServState, server, sockVars, ready, told, connVars, poolDown,
                   starts, seenVars>>

\* Mutant: the jobs of the requests have no free function.
DropRequests ==
    /\ conn' = [c \in Conn |-> IF conn[c] = "queued" THEN "dropped" ELSE conn[c]]
    /\ UNCHANGED closes

\* free_handle_request_arg() of every queued job.
FreeRequests ==
    /\ conn' = [c \in Conn |-> IF conn[c] = "queued" THEN "dropped" ELSE conn[c]]
    /\ closes' = [c \in Conn |-> IF conn[c] = "queued" THEN closes[c] + 1 ELSE closes[c]]

\* ThreadPoolShutdown() of the mini server's pool, until it waits.
PoolShutdown ==
    /\ app = "shutdown"
    /\ FreeRequests
    /\ poolDown' = TRUE
    /\ app' = "poolWait"
    /\ UNCHANGED <<gMServState, server, sockVars, ready, told, starts, seenVars>>

\* No thread of the pool is left.
ThreadsGone == server = "none" /\ \A c \in Conn : conn[c] # "served"

\* The end of ThreadPoolShutdown() and of UpnpFinish().
FinishEnds ==
    /\ app = "poolWait" /\ ThreadsGone
    /\ app' = "down"
    /\ UNCHANGED <<gMServState, server, sockVars, ready, told, connVars, poolDown,
                   starts, seenVars>>

-----------------------------------------------------------------------------
(* RunMiniServer() *)

ServerRuns ==
    /\ server = "taken"
    /\ gMServState' = "RUNNING"
    /\ server' = "select"
    /\ UNCHANGED <<appVars, sockVars, ready, told, connVars, poolDown, seenVars>>

NewConns == {c \in Conn : conn[c] = "none"}

\* select() returns with readable sockets.  Closed ones are left out of the
\* set by fdset_if_valid(), but for the stop socket, whose EBADF has the loop
\* try again.  An unread "ShutDown" is always among them.
SelectReturns ==
    /\ server = "select" /\ sock["stop"] = "open"
    /\ \E rd \in SUBSET {s \in Sock : sock[s] = "open"} \ {{}} :
          /\ told => "stop" \in rd
          /\ ("http" \in rd) => (NewConns # {})
          /\ ready' = rd
    /\ server' = "accept"
    /\ UNCHANGED <<gMServState, appVars, sockVars, told, connVars, poolDown, seenVars>>

SelectFails ==
    /\ server = "select" /\ Fails("select")
    /\ server' = "close"
    /\ UNCHANGED <<gMServState, appVars, sockVars, ready, told, connVars, poolDown, misuse>>

\* Mutant: a refused connection is closed by free_handle_request_arg() and
\* again by sock_close().
RefusedClosedTwice(c) ==
    \/ conn' = [conn EXCEPT ![c] = "queued"] /\ UNCHANGED <<closes, fault>>
    \/ /\ Fails("refuse")
       /\ conn' = [conn EXCEPT ![c] = "dropped"]
       /\ closes' = [closes EXCEPT ![c] = @ + 2]

\* A job for the connection, which is closed when the pool refuses it.
schedule_request_job(c) ==
    \/ conn' = [conn EXCEPT ![c] = "queued"] /\ UNCHANGED <<closes, fault>>
    \/ /\ Fails("refuse")
       /\ conn' = [conn EXCEPT ![c] = "dropped"]
       /\ closes' = [closes EXCEPT ![c] = @ + 1]

\* web_server_accept() on the listening sockets.
WebServerAccept ==
    /\ server = "accept"
    /\ server' = "ssdpRead"
    /\ \/ /\ "http" \in ready
          /\ \E c \in NewConns :
                (\A d \in NewConns : c <= d) /\ schedule_request_job(c)
       \/ "http" \notin ready /\ UNCHANGED <<connVars, fault>>
    /\ UNCHANGED <<gMServState, appVars, sockVars, ready, told, poolDown, misuse>>

\* Mutant: ssdp_read() leaves the number of the closed socket in the array.
ClosesSsdp == sock' = [sock EXCEPT !["ssdp"] = "closed"]

\* ssdp_read() closes a socket it cannot read.
ForgetsSsdp == sock' = [sock EXCEPT !["ssdp"] = "invalid"]

SsdpRead ==
    /\ server = "ssdpRead"
    /\ server' = "checkStop"
    /\ \/ UNCHANGED <<sock, fault>>
       \/ "ssdp" \in ready /\ sock["ssdp"] = "open" /\ Fails("ssdp") /\ ForgetsSsdp
    /\ UNCHANGED <<gMServState, appVars, array, ready, told, connVars, poolDown, misuse>>

\* Mutant: the datagram is compared with its terminating zero, which
\* StopMiniServer() does not send.
NeverShutDown == FALSE

ShutDownReceived == told

\* receive_from_stopSock(): "ShutDown" or an error ends the loop, any other
\* datagram does not.
CheckStop ==
    /\ server = "checkStop"
    /\ \/ "stop" \in ready /\ ShutDownReceived /\ server' = "close" /\ UNCHANGED fault
       \/ "stop" \in ready /\ Fails("recv") /\ server' = "close"
       \/ ~("stop" \in ready /\ ShutDownReceived) /\ server' = "select" /\ UNCHANGED fault
    /\ told' = (told /\ "stop" \notin ready)
    /\ ready' = {}
    /\ UNCHANGED <<gMServState, appVars, sockVars, connVars, poolDown, misuse>>

\* All sockets are closed and the array is freed.
ServerCloses ==
    /\ server = "close"
    /\ CloseAll
    /\ array' = "freed"
    /\ server' = "idle"
    /\ UNCHANGED <<gMServState, appVars, ready, told, connVars, poolDown, fault>>

ServerEnds ==
    /\ server = "idle"
    /\ gMServState' = "IDLE"
    /\ server' = "none" /\ ready' = {}
    /\ UNCHANGED <<appVars, sockVars, told, connVars, poolDown, seenVars>>

-----------------------------------------------------------------------------
(* The jobs of the connections *)

\* A worker takes the job of handle_request(); after the shutdown none does.
HandleRequest(c) ==
    /\ conn[c] = "queued" /\ ~poolDown
    /\ conn' = [conn EXCEPT ![c] = "served"]
    /\ UNCHANGED <<gMServState, appVars, server, sockVars, ready, told, closes,
                   poolDown, seenVars>>

\* The request is read within HTTP_DEFAULT_TIMEOUT and dispatched, or an error
\* is answered; either way the connection is closed.
RequestComplete(c) ==
    /\ conn[c] = "served"
    /\ conn' = [conn EXCEPT ![c] = "complete"]
    /\ closes' = [closes EXCEPT ![c] = @ + 1]
    /\ UNCHANGED <<gMServState, appVars, server, sockVars, ready, told, poolDown,
                   seenVars>>

-----------------------------------------------------------------------------

Init ==
    /\ gMServState = "IDLE"
    /\ app = "down" /\ server = "none"
    /\ sock = Invalid /\ array = "none" /\ ready = {} /\ told = FALSE
    /\ conn = [c \in Conn |-> "none"] /\ closes = [c \in Conn |-> 0]
    /\ poolDown = FALSE /\ starts = 0
    /\ fault = {} /\ misuse = {}

AppStep ==
    \/ StartTest \/ AddPersistent \/ PollSeesRunning \/ PollTimesOut \/ ReadPorts
    \/ StopTest \/ StopSet \/ StopSends \/ StopSeesIdle \/ PoolShutdown \/ FinishEnds

ServerStep ==
    \/ ServerRuns \/ SelectReturns \/ WebServerAccept \/ SsdpRead \/ CheckStop
    \/ ServerCloses \/ ServerEnds

Next ==
    \/ UpnpInit2 \/ UpnpFinish \/ AppStep
    \/ ServerStep \/ SelectFails
    \/ \E c \in Conn : HandleRequest(c) \/ RequestComplete(c)

Spec == Init /\ [][Next]_vars

\* A thread of the library goes on while it can, the server among them; the
\* application need not call, and nothing has to fail.
FairSpec ==
    /\ Spec
    /\ WF_vars(AppStep) /\ WF_vars(ServerStep)
    /\ \A c \in Conn : WF_vars(HandleRequest(c)) /\ WF_vars(RequestComplete(c))

-----------------------------------------------------------------------------
(* Properties *)

\* The type of every variable; no connection is ever closed twice, by its job,
\* its free function and the server between them.
TypeOK ==
    /\ gMServState \in {"IDLE", "RUNNING", "STOPPING"}
    /\ app \in {"down", "startTest", "addJob", "poll", "ports", "up", "stopTest",
                "stopSet", "stopLoop", "shutdown", "poolWait"}
    /\ server \in {"none", "taken", "select", "accept", "ssdpRead", "checkStop",
                   "close", "idle"}
    /\ sock \in [Sock -> {"invalid", "open", "closed"}]
    /\ array \in {"none", "live", "freed"}
    /\ ready \subseteq Sock /\ told \in BOOLEAN
    /\ conn \in [Conn -> {"none", "queued", "served", "complete", "dropped", "lost"}]
    /\ closes \in [Conn -> 0..1]
    /\ poolDown \in BOOLEAN /\ starts \in 0..MaxStarts
    /\ fault \subseteq Faults /\ misuse \subseteq {"freed", "closedTwice"}

\* UpnpFinish() leaves nothing behind: when it has returned, every accepted
\* connection was closed exactly once, whether it was served, refused by the
\* pool or dropped from its queue, and no socket of the server is open.  Only a
\* server that outlives its pool, as it was not stopped, can have queued a
\* connection that nobody takes.
FinishReleasesAll ==
    app = "down" =>
        /\ \A c \in Conn :
              \/ conn[c] \notin {"none", "lost"} => closes[c] = 1
              \/ conn[c] = "queued" /\ fault \intersect {"late", "stopSock"} # {}
        /\ \A s \in Sock : sock[s] # "open"

\* StartMiniServer() and RunMiniServer() share the array and its descriptors
\* without a lock, the one to use it until the server runs, the other to close
\* and free it.  No descriptor is closed twice, no freed array is read, unless
\* the server was late or has ended by itself.
ArrayHasOneOwner ==
    misuse # {} => fault \intersect {"late", "select", "recv"} # {}

\* StopMiniServer() waits for a server that has ended between its test and
\* STOPPING, or cannot be reached as the late StartMiniServer() has closed its
\* socket; ThreadPoolShutdown() waits for a server nobody has told.
WaitsInVain ==
    \/ /\ app = "stopLoop" /\ gMServState = "STOPPING" /\ server = "none"
       /\ fault \intersect {"select", "recv"} # {}
    \/ app = "stopLoop" /\ server # "none" /\ "late" \in fault /\ sock["stop"] # "open"
    \/ app = "poolWait" /\ server # "none" /\ fault \intersect {"late", "stopSock"} # {}

\* UpnpFinish() returns, and so does a failed UpnpInit2(), whatever is in the
\* pool and on the sockets, but in the cases of WaitsInVain.
StopEnds == (app = "stopTest") ~> (app = "down" \/ WaitsInVain)

=============================================================================
