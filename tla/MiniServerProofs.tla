--------------------------- MODULE MiniServerProofs ---------------------------
(***************************************************************************)
(* Theorems about MiniServer for every set of faults, every number of      *)
(* connections and any number of starts.                                   *)
(***************************************************************************)
EXTENDS MiniServer, TLAPS

\* A connection is closed at the end of its job or when it is dropped, nowhere else.
ClosedOnce ==
    \A c \in Conn : closes[c] = IF conn[c] \in {"complete", "dropped"} THEN 1 ELSE 0

Stopped == {"stopLoop", "shutdown", "poolWait"}
Serving == {"select", "accept", "ssdpRead", "checkStop", "close", "idle"}
EndsByItself == {"late", "select", "recv"}
Outlives == {"late", "stopSock"}

\* What gMServState, which no lock protects, still says about the server.
StateOfServer ==
    /\ gMServState = "RUNNING" => server \in Serving
    /\ gMServState = "IDLE" => server \in {"none", "taken"}
    /\ gMServState = "STOPPING" => server # "taken" /\ (server = "none" \/ app \in Stopped)

\* Where the application can be while the server's job is at its begin or at its end.
ServerOfApp ==
    /\ app \in {"down", "startTest", "addJob"} => server = "none"
    /\ app = "addJob" => gMServState = "IDLE"
    /\ server = "taken" =>
          app = "poll" \/ (app \in {"stopTest", "shutdown", "poolWait"} /\ "late" \in fault)
    /\ app \in {"shutdown", "poolWait"} =>
          server = "none" \/ fault \intersect Outlives # {}
    /\ server \in {"close", "idle"} =>
          app \in Stopped \/ fault \intersect {"select", "recv"} # {}
    /\ told => app \in Stopped \union {"down"}

\* A connection that waits after the shutdown of the pool was queued by a server
\* that outlives it.
QueuedLate ==
    /\ app = "poolWait" => poolDown
    /\ app \in {"poolWait", "down"} =>
          \A c \in Conn : conn[c] = "queued" => poolDown /\ fault \intersect Outlives # {}
    /\ app = "down" => \A c \in Conn : conn[c] # "served"

\* Who has the sockets: StartMiniServer() until the server runs, then the server.
Intact == array = "live" /\ \A s \in Sock : sock[s] # "closed"
OwnerOfArray ==
    /\ app = "addJob" => Intact
    /\ server \notin {"none", "idle"} => Intact \/ "late" \in fault
    /\ app \in {"poll", "ports"} => Intact \/ fault \intersect EndsByItself # {}
    /\ server = "idle" => \A s \in Sock : sock[s] # "open"
    /\ (\E s \in Sock : sock[s] = "open") =>
          app \in {"addJob", "poll"} \/ server \notin {"none", "idle"}

\* The inductive invariant.
IInv ==
    /\ TypeOK /\ ClosedOnce /\ StateOfServer /\ ServerOfApp /\ QueuedLate /\ OwnerOfArray
    /\ ArrayHasOneOwner

-----------------------------------------------------------------------------

\* The steps of UpnpInit2() and UpnpFinish() keep the invariant.
LEMMA AppSteps ==
    ASSUME IInv, UpnpInit2 \/ UpnpFinish \/ AppStep
    PROVE  IInv'
  <1> USE MiniServerAssumption
      DEF Sock, Conn, Fails, appVars, sockVars, connVars, seenVars, IInv, TypeOK,
         ClosedOnce, StateOfServer, ServerOfApp, QueuedLate, OwnerOfArray, ArrayHasOneOwner,
         Intact, EndsByItself, Serving, Stopped, Outlives
  <1>1. CASE UpnpInit2
    <2>1. TypeOK'
      <3>1. sock' \in [Sock -> {"invalid", "open", "closed"}]
        BY <1>1 DEF UpnpInit2, Invalid
      <3>2. conn' \in [Conn -> {"none", "queued", "served", "complete", "dropped", "lost"}]
        BY <1>1 DEF UpnpInit2
      <3>3. starts' \in 0..MaxStarts
        BY <1>1 DEF UpnpInit2
      <3> QED BY <1>1, <3>1, <3>2, <3>3 DEF UpnpInit2
    <2>2. ClosedOnce'
      BY <1>1 DEF UpnpInit2
    <2>3. StateOfServer' /\ ServerOfApp' /\ QueuedLate' /\ ArrayHasOneOwner'
      BY <1>1 DEF UpnpInit2
    <2>4. OwnerOfArray'
      BY <1>1 DEF UpnpInit2, Invalid
    <2> QED BY <2>1, <2>2, <2>3, <2>4
  <1>2. CASE StartTest
    BY <1>2 DEF StartTest
  <1>3. CASE AddPersistent
    BY <1>3 DEF AddPersistent
  <1>4. CASE PollSeesRunning
    BY <1>4 DEF PollSeesRunning
  <1>5. CASE PollTimesOut
    BY <1>5 DEF PollTimesOut, CloseAll
  <1>6. CASE ReadPorts
    BY <1>6 DEF ReadPorts
  <1>7. CASE UpnpFinish
    BY <1>7 DEF UpnpFinish
  <1>8. CASE StopTest
    BY <1>8 DEF StopTest
  <1>9. CASE StopSet
    BY <1>9 DEF StopSet
  <1>10. CASE StopSends
    BY <1>10 DEF StopSends
  <1>11. CASE StopSeesIdle
    BY <1>11 DEF StopSeesIdle
  <1>12. CASE PoolShutdown
    BY <1>12 DEF PoolShutdown, FreeRequests
  <1>13. CASE FinishEnds
    BY <1>13 DEF FinishEnds, ThreadsGone
  <1> QED BY <1>1, <1>2, <1>3, <1>4, <1>5, <1>6, <1>7, <1>8, <1>9, <1>10, <1>11, <1>12, <1>13 DEF AppStep

\* So do those of RunMiniServer(), failures included.
LEMMA ServerSteps ==
    ASSUME IInv, ServerStep \/ SelectFails
    PROVE  IInv'
  <1> USE MiniServerAssumption
      DEF Sock, Conn, Fails, appVars, sockVars, connVars, seenVars, IInv, TypeOK,
         ClosedOnce, StateOfServer, ServerOfApp, QueuedLate, OwnerOfArray, ArrayHasOneOwner,
         Intact, EndsByItself, Serving, Stopped, Outlives
  <1>1. CASE WebServerAccept
    <2>1. CASE "http" \notin ready
      BY <1>1, <2>1 DEF WebServerAccept
    <2>2. ASSUME NEW c \in NewConns, schedule_request_job(c) PROVE IInv'
      <3>1. conn[c] = "none" /\ closes[c] = 0
        BY <2>2 DEF NewConns
      <3>2. TypeOK'
        <4>1. /\ conn' \in [Conn -> {"none", "queued", "served", "complete", "dropped", "lost"}]
              /\ closes' \in [Conn -> 0..1]
          BY <1>1, <2>2, <3>1 DEF schedule_request_job, NewConns
        <4>2. fault' \subseteq Faults
          BY <1>1, <2>2 DEF schedule_request_job
        <4> QED BY <1>1, <4>1, <4>2 DEF WebServerAccept
      <3>3. ClosedOnce'
        BY <1>1, <2>2, <3>1 DEF WebServerAccept, schedule_request_job, NewConns
      <3>4. StateOfServer' /\ ServerOfApp' /\ OwnerOfArray' /\ ArrayHasOneOwner'
        BY <1>1, <2>2 DEF WebServerAccept, schedule_request_job
      <3>5. QueuedLate'
        BY <1>1, <2>2 DEF WebServerAccept, schedule_request_job, NewConns
      <3> QED BY <3>2, <3>3, <3>4, <3>5
    <2> QED BY <1>1, <2>1, <2>2 DEF WebServerAccept
  <1>2. CASE SsdpRead
    <2>1. fault \subseteq fault' /\ fault' \subseteq Faults
      BY <1>2 DEF SsdpRead
    <2>2. /\ sock' \in [Sock -> {"invalid", "open", "closed"}]
          /\ \A s \in Sock : sock'[s] = sock[s] \/ sock'[s] = "invalid"
      BY <1>2 DEF SsdpRead, ForgetsSsdp
    <2> QED BY <1>2, <2>1, <2>2 DEF SsdpRead
  <1>3. CASE ServerRuns
    BY <1>3 DEF ServerRuns
  <1>4. CASE SelectReturns
    BY <1>4 DEF SelectReturns
  <1>5. CASE SelectFails
    BY <1>5 DEF SelectFails
  <1>6. CASE CheckStop
    BY <1>6 DEF CheckStop, ShutDownReceived
  <1>7. CASE ServerCloses
    BY <1>7 DEF ServerCloses, CloseAll
  <1>8. CASE ServerEnds
    BY <1>8 DEF ServerEnds
  <1> QED BY <1>1, <1>2, <1>3, <1>4, <1>5, <1>6, <1>7, <1>8 DEF ServerStep

\* And the jobs of the connections.
LEMMA RequestSteps ==
    ASSUME IInv, NEW c \in Conn, HandleRequest(c) \/ RequestComplete(c)
    PROVE  IInv'
  <1> USE DEF Sock, Conn, Fails, appVars, sockVars, connVars, seenVars, IInv, TypeOK,
              ClosedOnce, StateOfServer, ServerOfApp, QueuedLate, OwnerOfArray, ArrayHasOneOwner,
              Intact, EndsByItself, Serving, Stopped, Outlives
  <1>1. CASE HandleRequest(c)
    BY <1>1 DEF HandleRequest
  <1>2. CASE RequestComplete(c)
    BY <1>2 DEF RequestComplete
  <1> QED BY <1>1, <1>2

\* Initially there is no server, no connection and no socket.
LEMMA InitHolds == Init => IInv
  <1> SUFFICES ASSUME Init PROVE IInv
    OBVIOUS
  <1>1. TypeOK
    <2>1. sock \in [Sock -> {"invalid", "open", "closed"}]
      BY DEF Init, Invalid
    <2>2. /\ conn \in [Conn -> {"none", "queued", "served", "complete", "dropped", "lost"}]
          /\ closes \in [Conn -> 0..1]
      BY DEF Init
    <2>3. starts \in 0..MaxStarts
      BY MiniServerAssumption DEF Init
    <2>4. ready \subseteq Sock /\ fault \subseteq Faults /\ misuse \subseteq {"freed", "closedTwice"}
      BY Zenon DEF Init
    <2> QED BY <2>1, <2>2, <2>3, <2>4 DEF Init, TypeOK
  <1>2. ClosedOnce /\ StateOfServer /\ ServerOfApp /\ QueuedLate /\ ArrayHasOneOwner
    BY DEF Init, ClosedOnce, StateOfServer, ServerOfApp, QueuedLate, ArrayHasOneOwner
  <1>3. OwnerOfArray
    BY DEF Init, OwnerOfArray, Invalid
  <1> QED BY <1>1, <1>2, <1>3 DEF IInv

\* The invariant holds always: every step keeps it.
LEMMA InvariantHolds == Spec => []IInv
  <1>1. IInv /\ [Next]_vars => IInv'
    <2>1. IInv /\ Next => IInv'
      BY AppSteps, ServerSteps, RequestSteps DEF Next
    <2>2. IInv /\ UNCHANGED vars => IInv'
      BY DEF vars, Sock, Conn, Fails, appVars, sockVars, connVars, seenVars, IInv, TypeOK,
         ClosedOnce, StateOfServer, ServerOfApp, QueuedLate, OwnerOfArray, ArrayHasOneOwner,
         Intact, EndsByItself, Serving, Stopped, Outlives
    <2> QED BY <2>1, <2>2
  <1> QED BY InitHolds, <1>1, PTL DEF Spec

-----------------------------------------------------------------------------

\* Every variable keeps its type, and no connection is closed twice: by the job
\* that serves it, by free_handle_request_arg() and by schedule_request_job().
THEOREM TypeCorrect == Spec => []TypeOK
  BY InvariantHolds, PTL DEF IInv

\* UpnpFinish() leaves no connection and no socket open, for any number of
\* connections and restarts, but for what a server that outlives its pool queues.
THEOREM FinishCorrect == Spec => []FinishReleasesAll
  <1>1. IInv => FinishReleasesAll
    BY DEF IInv, TypeOK, ClosedOnce, ServerOfApp, QueuedLate, OwnerOfArray, Outlives,
           FinishReleasesAll
  <1> QED BY InvariantHolds, <1>1, PTL

\* The array of sockets is closed and freed once and not used afterwards, unless
\* the server was late or ended by itself.
THEOREM OwnerCorrect == Spec => []ArrayHasOneOwner
  BY InvariantHolds, PTL DEF IInv
=============================================================================
