---------------------- MODULE InProcessShutdownProofs ----------------------
(***************************************************************************)
(* Proofs about InProcess that concern the shutdown and the clients' calls *)
(* during it, for every set of clients, workers and stoppers.  They rest   *)
(* on the exact count of InProcessProofs.                                  *)
(***************************************************************************)
EXTENDS InProcessProofs

Undriven == {"out", "returned"}

\* The stages of a stopper that has closed the gate, and those of one that has
\* found no request in flight.
Closed == {"draining", "drained", "notifying", "counting", "asserting",
           "releasing", "joining", "tearing", "done", "threw"}
Drained == Closed \ {"draining"}

\* An active back end has no driver.
Undisturbed ==
  m_shutdown_state = "ACTIVE" => \A s \in Stoppers : sd[s] \in Undriven

DriverInv == Undisturbed /\ OneDriver

\* Callers do not open the gate of a back end that shuts down.
NoLateOpening == "start" \notin LateOps /\ "resume" \notin LateOps

StartedInTime == owner = "sealed" => m_shutdown_state = "ACTIVE"

StaysClosed == \A s \in Stoppers : sd[s] \in Closed => ~m_accepting_requests

StaysDrained == \A s \in Stoppers : sd[s] \in Drained => m_active_rpc_count = 0

\* Nothing the requests need is taken away before the drain.
NothingTaken ==
  torn # 0 \/ m_stopped \/ ~m_work => \E s \in Stoppers : sd[s] \in Drained

DrainInv == StartedInTime /\ StaysClosed /\ StaysDrained /\ NothingTaken

\* Worker w refers to c's invoker.
Holds(w, c) == thread[w] \in {"dispatching", "ended", "cleared"} /\ job[w] = c

\* The client whose request is posted has not been notified: it stays in invoke().
Waits(c) == pc[c] \in {"posted", "blocked"} /\ ~ready[c]

\* As long as something refers to c's invoker c waits for it, so there is one
\* reference at a time.
ClientWaits(c) ==
  /\ c \in posted => Waits(c)
  /\ \A w \in Workers : Holds(w, c) => Waits(c) /\ c \notin posted
  /\ \A v, w \in Workers : Holds(v, c) /\ Holds(w, c) => v = w
  /\ pc[c] \in {"called", "locked", "started", "rejecting"} => ~ready[c]

\* An invoker inside invoke() is connected.
CallerConnected(c) ==
  /\ m_connected[c] <=> c \in m_connected_clients
  /\ pc[c] \in {"locked", "started", "rejecting", "posted", "blocked"} => m_connected[c]

\* A client is marked active only while its request is somewhere.
ActiveSomewhere(c) ==
  m_rpc_active[c] => Checking(c) \/ c \in posted \/ \E w \in Workers : Occupies(w, c)

CallOK(c) == ClientWaits(c) /\ CallerConnected(c) /\ ActiveSomewhere(c)

CallInv == \A c \in Clients : CallOK(c)

-----------------------------------------------------------------------------
(***************************************************************************)
(* One driver.                                                             *)
(***************************************************************************)

\* Only shutdown() itself changes the shutdown state or a stopper's stage.
LEMMA OthersDoNotDrive ==
  ASSUME \/ Owner
         \/ \E c \in Clients : Client(c)
         \/ \E w \in Workers : Worker(w)
         \/ \E s \in Stoppers : (\E c \in Clients : SlotBegins(s, c)) \/ SlotReturns(s)
         \/ UNCHANGED vars
  PROVE  UNCHANGED <<sd, m_shutdown_state>>
<1> USE DEF gate_vars, client_vars, pool_vars, driver_vars, backend_vars, invoker_vars
<1>1. CASE Owner
  BY <1>1 DEF Owner, Start, StartAccepting, PauseRequests, ResumeRequests
<1>2. CASE \E c \in Clients : Client(c)
  BY <1>2 DEF Client, Call, Construct, Constructed, RegisterInvokerManager, Destroy, Reset,
     InvokeLocks, InvokeThrows, RequestAccepted, StartARequest, RequestRefused,
     RequestFailsCheck, RequestPosted, RequestRejected, RejectRequest,
     WaitForNotification, Notified, SpuriousWake, DisconnectFromBackend, Unlink,
     SignalDisconnect
<1>3. CASE \E w \in Workers : Worker(w)
  BY <1>3 DEF Worker, Works, Runs, RunHandler, DispatchReturns, EndARequest, EndRpc, FinishHandler,
     ExitThread, NotifyOne, HandlerTells
<1>4. CASE \E s \in Stoppers : (\E c \in Clients : SlotBegins(s, c)) \/ SlotReturns(s)
  BY <1>4 DEF SlotBegins, SlotReturns
<1>5. CASE UNCHANGED vars
  BY <1>5 DEF vars
<1> QED
  BY <1>1, <1>2, <1>3, <1>4, <1>5

\* A step of shutdown() is taken by the one that finds the back end active, by one
\* that does not and returns, or by the driver.
LEMMA ShutdownDrives ==
  ASSUME ShapeOK, DriverInv, NEW s \in Stoppers, Shutdown(s)
  PROVE  DriverInv'
<1> USE DEF DriverInv, Undisturbed, OneDriver, Undriven, Advance, ShapeOK, gate_vars
<1>1. CASE CheckAndInitiateShutdown(s)
  BY <1>1 DEF CheckAndInitiateShutdown, InitiatesShutdown
<1>2. CASE ShutdownAlreadyInitiated(s)
  BY <1>2 DEF ShutdownAlreadyInitiated, InitiatesShutdown
<1>3. CASE StopAccepting(s)
  BY <1>3 DEF StopAccepting
<1>4. CASE PollRpcCount(s)
  BY <1>4 DEF PollRpcCount
<1>5. CASE DisconectManagers(s)
  BY <1>5 DEF DisconectManagers
<1>6. CASE ManagersNotified(s)
  BY <1>6 DEF ManagersNotified
<1>7. CASE ManagerCount(s)
  BY <1>7 DEF ManagerCount
<1>8. CASE AssertNoClients(s)
  BY <1>8 DEF AssertNoClients
<1>9. CASE WorkReset(s)
  BY <1>9 DEF WorkReset
<1>10. CASE JoinAll(s)
  BY <1>10 DEF JoinAll
<1>11. CASE Teardown(s)
  BY <1>11 DEF Teardown
<1>12. CASE TeardownFails(s)
  BY <1>12 DEF TeardownFails
<1> QED
  BY <1>1, <1>2, <1>3, <1>4, <1>5, <1>6, <1>7, <1>8, <1>9, <1>10, <1>11, <1>12 DEF Shutdown

\* Every step keeps DriverInv.
LEMMA NextDrives ==
  ASSUME CountInv, DriverInv, [Next]_vars
  PROVE  DriverInv'
<1>1. CASE \E s \in Stoppers : Shutdown(s)
  BY <1>1, ShutdownDrives, TypeParts DEF CountInv
<1>2. CASE UNCHANGED <<sd, m_shutdown_state>>
  BY <1>2 DEF DriverInv, Undisturbed, OneDriver
<1> QED
  BY <1>1, <1>2, OthersDoNotDrive DEF Next, Stopper

\* However many threads call shutdown(), and whenever, only one of them drives it.
THEOREM SingleDriver == Spec => []OneDriver
<1>1. Init => DriverInv
  BY DEF Init, BackEndInit, DriverInv, Undisturbed, OneDriver, Undriven
<1>2. CountInv /\ DriverInv /\ [Next]_vars => DriverInv'
  BY NextDrives
<1>3. DriverInv => OneDriver
  BY DEF DriverInv
<1> QED
  BY <1>1, <1>2, <1>3, CountInvariant, PTL DEF Spec

-----------------------------------------------------------------------------
(***************************************************************************)
(* The drain.  That nothing is counted out below zero is TypeOK.           *)
(***************************************************************************)

\* start() and resume_requests() open the gate of an active back end only.
LEMMA OwnerDrains ==
  ASSUME NoLateOpening, DriverInv, DrainInv, Owner
  PROVE  DrainInv'
<1> USE DEF NoLateOpening, May, DriverInv, Undisturbed, Undriven, DrainInv,
        StartedInTime, StaysClosed, StaysDrained, NothingTaken, Closed, Drained,
        gate_vars, client_vars, pool_vars, driver_vars, invoker_vars
<1>1. CASE Start
  BY <1>1 DEF Start
<1>2. CASE StartAccepting
  BY <1>2 DEF StartAccepting
<1>3. CASE PauseRequests
  BY <1>3 DEF PauseRequests
<1>4. CASE ResumeRequests
  BY <1>4 DEF ResumeRequests
<1> QED
  BY <1>1, <1>2, <1>3, <1>4 DEF Owner

\* A client or pool thread counts a request in only through an open gate, and
\* stops the io_service only when the work object is gone.
LEMMA RequestsDrain ==
  ASSUME CountInv, CountInv', DrainInv,
         UNCHANGED <<owner, m_shutdown_state, m_accepting_requests, sd, torn, m_work>>,
         m_stopped' => m_stopped \/ ~m_work,
         \/ UNCHANGED m_active_rpc_count
         \/ UncountRpc
         \/ GateOpen
  PROVE  DrainInv'
<1>1. m_active_rpc_count \in Nat /\ m_active_rpc_count' \in Nat
  BY TypeParts DEF CountInv, TypeOK, BackEndTypeOK
<1>2. StaysDrained'
  BY <1>1 DEF DrainInv, StaysClosed, StaysDrained, UncountRpc, GateOpen, Drained
<1> QED
  BY <1>2 DEF DrainInv, StartedInTime, StaysClosed, NothingTaken

\* A client's call counts in through the gate or counts out.
LEMMA ClientDrains ==
  ASSUME CountInv, CountInv', DrainInv, NEW c \in Clients, Client(c)
  PROVE  DrainInv'
<1> USE DEF gate_vars, client_vars, pool_vars, driver_vars, backend_vars, invoker_vars
<1>1. /\ UNCHANGED <<owner, m_shutdown_state, m_accepting_requests, sd, torn, m_work, m_stopped>>
      /\ UNCHANGED m_active_rpc_count \/ UncountRpc \/ GateOpen
  BY DEF Client, Call, Construct, Constructed, RegisterInvokerManager, Destroy, Reset,
     InvokeLocks, InvokeThrows, RequestAccepted, StartARequest, RequestRefused,
     RequestFailsCheck, RequestPosted, RequestRejected, RejectRequest,
     WaitForNotification, Notified, SpuriousWake, DisconnectFromBackend, Unlink,
     SignalDisconnect
<1> QED
  BY <1>1, RequestsDrain

\* A pool thread only counts out.
LEMMA WorkerDrains ==
  ASSUME CountInv, CountInv', DrainInv, NEW w \in Workers, Worker(w)
  PROVE  DrainInv'
<1> USE DEF gate_vars, client_vars, pool_vars, driver_vars, backend_vars, invoker_vars
<1>1. UNCHANGED <<owner, m_shutdown_state, m_accepting_requests, sd, torn, m_work>>
  BY DEF Worker, Works, Runs, RunHandler, DispatchReturns, EndARequest, EndRpc, FinishHandler,
     ExitThread, NotifyOne, HandlerTells
<1>2. UNCHANGED m_active_rpc_count \/ UncountRpc
  BY DEF Worker, Works, Runs, RunHandler, DispatchReturns, EndARequest, EndRpc, FinishHandler,
     ExitThread, NotifyOne, HandlerTells
<1>3. m_stopped' => m_stopped \/ ~m_work
  <2>1. CASE FinishHandler(w)
    BY <2>1 DEF FinishHandler
  <2>2. CASE UNCHANGED m_stopped
    BY <2>2
  <2> QED
    BY <2>1, <2>2 DEF Worker, Works, Runs, RunHandler, DispatchReturns, EndARequest, EndRpc,
       ExitThread, NotifyOne, HandlerTells
<1> QED
  BY <1>1, <1>2, <1>3, RequestsDrain

\* A stopper closes the gate, polls the count and only then takes things away.
LEMMA ShutdownDrains ==
  ASSUME NoLateOpening, ShapeOK, DriverInv, DrainInv, NEW s \in Stoppers, Shutdown(s)
  PROVE  DrainInv'
<1> USE DEF NoLateOpening, DriverInv, Undisturbed, OneDriver, Undriven, DrainInv,
        StartedInTime, StaysClosed, StaysDrained, NothingTaken, Closed, Drained,
        Advance, ShapeOK, gate_vars, pool_vars
<1>1. CASE CheckAndInitiateShutdown(s)
  BY <1>1 DEF CheckAndInitiateShutdown, InitiatesShutdown
<1>2. CASE ShutdownAlreadyInitiated(s)
  BY <1>2 DEF ShutdownAlreadyInitiated
<1>3. CASE StopAccepting(s)
  BY <1>3 DEF StopAccepting, CloseGate
<1>4. CASE PollRpcCount(s)
  BY <1>4 DEF PollRpcCount, RpcsDrained
<1>5. CASE DisconectManagers(s)
  BY <1>5 DEF DisconectManagers
<1>6. CASE ManagersNotified(s)
  BY <1>6 DEF ManagersNotified
<1>7. CASE ManagerCount(s)
  BY <1>7 DEF ManagerCount
<1>8. CASE AssertNoClients(s)
  BY <1>8 DEF AssertNoClients
<1>9. CASE WorkReset(s)
  BY <1>9 DEF WorkReset
<1>10. CASE JoinAll(s)
  BY <1>10 DEF JoinAll
<1>11. CASE Teardown(s)
  BY <1>11 DEF Teardown
<1>12. CASE TeardownFails(s)
  BY <1>12 DEF TeardownFails
<1> QED
  BY <1>1, <1>2, <1>3, <1>4, <1>5, <1>6, <1>7, <1>8, <1>9, <1>10, <1>11, <1>12 DEF Shutdown

\* Every step keeps DrainInv.
LEMMA NextDrains ==
  ASSUME NoLateOpening, CountInv, DriverInv, DrainInv, [Next]_vars
  PROVE  DrainInv'
<1> USE DEF gate_vars, client_vars, pool_vars, driver_vars, backend_vars, invoker_vars
<1>1. CountInv'
  BY NextCounts
<1>2. CASE Owner
  BY <1>2, OwnerDrains
<1>3. CASE \E c \in Clients : Client(c)
  BY <1>1, <1>3, ClientDrains
<1>4. CASE \E w \in Workers : Worker(w)
  BY <1>1, <1>4, WorkerDrains
<1>5. CASE \E s \in Stoppers : Shutdown(s)
  BY <1>5, ShutdownDrains, TypeParts DEF CountInv
<1>6. CASE \E s \in Stoppers : (\E c \in Clients : SlotBegins(s, c)) \/ SlotReturns(s)
  <2>1. UNCHANGED <<owner, m_shutdown_state, m_accepting_requests, sd, torn, m_work,
                    m_stopped, m_active_rpc_count>>
    BY <1>6 DEF SlotBegins, SlotReturns
  <2> QED
    BY <1>1, <2>1, RequestsDrain
<1>7. CASE UNCHANGED vars
  <2>1. UNCHANGED <<owner, m_shutdown_state, m_accepting_requests, sd, torn, m_work,
                    m_stopped, m_active_rpc_count>>
    BY <1>7 DEF vars
  <2> QED
    BY <1>1, <2>1, RequestsDrain
<1> QED
  BY <1>2, <1>3, <1>4, <1>5, <1>6, <1>7 DEF Next, Stopper

-----------------------------------------------------------------------------
(***************************************************************************)
(* The calls.  Without spurious wakeups a client stays inside invoke() as  *)
(* long as the pool refers to its invoker.                                 *)
(***************************************************************************)

\* A step of one client concerns that client only.
LEMMA OneClientMoves ==
  ASSUME CallInv, ShapeOK, NEW c \in Clients,
         UNCHANGED <<thread, job>>,
         \A d \in Clients \ {c} :
           /\ pc'[d] = pc[d] /\ ready'[d] = ready[d]
           /\ m_connected'[d] = m_connected[d] /\ m_rpc_active'[d] = m_rpc_active[d]
           /\ d \in posted' <=> d \in posted
           /\ d \in m_connected_clients' <=> d \in m_connected_clients,
         CallOK(c)'
  PROVE  CallInv'
<1>1. ASSUME NEW d \in Clients \ {c} PROVE CallOK(d)'
  <2>1. CallOK(d)
    BY DEF CallInv
  <2> QED
    BY <2>1 DEF CallOK, ClientWaits, CallerConnected, ActiveSomewhere, Holds, Waits,
       Occupies, Checking
<1> QED
  BY <1>1 DEF CallInv

\* A client enters invoke() with a cleared notification and leaves it notified,
\* refused or rejected.
LEMMA ClientCalls ==
  ASSUME ~SpuriousWakeups, CountInv, CallInv, NEW c \in Clients, Client(c)
  PROVE  CallInv'
<1>1. ShapeOK /\ CallOK(c) /\ OnePlace
  BY TypeParts DEF CountInv, CallInv
<1> USE DEF gate_vars, client_vars, pool_vars, driver_vars, backend_vars, invoker_vars
<1>2. CASE Construct(c)
  <2>1. CallOK(c)'
    BY <1>1, <1>2 DEF Construct, Goes, RegisterInvokerManager, Referenced, ShapeOK,
       CallOK, ClientWaits, CallerConnected, ActiveSomewhere, Holds, Waits, Occupies, Checking
  <2> QED
    BY <1>1, <1>2, <2>1, OneClientMoves DEF Construct, Goes, RegisterInvokerManager, ShapeOK
<1>3. CASE RequestAccepted(c)
  <2>1. CallOK(c)'
    BY <1>1, <1>3 DEF RequestAccepted, Goes, StartARequest, ShapeOK,
       CallOK, ClientWaits, CallerConnected, ActiveSomewhere, Holds, Waits, Occupies, Checking
  <2> QED
    BY <1>1, <1>3, <2>1, OneClientMoves DEF RequestAccepted, Goes, StartARequest, ShapeOK
<1>4. CASE RequestPosted(c)
  <2>1. CallOK(c)'
    BY <1>1, <1>4 DEF RequestPosted, Goes, Post, ShapeOK,
       CallOK, ClientWaits, CallerConnected, ActiveSomewhere, Holds, Waits, Occupies, Checking
  <2> QED
    BY <1>1, <1>4, <2>1, OneClientMoves DEF RequestPosted, Goes, Post, ShapeOK
<1>5. CASE RequestRejected(c)
  <2>1. CallOK(c)'
    BY <1>1, <1>5 DEF RequestRejected, Goes, RejectRequest, ShapeOK,
       CallOK, ClientWaits, CallerConnected, ActiveSomewhere, Holds, Waits, Occupies, Checking
  <2> QED
    BY <1>1, <1>5, <2>1, OneClientMoves DEF RequestRejected, Goes, RejectRequest, ShapeOK
<1>6. CASE DisconnectFromBackend(c)
  <2>1. CallOK(c)'
    BY <1>1, <1>6 DEF DisconnectFromBackend, Goes, LeaveBackEnd, ForgetClient, ShapeOK,
       CallOK, ClientWaits, CallerConnected, ActiveSomewhere, Holds, Waits, Occupies, Checking
  <2> QED
    BY <1>1, <1>6, <2>1, OneClientMoves
    DEF DisconnectFromBackend, Goes, LeaveBackEnd, ForgetClient, ShapeOK
<1>7. CASE Reset(c)
  <2>1. CallOK(c)'
    BY <1>1, <1>7 DEF Reset, Goes, NotificationReset, ShapeOK,
       CallOK, ClientWaits, CallerConnected, ActiveSomewhere, Holds, Waits, Occupies, Checking
  <2> QED
    BY <1>1, <1>7, <2>1, OneClientMoves DEF Reset, Goes, NotificationReset, ShapeOK
<1>8. CASE /\ UNCHANGED <<thread, job, posted, ready, m_connected, m_connected_clients, m_rpc_active>>
           /\ \E to \in ClientStages \ {"called", "started"} :
                /\ pc' = [pc EXCEPT ![c] = to]
                /\ to = "rejecting" <=> Checking(c)
                /\ to = "locked" => pc[c] = "called" /\ m_connected[c]
                /\ to \in {"posted", "blocked"} => pc[c] = "posted"
                /\ pc[c] \in {"posted", "blocked"} /\ to # "blocked" => ready[c]
  <2>1. CallOK(c)'
    BY <1>1, <1>8 DEF ShapeOK, CallOK, ClientWaits, CallerConnected, ActiveSomewhere,
       Holds, Waits, Occupies, Checking
  <2> QED
    BY <1>1, <1>8, <2>1, OneClientMoves DEF ShapeOK
<1> QED
  BY <1>2, <1>3, <1>4, <1>5, <1>6, <1>7, <1>8
  DEF Client, Call, Goes, Checking, ClientStages, Constructed, Destroy, InvokeLocks, InvokeThrows,
      RequestRefused, RequestFailsCheck, WaitForNotification, Notified, SpuriousWake,
      Unlink, SignalDisconnect

\* A step that touches no call.
LEMMA CallsUntouched ==
  ASSUME CallInv,
         UNCHANGED <<pc, ready, m_connected, m_rpc_active, posted, m_connected_clients>>,
         \A w \in Workers, c \in Clients : Holds(w, c)' <=> Holds(w, c),
         \A w \in Workers, c \in Clients : Occupies(w, c)' <=> Occupies(w, c)
  PROVE  CallInv'
BY DEF CallInv, CallOK, ClientWaits, CallerConnected, ActiveSomewhere, Waits, Checking

\* start() finds no pool thread that refers to an invoker.
LEMMA OwnerCalls ==
  ASSUME CountInv, CallInv, Owner
  PROVE  CallInv'
<1> USE DEF gate_vars, client_vars, pool_vars, driver_vars, backend_vars, invoker_vars
<1>1. CASE Start
  BY <1>1, CallsUntouched DEF Owner, Start, CountInv, JobTyped, Holds, Occupies
<1>2. CASE StartAccepting \/ PauseRequests \/ ResumeRequests
  BY <1>2, CallsUntouched DEF Owner, StartAccepting, PauseRequests, ResumeRequests,
     Holds, Occupies
<1> QED
  BY <1>1, <1>2 DEF Owner

\* A shutdown disconnects an invoker only when nobody is inside its invoke().
LEMMA StopperCalls ==
  ASSUME CountInv, CallInv, NEW s \in Stoppers, Stopper(s)
  PROVE  CallInv'
<1> USE DEF gate_vars, client_vars, pool_vars, driver_vars, backend_vars, invoker_vars
<1>1. ShapeOK
  BY TypeParts DEF CountInv
<1>2. CASE Shutdown(s) /\ UNCHANGED invoker_vars
  BY <1>2, CallsUntouched DEF Shutdown, CheckAndInitiateShutdown,
     ShutdownAlreadyInitiated, StopAccepting, PollRpcCount, DisconectManagers,
     ManagersNotified, ManagerCount, AssertNoClients, WorkReset, JoinAll, Teardown,
     TeardownFails, Holds, Occupies
<1>3. ASSUME NEW c \in Clients, SlotBegins(s, c) PROVE CallInv'
  <2>1. CallOK(c)
    BY DEF CallInv
  <2>2. CASE m_connected[c]
    <3>1. CallOK(c)'
      BY <1>1, <1>3, <2>1, <2>2 DEF SlotBegins, SlotLocks, HoldsInvoker, LeaveBackEnd,
         ForgetClient, ShapeOK, CallOK, ClientWaits, CallerConnected, ActiveSomewhere,
         Holds, Waits, Occupies, Checking
    <3> QED
      BY <1>1, <1>3, <2>2, <3>1, OneClientMoves DEF SlotBegins, LeaveBackEnd, ForgetClient, ShapeOK
  <2>3. CASE ~m_connected[c]
    BY <1>3, <2>3, CallsUntouched DEF SlotBegins, Holds, Occupies
  <2> QED
    BY <2>2, <2>3
<1>4. CASE SlotReturns(s)
  BY <1>4, CallsUntouched DEF SlotReturns, Holds, Occupies
<1> QED
  BY <1>2, <1>3, <1>4 DEF Stopper

\* A pool thread takes a posted reference over and notifies the client as the last
\* thing it does with it.
LEMMA WorkerCalls ==
  ASSUME CountInv, CallInv, NEW w \in Workers, Worker(w)
  PROVE  CallInv'
<1> USE DEF gate_vars, client_vars, pool_vars, driver_vars, backend_vars, invoker_vars
<1>1. ShapeOK /\ JobTyped
  BY TypeParts DEF CountInv
<1>2. ASSUME NEW c \in Clients, Runs(w, c) PROVE CallInv'
  <2>1. /\ UNCHANGED <<pc, ready, m_connected, m_rpc_active, m_connected_clients>>
        /\ c \in posted /\ posted' = posted \ {c}
        /\ thread[w] = "idle" /\ thread' = [thread EXCEPT ![w] = "dispatching"]
        /\ job' = [job EXCEPT ![w] = c]
    BY <1>2 DEF Runs, RunHandler
  <2>2. \A v \in Workers, d \in Clients :
          /\ Holds(v, d)' <=> Holds(v, d) \/ (v = w /\ d = c)
          /\ Occupies(v, d)' <=> Occupies(v, d) \/ (v = w /\ d = c)
    BY <1>1, <2>1 DEF Holds, Occupies, ShapeOK
  <2>3. ASSUME NEW d \in Clients PROVE CallOK(d)'
    <3>1. CallOK(d)
      BY DEF CallInv
    <3> QED
      BY <2>1, <2>2, <3>1 DEF CallOK, ClientWaits, CallerConnected, ActiveSomewhere, Waits, Checking
  <2> QED
    BY <2>3 DEF CallInv
<1>3. CASE DispatchReturns(w)
  <2>1. \A v \in Workers, d \in Clients :
          (Holds(v, d)' <=> Holds(v, d)) /\ (Occupies(v, d)' <=> Occupies(v, d))
    BY <1>1, <1>3 DEF DispatchReturns, EndARequest, Holds, Occupies, ShapeOK
  <2> QED
    BY <1>3, <2>1, CallsUntouched DEF DispatchReturns, EndARequest
<1>4. CASE EndRpc(w) /\ UNCHANGED invoker_vars
  <2> DEFINE c == job[w]
  <2>1. /\ UNCHANGED <<pc, ready, m_connected, posted, m_connected_clients, job>>
        /\ m_rpc_active' = [m_rpc_active EXCEPT ![c] = FALSE]
        /\ thread[w] = "ended" /\ thread' = [thread EXCEPT ![w] = "cleared"]
        /\ c \in Clients
    BY <1>1, <1>4 DEF EndRpc, JobTyped
  <2>2. \A v \in Workers, d \in Clients :
          /\ Holds(v, d)' <=> Holds(v, d)
          /\ Occupies(v, d)' <=> Occupies(v, d) /\ v # w
    BY <1>1, <2>1 DEF Holds, Occupies, ShapeOK
  <2>3. \A d \in Clients : m_rpc_active'[d] => m_rpc_active[d] /\ d # c
    BY <1>1, <2>1 DEF ShapeOK
  <2>4. \A d \in Clients : Occupies(w, d) => d = c
    BY DEF Occupies
  <2>5. ASSUME NEW d \in Clients PROVE CallOK(d)'
    <3>1. CallOK(d)
      BY DEF CallInv
    <3>2. ActiveSomewhere(d)'
      BY <2>1, <2>2, <2>3, <2>4, <3>1 DEF CallOK, ActiveSomewhere, Checking
    <3> QED
      BY <2>1, <2>2, <3>1, <3>2 DEF CallOK, ClientWaits, CallerConnected, Waits
  <2> QED
    BY <2>5 DEF CallInv
<1>5. CASE NotifyOne(w)
  <2> DEFINE c == job[w]
  <2>1. /\ UNCHANGED <<pc, m_rpc_active, m_connected, posted, m_connected_clients, job>>
        /\ ready' = [ready EXCEPT ![c] = TRUE]
        /\ thread[w] = "cleared" /\ thread' = [thread EXCEPT ![w] = "finishing"]
        /\ c \in Clients
    BY <1>1, <1>5 DEF NotifyOne, HandlerTells, JobTyped
  <2>2. \A v \in Workers, d \in Clients :
          /\ Holds(v, d)' <=> Holds(v, d) /\ v # w
          /\ Occupies(v, d)' <=> Occupies(v, d)
    BY <1>1, <2>1 DEF Holds, Occupies, ShapeOK
  <2>3. \A d \in Clients \ {c} : ready'[d] = ready[d]
    BY <1>1, <2>1 DEF ShapeOK
  <2>4. Holds(w, c)
    BY <2>1 DEF Holds
  <2>5. ASSUME NEW d \in Clients PROVE CallOK(d)'
    <3>1. CallOK(d)
      BY DEF CallInv
    <3>2. ClientWaits(d)'
      BY <2>1, <2>2, <2>3, <2>4, <3>1 DEF CallOK, ClientWaits, Waits
    <3> QED
      BY <2>1, <2>2, <3>1, <3>2 DEF CallOK, CallerConnected, ActiveSomewhere, Checking
  <2> QED
    BY <2>5 DEF CallInv
<1>6. CASE (FinishHandler(w) \/ ExitThread(w)) /\ UNCHANGED invoker_vars
  <2>1. \A v \in Workers, d \in Clients :
          (Holds(v, d)' <=> Holds(v, d)) /\ (Occupies(v, d)' <=> Occupies(v, d))
    BY <1>1, <1>6 DEF FinishHandler, ExitThread, Holds, Occupies, ShapeOK
  <2> QED
    BY <1>6, <2>1, CallsUntouched DEF FinishHandler, ExitThread
<1> QED
  BY <1>2, <1>3, <1>4, <1>5, <1>6 DEF Worker, Works

\* Every step keeps CallInv.
LEMMA NextCalls ==
  ASSUME ~SpuriousWakeups, CountInv, CallInv, [Next]_vars
  PROVE  CallInv'
<1>1. CASE Next
  BY <1>1, OwnerCalls, ClientCalls, StopperCalls, WorkerCalls DEF Next
<1>2. CASE UNCHANGED vars
  BY <1>2, CallsUntouched DEF vars, backend_vars, client_vars, pool_vars, invoker_vars,
     Holds, Occupies
<1> QED
  BY <1>1, <1>2

\* If condition variables do not wake spuriously, no client ever gets out of
\* invoke() while the pool refers to its invoker.
THEOREM CallInvariant ==
  ASSUME ~SpuriousWakeups
  PROVE  Spec => []CallInv
<1>1. Init => CallInv
  BY DEF Init, BackEndInit, CallInv, CallOK, ClientWaits, CallerConnected, ActiveSomewhere,
     Holds, Waits, Occupies, Checking
<1>2. CountInv /\ CallInv /\ [Next]_vars => CallInv'
  BY NextCalls
<1> QED
  BY <1>1, <1>2, CountInvariant, PTL DEF Spec

\* The assertions on m_rpc_active in reset(), start_rpc() and end_rpc() hold for
\* any number of clients and pool threads, if condition variables do not wake
\* spuriously.  With spurious wakeups they fail: a call returns while its rpc runs.
THEOREM RpcFlagsRight ==
  ASSUME ~SpuriousWakeups
  PROVE  Spec => []RpcFlagAssertions
<1>1. CountInv /\ CallInv => RpcFlagAssertions
  <2> SUFFICES ASSUME CountInv, CallInv PROVE RpcFlagAssertions
    OBVIOUS
  <2>1. ASSUME NEW c \in Clients, pc[c] \in {"called", "locked"} PROVE ~m_rpc_active[c]
    BY <2>1 DEF CallInv, CallOK, ClientWaits, ActiveSomewhere, Checking, Waits, Holds, Occupies
  <2>2. ASSUME NEW c \in Clients, pc[c] = "rejecting" PROVE m_rpc_active[c]
    BY <2>2 DEF CountInv, OnePlace, Checking
  <2>3. ASSUME NEW w \in Workers, thread[w] \in {"dispatching", "ended"}
        PROVE  m_rpc_active[job[w]]
    BY <2>3 DEF CountInv, JobTyped, OnePlace, Occupies
  <2> QED
    BY <2>1, <2>2, <2>3 DEF RpcFlagAssertions
<1> QED
  BY <1>1, CallInvariant, CountInvariant, PTL

\* No step of a shutdown takes the client, a service or the pool away from a
\* request that is checked, queued or dispatched: the drain is complete before
\* anything is disconnected or torn down, for any number of clients, pool
\* threads and callers of shutdown(), if nobody starts or resumes the back end
\* during the shutdown and condition variables do not wake spuriously.
THEOREM DispatchIsSafe ==
  ASSUME ~SpuriousWakeups, NoLateOpening
  PROVE  Spec => []DispatchSafe
<1>1. Init => DriverInv /\ DrainInv
  BY DEF Init, BackEndInit, DriverInv, Undisturbed, OneDriver, Undriven, DrainInv,
     StartedInTime, StaysClosed, StaysDrained, NothingTaken, Closed, Drained
<1>2. CountInv /\ DriverInv /\ DrainInv /\ [Next]_vars => (DriverInv /\ DrainInv)'
  BY NextDrives, NextDrains
<1>3. CountInv /\ CallInv /\ DrainInv => DispatchSafe
  <2> SUFFICES ASSUME CountInv, CallInv, DrainInv, NEW c \in Clients, Counted(c)
               PROVE  c \in m_connected_clients /\ torn = 0 /\ ~m_stopped
    BY DEF DispatchSafe
  <2>1. c \in CountedClients
    BY DEF CountedClients
  <2>2. m_active_rpc_count # 0
    BY <2>1, CountedFinite, FS_EmptySet DEF CountInv, CountMatches
  <2>3. torn = 0 /\ ~m_stopped
    BY <2>2 DEF DrainInv, StaysDrained, NothingTaken
  <2>4. pc[c] \in {"started", "rejecting", "posted", "blocked"}
    BY DEF Counted, InPool, CallInv, CallOK, ClientWaits, Waits, Holds
  <2>5. c \in m_connected_clients
    BY <2>4 DEF CallInv, CallOK, CallerConnected
  <2> QED
    BY <2>3, <2>5
<1> QED
  BY <1>1, <1>2, <1>3, CallInvariant, CountInvariant, PTL DEF Spec

-----------------------------------------------------------------------------
(***************************************************************************)
(* The links between an invoker and the back end: the invoker's own flag,  *)
(* the back end's set of clients and the slot of the signal.               *)
(***************************************************************************)

\* A connected invoker has its slot; a slot without one is about to go, by the
\* client's own disconnection or by the slot call.
LinkOK(c) ==
  /\ CallerConnected(c)
  /\ m_connected[c] => c \in slots /\ pc[c] # "unlinking"
  /\ c \in slots => m_connected[c] \/ pc[c] = "unlinking" \/ inslot = c

\* A slot call runs under the mutex that keeps everybody else off the slots.
SlotRuns ==
  /\ inslot # Nobody => inslot \in pending /\ ~m_connected[inslot] /\ ~MutexFree
  /\ ~MutexFree => pending = slots

LinkInv == SlotRuns /\ \A c \in Clients : LinkOK(c)

\* A step that changes the links of at most one invoker.
LEMMA OneLinkMoves ==
  ASSUME LinkInv, NEW c \in Clients,
         \A d \in Clients \ {c} :
           /\ pc'[d] = pc[d] /\ m_connected'[d] = m_connected[d]
           /\ d \in slots' <=> d \in slots
           /\ d \in m_connected_clients' <=> d \in m_connected_clients
           /\ inslot = d => inslot' = d,
         LinkOK(c)', SlotRuns'
  PROVE  LinkInv'
<1>1. ASSUME NEW d \in Clients \ {c} PROVE LinkOK(d)'
  <2>1. LinkOK(d)
    BY DEF LinkInv
  <2> QED
    BY <2>1 DEF LinkOK, CallerConnected
<1> QED
  BY <1>1 DEF LinkInv

\* A client's step.
LEMMA ClientLinks ==
  ASSUME ShapeOK, LinkInv, NEW c \in Clients, Client(c)
  PROVE  LinkInv'
<1> USE DEF gate_vars, client_vars, pool_vars, driver_vars, backend_vars, invoker_vars
<1>1. LinkOK(c) /\ SlotRuns
  BY DEF LinkInv
<1>2. UNCHANGED <<sd, pending, inslot>>
  BY DEF Client, Call, Construct, Constructed, RegisterInvokerManager, Destroy, Reset,
     InvokeLocks, InvokeThrows, RequestAccepted, StartARequest, RequestRefused,
     RequestFailsCheck, RequestPosted, RequestRejected, RejectRequest,
     WaitForNotification, Notified, SpuriousWake, DisconnectFromBackend, Unlink,
     SignalDisconnect
<1>3. MutexFree' <=> MutexFree
  BY <1>2 DEF MutexFree
<1>4. CASE Construct(c)
  <2>1. LinkOK(c)' /\ SlotRuns'
    BY <1>1, <1>2, <1>3, <1>4 DEF Construct, Goes, RegisterInvokerManager, ShapeOK,
       LinkOK, SlotRuns, CallerConnected
  <2> QED
    BY <1>2, <1>4, <2>1, OneLinkMoves DEF Construct, Goes, RegisterInvokerManager, ShapeOK
<1>5. CASE DisconnectFromBackend(c)
  <2>1. LinkOK(c)'
    BY <1>1, <1>2, <1>3, <1>5 DEF DisconnectFromBackend, Goes, LeaveBackEnd,
       ForgetClient, ShapeOK, LinkOK, CallerConnected
  <2>2. SlotRuns'
    BY <1>1, <1>2, <1>3, <1>5 DEF DisconnectFromBackend, LeaveBackEnd, ShapeOK, SlotRuns
  <2> QED
    BY <1>2, <1>5, <2>1, <2>2, OneLinkMoves
    DEF DisconnectFromBackend, Goes, LeaveBackEnd, ForgetClient, ShapeOK
<1>6. CASE Unlink(c)
  <2>1. LinkOK(c)' /\ SlotRuns'
    BY <1>1, <1>2, <1>3, <1>6 DEF Unlink, Goes, SignalDisconnect, ShapeOK,
       LinkOK, SlotRuns, CallerConnected
  <2> QED
    BY <1>2, <1>6, <2>1, OneLinkMoves DEF Unlink, Goes, SignalDisconnect, ShapeOK
<1>7. CASE \/ Constructed(c) \/ Destroy(c) \/ Reset(c) \/ InvokeLocks(c) \/ InvokeThrows(c)
           \/ RequestAccepted(c) \/ RequestRefused(c) \/ RequestFailsCheck(c)
           \/ RequestPosted(c) \/ RequestRejected(c) \/ WaitForNotification(c)
           \/ Notified(c) \/ SpuriousWake(c)
  <2>1. UNCHANGED <<slots, m_connected, m_connected_clients>>
    BY <1>7 DEF Constructed, Destroy, Reset, InvokeLocks, InvokeThrows, RequestAccepted,
       StartARequest, RequestRefused, RequestFailsCheck, RequestPosted,
       RequestRejected, RejectRequest, WaitForNotification, Notified, SpuriousWake
  <2>2. \A d \in Clients \ {c} : pc'[d] = pc[d]
    BY <1>7 DEF ShapeOK, Goes, Constructed, Destroy, Reset, InvokeLocks, InvokeThrows,
       RequestAccepted, RequestRefused, RequestFailsCheck, RequestPosted,
       RequestRejected, WaitForNotification, Notified, SpuriousWake
  <2>3. /\ pc[c] # "unlinking" /\ pc'[c] # "unlinking"
        /\ pc'[c] \in {"locked", "started", "rejecting", "posted", "blocked"} => m_connected[c]
    BY <1>1, <1>7 DEF ShapeOK, Goes, Constructed, Destroy, Reset, InvokeLocks, InvokeThrows,
       RequestAccepted, RequestRefused, RequestFailsCheck, RequestPosted,
       RequestRejected, WaitForNotification, Notified, SpuriousWake, LinkOK, CallerConnected
  <2>4. LinkOK(c)' /\ SlotRuns'
    BY <1>1, <1>2, <1>3, <2>1, <2>3 DEF LinkOK, CallerConnected, SlotRuns
  <2> QED
    BY <1>2, <2>1, <2>2, <2>4, OneLinkMoves
<1> QED
  BY <1>4, <1>5, <1>6, <1>7 DEF Client, Call

\* A slot call takes the links of one invoker down.
LEMMA SlotLinks ==
  ASSUME ShapeOK, LinkInv, NEW s \in Stoppers,
         (\E c \in Clients : SlotBegins(s, c)) \/ SlotReturns(s)
  PROVE  LinkInv'
<1> USE DEF gate_vars, driver_vars
<1>1. SlotRuns
  BY DEF LinkInv
<1>2. ASSUME NEW c \in Clients, SlotBegins(s, c) PROVE LinkInv'
  <2>1. LinkOK(c)
    BY DEF LinkInv
  <2>2. /\ UNCHANGED <<sd, pending, slots, pc>>
        /\ inslot = Nobody /\ inslot' = c /\ c \in pending
        /\ sd[s] = "notifying" /\ pc[c] \notin HoldsInvoker
    BY <1>2 DEF SlotBegins, SlotLocks
  <2>3. /\ ~m_connected'[c] /\ c \notin m_connected_clients'
        /\ \A d \in Clients \ {c} :
             /\ m_connected'[d] = m_connected[d]
             /\ d \in m_connected_clients' <=> d \in m_connected_clients
    <3>1. CASE m_connected[c]
      BY <1>2, <3>1 DEF SlotBegins, LeaveBackEnd, ForgetClient, ShapeOK
    <3>2. CASE ~m_connected[c]
      BY <1>2, <2>1, <3>2 DEF SlotBegins, LinkOK, CallerConnected
    <3> QED
      BY <3>1, <3>2
  <2>4. LinkOK(c)'
    BY <2>1, <2>2, <2>3 DEF LinkOK, CallerConnected, HoldsInvoker
  <2>5. SlotRuns'
    BY <1>1, <2>2, <2>3 DEF SlotRuns, MutexFree
  <2> QED
    BY <2>2, <2>3, <2>4, <2>5, BackEndAssumption, OneLinkMoves
<1>3. CASE SlotReturns(s)
  <2>1. PICK c \in Clients : c = inslot
    BY <1>3 DEF SlotReturns, ShapeOK
  <2>2. /\ UNCHANGED <<sd, pc, m_connected, m_connected_clients>>
        /\ inslot' = Nobody /\ slots' = slots \ {c} /\ pending' = pending \ {c}
        /\ sd[s] = "notifying"
    BY <1>3, <2>1 DEF SlotReturns, SlotCalled, client_vars
  <2>3. LinkOK(c) /\ ~m_connected[c]
    BY <1>1, <2>1, BackEndAssumption DEF LinkInv, SlotRuns
  <2>4. LinkOK(c)'
    BY <2>2, <2>3 DEF LinkOK, CallerConnected
  <2>5. SlotRuns'
    BY <1>1, <2>2 DEF SlotRuns, MutexFree
  <2> QED
    BY <2>1, <2>2, <2>4, <2>5, OneLinkMoves
<1> QED
  BY <1>2, <1>3

\* A step that leaves every link as it is.
LEMMA LinksUntouched ==
  ASSUME LinkInv, SlotRuns',
         UNCHANGED <<pc, m_connected, m_connected_clients, slots, inslot>>
  PROVE  LinkInv'
BY DEF LinkInv, LinkOK, CallerConnected

\* The stopper's own steps leave the links alone.
LEMMA ShutdownLinks ==
  ASSUME ShapeOK, LinkInv, NEW s \in Stoppers, Shutdown(s), UNCHANGED invoker_vars
  PROVE  LinkInv'
<1> USE DEF gate_vars, client_vars, driver_vars, invoker_vars
<1>1. SlotRuns
  BY DEF LinkInv
<1>2. UNCHANGED <<slots, m_connected_clients>>
  BY DEF Shutdown, CheckAndInitiateShutdown, ShutdownAlreadyInitiated, StopAccepting,
     PollRpcCount, DisconectManagers, ManagersNotified, ManagerCount, AssertNoClients,
     WorkReset, JoinAll, Teardown, TeardownFails
<1>3. SlotRuns'
  <2>1. CASE DisconectManagers(s)
    BY <1>1, <2>1 DEF DisconectManagers, SlotRuns, MutexFree
  <2>2. CASE ManagersNotified(s)
    BY <1>1, <2>2 DEF ManagersNotified, Advance, SlotRuns, MutexFree
  <2>3. CASE UNCHANGED pending /\ (MutexFree' <=> MutexFree)
    BY <1>1, <1>2, <2>3 DEF SlotRuns
  <2>4. ASSUME NEW from, NEW to, Advance(s, from, to), UNCHANGED pending,
               from # "notifying", to # "notifying"
        PROVE  SlotRuns'
    BY <2>3, <2>4 DEF Advance, ShapeOK, MutexFree
  <2>5. CASE Teardown(s)
    <3>1. CASE torn < NumServices
      BY <2>3, <2>5, <3>1 DEF Teardown, MutexFree
    <3>2. CASE ~(torn < NumServices)
      BY <2>4, <2>5, <3>2 DEF Teardown
    <3> QED
      BY <3>1, <3>2
  <2>6. CASE ManagerCount(s)
    BY <2>4, <2>6 DEF ManagerCount
  <2>7. CASE \/ CheckAndInitiateShutdown(s) \/ ShutdownAlreadyInitiated(s)
             \/ StopAccepting(s) \/ PollRpcCount(s) \/ AssertNoClients(s)
             \/ WorkReset(s) \/ JoinAll(s) \/ TeardownFails(s)
    BY <2>4, <2>7 DEF CheckAndInitiateShutdown, ShutdownAlreadyInitiated, StopAccepting,
       PollRpcCount, AssertNoClients, WorkReset, JoinAll, TeardownFails
  <2> QED
    BY <2>1, <2>2, <2>5, <2>6, <2>7 DEF Shutdown
<1> QED
  BY <1>2, <1>3, LinksUntouched

\* Every step keeps LinkInv.
LEMMA NextLinks ==
  ASSUME ShapeOK, LinkInv, [Next]_vars
  PROVE  LinkInv'
<1> USE DEF gate_vars, client_vars, pool_vars, driver_vars, backend_vars, invoker_vars
<1>1. CASE \E c \in Clients : Client(c)
  BY <1>1, ClientLinks
<1>2. CASE \E s \in Stoppers : Stopper(s)
  BY <1>2, SlotLinks, ShutdownLinks DEF Stopper
<1>3. CASE UNCHANGED <<slots, m_connected_clients, sd, pending, pc, m_connected, inslot>>
  BY <1>3, LinksUntouched DEF LinkInv, SlotRuns, MutexFree
<1>4. CASE Owner
  BY <1>3, <1>4 DEF Owner, Start, StartAccepting, PauseRequests, ResumeRequests
<1>5. CASE \E w \in Workers : Worker(w)
  BY <1>3, <1>5 DEF Worker, Works, Runs, RunHandler, DispatchReturns, EndARequest, EndRpc, FinishHandler,
     ExitThread, NotifyOne, HandlerTells
<1>6. CASE UNCHANGED vars
  BY <1>3, <1>6 DEF vars
<1> QED
  BY <1>1, <1>2, <1>4, <1>5, <1>6 DEF Next

\* The invoker's flag, the back end's set of clients and the signal's slots never
\* disagree, whatever the callers do and whenever they do it.
THEOREM LinkInvariant == Spec => []LinkInv
<1>1. Init => LinkInv
  BY DEF Init, BackEndInit, LinkInv, LinkOK, CallerConnected, SlotRuns, MutexFree
<1>2. CountInv /\ LinkInv /\ [Next]_vars => LinkInv'
  BY NextLinks, TypeParts DEF CountInv
<1> QED
  BY <1>1, <1>2, CountInvariant, PTL DEF Spec

-----------------------------------------------------------------------------
(***************************************************************************)
(* What the shutdown finds after it has notified the managers.             *)
(***************************************************************************)

\* The stages of a stopper that has notified every manager.
NotifiedAll == {"counting", "asserting", "releasing", "joining", "tearing", "done", "threw"}

\* Nobody constructs an invoker during a shutdown.
NoLateRegister == "register" \notin LateOps

NoManagerLeft == \A s \in Stoppers : sd[s] \in NotifiedAll => slots = {}

\* No step brings a slot back, and the last slot goes before the stopper does.
LEMMA NextManagers ==
  ASSUME NoLateRegister, ShapeOK, DriverInv, LinkInv, NoManagerLeft, [Next]_vars
  PROVE  NoManagerLeft'
<1> USE DEF gate_vars, client_vars, pool_vars, driver_vars, backend_vars, invoker_vars
<1>1. CASE slots' \subseteq slots /\ UNCHANGED sd
  BY <1>1 DEF NoManagerLeft
<1>2. CASE Owner \/ (\E w \in Workers : Worker(w)) \/ UNCHANGED vars
  BY <1>1, <1>2 DEF Owner, Start, StartAccepting, PauseRequests, ResumeRequests,
     Worker, Works, Runs, RunHandler, DispatchReturns, EndARequest, EndRpc, FinishHandler,
     ExitThread, NotifyOne, HandlerTells, vars
<1>3. ASSUME NEW c \in Clients, Client(c) PROVE NoManagerLeft'
  <2>1. CASE Construct(c)
    <3>1. UNCHANGED sd /\ \A s \in Stoppers : sd[s] \in Undriven
      BY <2>1 DEF Construct, RegisterInvokerManager, May, NoLateRegister, DriverInv, Undisturbed
    <3> QED
      BY <3>1 DEF NoManagerLeft, NotifiedAll, Undriven
  <2>2. CASE ~Construct(c)
    BY <1>1, <1>3, <2>2 DEF Client, Call, Constructed, Destroy, Reset,
       InvokeLocks, InvokeThrows, RequestAccepted, StartARequest, RequestRefused,
       RequestFailsCheck, RequestPosted, RequestRejected, RejectRequest,
       WaitForNotification, Notified, SpuriousWake, DisconnectFromBackend, Unlink,
       SignalDisconnect
  <2> QED
    BY <2>1, <2>2
<1>4. ASSUME NEW s \in Stoppers, Stopper(s) PROVE NoManagerLeft'
  <2>1. CASE (\E c \in Clients : SlotBegins(s, c)) \/ SlotReturns(s)
    BY <1>1, <2>1 DEF SlotBegins, SlotReturns, SlotCalled
  <2>2. CASE ManagersNotified(s)
    BY <2>2 DEF ManagersNotified, Advance, LinkInv, SlotRuns, MutexFree, NoManagerLeft, ShapeOK
  <2>3. CASE Shutdown(s) /\ ~ManagersNotified(s)
    BY <2>3 DEF Shutdown, CheckAndInitiateShutdown, ShutdownAlreadyInitiated, StopAccepting,
       PollRpcCount, DisconectManagers, ManagerCount, AssertNoClients, WorkReset, JoinAll,
       Teardown, TeardownFails, Advance, NoManagerLeft, NotifiedAll, ShapeOK
  <2> QED
    BY <1>4, <2>1, <2>2, <2>3 DEF Stopper
<1> QED
  BY <1>2, <1>3, <1>4 DEF Next

\* No manager is left once the stopper has notified them.
THEOREM ManagersLeave ==
  ASSUME NoLateRegister
  PROVE  Spec => []NoManagerLeft
<1>1. Init => DriverInv /\ NoManagerLeft
  BY DEF Init, BackEndInit, DriverInv, Undisturbed, OneDriver, Undriven, NoManagerLeft, NotifiedAll
<1>2. CountInv /\ LinkInv /\ DriverInv /\ NoManagerLeft /\ [Next]_vars
        => (DriverInv /\ NoManagerLeft)'
  BY NextDrives, NextManagers, TypeParts DEF CountInv
<1> QED
  BY <1>1, <1>2, LinkInvariant, CountInvariant, PTL DEF Spec

\* Services are torn down only after the last manager has been disconnected,
\* however client disconnections, slot calls and the shutdown interleave, if no
\* invoker is constructed during the shutdown.
THEOREM TeardownWaitsForManagers ==
  ASSUME NoLateRegister
  PROVE  Spec => []TeardownAfterManagers
<1>1. NoManagerLeft => TeardownAfterManagers
  BY DEF NoManagerLeft, NotifiedAll, TeardownAfterManagers
<1> QED
  BY <1>1, ManagersLeave, PTL

\* shutdown_step's assertion that no client is connected once the last manager has
\* gone never fails, under the same condition.
THEOREM AssertionHolds ==
  ASSUME NoLateRegister
  PROVE  Spec => []ClientsManaged
<1>1. CountInv /\ LinkInv /\ NoManagerLeft => ClientsManaged
  <2> SUFFICES ASSUME CountInv, LinkInv, NoManagerLeft, NEW s \in Stoppers, sd[s] = "asserting"
               PROVE  m_connected_clients = {}
    BY DEF ClientsManaged
  <2>1. slots = {}
    BY DEF NoManagerLeft, NotifiedAll
  <2>2. m_connected_clients \subseteq Clients
    BY TypeParts DEF CountInv, ShapeOK
  <2>3. \A c \in Clients : c \notin m_connected_clients
    BY <2>1 DEF LinkInv, LinkOK, CallerConnected
  <2> QED
    BY <2>2, <2>3
<1> QED
  BY <1>1, ManagersLeave, LinkInvariant, CountInvariant, PTL

-----------------------------------------------------------------------------
(***************************************************************************)
(* Destroyed invokers.                                                     *)
(***************************************************************************)

\* Nobody destroys an invoker during a shutdown, and nobody else holds the
\* ClientData of one.
NoLateDestroy == "destroy" \notin LateOps
NoSharing == Shared = {}

DestroyedUnlinked == \A c \in Clients : pc[c] = "unborn" => c \notin slots

\* An invoker is destroyed only when its slot is gone.
LEMMA NextDestroys ==
  ASSUME NoLateDestroy, NoSharing, ShapeOK, DriverInv, LinkInv, DestroyedUnlinked, [Next]_vars
  PROVE  DestroyedUnlinked'
<1> USE DEF gate_vars, client_vars, pool_vars, driver_vars, backend_vars, invoker_vars
<1>1. CASE slots' \subseteq slots /\ UNCHANGED pc
  BY <1>1 DEF DestroyedUnlinked
<1>2. CASE Owner \/ (\E w \in Workers : Worker(w)) \/ UNCHANGED vars
  BY <1>1, <1>2 DEF Owner, Start, StartAccepting, PauseRequests, ResumeRequests,
     Worker, Works, Runs, RunHandler, DispatchReturns, EndARequest, EndRpc, FinishHandler,
     ExitThread, NotifyOne, HandlerTells, vars
<1>3. CASE \E s \in Stoppers : Stopper(s)
  BY <1>1, <1>3 DEF Stopper, Shutdown, CheckAndInitiateShutdown, ShutdownAlreadyInitiated,
     StopAccepting, PollRpcCount, DisconectManagers, ManagersNotified, ManagerCount,
     AssertNoClients, WorkReset, JoinAll, Teardown, TeardownFails, SlotBegins,
     SlotReturns, SlotCalled
<1>4. ASSUME NEW c \in Clients, Client(c) PROVE DestroyedUnlinked'
  <2>1. CASE Destroy(c)
    <3>1. MutexFree
      BY <2>1 DEF Destroy, May, NoLateDestroy, DriverInv, Undisturbed, Undriven, MutexFree
    <3>2. c \notin slots
      BY <2>1, <3>1, BackEndAssumption DEF Destroy, Unique, NoSharing, Goes, LinkInv, LinkOK, SlotRuns
    <3> QED
      BY <2>1, <3>2 DEF Destroy, Goes, DestroyedUnlinked, ShapeOK
  <2>2. CASE Construct(c)
    BY <2>2 DEF Construct, Goes, RegisterInvokerManager, DestroyedUnlinked, ShapeOK
  <2>3. CASE ~Destroy(c) /\ ~Construct(c)
    <3>1. slots' \subseteq slots
      BY <1>4, <2>3 DEF Client, Call, Constructed, Reset,
         InvokeLocks, InvokeThrows, RequestAccepted, StartARequest, RequestRefused,
         RequestFailsCheck, RequestPosted, RequestRejected, RejectRequest,
         WaitForNotification, Notified, SpuriousWake, DisconnectFromBackend, Unlink,
         SignalDisconnect
    <3>2. \A d \in Clients : pc'[d] = "unborn" => pc[d] = "unborn"
      BY <1>4, <2>3 DEF Client, Call, Goes, ShapeOK, Constructed, Reset, InvokeLocks, InvokeThrows,
         RequestAccepted, RequestRefused, RequestFailsCheck, RequestPosted,
         RequestRejected, WaitForNotification, Notified, SpuriousWake,
         DisconnectFromBackend, Unlink
    <3> QED
      BY <3>1, <3>2 DEF DestroyedUnlinked
  <2> QED
    BY <2>1, <2>2, <2>3
<1> QED
  BY <1>2, <1>3, <1>4 DEF Next

\* No handler of the pool and no slot call of a shutdown runs on a destroyed
\* invoker, if condition variables do not wake spuriously, no invoker is destroyed
\* during the shutdown and nobody shares a ClientData.
THEOREM InvokersOutliveCallbacks ==
  ASSUME ~SpuriousWakeups, NoLateDestroy, NoSharing
  PROVE  Spec => []InvokerOutlivesCallbacks
<1>1. Init => DriverInv /\ DestroyedUnlinked
  BY DEF Init, BackEndInit, DriverInv, Undisturbed, OneDriver, Undriven, DestroyedUnlinked
<1>2. CountInv /\ LinkInv /\ DriverInv /\ DestroyedUnlinked /\ [Next]_vars
        => (DriverInv /\ DestroyedUnlinked)'
  BY NextDrives, NextDestroys, TypeParts DEF CountInv
<1>3. CallInv /\ LinkInv /\ DestroyedUnlinked => InvokerOutlivesCallbacks
  <2> SUFFICES ASSUME CallInv, LinkInv, DestroyedUnlinked, NEW c \in Clients, pc[c] = "unborn"
               PROVE  ~Referenced(c) /\ inslot # c
    BY DEF InvokerOutlivesCallbacks
  <2>1. ~Referenced(c)
    BY DEF CallInv, CallOK, ClientWaits, Waits, Holds, Referenced
  <2>2. inslot # c
    BY BackEndAssumption DEF LinkInv, SlotRuns, DestroyedUnlinked
  <2> QED
    BY <2>1, <2>2
<1> QED
  BY <1>1, <1>2, <1>3, CallInvariant, LinkInvariant, CountInvariant, PTL DEF Spec

-----------------------------------------------------------------------------
(***************************************************************************)
(* Cookies.  disconnect() deletes them only while the back end is sealed   *)
(* and its io_service runs: no client has one outside that time.           *)
(***************************************************************************)
NoneBeforeStart ==
  owner = "new" => /\ cookies = {}
                   /\ ~m_accepting_requests
                   /\ \A c \in Clients : ~Checking(c)

NoneAfterNotifying == \A s \in Stoppers : sd[s] \in NotifiedAll => cookies = {}

StopsAfterNotifying ==
  m_stopped \/ ~m_work => \E s \in Stoppers : sd[s] \in NotifiedAll

CookieInv ==
  /\ NoCookieLeftBehind
  /\ NoneBeforeStart
  /\ NoneAfterNotifying
  /\ StopsAfterNotifying

\* Whoever leaves the back end takes its cookie with it.
LEMMA LeavingTakesCookie ==
  ASSUME CookieInv, NEW c \in Clients, DeleteCookies(c), ForgetClient(c)
  PROVE  cookies' \subseteq cookies /\ NoCookieLeftBehind'
<1>1. CASE m_is_sealed /\ ~m_stopped
  BY <1>1 DEF CookieInv, NoCookieLeftBehind, DeleteCookies, ForgetClient
<1>2. CASE ~(m_is_sealed /\ ~m_stopped)
  <2>1. cookies = {}
    BY <1>2 DEF CookieInv, NoneBeforeStart, NoneAfterNotifying, StopsAfterNotifying, m_is_sealed
  <2> QED
    BY <1>2, <2>1 DEF NoCookieLeftBehind, DeleteCookies
<1> QED
  BY <1>1, <1>2

\* A step that creates no cookie and lets no client go without its own.
LEMMA CookiesUntouched ==
  ASSUME CookieInv,
         NoCookieLeftBehind', cookies' \subseteq cookies,
         UNCHANGED <<owner, sd, m_work>>,
         m_accepting_requests' => m_accepting_requests \/ owner # "new",
         \A c \in Clients : Checking(c)' => Checking(c) \/ m_accepting_requests,
         m_stopped' => m_stopped \/ ~m_work
  PROVE  CookieInv'
BY DEF CookieInv, NoneBeforeStart, NoneAfterNotifying, StopsAfterNotifying

\* A client's step: only a counted request creates a cookie, and there is none
\* after the drain.
LEMMA ClientCookies ==
  ASSUME CountInv, LinkInv, DrainInv, CookieInv, NEW c \in Clients, Client(c)
  PROVE  CookieInv'
<1> USE DEF gate_vars, client_vars, pool_vars, driver_vars, backend_vars, invoker_vars
<1>1. ShapeOK /\ LinkOK(c)
  BY TypeParts DEF CountInv, LinkInv
<1>2. UNCHANGED <<owner, sd, m_work, m_accepting_requests, m_stopped>>
  BY DEF Client, Call, Construct, Constructed, RegisterInvokerManager, Destroy, Reset,
     InvokeLocks, InvokeThrows, RequestAccepted, StartARequest, RequestRefused,
     RequestFailsCheck, RequestPosted, RequestRejected, RejectRequest,
     WaitForNotification, Notified, SpuriousWake, DisconnectFromBackend, Unlink,
     SignalDisconnect
<1>3. \A d \in Clients : Checking(d)' => Checking(d) \/ m_accepting_requests
  BY <1>1 DEF Client, Call, Goes, Checking, ShapeOK, Construct, Constructed, Destroy, Reset,
     InvokeLocks, InvokeThrows, RequestAccepted, StartARequest, GateOpen, RequestRefused,
     RequestFailsCheck, RequestPosted, RequestRejected,
     WaitForNotification, Notified, SpuriousWake, DisconnectFromBackend, Unlink
<1>4. CASE RequestFailsCheck(c) \/ RequestPosted(c)
  <2>1. /\ pc[c] = "started" /\ UNCHANGED m_connected_clients
        /\ cookies' \in {cookies, cookies \cup {c}}
    BY <1>4 DEF RequestFailsCheck, RequestPosted, Goes, TouchCookie
  <2>2. NoCookieLeftBehind'
    BY <1>1, <2>1 DEF CookieInv, NoCookieLeftBehind, LinkOK, CallerConnected
  <2>3. c \in CountedClients
    BY <2>1 DEF CountedClients, Counted
  <2>4. m_active_rpc_count # 0
    BY <2>3, CountedFinite, FS_EmptySet DEF CountInv, CountMatches
  <2>5. \A s \in Stoppers : sd[s] \notin NotifiedAll
    BY <2>4 DEF DrainInv, StaysDrained, Drained, Closed, NotifiedAll
  <2>6. owner # "new"
    BY <2>1 DEF CookieInv, NoneBeforeStart, Checking
  <2> QED
    BY <1>2, <2>2, <2>5, <2>6 DEF CookieInv, NoneBeforeStart, NoneAfterNotifying, StopsAfterNotifying
<1>5. CASE DisconnectFromBackend(c)
  BY <1>2, <1>3, <1>5, LeavingTakesCookie, CookiesUntouched DEF DisconnectFromBackend, LeaveBackEnd
<1>6. CASE Construct(c)
  <2>1. NoCookieLeftBehind' /\ cookies' \subseteq cookies
    BY <1>6 DEF Construct, RegisterInvokerManager, CookieInv, NoCookieLeftBehind
  <2> QED
    BY <1>2, <1>3, <2>1, CookiesUntouched
<1>7. CASE UNCHANGED <<cookies, m_connected_clients>>
  <2>1. NoCookieLeftBehind' /\ cookies' \subseteq cookies
    BY <1>7 DEF CookieInv, NoCookieLeftBehind
  <2> QED
    BY <1>2, <1>3, <2>1, CookiesUntouched
<1> QED
  BY <1>4, <1>5, <1>6, <1>7 DEF Client, Call, Constructed, Destroy, Reset, InvokeLocks, InvokeThrows,
     RequestAccepted, StartARequest, RequestRefused, RequestRejected, RejectRequest,
     WaitForNotification, Notified, SpuriousWake, Unlink

\* A stopper's step: a slot call takes the cookie with the client; when all slots
\* have been called nobody is connected, so there is no cookie.
LEMMA StopperCookies ==
  ASSUME CountInv, LinkInv, CookieInv, NEW s \in Stoppers, Stopper(s)
  PROVE  CookieInv'
<1> USE DEF gate_vars, client_vars, pool_vars, driver_vars, invoker_vars
<1>1. ShapeOK
  BY TypeParts DEF CountInv
<1>2. ASSUME NEW c \in Clients, SlotBegins(s, c) PROVE CookieInv'
  <2>1. UNCHANGED <<owner, sd, m_work, m_accepting_requests, m_stopped, pc>>
    BY <1>2 DEF SlotBegins
  <2>2. cookies' \subseteq cookies /\ NoCookieLeftBehind'
    <3>1. CASE m_connected[c]
      BY <1>2, <3>1, LeavingTakesCookie DEF SlotBegins, LeaveBackEnd
    <3>2. CASE ~m_connected[c]
      BY <1>2, <3>2 DEF SlotBegins, CookieInv, NoCookieLeftBehind
    <3> QED
      BY <3>1, <3>2
  <2> QED
    BY <2>1, <2>2, CookiesUntouched DEF Checking
<1>3. CASE SlotReturns(s)
  BY <1>3, CookiesUntouched DEF SlotReturns, CookieInv, NoCookieLeftBehind, Checking
<1>4. CASE Shutdown(s) /\ UNCHANGED invoker_vars
  <2>1. /\ UNCHANGED <<owner, cookies, m_connected_clients, pc>>
        /\ m_accepting_requests' => m_accepting_requests
    BY <1>4 DEF Shutdown, CheckAndInitiateShutdown, ShutdownAlreadyInitiated,
       StopAccepting, CloseGate, PollRpcCount, DisconectManagers, ManagersNotified,
       ManagerCount, AssertNoClients, WorkReset, JoinAll, Teardown, TeardownFails
  <2>2. NoCookieLeftBehind' /\ NoneBeforeStart'
    BY <2>1 DEF CookieInv, NoCookieLeftBehind, NoneBeforeStart, Checking
  <2>3. CASE ManagersNotified(s)
    <3>1. slots = {}
      BY <2>3 DEF ManagersNotified, Advance, LinkInv, SlotRuns, MutexFree
    <3>2. cookies = {}
      BY <1>1, <3>1 DEF LinkInv, LinkOK, CallerConnected, CookieInv, NoCookieLeftBehind, ShapeOK
    <3>3. StopsAfterNotifying'
      BY <1>1, <2>3 DEF ManagersNotified, Advance, CookieInv, StopsAfterNotifying, NotifiedAll, ShapeOK
    <3> QED
      BY <2>1, <2>2, <3>2, <3>3 DEF CookieInv, NoneAfterNotifying
  <2>4. CASE Shutdown(s) /\ ~ManagersNotified(s)
    <3>1. \A t \in Stoppers : sd'[t] \in NotifiedAll <=> sd[t] \in NotifiedAll
      BY <1>1, <2>4 DEF Shutdown, CheckAndInitiateShutdown, ShutdownAlreadyInitiated,
         StopAccepting, PollRpcCount, DisconectManagers, ManagerCount, AssertNoClients,
         WorkReset, JoinAll, Teardown, TeardownFails, Advance, NotifiedAll, ShapeOK
    <3>2. NoneAfterNotifying'
      BY <2>1, <3>1 DEF CookieInv, NoneAfterNotifying
    <3>3. StopsAfterNotifying'
      <4>1. CASE WorkReset(s)
        <5>1. sd[s] \in NotifiedAll
          BY <4>1 DEF WorkReset, Advance, NotifiedAll
        <5> QED
          BY <3>1, <5>1 DEF StopsAfterNotifying
      <4>2. CASE UNCHANGED <<m_work, m_stopped>>
        BY <3>1, <4>2 DEF CookieInv, StopsAfterNotifying
      <4> QED
        BY <2>4, <4>1, <4>2 DEF Shutdown, CheckAndInitiateShutdown, ShutdownAlreadyInitiated,
           StopAccepting, PollRpcCount, DisconectManagers, ManagerCount, AssertNoClients,
           JoinAll, Teardown, TeardownFails
    <3> QED
      BY <2>2, <3>2, <3>3 DEF CookieInv
  <2> QED
    BY <1>4, <2>3, <2>4
<1> QED
  BY <1>2, <1>3, <1>4 DEF Stopper

\* A dispatched request may create a cookie: its client is connected, because it
\* waits for the notification, and the drain has not been passed.
LEMMA DispatchCookiesKept ==
  ASSUME CountInv, CallInv, DrainInv, CookieInv, NEW w \in Workers, DispatchReturns(w)
  PROVE  CookieInv'
<1> USE DEF gate_vars, client_vars, pool_vars, driver_vars, invoker_vars
<1> DEFINE c == job[w]
<1>1. /\ UNCHANGED <<m_connected_clients, owner, sd, m_work, m_stopped, m_accepting_requests, pc>>
      /\ thread[w] = "dispatching"
      /\ cookies' \subseteq cookies \cup {c}
  BY DEF DispatchReturns, EndARequest, DispatchCookies
<1>2. c \in Clients /\ owner # "new"
  BY <1>1 DEF CountInv, JobTyped
<1>3. c \in m_connected_clients
  BY <1>1, <1>2 DEF CallInv, CallOK, ClientWaits, Waits, Holds, CallerConnected
<1>4. c \in CountedClients
  BY <1>1, <1>2 DEF CountedClients, Counted, InPool
<1>5. m_active_rpc_count # 0
  BY <1>4, CountedFinite, FS_EmptySet DEF CountInv, CountMatches
<1>6. \A s \in Stoppers : sd[s] \notin NotifiedAll
  BY <1>5 DEF DrainInv, StaysDrained, Drained, Closed, NotifiedAll
<1>7. NoCookieLeftBehind'
  BY <1>1, <1>3 DEF CookieInv, NoCookieLeftBehind
<1> QED
  BY <1>1, <1>2, <1>6, <1>7 DEF CookieInv, NoneBeforeStart, NoneAfterNotifying, StopsAfterNotifying

\* Every step keeps CookieInv.
LEMMA NextCookies ==
  ASSUME CountInv, CallInv, LinkInv, DrainInv, CookieInv, [Next]_vars
  PROVE  CookieInv'
<1> USE DEF gate_vars, client_vars, pool_vars, driver_vars, backend_vars, invoker_vars
<1>1. CASE Owner
  <2>1. /\ UNCHANGED <<cookies, m_connected_clients, sd, m_work, m_stopped, pc>>
        /\ owner' = "new" => owner = "new" /\ UNCHANGED m_accepting_requests
    BY <1>1 DEF Owner, Start, StartAccepting, PauseRequests, ResumeRequests
  <2> QED
    BY <2>1 DEF CookieInv, NoCookieLeftBehind, NoneBeforeStart, NoneAfterNotifying,
       StopsAfterNotifying, Checking
<1>2. CASE \E c \in Clients : Client(c)
  BY <1>2, ClientCookies
<1>3. CASE \E s \in Stoppers : Stopper(s)
  BY <1>3, StopperCookies
<1>4. ASSUME NEW w \in Workers, Worker(w), ~DispatchReturns(w) PROVE CookieInv'
  <2>1. UNCHANGED <<cookies, m_connected_clients, owner, sd, m_work, m_accepting_requests, pc>>
    BY <1>4 DEF Worker, Works, Runs, RunHandler, EndRpc, FinishHandler,
       ExitThread, NotifyOne, HandlerTells
  <2>2. m_stopped' => m_stopped \/ ~m_work
    <3>1. CASE FinishHandler(w)
      BY <3>1 DEF FinishHandler
    <3>2. CASE UNCHANGED m_stopped
      BY <3>2
    <3> QED
      BY <1>4, <3>1, <3>2 DEF Worker, Works, Runs, RunHandler, EndRpc, ExitThread,
         NotifyOne, HandlerTells
  <2> QED
    BY <2>1, <2>2, CookiesUntouched DEF CookieInv, NoCookieLeftBehind, Checking
<1>5. CASE UNCHANGED vars
  BY <1>5, CookiesUntouched DEF vars, CookieInv, NoCookieLeftBehind, Checking
<1> QED
  BY <1>1, <1>2, <1>3, <1>4, <1>5, DispatchCookiesKept DEF Next

\* A client that is not connected has no cookie with a user service, though
\* disconnect() skips the deletion on an unsealed or stopped back end and a
\* dispatched request may create one, if condition variables do not wake
\* spuriously and nobody starts or resumes the back end during the shutdown.
THEOREM CookiesLeaveWithClient ==
  ASSUME ~SpuriousWakeups, NoLateOpening
  PROVE  Spec => []NoCookieLeftBehind
<1>1. Init => DriverInv /\ DrainInv /\ CookieInv
  BY DEF Init, BackEndInit, DriverInv, Undisturbed, OneDriver, Undriven, DrainInv,
     StartedInTime, StaysClosed, StaysDrained, NothingTaken, Closed, Drained, CookieInv,
     NoCookieLeftBehind, NoneBeforeStart, NoneAfterNotifying, StopsAfterNotifying,
     NotifiedAll, Checking
<1>2. CountInv /\ CallInv /\ LinkInv /\ DriverInv /\ DrainInv /\ CookieInv /\ [Next]_vars
        => (DriverInv /\ DrainInv /\ CookieInv)'
  BY NextDrives, NextDrains, NextCookies
<1>3. CookieInv => NoCookieLeftBehind
  BY DEF CookieInv
<1> QED
  BY <1>1, <1>2, <1>3, CallInvariant, LinkInvariant, CountInvariant, PTL DEF Spec

-----------------------------------------------------------------------------
(***************************************************************************)
(* The proof that InProcess implements RpcGate, for every set of clients,  *)
(* workers and stoppers, with or without spurious wakeups, if nobody opens *)
(* the gate of a back end that shuts down.                                 *)
(***************************************************************************)


\* m_shutdown_state says how far the driver has come.
StateOfStage ==
  \A s \in Stoppers :
    /\ sd[s] = "initiated" => m_shutdown_state = "INITIATED"
    /\ sd[s] = "draining" => m_shutdown_state = "WAITING_RPC"
    /\ sd[s] \in Drained => m_shutdown_state = "WAITING_MANAGERS"

GateInv == CountInv /\ DriverInv /\ DrainInv /\ StateOfStage

\* The phase that the stage of the driver stands for.
PhaseOfStage ==
  /\ m_shutdown_state = "ACTIVE" => GatePhase = "serving"
  /\ \A s \in Stoppers :
       /\ sd[s] \in {"initiated", "draining"} => GatePhase = "draining"
       /\ sd[s] \in Drained \ {"tearing", "done", "threw"} => GatePhase = "drained"
       /\ sd[s] \in {"tearing", "done", "threw"} => GatePhase = "closed"

\* The steps of the back end as the gate sees them.
Admits(c) ==
  /\ m_accepting_requests
  /\ c \notin CountedClients
  /\ CountedClients' = CountedClients \cup {c}

Completes(c) ==
  /\ c \in CountedClients
  /\ CountedClients' = CountedClients \ {c}

-----------------------------------------------------------------------------
(***************************************************************************)
(* The driver's progress.                                                  *)
(***************************************************************************)

\* A step of shutdown() keeps state and stage in agreement.
LEMMA ShutdownStages ==
  ASSUME ShapeOK, DriverInv, StateOfStage, NEW s \in Stoppers, Shutdown(s)
  PROVE  StateOfStage'
<1> USE DEF DriverInv, Undisturbed, OneDriver, Undriven, StateOfStage, Closed, Drained,
        Advance, ShapeOK, gate_vars
<1>1. CASE CheckAndInitiateShutdown(s)
  BY <1>1 DEF CheckAndInitiateShutdown, InitiatesShutdown
<1>2. CASE ShutdownAlreadyInitiated(s)
  BY <1>2 DEF ShutdownAlreadyInitiated
<1>3. CASE StopAccepting(s)
  BY <1>3 DEF StopAccepting
<1>4. CASE PollRpcCount(s)
  BY <1>4 DEF PollRpcCount
<1>5. CASE DisconectManagers(s)
  BY <1>5 DEF DisconectManagers
<1>6. CASE ManagersNotified(s)
  BY <1>6 DEF ManagersNotified
<1>7. CASE ManagerCount(s)
  BY <1>7 DEF ManagerCount
<1>8. CASE AssertNoClients(s)
  BY <1>8 DEF AssertNoClients
<1>9. CASE WorkReset(s)
  BY <1>9 DEF WorkReset
<1>10. CASE JoinAll(s)
  BY <1>10 DEF JoinAll
<1>11. CASE Teardown(s)
  BY <1>11 DEF Teardown
<1>12. CASE TeardownFails(s)
  BY <1>12 DEF TeardownFails
<1> QED
  BY <1>1, <1>2, <1>3, <1>4, <1>5, <1>6, <1>7, <1>8, <1>9, <1>10, <1>11, <1>12 DEF Shutdown

\* Every step keeps GateInv.
LEMMA NextGateInv ==
  ASSUME NoLateOpening, GateInv, [Next]_vars
  PROVE  GateInv'
<1>1. CountInv' /\ DriverInv' /\ DrainInv'
  BY NextCounts, NextDrives, NextDrains DEF GateInv
<1>2. CASE \E s \in Stoppers : Shutdown(s)
  BY <1>1, <1>2, ShutdownStages, TypeParts DEF GateInv, CountInv
<1>3. CASE UNCHANGED <<sd, m_shutdown_state>>
  BY <1>1, <1>3 DEF GateInv, StateOfStage
<1> QED
  BY <1>2, <1>3, OthersDoNotDrive DEF Next, Stopper

\* GateInv holds of every state of the system.
THEOREM GateInvariant ==
  ASSUME NoLateOpening
  PROVE  Spec => []GateInv
<1>1. Init => GateInv
  BY InitCounts DEF Init, BackEndInit, GateInv, DriverInv, Undisturbed, OneDriver, Undriven,
     DrainInv, StartedInTime, StaysClosed, StaysDrained, NothingTaken, StateOfStage,
     Closed, Drained
<1>2. GateInv /\ [Next]_vars => GateInv'
  BY NextGateInv
<1> QED
  BY <1>1, <1>2, PTL DEF Spec

-----------------------------------------------------------------------------
(***************************************************************************)
(* The requests in flight.                                                 *)
(***************************************************************************)

\* A client's step admits its own request, completes it, or leaves the
\* requests in flight alone.
LEMMA ClientAdmits ==
  ASSUME CountInv, NEW c \in Clients, Client(c)
  PROVE  Admits(c) \/ Completes(c) \/ CountedClients' = CountedClients
<1>1. ShapeOK
  BY TypeParts DEF CountInv
<1> USE DEF gate_vars, client_vars, pool_vars, driver_vars, backend_vars
<1>2. CASE RequestAccepted(c)
  <2>1. /\ m_accepting_requests
        /\ UNCHANGED <<posted, thread, job>>
        /\ pc' = [pc EXCEPT ![c] = "started"] /\ pc[c] = "locked"
    BY <1>2 DEF RequestAccepted, Goes, StartARequest, GateOpen
  <2>2. ~Counted(c)
    BY <2>1 DEF CountInv, OnePlace, Counted, InPool, Occupies
  <2>3. \A d \in Clients : Counted(d)' <=> Counted(d) \/ d = c
    BY <1>1, <2>1 DEF Counted, InPool, ShapeOK
  <2> QED
    BY <2>1, <2>2, <2>3 DEF Admits, CountedClients
<1>3. CASE RequestRejected(c)
  <2>1. /\ UNCHANGED <<posted, thread, job>>
        /\ pc' = [pc EXCEPT ![c] = "idle"] /\ pc[c] = "rejecting"
    BY <1>3 DEF RequestRejected, Goes, RejectRequest
  <2>2. ~InPool(c)
    BY <2>1 DEF CountInv, OnePlace, Checking, InPool, Occupies
  <2>3. \A d \in Clients : Counted(d)' <=> Counted(d) /\ d # c
    BY <1>1, <2>1, <2>2 DEF Counted, InPool, ShapeOK
  <2>4. Counted(c)
    BY <2>1 DEF Counted
  <2> QED
    BY <2>3, <2>4 DEF Completes, CountedClients
<1>4. CASE RequestPosted(c)
  <2>1. /\ posted' = posted \cup {c}
        /\ UNCHANGED <<thread, job>>
        /\ pc' = [pc EXCEPT ![c] = "posted"] /\ pc[c] = "started"
    BY <1>4 DEF RequestPosted, Goes, Post
  <2>2. \A d \in Clients : Counted(d)' <=> Counted(d)
    BY <1>1, <2>1 DEF Counted, InPool, ShapeOK
  <2> QED
    BY <2>2 DEF CountedClients
<1>5. CASE /\ UNCHANGED <<posted, thread, job>>
           /\ \E to \in ClientStages \ {"started"} :
                /\ pc' = [pc EXCEPT ![c] = to]
                /\ to = "rejecting" <=> Checking(c)
  <2>1. \A d \in Clients : Counted(d)' <=> Counted(d)
    BY <1>1, <1>5 DEF Counted, InPool, Checking, ShapeOK
  <2> QED
    BY <2>1 DEF CountedClients
<1> QED
  BY <1>2, <1>3, <1>4, <1>5 DEF Client, Call, Goes, Checking, ClientStages, Construct, Constructed,
     RegisterInvokerManager, Destroy, Reset, InvokeLocks, InvokeThrows, RequestRefused,
     RequestFailsCheck, WaitForNotification, Notified, SpuriousWake,
     DisconnectFromBackend, Unlink, SignalDisconnect

\* A pool thread's step completes a request or leaves the requests in flight alone.
LEMMA WorkerCompletes ==
  ASSUME CountInv, NEW w \in Workers, Worker(w)
  PROVE  (\E c \in Clients : Completes(c)) \/ CountedClients' = CountedClients
<1>1. ShapeOK
  BY TypeParts DEF CountInv
<1> USE DEF gate_vars, client_vars, pool_vars, driver_vars, backend_vars, invoker_vars
<1>2. CASE DispatchReturns(w)
  <2> DEFINE c == job[w]
  <2>1. /\ UNCHANGED <<pc, posted, job>>
        /\ thread[w] = "dispatching" /\ thread' = [thread EXCEPT ![w] = "ended"]
    BY <1>2 DEF DispatchReturns, EndARequest
  <2>2. c \in Clients /\ Occupies(w, c)
    BY <2>1 DEF CountInv, JobTyped, Occupies
  <2>3. /\ ~Checking(c) /\ c \notin posted
        /\ \A v \in Workers : Occupies(v, c) => v = w
    BY <2>2 DEF CountInv, OnePlace
  <2>4. \A d \in Clients : Counted(d)' <=> Counted(d) /\ d # c
    BY <1>1, <2>1, <2>3 DEF Counted, InPool, Occupies, Checking, ShapeOK
  <2>5. Counted(c)
    BY <2>1 DEF Counted, InPool
  <2>6. Completes(c)
    BY <2>2, <2>4, <2>5 DEF Completes, CountedClients
  <2> QED
    BY <2>2, <2>6
<1>3. ASSUME NEW c \in Clients, Runs(w, c) PROVE CountedClients' = CountedClients
  <2>1. \A d \in Clients : Counted(d)' <=> Counted(d)
    BY <1>1, <1>3 DEF Runs, RunHandler, Counted, InPool, ShapeOK
  <2> QED
    BY <2>1 DEF CountedClients
<1>4. CASE \/ (EndRpc(w) \/ FinishHandler(w) \/ ExitThread(w)) /\ UNCHANGED invoker_vars
           \/ NotifyOne(w)
  <2>1. /\ UNCHANGED <<pc, posted>>
        /\ thread[w] # "dispatching"
        /\ \E to \in ThreadStages \ {"dispatching"} : thread' = [thread EXCEPT ![w] = to]
        /\ \A v \in Workers \ {w} : job'[v] = job[v]
    BY <1>1, <1>4 DEF EndRpc, FinishHandler, ExitThread, NotifyOne, HandlerTells,
       ThreadStages, ShapeOK
  <2>2. \A v \in Workers, d \in Clients :
          thread'[v] = "dispatching" /\ job'[v] = d <=> thread[v] = "dispatching" /\ job[v] = d
    BY <1>1, <2>1 DEF ShapeOK
  <2>3. \A d \in Clients : Counted(d)' <=> Counted(d)
    BY <2>1, <2>2 DEF Counted, InPool
  <2> QED
    BY <2>3 DEF CountedClients
<1> QED
  BY <1>2, <1>3, <1>4 DEF Worker, Works

-----------------------------------------------------------------------------
(***************************************************************************)
(* The refinement.                                                         *)
(***************************************************************************)

\* The abstract phase follows the driver.
LEMMA Phases == GateInv => PhaseOfStage
BY DEF GateInv, DriverInv, Undisturbed, Undriven, OneDriver, StateOfStage, PhaseOfStage,
   GatePhase, Closed, Drained

\* ... after a step too.
LEMMA PhasesNext == GateInv' => PhaseOfStage'
BY DEF GateInv, DriverInv, Undisturbed, Undriven, OneDriver, StateOfStage, PhaseOfStage,
   GatePhase, Closed, Drained

\* start() and resume_requests() open the gate while it serves; pausing shuts it.
LEMMA OwnerOperatesGate ==
  ASSUME NoLateOpening, GateInv, Owner
  PROVE  [Gate!GateNext]_(Gate!gate)
<1> USE DEF gate_vars, client_vars, pool_vars, driver_vars, invoker_vars
<1>1. CountedClients' = CountedClients
  <2>1. CASE Start
    <3>1. \A c \in Clients : Counted(c)' <=> Counted(c)
      BY <2>1 DEF Owner, Start, GateInv, CountInv, JobTyped, Counted, InPool
    <3> QED
      BY <3>1 DEF CountedClients
  <2>2. CASE UNCHANGED <<pc, posted, thread, job>>
    BY <2>2 DEF CountedClients, Counted, InPool
  <2> QED
    BY <2>1, <2>2 DEF Owner, StartAccepting, PauseRequests, ResumeRequests
<1>2. UNCHANGED GatePhase
  BY DEF Owner, Start, StartAccepting, PauseRequests, ResumeRequests, GatePhase
<1>3. m_accepting_requests \in BOOLEAN /\ PhaseOfStage
  BY Phases, TypeParts DEF GateInv, CountInv, ShapeOK
<1>4. CASE Start
  BY <1>1, <1>2, <1>4 DEF Start, Gate!gate
<1>5. CASE StartAccepting
  <2>1. m_accepting_requests' = TRUE /\ GatePhase = "serving"
    BY <1>3, <1>5 DEF StartAccepting, GateInv, DrainInv, StartedInTime, PhaseOfStage
  <2> QED
    BY <1>1, <1>2, <1>3, <2>1 DEF Gate!gate, Gate!GateNext, Gate!Toggle
<1>6. CASE PauseRequests
  BY <1>1, <1>2, <1>6 DEF PauseRequests, Gate!GateNext, Gate!Shut
<1>7. CASE ResumeRequests
  <2>1. m_accepting_requests' = ~m_accepting_requests /\ GatePhase = "serving"
    BY <1>3, <1>7 DEF ResumeRequests, NoLateOpening, May, PhaseOfStage
  <2> QED
    BY <1>1, <1>2, <2>1 DEF Gate!GateNext, Gate!Toggle
<1> QED
  BY <1>4, <1>5, <1>6, <1>7 DEF Owner

\* Client and pool threads admit and complete requests and do nothing else to
\* the gate.
LEMMA RequestsPassGate ==
  ASSUME UNCHANGED <<sd, m_shutdown_state, m_accepting_requests>>,
         \/ \E c \in Clients : Admits(c) \/ Completes(c)
         \/ CountedClients' = CountedClients
  PROVE  [Gate!GateNext]_(Gate!gate)
<1>1. UNCHANGED GatePhase
  BY DEF GatePhase
<1>2. CASE \E c \in Clients : Admits(c) \/ Completes(c)
  BY <1>1, <1>2 DEF Admits, Completes, Gate!GateNext, Gate!Admit, Gate!Complete
<1>3. CASE CountedClients' = CountedClients
  BY <1>1, <1>3 DEF Gate!gate
<1> QED
  BY <1>2, <1>3

\* The driver of the shutdown begins to drain, shuts the gate, finds it drained
\* and closes it, in this order; all else it does leaves the gate alone.
LEMMA ShutdownClosesGate ==
  ASSUME GateInv, GateInv', NEW s \in Stoppers, Shutdown(s) /\ UNCHANGED invoker_vars
  PROVE  [Gate!GateNext]_(Gate!gate)
<1>1. PhaseOfStage /\ PhaseOfStage' /\ ShapeOK
  BY Phases, PhasesNext, TypeParts DEF GateInv, CountInv
<1> USE DEF gate_vars, client_vars, pool_vars, invoker_vars, Advance
<1>2. CountedClients' = CountedClients
  <2>1. UNCHANGED <<pc, posted, thread, job>>
    BY DEF Shutdown, CheckAndInitiateShutdown, ShutdownAlreadyInitiated, StopAccepting,
       PollRpcCount, DisconectManagers, ManagersNotified, ManagerCount, AssertNoClients,
       WorkReset, JoinAll, Teardown, TeardownFails
  <2> QED
    BY <2>1 DEF CountedClients, Counted, InPool
<1>3. CASE CheckAndInitiateShutdown(s)
  <2>1. GatePhase = "serving" /\ GatePhase' = "draining" /\ UNCHANGED m_accepting_requests
    BY <1>1, <1>3 DEF CheckAndInitiateShutdown, InitiatesShutdown, PhaseOfStage, ShapeOK
  <2> QED
    BY <1>2, <2>1 DEF Gate!GateNext, Gate!BeginDraining
<1>4. CASE ShutdownAlreadyInitiated(s)
  <2>1. UNCHANGED <<GatePhase, m_accepting_requests>>
    BY <1>1, <1>4 DEF ShutdownAlreadyInitiated, GatePhase, ShapeOK
  <2> QED
    BY <1>2, <2>1 DEF Gate!gate
<1>5. CASE StopAccepting(s)
  <2>1. UNCHANGED GatePhase /\ m_accepting_requests' = FALSE
    BY <1>1, <1>5 DEF StopAccepting, CloseGate, PhaseOfStage, ShapeOK
  <2> QED
    BY <1>2, <2>1 DEF Gate!GateNext, Gate!Shut
<1>6. CASE PollRpcCount(s)
  <2>1. GatePhase = "draining" /\ GatePhase' = "drained" /\ UNCHANGED m_accepting_requests
    BY <1>1, <1>6 DEF PollRpcCount, PhaseOfStage, ShapeOK, Closed, Drained
  <2>2. ~m_accepting_requests
    BY <1>6 DEF PollRpcCount, GateInv, DrainInv, StaysClosed, Closed
  <2>3. CountedClients = {}
    BY <1>6, CountedFinite, FS_EmptySet
    DEF PollRpcCount, RpcsDrained, GateInv, CountInv, CountMatches
  <2> QED
    BY <1>2, <2>1, <2>2, <2>3 DEF Gate!GateNext, Gate!Drained
<1>7. CASE \/ DisconectManagers(s) \/ ManagersNotified(s) \/ ManagerCount(s)
           \/ AssertNoClients(s) \/ WorkReset(s) \/ Teardown(s) \/ TeardownFails(s)
  <2>1. UNCHANGED <<m_accepting_requests, m_shutdown_state>>
    BY <1>7 DEF DisconectManagers, ManagersNotified, ManagerCount, AssertNoClients,
       WorkReset, Teardown, TeardownFails
  <2>2. UNCHANGED GatePhase
    BY <1>1, <1>7 DEF DisconectManagers, ManagersNotified, ManagerCount, AssertNoClients,
       WorkReset, Teardown, TeardownFails, PhaseOfStage, Closed, Drained, ShapeOK
  <2> QED
    BY <1>2, <2>1, <2>2 DEF Gate!gate
<1>8. CASE JoinAll(s)
  <2>1. GatePhase = "drained" /\ GatePhase' = "closed" /\ UNCHANGED m_accepting_requests
    BY <1>1, <1>8 DEF JoinAll, PhaseOfStage, ShapeOK, Closed, Drained
  <2> QED
    BY <1>2, <2>1 DEF Gate!GateNext, Gate!Close
<1> QED
  BY <1>3, <1>4, <1>5, <1>6, <1>7, <1>8 DEF Shutdown

\* Every step of the system is a step of the gate or leaves it alone.
LEMMA StepsRefine ==
  ASSUME NoLateOpening, GateInv, [Next]_vars
  PROVE  [Gate!GateNext]_(Gate!gate)
<1>1. GateInv'
  BY NextGateInv
<1> USE DEF gate_vars, client_vars, pool_vars, driver_vars, backend_vars, invoker_vars
<1>2. CASE Owner
  BY <1>2, OwnerOperatesGate
<1>3. ASSUME NEW c \in Clients, Client(c) PROVE [Gate!GateNext]_(Gate!gate)
  <2>1. UNCHANGED <<sd, m_shutdown_state, m_accepting_requests>>
    BY <1>3 DEF Client, Call, Construct, Constructed, RegisterInvokerManager, Destroy, Reset,
       InvokeLocks, InvokeThrows, RequestAccepted, StartARequest, RequestRefused,
       RequestFailsCheck, RequestPosted, RequestRejected, RejectRequest,
       WaitForNotification, Notified, SpuriousWake, DisconnectFromBackend, Unlink,
       SignalDisconnect
  <2> QED
    BY <1>3, <2>1, ClientAdmits, RequestsPassGate DEF GateInv
<1>4. ASSUME NEW w \in Workers, Worker(w) PROVE [Gate!GateNext]_(Gate!gate)
  <2>1. UNCHANGED <<sd, m_shutdown_state, m_accepting_requests>>
    BY <1>4 DEF Worker, Works, Runs, RunHandler, DispatchReturns, EndARequest, EndRpc, FinishHandler,
       ExitThread, NotifyOne, HandlerTells
  <2> QED
    BY <1>4, <2>1, WorkerCompletes, RequestsPassGate DEF GateInv
<1>5. CASE \E s \in Stoppers : Shutdown(s) /\ UNCHANGED invoker_vars
  BY <1>1, <1>5, ShutdownClosesGate
<1>6. CASE UNCHANGED <<sd, m_shutdown_state, m_accepting_requests, pc, posted, thread, job>>
  BY <1>6, RequestsPassGate DEF CountedClients, Counted, InPool
<1> QED
  BY <1>2, <1>3, <1>4, <1>5, <1>6 DEF Next, Stopper, SlotBegins, SlotReturns, vars

\* The back end with its clients, pool and shutdown implements the abstract gate:
\* requests are admitted one by one while it is open, and a shutdown passes its
\* drain only when nothing is in flight and nothing can be admitted any more, for
\* any number of threads, if nobody starts or resumes the back end during a
\* shutdown.
THEOREM GateRefined ==
  ASSUME NoLateOpening
  PROVE  Spec => ImplementsGate
<1>1. Init => Gate!GateInit
  BY DEF Init, BackEndInit, Gate!GateInit, GatePhase, CountedClients, Counted, InPool
<1>2. GateInv /\ [Next]_vars => [Gate!GateNext]_(Gate!gate)
  BY StepsRefine
<1> QED
  BY <1>1, <1>2, GateInvariant, PTL DEF Spec, ImplementsGate, Gate!GateSpec
=============================================================================
