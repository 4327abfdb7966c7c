-------------------------- MODULE InProcessProofs --------------------------
(***************************************************************************)
(* Proofs about InProcess, for every set of clients, workers and stoppers, *)
(* whatever callers do late and whether or not condition variables wake    *)
(* spuriously.                                                             *)
(***************************************************************************)
EXTENDS InProcess, FiniteSetTheorems, TLAPS

Checking(c) == pc[c] \in {"started", "rejecting"}

\* Worker w is between taking c's handler and clearing c's flag.
Occupies(w, c) == thread[w] \in {"dispatching", "ended"} /\ job[w] = c

JobTyped ==
  /\ \A w \in Workers :
       thread[w] \in {"dispatching", "ended", "cleared", "finishing"} => job[w] \in Clients
  /\ owner = "new" => \A w \in Workers : thread[w] = "none"

\* A client's request is in one place at a time, and the client is marked active
\* as long as it is in one; a client at the gate is not marked.
OnePlace ==
  \A c \in Clients :
    /\ pc[c] = "locked" => ~m_rpc_active[c]
    /\ Checking(c) \/ c \in posted => m_rpc_active[c]
    /\ \A w \in Workers : Occupies(w, c) => m_rpc_active[c]
    /\ Checking(c) => c \notin posted
    /\ \A w \in Workers : Occupies(w, c) => ~Checking(c) /\ c \notin posted
    /\ \A v, w \in Workers : Occupies(v, c) /\ Occupies(w, c) => v = w

\* What makes CountMatches inductive.
CountInv == TypeOK /\ CountMatches /\ JobTyped /\ OnePlace

-----------------------------------------------------------------------------
(***************************************************************************)
(* Types.  The type of m_active_rpc_count needs CountMatches; the other    *)
(* ones are kept by every step on their own.                               *)
(***************************************************************************)
ShapeOK ==
  /\ m_accepting_requests \in BOOLEAN
  /\ m_shutdown_state \in ShutdownStates
  /\ slots \subseteq Managers
  /\ m_connected_clients \subseteq Clients
  /\ cookies \subseteq Clients
  /\ m_rpc_active \in [Clients -> BOOLEAN]
  /\ posted \subseteq Clients
  /\ thread \in [Workers -> ThreadStages]
  /\ job \in [Workers -> Clients \cup {Nobody}]
  /\ m_work \in BOOLEAN
  /\ m_stopped \in BOOLEAN
  /\ owner \in {"new", "sealed", "up"}
  /\ sd \in [Stoppers -> StopperStages]
  /\ pending \subseteq Managers
  /\ torn \in 0..NumServices
  /\ pc \in [Clients -> ClientStages]
  /\ m_connected \in [Clients -> BOOLEAN]
  /\ ready \in [Clients -> BOOLEAN]
  /\ inslot \in Clients \cup {Nobody}

\* TypeOK, taken apart.
LEMMA TypeParts == TypeOK <=> ShapeOK /\ m_active_rpc_count \in Nat
BY DEF TypeOK, BackEndTypeOK, ShapeOK

\* ... and put together again after a step.
LEMMA TypePartsNext == ShapeOK' /\ m_active_rpc_count' \in Nat => TypeOK'
BY DEF TypeOK, BackEndTypeOK, ShapeOK

\* start(), pause_requests() and resume_requests() keep the types.
LEMMA OwnerShape ==
  ASSUME ShapeOK, Owner
  PROVE  ShapeOK'
<1> USE DEF ShapeOK, gate_vars, client_vars, pool_vars, driver_vars, backend_vars, invoker_vars
<1>1. CASE Start /\ UNCHANGED invoker_vars
  BY <1>1 DEF Start, ThreadStages
<1>2. CASE StartAccepting /\ UNCHANGED invoker_vars
  BY <1>2 DEF StartAccepting
<1>3. CASE PauseRequests /\ UNCHANGED invoker_vars
  BY <1>3 DEF PauseRequests
<1>4. CASE ResumeRequests /\ UNCHANGED invoker_vars
  BY <1>4 DEF ResumeRequests
<1> QED
  BY <1>1, <1>2, <1>3, <1>4 DEF Owner

\* The client thread's steps keep the types.
LEMMA ClientShape ==
  ASSUME ShapeOK, NEW c \in Clients, Client(c)
  PROVE  ShapeOK'
<1> USE DEF ShapeOK, gate_vars, client_vars, pool_vars, driver_vars, backend_vars, invoker_vars
<1>1. CASE Construct(c)
  BY <1>1, InProcessAssumption DEF Construct, Goes, RegisterInvokerManager, ClientStages
<1>2. CASE Destroy(c)
  BY <1>2, InProcessAssumption DEF Destroy, Goes, ClientStages
<1>3. CASE Reset(c)
  BY <1>3, InProcessAssumption DEF Reset, Goes, NotificationReset, ClientStages
<1>4. CASE InvokeLocks(c)
  BY <1>4, InProcessAssumption DEF InvokeLocks, Goes, ClientStages
<1>5. CASE InvokeThrows(c)
  BY <1>5, InProcessAssumption DEF InvokeThrows, Goes, ClientStages
<1>6. CASE RequestAccepted(c)
  BY <1>6, InProcessAssumption DEF RequestAccepted, Goes, StartARequest, ClientStages
<1>7. CASE RequestRefused(c)
  BY <1>7, InProcessAssumption DEF RequestRefused, Goes, ClientStages
<1>8. CASE RequestFailsCheck(c)
  BY <1>8, InProcessAssumption DEF RequestFailsCheck, Goes, TouchCookie, ClientStages
<1>9. CASE RequestPosted(c)
  BY <1>9, InProcessAssumption DEF RequestPosted, Goes, TouchCookie, Post, ClientStages
<1>10. CASE RequestRejected(c)
  BY <1>10, InProcessAssumption DEF RequestRejected, Goes, RejectRequest, ClientStages
<1>11. CASE WaitForNotification(c)
  BY <1>11, InProcessAssumption DEF WaitForNotification, Goes, ClientStages
<1>12. CASE Notified(c)
  BY <1>12, InProcessAssumption DEF Notified, Goes, ClientStages
<1>13. CASE SpuriousWake(c)
  BY <1>13, InProcessAssumption DEF SpuriousWake, Goes, ClientStages
<1>14. CASE DisconnectFromBackend(c)
  BY <1>14, InProcessAssumption DEF DisconnectFromBackend, Goes, LeaveBackEnd, DeleteCookies, ForgetClient, ClientStages
<1>15. CASE Unlink(c)
  BY <1>15, InProcessAssumption DEF Unlink, Goes, SignalDisconnect, ClientStages
<1>16. CASE Constructed(c)
  BY <1>16, InProcessAssumption DEF Constructed, Goes, ClientStages
<1> QED
  BY <1>1, <1>2, <1>3, <1>4, <1>5, <1>6, <1>7, <1>8, <1>9, <1>10, <1>11, <1>12, <1>13, <1>14, <1>15, <1>16 DEF Client, Call

\* The shutdown driver's steps keep the types.
LEMMA StopperShape ==
  ASSUME ShapeOK, NEW s \in Stoppers, Stopper(s)
  PROVE  ShapeOK'
<1> USE DEF ShapeOK, gate_vars, client_vars, pool_vars, driver_vars, backend_vars, invoker_vars
<1>1. CASE CheckAndInitiateShutdown(s) /\ UNCHANGED invoker_vars
  BY <1>1, BackEndAssumption DEF CheckAndInitiateShutdown, Advance, StopperStages, ShutdownStates
<1>2. CASE ShutdownAlreadyInitiated(s) /\ UNCHANGED invoker_vars
  BY <1>2, BackEndAssumption DEF ShutdownAlreadyInitiated, Advance, StopperStages
<1>3. CASE StopAccepting(s) /\ UNCHANGED invoker_vars
  BY <1>3, BackEndAssumption DEF StopAccepting, Advance, StopperStages, CloseGate, ShutdownStates
<1>4. CASE PollRpcCount(s) /\ UNCHANGED invoker_vars
  BY <1>4, BackEndAssumption DEF PollRpcCount, Advance, StopperStages, ShutdownStates
<1>5. CASE DisconectManagers(s) /\ UNCHANGED invoker_vars
  BY <1>5, BackEndAssumption DEF DisconectManagers, Advance, StopperStages
<1>6. CASE ManagersNotified(s) /\ UNCHANGED invoker_vars
  BY <1>6, BackEndAssumption DEF ManagersNotified, Advance, StopperStages
<1>7. CASE ManagerCount(s) /\ UNCHANGED invoker_vars
  BY <1>7, BackEndAssumption DEF ManagerCount, Advance, StopperStages
<1>8. CASE AssertNoClients(s) /\ UNCHANGED invoker_vars
  BY <1>8, BackEndAssumption DEF AssertNoClients, Advance, StopperStages
<1>9. CASE WorkReset(s) /\ UNCHANGED invoker_vars
  BY <1>9, BackEndAssumption DEF WorkReset, Advance, StopperStages
<1>10. CASE JoinAll(s) /\ UNCHANGED invoker_vars
  BY <1>10, BackEndAssumption DEF JoinAll, Advance, StopperStages
<1>11. CASE Teardown(s) /\ UNCHANGED invoker_vars
  BY <1>11, BackEndAssumption DEF Teardown, Advance, StopperStages
<1>12. CASE TeardownFails(s) /\ UNCHANGED invoker_vars
  BY <1>12, BackEndAssumption DEF TeardownFails, Advance, StopperStages
<1>13. CASE \E c \in Clients : SlotBegins(s, c)
  BY <1>13, BackEndAssumption DEF SlotBegins, LeaveBackEnd, DeleteCookies, ForgetClient
<1>14. CASE SlotReturns(s)
  BY <1>14, BackEndAssumption DEF SlotReturns, SlotCalled
<1> QED
  BY <1>1, <1>2, <1>3, <1>4, <1>5, <1>6, <1>7, <1>8, <1>9, <1>10, <1>11, <1>12, <1>13, <1>14 DEF Stopper, Shutdown

\* The pool's steps keep the types.
LEMMA WorkerShape ==
  ASSUME ShapeOK, JobTyped, NEW w \in Workers, Worker(w)
  PROVE  ShapeOK'
<1> USE DEF ShapeOK, gate_vars, client_vars, pool_vars, driver_vars, backend_vars, invoker_vars
<1>1. CASE \E c \in Clients : Runs(w, c)
  BY <1>1 DEF Runs, RunHandler, ThreadStages
<1>2. CASE DispatchReturns(w)
  BY <1>2 DEF DispatchReturns, EndARequest, DispatchCookies, JobTyped, ThreadStages
<1>3. CASE EndRpc(w) /\ UNCHANGED invoker_vars
  BY <1>3 DEF EndRpc, JobTyped, ThreadStages
<1>4. CASE FinishHandler(w) /\ UNCHANGED invoker_vars
  BY <1>4 DEF FinishHandler, ThreadStages
<1>5. CASE ExitThread(w) /\ UNCHANGED invoker_vars
  BY <1>5 DEF ExitThread, ThreadStages
<1>6. CASE NotifyOne(w)
  BY <1>6 DEF NotifyOne, HandlerTells, JobTyped, ThreadStages
<1> QED
  BY <1>1, <1>2, <1>3, <1>4, <1>5, <1>6 DEF Worker, Works

-----------------------------------------------------------------------------
(***************************************************************************)
(* The number of counted requests.                                         *)
(***************************************************************************)

\* Only finitely many requests are ever counted.
LEMMA CountedFinite ==
  /\ IsFiniteSet(CountedClients)
  /\ Cardinality(CountedClients) \in Nat
<1>1. CountedClients \subseteq Clients
  BY DEF CountedClients
<1>2. IsFiniteSet(CountedClients)
  BY <1>1, BackEndAssumption, FS_Subset
<1> QED
  BY <1>2, FS_CardinalityType

\* Admitting a request that was not counted keeps the counter exact.
LEMMA CountGrows ==
  ASSUME CountMatches, CountRpc, NEW c \in Clients, ~Counted(c),
         CountedClients' = CountedClients \cup {c}
  PROVE  CountMatches' /\ m_active_rpc_count' \in Nat
<1>1. c \notin CountedClients
  BY DEF CountedClients
<1>2. Cardinality(CountedClients \cup {c}) = Cardinality(CountedClients) + 1
  BY <1>1, CountedFinite, FS_AddElement
<1> QED
  BY <1>2, CountedFinite DEF CountMatches, CountRpc

\* Uncounting a counted request keeps the counter exact, and natural.
LEMMA CountShrinks ==
  ASSUME CountMatches, UncountRpc, NEW c \in Clients, Counted(c),
         CountedClients' = CountedClients \ {c}
  PROVE  CountMatches' /\ m_active_rpc_count' \in Nat
<1>1. c \in CountedClients
  BY DEF CountedClients
<1>2. /\ IsFiniteSet(CountedClients \ {c})
      /\ Cardinality(CountedClients \ {c}) = Cardinality(CountedClients) - 1
  BY <1>1, CountedFinite, FS_RemoveElement
<1>3. Cardinality(CountedClients \ {c}) \in Nat
  BY <1>2, FS_CardinalityType
<1> QED
  BY <1>2, <1>3, CountedFinite DEF CountMatches, UncountRpc

\* A step that moves no request leaves the whole invariant alone.
LEMMA NothingMoves ==
  ASSUME CountInv, ShapeOK', JobTyped',
         UNCHANGED <<m_active_rpc_count, posted, m_rpc_active>>,
         \A w \in Workers : thread'[w] = "dispatching" <=> thread[w] = "dispatching",
         \A w \in Workers, c \in Clients : Occupies(w, c)' <=> Occupies(w, c),
         \A c \in Clients : Checking(c)' <=> Checking(c),
         \A c \in Clients : pc'[c] = "locked" => pc[c] = "locked" \/ ~m_rpc_active[c]
  PROVE  CountInv'
<1>1. \A c \in Clients : InPool(c)' <=> InPool(c)
  BY DEF InPool, Occupies
<1>2. \A c \in Clients : Counted(c)' <=> Counted(c)
  BY <1>1 DEF Counted, Checking
<1>3. CountedClients' = CountedClients
  BY <1>2 DEF CountedClients
<1>4. CountMatches'
  BY <1>3 DEF CountInv, CountMatches
<1>5. OnePlace'
  BY DEF CountInv, OnePlace
<1>6. TypeOK'
  BY TypeParts, TypePartsNext DEF CountInv
<1> QED
  BY <1>4, <1>5, <1>6 DEF CountInv

-----------------------------------------------------------------------------
(***************************************************************************)
(* Every step keeps CountInv.                                              *)
(***************************************************************************)

\* start() finds no pool; pausing and resuming touch only the gate.
LEMMA OwnerCounts ==
  ASSUME CountInv, Owner
  PROVE  CountInv'
<1>1. ShapeOK'
  BY OwnerShape, TypeParts DEF CountInv
<1> USE DEF gate_vars, client_vars, pool_vars, driver_vars, invoker_vars
<1>2. CASE Start /\ UNCHANGED invoker_vars
  BY <1>1, <1>2, NothingMoves DEF Start, CountInv, JobTyped, Occupies, Checking
<1>3. CASE StartAccepting /\ UNCHANGED invoker_vars
  BY <1>1, <1>3, NothingMoves DEF StartAccepting, CountInv, JobTyped, Occupies, Checking
<1>4. CASE PauseRequests /\ UNCHANGED invoker_vars
  BY <1>1, <1>4, NothingMoves DEF PauseRequests, CountInv, JobTyped, Occupies, Checking
<1>5. CASE ResumeRequests /\ UNCHANGED invoker_vars
  BY <1>1, <1>5, NothingMoves DEF ResumeRequests, CountInv, JobTyped, Occupies, Checking
<1> QED
  BY <1>2, <1>3, <1>4, <1>5 DEF Owner

\* No step of a shutdown moves a request.
LEMMA StopperCounts ==
  ASSUME CountInv, NEW s \in Stoppers, Stopper(s)
  PROVE  CountInv'
<1>1. ShapeOK'
  BY StopperShape, TypeParts DEF CountInv
<1> USE DEF gate_vars, client_vars, pool_vars, driver_vars, invoker_vars
<1>2. UNCHANGED <<m_active_rpc_count, posted, m_rpc_active, thread, job, pc, owner>>
  <2>1. CASE Shutdown(s) /\ UNCHANGED invoker_vars
    BY <2>1 DEF Shutdown, CheckAndInitiateShutdown, ShutdownAlreadyInitiated,
       StopAccepting, PollRpcCount, DisconectManagers, ManagersNotified,
       ManagerCount, AssertNoClients, WorkReset, JoinAll, Teardown, TeardownFails
  <2>2. CASE \E c \in Clients : SlotBegins(s, c)
    BY <2>2 DEF SlotBegins
  <2>3. CASE SlotReturns(s)
    BY <2>3 DEF SlotReturns
  <2> QED
    BY <2>1, <2>2, <2>3 DEF Stopper
<1>3. JobTyped'
  BY <1>2 DEF CountInv, JobTyped
<1> QED
  BY <1>1, <1>2, <1>3, NothingMoves DEF Occupies, Checking

\* A client thread moves its request into the gate, on to the pool or out
\* again, and counts it as it goes.
LEMMA ClientCounts ==
  ASSUME CountInv, NEW c \in Clients, Client(c)
  PROVE  CountInv'
<1>1. ShapeOK /\ ShapeOK'
  BY ClientShape, TypeParts DEF CountInv
<1> USE DEF gate_vars, client_vars, pool_vars, driver_vars, backend_vars
<1>2. CASE Construct(c)
  <2>1. /\ ~Checking(c) /\ c \notin posted
        /\ \A w \in Workers : ~Occupies(w, c)
    BY <1>2 DEF Construct, Goes, Checking, Referenced, Occupies
  <2>2. /\ UNCHANGED <<m_active_rpc_count, posted, thread, job, owner>>
        /\ pc' = [pc EXCEPT ![c] = "constructing"] /\ pc[c] = "unborn"
        /\ m_rpc_active' = [d \in Clients |-> m_rpc_active[d] /\ d \notin {c}]
    BY <1>2 DEF Construct, Goes, RegisterInvokerManager
  <2>3. \A d \in Clients : Checking(d)' <=> Checking(d)
    BY <1>1, <2>2 DEF Checking, ShapeOK
  <2>4. CountedClients' = CountedClients
    BY <2>2, <2>3 DEF CountedClients, Counted, InPool, Checking
  <2>5. CountMatches' /\ TypeOK'
    BY <1>1, <2>2, <2>4, TypeParts, TypePartsNext DEF CountInv, CountMatches
  <2>6. OnePlace'
    BY <1>1, <2>1, <2>2, <2>3 DEF CountInv, OnePlace, Occupies, ShapeOK
  <2> QED
    BY <2>2, <2>5, <2>6 DEF CountInv, JobTyped
<1>3. CASE RequestAccepted(c)
  <2>1. /\ CountRpc
        /\ UNCHANGED <<posted, thread, job, owner>>
        /\ pc' = [pc EXCEPT ![c] = "started"] /\ pc[c] = "locked"
        /\ m_rpc_active' = [m_rpc_active EXCEPT ![c] = TRUE]
    BY <1>3 DEF RequestAccepted, Goes, StartARequest
  <2>2. /\ ~m_rpc_active[c] /\ ~Checking(c) /\ c \notin posted
        /\ \A w \in Workers : ~Occupies(w, c)
    BY <2>1 DEF CountInv, OnePlace, Checking
  <2>3. ~Counted(c)
    BY <2>2 DEF Counted, Checking, InPool, Occupies
  <2>4. \A d \in Clients : Counted(d)' <=> Counted(d) \/ d = c
    BY <1>1, <2>1 DEF Counted, InPool, ShapeOK
  <2>5. CountedClients' = CountedClients \cup {c}
    BY <2>4 DEF CountedClients
  <2>6. CountMatches' /\ TypeOK'
    BY <1>1, <2>1, <2>3, <2>5, CountGrows, TypePartsNext DEF CountInv
  <2>7. OnePlace'
    BY <1>1, <2>1, <2>2 DEF CountInv, OnePlace, Occupies, Checking, ShapeOK
  <2> QED
    BY <2>1, <2>6, <2>7 DEF CountInv, JobTyped
<1>4. CASE RequestPosted(c)
  <2>1. /\ posted' = posted \cup {c}
        /\ UNCHANGED <<m_active_rpc_count, m_rpc_active, thread, job, owner>>
        /\ pc' = [pc EXCEPT ![c] = "posted"] /\ pc[c] = "started"
    BY <1>4 DEF RequestPosted, Goes, Post
  <2>2. \A d \in Clients : Counted(d)' <=> Counted(d)
    BY <1>1, <2>1 DEF Counted, InPool, ShapeOK
  <2>3. CountedClients' = CountedClients
    BY <2>2 DEF CountedClients
  <2>4. CountMatches' /\ TypeOK'
    BY <1>1, <2>1, <2>3, TypeParts, TypePartsNext DEF CountInv, CountMatches
  <2>5. OnePlace'
    BY <1>1, <2>1 DEF CountInv, OnePlace, Occupies, Checking, ShapeOK
  <2> QED
    BY <2>1, <2>4, <2>5 DEF CountInv, JobTyped
<1>5. CASE RequestRejected(c)
  <2>1. /\ UncountRpc
        /\ UNCHANGED <<posted, thread, job, owner>>
        /\ pc' = [pc EXCEPT ![c] = "idle"] /\ pc[c] = "rejecting"
        /\ m_rpc_active' = [m_rpc_active EXCEPT ![c] = FALSE]
    BY <1>5 DEF RequestRejected, Goes, RejectRequest
  <2>2. /\ Checking(c) /\ c \notin posted
        /\ \A w \in Workers : ~Occupies(w, c)
    BY <2>1 DEF CountInv, OnePlace, Checking
  <2>3. Counted(c)
    BY <2>2 DEF Counted, Checking
  <2>4. \A d \in Clients : Counted(d)' <=> Counted(d) /\ d # c
    BY <1>1, <2>1, <2>2 DEF Counted, InPool, Occupies, ShapeOK
  <2>5. CountedClients' = CountedClients \ {c}
    BY <2>4 DEF CountedClients
  <2>6. CountMatches' /\ TypeOK'
    BY <1>1, <2>1, <2>3, <2>5, CountShrinks, TypePartsNext DEF CountInv
  <2>7. OnePlace'
    BY <1>1, <2>1, <2>2 DEF CountInv, OnePlace, Occupies, Checking, ShapeOK
  <2> QED
    BY <2>1, <2>6, <2>7 DEF CountInv, JobTyped
<1>6. CASE /\ UNCHANGED <<m_active_rpc_count, posted, m_rpc_active, thread, job, owner>>
           /\ \E to \in ClientStages \ {"started", "locked"} :
                 /\ pc' = [pc EXCEPT ![c] = to]
                 /\ to = "rejecting" <=> Checking(c)
  <2>1. \A d \in Clients : Checking(d)' <=> Checking(d)
    BY <1>1, <1>6 DEF Checking, ShapeOK
  <2>2. \A d \in Clients : pc'[d] = "locked" => pc[d] = "locked"
    BY <1>1, <1>6 DEF ShapeOK
  <2>3. JobTyped'
    BY <1>6 DEF CountInv, JobTyped
  <2> QED
    BY <1>1, <1>6, <2>1, <2>2, <2>3, NothingMoves DEF Occupies
<1>7. CASE InvokeLocks(c)
  <2>1. /\ UNCHANGED <<m_active_rpc_count, posted, m_rpc_active, thread, job, owner>>
        /\ pc' = [pc EXCEPT ![c] = "locked"] /\ pc[c] = "called" /\ ~m_rpc_active[c]
    BY <1>7 DEF InvokeLocks, Goes
  <2>2. \A d \in Clients : Checking(d)' <=> Checking(d)
    BY <1>1, <2>1 DEF Checking, ShapeOK
  <2>3. \A d \in Clients : pc'[d] = "locked" => pc[d] = "locked" \/ ~m_rpc_active[d]
    BY <1>1, <2>1 DEF ShapeOK
  <2>4. JobTyped'
    BY <2>1 DEF CountInv, JobTyped
  <2> QED
    BY <1>1, <2>1, <2>2, <2>3, <2>4, NothingMoves DEF Occupies
<1> QED
  BY <1>2, <1>3, <1>4, <1>5, <1>6, <1>7 DEF Client, Call, Goes, Checking, ClientStages,
     Constructed, Destroy, Reset, InvokeThrows, RequestRefused, RequestFailsCheck, WaitForNotification,
     Notified, SpuriousWake, DisconnectFromBackend, Unlink, SignalDisconnect

\* A pool thread takes a queued request over and uncounts it.
LEMMA WorkerCounts ==
  ASSUME CountInv, NEW w \in Workers, Worker(w)
  PROVE  CountInv'
<1>1. ShapeOK /\ ShapeOK'
  BY WorkerShape, TypeParts DEF CountInv
<1> USE DEF gate_vars, client_vars, pool_vars, driver_vars, invoker_vars
<1>2. ASSUME NEW c \in Clients, Runs(w, c) PROVE CountInv'
  <2>1. /\ UNCHANGED <<m_active_rpc_count, m_rpc_active, pc, owner>>
        /\ c \in posted /\ posted' = posted \ {c}
        /\ thread[w] = "idle" /\ thread' = [thread EXCEPT ![w] = "dispatching"]
        /\ job' = [job EXCEPT ![w] = c]
    BY <1>2 DEF Runs, RunHandler
  <2>2. ~Checking(c) /\ \A v \in Workers : ~Occupies(v, c)
    BY <2>1 DEF CountInv, OnePlace
  <2>3. \A d \in Clients : Counted(d)' <=> Counted(d)
    BY <1>1, <2>1 DEF Counted, InPool, ShapeOK
  <2>4. CountedClients' = CountedClients
    BY <2>3 DEF CountedClients
  <2>5. CountMatches' /\ TypeOK'
    BY <1>1, <2>1, <2>4, TypeParts, TypePartsNext DEF CountInv, CountMatches
  <2>6. \A v \in Workers, d \in Clients :
          Occupies(v, d)' <=> Occupies(v, d) \/ (v = w /\ d = c)
    BY <1>1, <2>1 DEF Occupies, ShapeOK
  <2>7. OnePlace'
    BY <2>1, <2>2, <2>6 DEF CountInv, OnePlace, Checking
  <2>8. JobTyped'
    BY <1>1, <2>1 DEF CountInv, JobTyped, ShapeOK
  <2> QED
    BY <2>5, <2>7, <2>8 DEF CountInv
<1>3. CASE DispatchReturns(w)
  <2> DEFINE c == job[w]
  <2>1. /\ UncountRpc
        /\ UNCHANGED <<m_rpc_active, pc, owner, posted, job>>
        /\ thread[w] = "dispatching" /\ thread' = [thread EXCEPT ![w] = "ended"]
    BY <1>3 DEF DispatchReturns, EndARequest
  <2>2. c \in Clients /\ Occupies(w, c)
    BY <2>1 DEF CountInv, JobTyped, Occupies
  <2>3. ~Checking(c) /\ c \notin posted
    BY <2>2 DEF CountInv, OnePlace
  <2>4. Counted(c)
    BY <2>1 DEF Counted, InPool
  <2>5. \A v \in Workers : Occupies(v, c) => v = w
    BY <2>2 DEF CountInv, OnePlace
  <2>6. \A d \in Clients : Counted(d)' <=> Counted(d) /\ d # c
    BY <1>1, <2>1, <2>3, <2>5 DEF Counted, InPool, Occupies, Checking, ShapeOK
  <2>7. CountedClients' = CountedClients \ {c}
    BY <2>6 DEF CountedClients
  <2>8. CountMatches' /\ TypeOK'
    BY <1>1, <2>1, <2>2, <2>4, <2>7, CountShrinks, TypePartsNext DEF CountInv
  <2>9. \A v \in Workers, d \in Clients : Occupies(v, d)' <=> Occupies(v, d)
    BY <1>1, <2>1 DEF Occupies, ShapeOK
  <2>10. OnePlace'
    BY <2>1, <2>9 DEF CountInv, OnePlace, Checking
  <2>11. JobTyped'
    BY <1>1, <2>1 DEF CountInv, JobTyped, ShapeOK
  <2> QED
    BY <2>8, <2>10, <2>11 DEF CountInv
<1>4. CASE EndRpc(w) /\ UNCHANGED invoker_vars
  <2> DEFINE c == job[w]
  <2>1. /\ m_rpc_active' = [m_rpc_active EXCEPT ![c] = FALSE]
        /\ UNCHANGED <<m_active_rpc_count, pc, owner, posted, job>>
        /\ thread[w] = "ended" /\ thread' = [thread EXCEPT ![w] = "cleared"]
    BY <1>4 DEF EndRpc
  <2>2. c \in Clients /\ Occupies(w, c)
    BY <2>1 DEF CountInv, JobTyped, Occupies
  <2>3. /\ ~Checking(c) /\ c \notin posted
        /\ \A v \in Workers : Occupies(v, c) => v = w
    BY <2>2 DEF CountInv, OnePlace
  <2>4. \A d \in Clients : Counted(d)' <=> Counted(d)
    BY <1>1, <2>1 DEF Counted, InPool, ShapeOK
  <2>5. CountedClients' = CountedClients
    BY <2>4 DEF CountedClients
  <2>6. CountMatches' /\ TypeOK'
    BY <1>1, <2>1, <2>5, TypeParts, TypePartsNext DEF CountInv, CountMatches
  <2>7. \A v \in Workers, d \in Clients :
          Occupies(v, d)' <=> Occupies(v, d) /\ v # w
    BY <1>1, <2>1 DEF Occupies, ShapeOK
  <2>8. \A d \in Clients : m_rpc_active'[d] = (m_rpc_active[d] /\ d # c)
    BY <1>1, <2>1, <2>2 DEF ShapeOK
  <2>9. OnePlace'
    BY <2>1, <2>2, <2>3, <2>7, <2>8 DEF CountInv, OnePlace, Checking
  <2>10. JobTyped'
    BY <1>1, <2>1 DEF CountInv, JobTyped, ShapeOK
  <2> QED
    BY <2>6, <2>9, <2>10 DEF CountInv
<1>5. CASE \/ FinishHandler(w) /\ UNCHANGED invoker_vars
           \/ ExitThread(w) /\ UNCHANGED invoker_vars
           \/ NotifyOne(w)
  <2>1. /\ UNCHANGED <<m_active_rpc_count, m_rpc_active, pc, owner, posted>>
        /\ thread[w] \in {"idle", "cleared", "finishing"}
        /\ \E to \in {"finishing", "idle", "exited"} :
             /\ thread' = [thread EXCEPT ![w] = to]
             /\ to = "finishing" => job' = job /\ thread[w] = "cleared"
        /\ \A v \in Workers \ {w} : job'[v] = job[v]
    BY <1>1, <1>5 DEF FinishHandler, ExitThread, NotifyOne, HandlerTells, ShapeOK
  <2>2. \A v \in Workers, d \in Clients : Occupies(v, d)' <=> Occupies(v, d)
    BY <1>1, <2>1 DEF Occupies, ShapeOK
  <2>3. \A v \in Workers : thread'[v] = "dispatching" <=> thread[v] = "dispatching"
    BY <1>1, <2>1 DEF ShapeOK
  <2>4. JobTyped'
    BY <1>1, <2>1 DEF CountInv, JobTyped, ShapeOK
  <2> QED
    BY <1>1, <2>1, <2>2, <2>3, <2>4, NothingMoves DEF Checking
<1> QED
  BY <1>2, <1>3, <1>4, <1>5 DEF Worker, Works

\* Every step keeps CountInv.
LEMMA NextCounts ==
  ASSUME CountInv, [Next]_vars
  PROVE  CountInv'
<1>1. CASE Next
  BY <1>1, OwnerCounts, ClientCounts, StopperCounts, WorkerCounts DEF Next
<1>2. CASE UNCHANGED vars
  <2>1. UNCHANGED <<backend_vars, invoker_vars>>
    BY <1>2 DEF vars
  <2>2. ShapeOK'
    BY <2>1, TypeParts DEF CountInv, ShapeOK, backend_vars, gate_vars, client_vars,
       pool_vars, driver_vars, invoker_vars
  <2>3. UNCHANGED <<m_active_rpc_count, posted, m_rpc_active, thread, job, pc, owner>>
    BY <2>1 DEF backend_vars, gate_vars, client_vars, pool_vars, driver_vars, invoker_vars
  <2> QED
    BY <2>2, <2>3, NothingMoves DEF CountInv, JobTyped, Occupies, Checking
<1> QED
  BY <1>1, <1>2

\* Initially nothing is counted.
LEMMA InitCounts == Init => CountInv
<1> SUFFICES ASSUME Init PROVE CountInv
  OBVIOUS
<1> USE DEF Init, BackEndInit
<1>1. TypeOK
  <2>1. torn \in 0..NumServices
    BY BackEndAssumption
  <2>2. /\ m_rpc_active \in [Clients -> BOOLEAN]
        /\ m_connected \in [Clients -> BOOLEAN]
        /\ ready \in [Clients -> BOOLEAN]
    OBVIOUS
  <2>3. /\ thread \in [Workers -> ThreadStages]
        /\ job \in [Workers -> Clients \cup {Nobody}]
        /\ sd \in [Stoppers -> StopperStages]
        /\ pc \in [Clients -> ClientStages]
    BY DEF ThreadStages, StopperStages, ClientStages
  <2> QED
    BY <2>1, <2>2, <2>3 DEF TypeOK, BackEndTypeOK, ShutdownStates
<1>2. CountedClients = {}
  BY DEF CountedClients, Counted, InPool
<1>3. CountMatches
  BY <1>2, FS_EmptySet DEF CountMatches
<1>4. JobTyped /\ OnePlace
  BY DEF JobTyped, OnePlace, Checking, Occupies
<1> QED
  BY <1>1, <1>3, <1>4 DEF CountInv

\* CountInv is an invariant.
LEMMA CountInvariant == Spec => []CountInv
BY InitCounts, NextCounts, PTL DEF Spec

\* Every variable of the back end and of its in-process clients keeps its type;
\* in particular m_active_rpc_count never becomes negative, whichever threads
\* start and end requests.
THEOREM TypeCorrect == Spec => []TypeOK
<1>1. CountInv => TypeOK
  BY DEF CountInv
<1> QED
  BY <1>1, CountInvariant, PTL

\* m_active_rpc_count is exactly the number of requests between start_a_request
\* and end_a_request, for any number of clients, pool threads and shutdown
\* callers.
THEOREM CountExact == Spec => []CountMatches
<1>1. CountInv => CountMatches
  BY DEF CountInv
<1> QED
  BY <1>1, CountInvariant, PTL
=============================================================================
