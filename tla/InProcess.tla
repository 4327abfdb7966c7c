----------------------------- MODULE InProcess -----------------------------
(***************************************************************************)
(* In-process clients of the back end: each client thread owns one         *)
(* InProcessInvoker, which is its own invoker manager, and calls through   *)
(* it the way the generated client stubs do (reset(), then invoke()).      *)
(*                                                                         *)
(* InProcessInvoker::m_mutex is held by the client thread in the stages of *)
(* HoldsInvoker and by a stopper whose slot call is running (inslot).      *)
(***************************************************************************)
EXTENDS BackEnd

CONSTANTS
  SpuriousWakeups,  \* whether condition_variable::wait may wake early
  Shared            \* clients whose ClientData somebody else holds as well

ASSUME InProcessAssumption ==
  /\ Managers = Clients
  /\ SpuriousWakeups \in BOOLEAN
  /\ Shared \subseteq Clients

VARIABLES
  pc,           \* where the client's thread is
  m_connected,  \* InProcessInvoker::m_connected
  ready,        \* NotificationObject::ready
  inslot        \* the invoker whose disconnect_from_backend slot is running

invoker_vars == <<pc, m_connected, ready, inslot>>

vars == <<backend_vars, invoker_vars>>

ClientStages ==
  {"unborn", "constructing", "idle", "called", "locked", "started", "rejecting",
   "posted", "blocked", "unlinking"}

HoldsInvoker ==
  {"locked", "started", "rejecting", "posted", "blocked", "unlinking"}

TypeOK ==
  /\ BackEndTypeOK
  /\ pc \in [Clients -> ClientStages]
  /\ m_connected \in [Clients -> BOOLEAN]
  /\ ready \in [Clients -> BOOLEAN]
  /\ inslot \in Clients \cup {Nobody}

Init ==
  /\ BackEndInit
  /\ pc = [c \in Clients |-> "unborn"]
  /\ m_connected = [c \in Clients |-> FALSE]
  /\ ready = [c \in Clients |-> FALSE]
  /\ inslot = Nobody

Goes(c, from, to) ==
  /\ pc[c] = from
  /\ pc' = [pc EXCEPT ![c] = to]

-----------------------------------------------------------------------------
\* The client's thread.

\* The constructor: register_invoker_manager calls back connect_to_backend.  A
\* handler or a slot that still refers to a destroyed invoker has no defined
\* effect; the model does not reuse the invoker's identity while there is one.
Construct(c) ==
  /\ May("register")
  /\ ~Referenced(c)
  /\ ~m_connected[c]
  /\ Goes(c, "unborn", "constructing")
  /\ RegisterInvokerManager(c, {c})
  /\ m_connected' = [m_connected EXCEPT ![c] = TRUE]
  /\ ready' = [ready EXCEPT ![c] = FALSE]
  /\ UNCHANGED inslot

\* ... and, when it has released the mutex, the constructor sets m_sig_connection.
Constructed(c) ==
  /\ Goes(c, "constructing", "idle")
  /\ UNCHANGED <<backend_vars, m_connected, ready, inslot>>

Unique(c) == c \notin Shared

\* The destructor of an invoker that is not connected, or whose ClientData is
\* shared: it leaves the slot and the client where they are.  That of any other
\* runs DisconnectFromBackend and Unlink first.
Destroy(c) ==
  /\ May("destroy")
  /\ Unique(c) => ~m_connected[c]
  /\ Goes(c, "idle", "unborn")
  /\ UNCHANGED <<backend_vars, m_connected, ready, inslot>>

NotificationKept(c) == UNCHANGED ready
NotificationReset(c) == ready' = [ready EXCEPT ![c] = FALSE]

\* reset(), before every call of a stub.
Reset(c) ==
  /\ May("invoke")
  /\ Goes(c, "idle", "called")
  /\ NotificationReset(c)
  /\ UNCHANGED <<backend_vars, m_connected, inslot>>

\* invoke() locks the invoker.  reset()'s assertion has stopped the program if
\* an rpc was active.
InvokeLocks(c) ==
  /\ ~m_rpc_active[c]
  /\ inslot # c
  /\ m_connected[c]
  /\ Goes(c, "called", "locked")
  /\ UNCHANGED <<backend_vars, m_connected, ready, inslot>>

\* invoke() on a disconnected invoker throws InvokerException.
InvokeThrows(c) ==
  /\ ~m_rpc_active[c]
  /\ inslot # c
  /\ ~m_connected[c]
  /\ Goes(c, "called", "idle")
  /\ UNCHANGED <<backend_vars, m_connected, ready, inslot>>

RequestAccepted(c) ==
  /\ Goes(c, "locked", "started")
  /\ StartARequest(c)
  /\ UNCHANGED <<m_connected, ready, inslot>>

\* RBL_BACKEND_NOT_ACCEPTING_REQUESTS
RequestRefused(c) ==
  /\ MutexFree
  /\ ~GateOpen
  /\ Goes(c, "locked", "idle")
  /\ UNCHANGED <<backend_vars, m_connected, ready, inslot>>

\* The checks of BackEnd::invoke, whose outcome depends on the request; the
\* module Sessions models them one by one.
RequestFailsCheck(c) ==
  /\ Goes(c, "started", "rejecting")
  /\ TouchCookie(c)
  /\ UNCHANGED <<gate_vars, m_connected_clients, m_rpc_active, pool_vars,
                 driver_vars, m_connected, ready, inslot>>

RequestPosted(c) ==
  /\ Goes(c, "started", "posted")
  /\ TouchCookie(c)
  /\ Post(c)
  /\ UNCHANGED <<gate_vars, m_connected_clients, m_rpc_active, thread, job,
                 m_work, m_stopped, driver_vars, m_connected, ready, inslot>>

RequestRejected(c) ==
  /\ Goes(c, "rejecting", "idle")
  /\ RejectRequest(c)
  /\ UNCHANGED <<m_connected, ready, inslot>>

NoWait(c) ==
  /\ Goes(c, "posted", "idle")
  /\ UNCHANGED <<backend_vars, m_connected, ready, inslot>>

\* wait_for_notification: return if already notified, else cond.wait ...
WaitForNotification(c) ==
  /\ Goes(c, "posted", IF ready[c] THEN "idle" ELSE "blocked")
  /\ UNCHANGED <<backend_vars, m_connected, ready, inslot>>

\* ... which returns when notified ...
Notified(c) ==
  /\ ready[c]
  /\ Goes(c, "blocked", "idle")
  /\ UNCHANGED <<backend_vars, m_connected, ready, inslot>>

\* ... or for no reason; the code does not test ready again.
SpuriousWake(c) ==
  /\ SpuriousWakeups
  /\ ~ready[c]
  /\ Goes(c, "blocked", "idle")
  /\ UNCHANGED <<backend_vars, m_connected, ready, inslot>>

\* What disconnect_from_backend does to a connected invoker.
LeaveBackEnd(c) ==
  /\ DeleteCookies(c)
  /\ ForgetClient(c)
  /\ m_connected' = [m_connected EXCEPT ![c] = FALSE]

\* The client's own disconnect_from_backend: under the invoker's mutex it leaves
\* the back end ...
DisconnectFromBackend(c) ==
  /\ May("disconnect")
  /\ owner # "sealed"
  /\ inslot # c
  /\ m_connected[c]
  /\ Goes(c, "idle", "unlinking")
  /\ LeaveBackEnd(c)
  /\ UNCHANGED <<gate_vars, m_rpc_active, pool_vars, driver_vars, ready, inslot>>

\* ... then, still holding it, disconnects its slot under the back end's mutex.
Unlink(c) ==
  /\ Goes(c, "unlinking", "idle")
  /\ SignalDisconnect(c)
  /\ UNCHANGED <<client_vars, pool_vars, driver_vars, m_connected, ready, inslot>>

-----------------------------------------------------------------------------
\* The slot, called by a stopper that holds the back end's mutex: it locks the
\* invoker and leaves the back end ...
SlotLocks(c) == pc[c] \notin HoldsInvoker

SlotBegins(s, c) ==
  /\ sd[s] = "notifying"
  /\ c \in pending
  /\ inslot = Nobody
  /\ SlotLocks(c)
  /\ inslot' = c
  /\ IF m_connected[c] THEN LeaveBackEnd(c)
                       ELSE UNCHANGED <<cookies, m_connected_clients, m_connected>>
  /\ UNCHANGED <<gate_vars, m_rpc_active, pool_vars, driver_vars, pc, ready>>

\* ... then disconnects itself and returns.  A slot that gets here before the
\* constructor has set m_sig_connection dereferences a null pointer, unless the
\* constructor is just in time; if not, the behaviour ends here (NullSlot).
SlotReturns(s) ==
  /\ inslot # Nobody
  /\ pc[inslot] # "constructing"
  /\ SlotCalled(s, inslot)
  /\ inslot' = Nobody
  /\ UNCHANGED <<m_accepting_requests, m_active_rpc_count, m_shutdown_state,
                 client_vars, pool_vars, owner, sd, torn, pc, m_connected, ready>>

NotifyNobody(w) ==
  /\ HandlerTells(w)
  /\ UNCHANGED invoker_vars

\* InProcessInvoker::operator() ends with notify_one.
NotifyOne(w) ==
  /\ HandlerTells(w)
  /\ ready' = [ready EXCEPT ![job[w]] = TRUE]
  /\ UNCHANGED <<pc, m_connected, inslot>>

-----------------------------------------------------------------------------
Owner ==
  /\ Start \/ StartAccepting \/ PauseRequests \/ ResumeRequests
  /\ UNCHANGED invoker_vars

\* A call under way goes on by itself.
Call(c) ==
  \/ Constructed(c)
  \/ InvokeLocks(c) \/ InvokeThrows(c)
  \/ RequestAccepted(c) \/ RequestRefused(c)
  \/ RequestFailsCheck(c) \/ RequestPosted(c) \/ RequestRejected(c)
  \/ WaitForNotification(c) \/ Notified(c)
  \/ Unlink(c)

Client(c) ==
  \/ Construct(c) \/ Destroy(c)
  \/ Reset(c) \/ DisconnectFromBackend(c)
  \/ SpuriousWake(c)
  \/ Call(c)

Stopper(s) ==
  \/ Shutdown(s) /\ UNCHANGED invoker_vars
  \/ \E c \in Clients : SlotBegins(s, c)
  \/ SlotReturns(s)

Runs(w, c) == RunHandler(w, c) /\ UNCHANGED invoker_vars

DispatchReturns(w) ==
  /\ EndARequest(w)
  /\ DispatchCookies(job[w])
  /\ UNCHANGED invoker_vars

Works(w) ==
  \/ DispatchReturns(w)
  \/ (EndRpc(w) \/ FinishHandler(w) \/ ExitThread(w)) /\ UNCHANGED invoker_vars
  \/ NotifyOne(w)

Worker(w) ==
  \/ \E c \in Clients : Runs(w, c)
  \/ Works(w)

Next ==
  \/ Owner
  \/ \E c \in Clients : Client(c)
  \/ \E s \in Stoppers : Stopper(s)
  \/ \E w \in Workers : Worker(w)

Spec == Init /\ [][Next]_vars

(***************************************************************************)
(* Fairness: threads are scheduled, locks are handed over, a service's     *)
(* method returns, and the io_service runs handlers in the order they were *)
(* posted, so no handler waits for ever while handlers run.  Nobody is     *)
(* obliged to call anything: start, a new request, a disconnect and a      *)
(* shutdown have no fairness, a shutdown that has begun has.               *)
(***************************************************************************)
Fairness ==
  /\ \A c \in Clients :
       /\ WF_vars(Call(c))
       /\ SF_vars(\E w \in Workers : Runs(w, c))
  /\ \A w \in Workers : WF_vars(Works(w))
  /\ \A s \in Stoppers : WF_vars(sd[s] # "out" /\ Stopper(s))

FairSpec == Spec /\ Fairness

-----------------------------------------------------------------------------
\* A request that start_a_request has counted and nothing has uncounted.
Counted(c) == pc[c] \in {"started", "rejecting"} \/ InPool(c)

CountedClients == {c \in Clients : Counted(c)}

\* m_active_rpc_count is the number of requests between start_a_request and
\* end_a_request: whatever the order in which client threads and pool threads
\* enter and leave the gate, none is counted twice or left counted, so
\* shutdown_step's rpc_count() == 0 means what it says.
CountMatches == m_active_rpc_count = Cardinality(CountedClients)

\* While an rpc is checked, queued or dispatched its client is connected, the
\* services it may be using are registered and the pool is running: shutdown
\* never disconnects the client, deletes its cookies, tears a service down or
\* stops the io_service under a running rpc (operator() dereferences service
\* and client_cookie, BackEnd::invoke dereferences the service).
DispatchSafe ==
  \A c \in Clients : Counted(c) =>
    /\ c \in m_connected_clients
    /\ torn = 0
    /\ ~m_stopped

\* Nothing runs on an invoker that its owner has destroyed: neither a handler
\* of the pool, which holds the invoker by reference (boost::ref), nor the
\* slot of the shutdown.
InvokerOutlivesCallbacks ==
  \A c \in Clients : pc[c] = "unborn" => ~Referenced(c) /\ inslot # c

\* The assertions on ClientData::m_rpc_active: reset() and start_rpc() find it
\* clear, end_rpc() finds it set.
RpcFlagAssertions ==
  /\ \A c \in Clients : pc[c] \in {"called", "locked"} => ~m_rpc_active[c]
  /\ \A c \in Clients : pc[c] = "rejecting" => m_rpc_active[c]
  /\ \A w \in Workers : thread[w] \in {"dispatching", "ended"} => m_rpc_active[job[w]]

\* The assertion of shutdown_step: when the last manager has gone no client is
\* connected.
ClientsManaged ==
  \A s \in Stoppers : sd[s] = "asserting" => m_connected_clients = {}

\* A client that is not connected has left no cookie with a user service: a new
\* invoker whose ClientData is allocated at the same address starts without
\* the subscriptions of the old one.
NoCookieLeftBehind == cookies \subseteq m_connected_clients

\* Only one thread at a time drives a shutdown, so no service is torn down
\* twice and no thread is joined twice.
OneDriver ==
  \A s, t \in Stoppers :
    sd[s] \notin {"out", "returned"} /\ sd[t] \notin {"out", "returned"} => s = t

\* Services are torn down only when every manager has been disconnected, as the
\* state WAITING_ON_MANAGER_DISCONECTIONS and its message say.
TeardownAfterManagers ==
  \A s \in Stoppers : sd[s] = "tearing" => slots = {}

-----------------------------------------------------------------------------
\* The abstract gate this system implements: the phase is read off the shutdown
\* state and the stopper's progress, the requests in flight are the counted ones.
GatePhase ==
  IF \E s \in Stoppers : sd[s] \in {"tearing", "done", "threw"} THEN "closed"
  ELSE IF m_shutdown_state = "WAITING_MANAGERS" THEN "drained"
  ELSE IF m_shutdown_state = "ACTIVE" THEN "serving"
  ELSE "draining"

Gate == INSTANCE RpcGate WITH
  Requesters <- Clients,
  open       <- m_accepting_requests,
  inflight   <- CountedClients,
  phase      <- GatePhase

\* Every step of client threads, pool threads and stoppers is a step of the
\* abstract gate or leaves it alone: requests are admitted one by one while it
\* is open, and a shutdown passes its drain only when nothing is in flight and
\* nothing can be admitted any more.
ImplementsGate == Gate!GateSpec

-----------------------------------------------------------------------------
\* A stopper inside disconect_managers and a client, each holding the mutex the
\* other waits for: the client has locked its invoker and goes on to
\* start_a_request, or to disconnecting its slot.
LockCycle ==
  \E s \in Stoppers : \E c \in pending :
    sd[s] = "notifying" /\ pc[c] \in {"locked", "unlinking"}

\* A slot call runs on an invoker whose constructor has not set m_sig_connection
\* yet: the program may end here.
NullSlot == inslot # Nobody /\ pc[inslot] = "constructing"

Stuck == LockCycle \/ NullSlot

\* A shutdown that has begun comes to an end, or meets the lock cycle or an
\* invoker under construction: nothing else (a lost notification, a request
\* counted for ever, a pool thread that does not return) keeps it waiting.
ShutdownEndsOrCycles ==
  \A s \in Stoppers :
    sd[s] = "initiated" ~> (sd[s] \in {"done", "threw"} \/ Stuck)

\* Every call through an invoker returns to its caller (with a response, an
\* error code or an exception), or meets one of these two.
CallsReturn ==
  \A c \in Clients : pc[c] = "called" ~> (pc[c] = "idle" \/ Stuck)

\* A shutdown that has begun comes to an end.
ShutdownEnds ==
  \A s \in Stoppers : sd[s] = "initiated" ~> sd[s] \in {"done", "threw"}
=============================================================================
