------------------------------ MODULE BackEnd ------------------------------
(***************************************************************************)
(* The rpc back end: the synchronised request gate                         *)
(* (SynchronisedBackEndState), the io_service thread pool that runs posted *)
(* invokers, the set of connected clients with their cookies, and the      *)
(* shutdown driver (BackEnd::shutdown / shutdown_step).                    *)
(*                                                                         *)
(* The module gives the back end's own steps and the operations it offers  *)
(* to invoker managers; a module that models a manager (InProcess) EXTENDS *)
(* it, decides when the operations are called, and adds the manager's      *)
(* state.  Every critical section of m_mutex is one step, except the one   *)
(* of disconect_managers, which calls out to the managers while it holds   *)
(* the mutex: the mutex is held exactly while a stopper is "notifying".    *)
(*                                                                         *)
(* A definition that stands just before another one and breaks a rule of   *)
(* it (RequestNotCounted, GateLeftOpen, SlotKept...) is a mutant: no       *)
(* specification uses it, it shows that the properties can fail.           *)
(***************************************************************************)
EXTENDS Integers, FiniteSets

CONSTANTS
  Clients,      \* ClientData objects, one per invoker
  Managers,     \* objects with a disconnect_from_backend slot
  Workers,      \* threads of m_thread_group (m_pool_size of them)
  Stoppers,     \* threads that call BackEnd::shutdown
  NumServices,  \* m_services.occupied_size(), the basic protocol included
  LateOps,      \* operations callers may still begin after shutdown has begun
  Nobody        \* a worker with no handler

ASSUME BackEndAssumption ==
  /\ IsFiniteSet(Clients)
  /\ NumServices \in Nat \ {0}
  /\ LateOps \subseteq {"start", "register", "invoke", "disconnect", "resume", "destroy"}
  /\ Nobody \notin Clients

VARIABLES
  m_accepting_requests, m_active_rpc_count, m_shutdown_state, slots,
  m_connected_clients, cookies, m_rpc_active,
  posted, thread, job, m_work, m_stopped,
  owner, sd, pending, torn

\* SynchronisedBackEndState; slots are the managers connected to
\* f_disc_invoker_sig.
gate_vars == <<m_accepting_requests, m_active_rpc_count, m_shutdown_state, slots>>

\* Per client: membership of m_connected_clients, whether it has a cookie with
\* some user service (ordinal >= 1), and ClientData::m_rpc_active.
client_vars == <<m_connected_clients, cookies, m_rpc_active>>

\* m_io_service: posted handlers, the pool threads and what each one runs, the
\* work object that keeps run() from returning, and stopped().
pool_vars == <<posted, thread, job, m_work, m_stopped>>

\* Progress of start() and of shutdown(): the slots the running
\* disconect_managers still has to call, and the number of services torn down.
driver_vars == <<owner, sd, pending, torn>>

backend_vars == <<gate_vars, client_vars, pool_vars, driver_vars>>

ShutdownStates == {"ACTIVE", "INITIATED", "WAITING_RPC", "WAITING_MANAGERS"}

ThreadStages ==
  {"none", "idle", "dispatching", "ended", "cleared", "finishing", "exited"}

StopperStages ==
  {"out", "initiated", "draining", "drained", "notifying", "counting",
   "asserting", "releasing", "joining", "tearing", "done", "threw", "returned"}

BackEndTypeOK ==
  /\ m_accepting_requests \in BOOLEAN
  /\ m_active_rpc_count \in Nat
  /\ m_shutdown_state \in ShutdownStates
  /\ slots \subseteq Managers
  /\ m_connected_clients \subseteq Clients
  /\ cookies \subseteq Clients
  /\ m_rpc_active \in [Clients -> BOOLEAN]
  /\ posted \subseteq Clients
  /\ thread \in [Workers -> ThreadStages]
  /\ job \in [Workers -> Clients \cup {Nobody}]
  /\ m_work \in BOOLEAN
  /\ m_stopped \in BOOLEAN
  /\ owner \in {"new", "sealed", "up"}
  /\ sd \in [Stoppers -> StopperStages]
  /\ pending \subseteq Managers
  /\ torn \in 0..NumServices

BackEndInit ==
  /\ m_accepting_requests = FALSE
  /\ m_active_rpc_count = 0
  /\ m_shutdown_state = "ACTIVE"
  /\ slots = {}
  /\ m_connected_clients = {}
  /\ cookies = {}
  /\ m_rpc_active = [c \in Clients |-> FALSE]
  /\ posted = {}
  /\ thread = [w \in Workers |-> "none"]
  /\ job = [w \in Workers |-> Nobody]
  /\ m_work = TRUE
  /\ m_stopped = FALSE
  /\ owner = "new"
  /\ sd = [s \in Stoppers |-> "out"]
  /\ pending = {}
  /\ torn = 0

\* Whether callers begin the operation now: what they do once a shutdown has
\* been initiated is a parameter, before that they may do anything.
May(op) == m_shutdown_state = "ACTIVE" \/ op \in LateOps

m_is_sealed == owner # "new"

MutexFree == \A s \in Stoppers : sd[s] # "notifying"

-----------------------------------------------------------------------------
\* Building blocks of the critical sections, each one assignment of the code.

\* The first test of BackEnd::invoke, SynchronisedBackEndState::start_a_request.
GateOpen == m_accepting_requests

RequestNotCounted == UNCHANGED m_active_rpc_count
CountRpc == m_active_rpc_count' = m_active_rpc_count + 1

UncountRpc == m_active_rpc_count' = m_active_rpc_count - 1

\* shutdown_step's test for going on to disconect_managers.
RpcsDrained == m_active_rpc_count = 0

\* check_and_initiate_shutdown's test.
AlwaysInitiates == TRUE
InitiatesShutdown == m_shutdown_state = "ACTIVE"

\* The gate as shutdown_step leaves it.
GateLeftOpen == m_accepting_requests' = m_accepting_requests
CloseGate == m_accepting_requests' = FALSE

\* BackEnd::disconnect deletes the cookies of the user services (1..) while the
\* back end is sealed and its io_service has not stopped.
KeepCookies(c) == cookies' = cookies
DeleteCookies(c) ==
  cookies' = IF m_is_sealed /\ ~m_stopped THEN cookies \ {c} ELSE cookies

RememberClient(c) == UNCHANGED m_connected_clients
ForgetClient(c) == m_connected_clients' = m_connected_clients \ {c}

\* io_service counts the work object, queued handlers and running ones.
IdleThread(w) == thread[w] \in {"none", "idle", "exited"}

QuietWithout(w) ==
  /\ posted = {}
  /\ \A v \in Workers \ {w} : IdleThread(v)

-----------------------------------------------------------------------------
\* The owner's calls.

\* start(): seals the services, activates the cookie map of each one and
\* creates the pool.  A second start() throws and changes nothing.
Start ==
  /\ owner = "new"
  /\ May("start")
  /\ owner' = "sealed"
  /\ thread' = [w \in Workers |-> "idle"]
  /\ UNCHANGED <<gate_vars, client_vars, posted, job, m_work, m_stopped, sd, pending, torn>>

\* ... and begin_accepting_requests.
StartAccepting ==
  /\ owner = "sealed"
  /\ MutexFree
  /\ owner' = "up"
  /\ m_accepting_requests' = TRUE
  /\ UNCHANGED <<m_active_rpc_count, m_shutdown_state, slots,
                 client_vars, pool_vars, sd, pending, torn>>

PauseRequests ==
  /\ owner = "up"
  /\ MutexFree
  /\ m_accepting_requests
  /\ m_accepting_requests' = FALSE
  /\ UNCHANGED <<m_active_rpc_count, m_shutdown_state, slots,
                 client_vars, pool_vars, driver_vars>>

ResumeRequests ==
  /\ owner = "up"
  /\ May("resume")
  /\ MutexFree
  /\ ~m_accepting_requests
  /\ m_accepting_requests' = TRUE
  /\ UNCHANGED <<m_active_rpc_count, m_shutdown_state, slots,
                 client_vars, pool_vars, driver_vars>>

-----------------------------------------------------------------------------
\* shutdown() and shutdown_step(), run by a stopper s.

Advance(s, from, to) ==
  /\ sd[s] = from
  /\ sd' = [sd EXCEPT ![s] = to]

\* Only the caller that finds BACKEND_ACTIVE drives the shutdown; any other
\* caller's shutdown() returns at once.
CheckAndInitiateShutdown(s) ==
  /\ MutexFree
  /\ InitiatesShutdown
  /\ owner = "sealed" => "start" \in LateOps
  /\ Advance(s, "out", "initiated")
  /\ m_shutdown_state' = "INITIATED"
  /\ UNCHANGED <<m_accepting_requests, m_active_rpc_count, slots,
                 client_vars, pool_vars, owner, pending, torn>>

ShutdownAlreadyInitiated(s) ==
  /\ MutexFree
  /\ ~InitiatesShutdown
  /\ Advance(s, "out", "returned")
  /\ UNCHANGED <<gate_vars, client_vars, pool_vars, owner, pending, torn>>

StopAccepting(s) ==
  /\ MutexFree
  /\ Advance(s, "initiated", "draining")
  /\ CloseGate
  /\ m_shutdown_state' = "WAITING_RPC"
  /\ UNCHANGED <<m_active_rpc_count, slots, client_vars, pool_vars,
                 owner, pending, torn>>

\* The rpc_count() poll that succeeds; one that does not sleeps and polls again.
PollRpcCount(s) ==
  /\ MutexFree
  /\ RpcsDrained
  /\ Advance(s, "draining", "drained")
  /\ m_shutdown_state' = "WAITING_MANAGERS"
  /\ UNCHANGED <<m_accepting_requests, m_active_rpc_count, slots,
                 client_vars, pool_vars, owner, pending, torn>>

\* disconect_managers() locks the mutex and starts to call the slots ...
DisconectManagers(s) ==
  /\ MutexFree
  /\ Advance(s, "drained", "notifying")
  /\ pending' = slots
  /\ UNCHANGED <<gate_vars, client_vars, pool_vars, owner, torn>>

SlotKept(s, m) ==
  /\ sd[s] = "notifying"
  /\ m \in pending
  /\ pending' = pending \ {m}
  /\ UNCHANGED slots

\* ... a manager module models each call; the slot of manager m disconnects
\* itself from the signal (the recursive mutex is held by this thread) ...
SlotCalled(s, m) ==
  /\ sd[s] = "notifying"
  /\ m \in pending
  /\ pending' = pending \ {m}
  /\ slots' = slots \ {m}

\* ... and unlocks it when all of them have returned.
ManagersNotified(s) ==
  /\ pending = {}
  /\ Advance(s, "notifying", "counting")
  /\ UNCHANGED <<gate_vars, client_vars, pool_vars, owner, pending, torn>>

\* manager_count() == 0 leads to the assertion, anything else past it.
ManagerCount(s) ==
  /\ MutexFree
  /\ Advance(s, "counting", IF slots = {} THEN "asserting" ELSE "releasing")
  /\ UNCHANGED <<gate_vars, client_vars, pool_vars, owner, pending, torn>>

\* The assertion on m_connected_clients.size() (property ClientsManaged).
AssertNoClients(s) ==
  /\ Advance(s, "asserting", "releasing")
  /\ UNCHANGED <<gate_vars, client_vars, pool_vars, owner, pending, torn>>

WorkKept(s) ==
  /\ Advance(s, "releasing", "joining")
  /\ UNCHANGED <<gate_vars, client_vars, pool_vars, owner, pending, torn>>

\* m_work.reset(); the io_service stops once nothing is outstanding.
WorkReset(s) ==
  /\ Advance(s, "releasing", "joining")
  /\ m_work' = FALSE
  /\ m_stopped' = (m_stopped \/ (posted = {} /\ \A w \in Workers : IdleThread(w)))
  /\ UNCHANGED <<gate_vars, client_vars, posted, thread, job, owner, pending, torn>>

\* m_thread_group.join_all() returns.
ThreadsJoined == \A w \in Workers : thread[w] \in {"none", "exited"}

JoinAll(s) ==
  /\ ThreadsJoined
  /\ Advance(s, "joining", "tearing")
  /\ UNCHANGED <<gate_vars, client_vars, pool_vars, owner, pending, torn>>

\* One pass of the teardown loop, or its end.
Teardown(s) ==
  /\ IF torn < NumServices
       THEN /\ sd[s] = "tearing"
            /\ torn' = torn + 1
            /\ UNCHANGED sd
       ELSE /\ Advance(s, "tearing", "done")
            /\ UNCHANGED torn
  /\ UNCHANGED <<gate_vars, client_vars, pool_vars, owner, pending>>

\* A service's teardown reports an error: shutdown() throws and the services
\* from this one on stay registered.  The basic protocol (0) never fails.
TeardownFails(s) ==
  /\ 0 < torn /\ torn < NumServices
  /\ Advance(s, "tearing", "threw")
  /\ UNCHANGED <<gate_vars, client_vars, pool_vars, owner, pending, torn>>

Shutdown(s) ==
  \/ CheckAndInitiateShutdown(s) \/ ShutdownAlreadyInitiated(s)
  \/ StopAccepting(s) \/ PollRpcCount(s) \/ DisconectManagers(s)
  \/ ManagersNotified(s) \/ ManagerCount(s) \/ AssertNoClients(s)
  \/ WorkReset(s) \/ JoinAll(s) \/ Teardown(s) \/ TeardownFails(s)

-----------------------------------------------------------------------------
\* What a manager and its clients call.

\* register_invoker_manager: the manager's connect_to_backend connects the
\* clients cs, which are new ClientData objects, then its slot is connected, in
\* one critical section.
RegisterInvokerManager(m, cs) ==
  /\ MutexFree
  /\ slots' = slots \cup {m}
  /\ m_connected_clients' = m_connected_clients \cup cs
  /\ m_rpc_active' = [c \in Clients |-> m_rpc_active[c] /\ c \notin cs]
  /\ UNCHANGED <<m_accepting_requests, m_active_rpc_count, m_shutdown_state,
                 cookies, pool_vars, driver_vars>>

\* SynchronisedSignalConnection::disconnect.
SignalDisconnect(m) ==
  /\ MutexFree
  /\ slots' = slots \ {m}
  /\ UNCHANGED <<m_accepting_requests, m_active_rpc_count, m_shutdown_state>>

\* The gate lets a request of c in: it is counted and c is marked active.
StartARequest(c) ==
  /\ MutexFree
  /\ GateOpen
  /\ CountRpc
  /\ m_rpc_active' = [m_rpc_active EXCEPT ![c] = TRUE]
  /\ UNCHANGED <<m_accepting_requests, m_shutdown_state, slots,
                 m_connected_clients, cookies, pool_vars, driver_vars>>

\* The checks of BackEnd::invoke create the client's cookie when the request
\* names a user service with that method, and none for service 0 or for a
\* request that names nothing.
TouchCookie(c) ==
  cookies' \in {cookies, cookies \cup {c}}

\* What a dispatched method does to the client's cookies: rpc_subscribe_service
\* and rpc_unsubscribe_service create one for the service they are told, and the
\* latter deletes it, after which the client may or may not have others.
DispatchCookies(c) ==
  cookies' \in {cookies, cookies \cup {c}, cookies \ {c}}

RejectForgetsCount(c) ==
  /\ MutexFree
  /\ m_rpc_active' = [m_rpc_active EXCEPT ![c] = FALSE]
  /\ UNCHANGED <<gate_vars, m_connected_clients, cookies, pool_vars, driver_vars>>

\* end_rpc on the path of a request that fails a check.
RejectRequest(c) ==
  /\ MutexFree
  /\ UncountRpc
  /\ m_rpc_active' = [m_rpc_active EXCEPT ![c] = FALSE]
  /\ UNCHANGED <<m_accepting_requests, m_shutdown_state, slots,
                 m_connected_clients, cookies, pool_vars, driver_vars>>

\* m_io_service.post
Post(c) == posted' = posted \cup {c}

-----------------------------------------------------------------------------
\* The pool: io_service::run on worker w.

RunHandler(w, c) ==
  /\ thread[w] = "idle"
  /\ ~m_stopped
  /\ c \in posted
  /\ posted' = posted \ {c}
  /\ thread' = [thread EXCEPT ![w] = "dispatching"]
  /\ job' = [job EXCEPT ![w] = c]
  /\ UNCHANGED <<gate_vars, client_vars, m_work, m_stopped, driver_vars>>

\* Invoker::operator(): dispatch returns (what it has done to the cookies is for
\* the manager's module to say); end_rpc uncounts the request ...
EndARequest(w) ==
  /\ MutexFree
  /\ thread[w] = "dispatching"
  /\ UncountRpc
  /\ thread' = [thread EXCEPT ![w] = "ended"]
  /\ UNCHANGED <<m_accepting_requests, m_shutdown_state, slots,
                 m_connected_clients, m_rpc_active,
                 posted, job, m_work, m_stopped, driver_vars>>

EndRpcLeavesFlag(w) ==
  /\ thread[w] = "ended"
  /\ thread' = [thread EXCEPT ![w] = "cleared"]
  /\ UNCHANGED <<gate_vars, client_vars, posted, job, m_work, m_stopped, driver_vars>>

\* ... then clears the client's flag ...
EndRpc(w) ==
  /\ thread[w] = "ended"
  /\ m_rpc_active' = [m_rpc_active EXCEPT ![job[w]] = FALSE]
  /\ thread' = [thread EXCEPT ![w] = "cleared"]
  /\ UNCHANGED <<gate_vars, m_connected_clients, cookies,
                 posted, job, m_work, m_stopped, driver_vars>>

\* ... and the manager is told (its module says how).
HandlerTells(w) ==
  /\ thread[w] = "cleared"
  /\ thread' = [thread EXCEPT ![w] = "finishing"]
  /\ UNCHANGED <<gate_vars, client_vars, posted, job, m_work, m_stopped, driver_vars>>

\* The handler has returned: one piece of work less.
FinishHandler(w) ==
  /\ thread[w] = "finishing"
  /\ thread' = [thread EXCEPT ![w] = "idle"]
  /\ job' = [job EXCEPT ![w] = Nobody]
  /\ m_stopped' = (m_stopped \/ (~m_work /\ QuietWithout(w)))
  /\ UNCHANGED <<gate_vars, client_vars, posted, m_work, driver_vars>>

\* run() returns on a stopped io_service.
ExitThread(w) ==
  /\ thread[w] = "idle"
  /\ m_stopped
  /\ thread' = [thread EXCEPT ![w] = "exited"]
  /\ UNCHANGED <<gate_vars, client_vars, posted, job, m_work, m_stopped, driver_vars>>

-----------------------------------------------------------------------------
\* The requests that the back end has counted and not yet uncounted, on its
\* own side: queued, or being dispatched.
InPool(c) ==
  \/ c \in posted
  \/ \E w \in Workers : thread[w] = "dispatching" /\ job[w] = c

\* A worker still refers to c's invoker.
Referenced(c) ==
  \/ c \in posted
  \/ \E w \in Workers : thread[w] \in {"dispatching", "ended", "cleared"} /\ job[w] = c
=============================================================================
