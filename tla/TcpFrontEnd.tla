---------------------------- MODULE TcpFrontEnd ----------------------------
(***************************************************************************)
(* The TCP front end, an invoker manager with one invoker per connection.  *)
(* One thread runs its event loop (m_io_service): accepting, reading       *)
(* headers and bodies, BackEnd::invoke, and what follows a write.  The     *)
(* pool of the back end dispatches requests and starts the writes of their *)
(* responses.  The thread that owns the front end starts, stops and        *)
(* destroys it, and a stopper of the back end calls its                    *)
(* disconnect_from_backend slot.                                           *)
(*                                                                         *)
(* Peers connect, send, fall silent and drop as they like: an operation    *)
(* outstanding on a socket completes well, fails or stays outstanding.     *)
(* Clients are the connections.  handlers is the loop's queue of completed *)
(* operations and posted functions, first in, first out.                   *)
(***************************************************************************)
EXTENDS BackEnd, SequencesExt

CONSTANTS
  Tfe,          \* the front end, the only manager
  Main,           \* the thread that owns it
  AcceptOutcomes, \* whether accepting succeeds, fails, or both
  RequestSizes,   \* sizes of requests, header included
  ResponseSizes,
  InitialSize     \* RBL_RPC_CONF_INITIAL_BUFFER_SIZE

HeaderSize == 8

ASSUME TcpAssumption ==
  /\ Managers = {Tfe}
  /\ Main \notin Stoppers /\ Nobody \notin Stoppers /\ Main # Nobody
  /\ AcceptOutcomes \subseteq BOOLEAN
  /\ RequestSizes \cup ResponseSizes \subseteq Nat
  /\ \A n \in RequestSizes \cup ResponseSizes \cup {InitialSize} : n >= HeaderSize

VARIABLES
  front, holder, dfb, m_shutdown_initiated, notified,
  loop, current, handlers, acceptor,
  m_connections, io_state, op, bound, msg_sz, buf_size

\* The front end's life; who holds its m_mutex and where that thread is in
\* disconnect_from_backend; m_shutdown_notification.
stop_vars == <<front, holder, dfb, m_shutdown_initiated, notified>>

\* The thread in m_io_service.run, the connection whose request it hands to
\* BackEnd::invoke, the queue, and the acceptor.
loop_vars == <<loop, current, handlers, acceptor>>

\* Per connection: membership of m_connections, io_state, the operation
\* outstanding on its socket, whether the handler of its header holds a
\* shared_ptr, and the sizes of the message being read and of the buffer.
conn_vars == <<m_connections, io_state, op, bound, msg_sz, buf_size>>

vars == <<backend_vars, stop_vars, loop_vars, conn_vars>>

IoStates == {"INACTIVE", "READ_BODY", "DISPATCHED", "RESPONSE_WRITE"}

Handlers ==
  [h : {"accept", "header", "body", "write", "shutdown"},
   c : Clients \cup {Nobody}, ok : BOOLEAN]

TcpTypeOK ==
  /\ BackEndTypeOK
  /\ front \in {"unborn", "making", "made", "started", "gone"}
  /\ holder \in Stoppers \cup {Main, Nobody}
  /\ dfb \in {"out", "asking", "waiting", "polling", "leaving"}
  /\ m_shutdown_initiated \in BOOLEAN
  /\ notified \in BOOLEAN
  /\ loop \in {"none", "idle", "invoking", "started", "stopped", "terminated"}
  /\ current \in Clients \cup {Nobody}
  /\ handlers \in Seq(Handlers)
  /\ acceptor \in {"none", "pending", "idle", "closed"}
  /\ m_connections \subseteq m_connected_clients
  /\ io_state \in [Clients -> IoStates]
  /\ op \in [Clients -> {"none", "header", "body", "write"}]
  /\ bound \subseteq m_connected_clients
  /\ msg_sz \in [Clients -> RequestSizes \cup {0}]
  /\ buf_size \in [Clients -> RequestSizes \cup ResponseSizes \cup {InitialSize}]

Init ==
  /\ BackEndInit
  /\ front = "unborn"
  /\ holder = Nobody
  /\ dfb = "out"
  /\ m_shutdown_initiated = FALSE
  /\ notified = FALSE
  /\ loop = "none"
  /\ current = Nobody
  /\ handlers = <<>>
  /\ acceptor = "none"
  /\ m_connections = {}
  /\ io_state = [c \in Clients |-> "INACTIVE"]
  /\ op = [c \in Clients |-> "none"]
  /\ bound = {}
  /\ msg_sz = [c \in Clients |-> 0]
  /\ buf_size = [c \in Clients |-> InitialSize]

Completed(h, c, ok) == [h |-> h, c |-> c, ok |-> ok]

Queued(c) == \E i \in DOMAIN handlers : handlers[i].c = c

-----------------------------------------------------------------------------
\* Connections.

Sets(f, c, v) == [f EXCEPT ![c] = v]

\* A connection that nothing refers to: its memory may be used for a new one.
Fresh(c) == c \notin m_connected_clients /\ op[c] = "none" /\ ~Queued(c) /\ ~Referenced(c)

\* ~TcpFrontEndConnectionInvoker of each connection in cs: BackEnd::disconnect.
\* Cookies are left out here; InProcess and Sessions model them.
Destroyed(cs) ==
  /\ m_connected_clients' = m_connected_clients \ cs
  /\ UNCHANGED cookies

\* handle_write_response, in the event loop or in a pool thread.
GrowBuffer(c, n) ==
  buf_size' = IF n > buf_size[c] THEN Sets(buf_size, c, n) ELSE buf_size

ResponseNotMarked(c) ==
  /\ op' = Sets(op, c, "write")
  /\ \E n \in ResponseSizes : GrowBuffer(c, n)
  /\ UNCHANGED <<m_connections, io_state, bound, msg_sz>>

HandleWriteResponse(c) ==
  /\ io_state' = Sets(io_state, c, "RESPONSE_WRITE")
  /\ op' = Sets(op, c, "write")
  /\ \E n \in ResponseSizes : GrowBuffer(c, n)
  /\ UNCHANGED <<m_connections, bound, msg_sz>>

-----------------------------------------------------------------------------
\* Peers and the network.

Running == loop \in {"idle", "invoking", "started"}

\* The operation outstanding on c's socket completes, for better or worse.
OpCompletes(c, ok) ==
  /\ Running
  /\ op[c] # "none"
  /\ op' = Sets(op, c, "none")
  /\ handlers' = Append(handlers, Completed(op[c], c, ok))
  /\ UNCHANGED <<backend_vars, stop_vars, loop, current, acceptor,
                 m_connections, io_state, bound, msg_sz, buf_size>>

AcceptCompletes(ok) ==
  /\ Running
  /\ acceptor = "pending"
  /\ ok => \E c \in Clients : Fresh(c)
  /\ acceptor' = "idle"
  /\ handlers' = Append(handlers, Completed("accept", Nobody, ok))
  /\ UNCHANGED <<backend_vars, stop_vars, loop, current, conn_vars>>

-----------------------------------------------------------------------------
\* The event loop.

Takes(h, c, ok) ==
  /\ loop = "idle"
  /\ handlers # <<>>
  /\ Head(handlers) = Completed(h, c, ok)

Handles(h, c, ok) == Takes(h, c, ok) /\ handlers' = Tail(handlers)

ConnectForgotten(c) == UNCHANGED m_connected_clients
Connect(c) == m_connected_clients' = m_connected_clients \cup {c}

\* handle_accept: the constructor of the connection connects its ClientData to
\* the back end; its header is read, and the acceptor, unless it is closed, goes
\* on accepting.
HandleAccept(c) ==
  /\ Takes("accept", Nobody, TRUE)
  /\ Fresh(c)
  /\ Connect(c)
  /\ m_rpc_active' = Sets(m_rpc_active, c, FALSE)
  /\ m_connections' = m_connections \cup {c}
  /\ io_state' = Sets(io_state, c, "INACTIVE")
  /\ op' = Sets(op, c, "header")
  /\ bound' = bound \cup {c}
  /\ msg_sz' = Sets(msg_sz, c, 0)
  /\ buf_size' = Sets(buf_size, c, InitialSize)
  /\ IF acceptor = "closed"
       THEN /\ handlers' = Append(Tail(handlers), Completed("accept", Nobody, FALSE))
            /\ UNCHANGED acceptor
       ELSE /\ handlers' = Tail(handlers)
            /\ acceptor' = "pending"
  /\ UNCHANGED <<gate_vars, cookies, pool_vars, driver_vars, stop_vars, loop, current>>

HandleAcceptError ==
  /\ Handles("accept", Nobody, FALSE)
  /\ UNCHANGED <<backend_vars, stop_vars, loop, current, acceptor, conn_vars>>

\* handle_read_header resizes a buffer that is larger than the message.
ShrinkBuffer(c, n) ==
  buf_size' = IF n < buf_size[c] THEN Sets(buf_size, c, n) ELSE buf_size

HandleReadHeader(c) ==
  /\ Handles("header", c, TRUE)
  /\ ~m_shutdown_initiated
  /\ io_state' = Sets(io_state, c, "READ_BODY")
  /\ op' = Sets(op, c, "body")
  /\ bound' = bound \ {c}
  /\ \E n \in RequestSizes : ShrinkBuffer(c, n) /\ msg_sz' = Sets(msg_sz, c, n)
  /\ UNCHANGED <<backend_vars, stop_vars, loop, current, acceptor, m_connections>>

\* A failed or aborted read only drops the handler, and with it the last
\* reference to a connection that has been erased.
HandleReadHeaderError(c) ==
  /\ Handles("header", c, FALSE)
  /\ Destroyed((bound \cap {c}) \ m_connections)
  /\ bound' = bound \ {c}
  /\ UNCHANGED <<gate_vars, m_rpc_active, pool_vars, driver_vars, stop_vars,
                 loop, current, acceptor, m_connections, io_state, op, msg_sz, buf_size>>

\* After the shutdown handler a request takes its connection down ...
DisconnectClient(c) ==
  /\ Handles("header", c, TRUE)
  /\ m_shutdown_initiated
  /\ c \in m_connections
  /\ m_connections' = m_connections \ {c}
  /\ bound' = bound \ {c}
  /\ Destroyed({c})
  /\ UNCHANGED <<gate_vars, m_rpc_active, pool_vars, driver_vars, stop_vars,
                 loop, current, acceptor, io_state, op, msg_sz, buf_size>>

\* ... unless its socket's shutdown fails: the peer has reset it, or the shutdown
\* handler has closed and erased the connection (and freed it, unless bound)
\* while this completion was in the queue.  The exception leaves run() and
\* ends the program.
DisconnectClientThrows(c) ==
  /\ Handles("header", c, TRUE)
  /\ m_shutdown_initiated
  /\ loop' = "terminated"
  /\ UNCHANGED <<backend_vars, stop_vars, current, acceptor, conn_vars>>

\* handle_read_body: the request goes to BackEnd::invoke.
HandleReadBody(c) ==
  /\ Handles("body", c, TRUE)
  /\ io_state' = Sets(io_state, c, "DISPATCHED")
  /\ loop' = "invoking"
  /\ current' = c
  /\ UNCHANGED <<backend_vars, stop_vars, acceptor, m_connections, op, bound,
                 msg_sz, buf_size>>

\* A connection that drops in mid-message, or before its response is written,
\* is left as it is.
HandleIoError(c) ==
  /\ Handles("body", c, FALSE) \/ Handles("write", c, FALSE)
  /\ UNCHANGED <<backend_vars, stop_vars, loop, current, acceptor, conn_vars>>

HandleResetForNextRequest(c) ==
  /\ Handles("write", c, TRUE)
  /\ io_state' = Sets(io_state, c, "INACTIVE")
  /\ op' = Sets(op, c, "header")
  /\ UNCHANGED <<backend_vars, stop_vars, loop, current, acceptor,
                 m_connections, bound, msg_sz, buf_size>>

-----------------------------------------------------------------------------
\* BackEnd::invoke, run by the event loop on the connection current.

InvokeGoes(from, to) ==
  /\ loop = from
  /\ loop' = to
  /\ current' = IF to = "idle" THEN Nobody ELSE current
  /\ UNCHANGED <<stop_vars, handlers, acceptor>>

RequestAccepted ==
  /\ InvokeGoes("invoking", "started")
  /\ StartARequest(current)
  /\ UNCHANGED conn_vars

RequestRefused ==
  /\ InvokeGoes("invoking", "idle")
  /\ MutexFree
  /\ ~GateOpen
  /\ HandleWriteResponse(current)
  /\ UNCHANGED backend_vars

\* A check fails; the checks are those of Sessions.
RequestRejected ==
  /\ InvokeGoes("started", "idle")
  /\ RejectRequest(current)
  /\ HandleWriteResponse(current)

RequestPosted ==
  /\ InvokeGoes("started", "idle")
  /\ Post(current)
  /\ UNCHANGED <<gate_vars, client_vars, thread, job, m_work, m_stopped,
                 driver_vars, conn_vars>>

\* TcpFrontEndConnectionInvoker::operator() ends with handle_write_response.
ResponseForgotten(w) ==
  /\ HandlerTells(w)
  /\ UNCHANGED <<stop_vars, loop_vars, conn_vars>>

RespondFromPool(w) ==
  /\ HandlerTells(w)
  /\ HandleWriteResponse(job[w])
  /\ UNCHANGED <<stop_vars, loop_vars>>

-----------------------------------------------------------------------------
\* shutdown_handler, posted by disconnect_from_backend.

AnyConnection == m_connections
InactiveConnections == {c \in m_connections : io_state[c] = "INACTIVE"}

\* The handlers that cancelling the acceptor and closing the sockets of cs queue.
Aborted(cs) ==
  LET reading == {c \in cs : op[c] = "header"}
      accepts == IF acceptor = "pending" THEN <<Completed("accept", Nobody, FALSE)>> ELSE <<>>
  IN  accepts \o SetToSeq({Completed("header", c, FALSE) : c \in reading})

NotifyNobody == UNCHANGED notified
NotifyOne == notified' = TRUE

\* The inactive connections are disconnected.  Each is erased from the set that
\* the loop runs over, which leaves the iterator undefined: the loop goes on, or
\* stops short.
ShutdownHandler(cs) ==
  /\ Takes("shutdown", Nobody, TRUE)
  /\ cs \subseteq InactiveConnections
  /\ cs = {} => InactiveConnections = {}
  /\ m_shutdown_initiated' = TRUE
  /\ NotifyOne
  /\ handlers' = Tail(handlers) \o Aborted(cs)
  /\ acceptor' = "closed"
  /\ m_connections' = m_connections \ cs
  /\ op' = [c \in Clients |-> IF c \in cs THEN "none" ELSE op[c]]
  /\ Destroyed(cs \ bound)
  /\ UNCHANGED <<gate_vars, m_rpc_active, pool_vars, driver_vars,
                 front, holder, dfb, loop, current, io_state, bound, msg_sz, buf_size>>

\* ... or the program ends: at the iterator, or with the exception of a
\* disconnect_client whose peer has reset the connection.
ShutdownHandlerThrows ==
  /\ Handles("shutdown", Nobody, TRUE)
  /\ InactiveConnections # {}
  /\ m_shutdown_initiated' = TRUE
  /\ acceptor' = "closed"
  /\ loop' = "terminated"
  /\ UNCHANGED <<backend_vars, front, holder, dfb, notified, current, conn_vars>>

\* run() returns when nothing is queued or outstanding.
LoopStops ==
  /\ loop = "idle"
  /\ handlers = <<>>
  /\ acceptor # "pending"
  /\ \A c \in Clients : op[c] = "none"
  /\ loop' = "stopped"
  /\ UNCHANGED <<backend_vars, stop_vars, current, handlers, acceptor, conn_vars>>

LoopStep ==
  \/ \E c \in Clients :
       \/ HandleAccept(c) \/ HandleReadHeader(c) \/ HandleReadHeaderError(c)
       \/ DisconnectClient(c) \/ DisconnectClientThrows(c)
       \/ HandleReadBody(c) \/ HandleIoError(c) \/ HandleResetForNextRequest(c)
  \/ HandleAcceptError
  \/ RequestAccepted \/ RequestRefused
  \/ RequestRejected \/ RequestPosted
  \/ \E cs \in SUBSET Clients : ShutdownHandler(cs)
  \/ ShutdownHandlerThrows
  \/ LoopStops

-----------------------------------------------------------------------------
\* The thread that owns the front end.

\* The constructor needs a sealed back end; register_invoker_manager calls back
\* connect_to_backend ...
Construct ==
  /\ front = "unborn"
  /\ m_is_sealed
  /\ May("register")
  /\ RegisterInvokerManager(Tfe, {})
  /\ front' = "making"
  /\ UNCHANGED <<holder, dfb, m_shutdown_initiated, notified, loop_vars, conn_vars>>

\* ... and, when it has released the mutex, m_sig_connection_aptr is set.
Constructed ==
  /\ front = "making"
  /\ front' = "made"
  /\ UNCHANGED <<backend_vars, holder, dfb, m_shutdown_initiated, notified,
                 loop_vars, conn_vars>>

StartFrontEnd ==
  /\ front = "made"
  /\ holder = Nobody
  /\ front' = "started"
  /\ acceptor' = "pending"
  /\ loop' = "idle"
  /\ UNCHANGED <<backend_vars, holder, dfb, m_shutdown_initiated, notified,
                 current, handlers, conn_vars>>

\* What the destructor does once its stop() has returned, or has thrown: every
\* connection goes, and what is queued or outstanding in m_io_service, whoever
\* may still be using them (Dangling).
DestroyFrontEnd ==
  /\ front \in {"made", "started"}
  /\ holder = Nobody
  /\ m_shutdown_initiated
  /\ front' = "gone"
  /\ m_connections' = {}
  /\ bound' = {}
  /\ Destroyed(m_connections \cup bound)
  /\ op' = [c \in Clients |-> "none"]
  /\ handlers' = <<>>
  /\ UNCHANGED <<gate_vars, m_rpc_active, pool_vars, driver_vars, holder, dfb,
                 m_shutdown_initiated, notified, loop, current, acceptor,
                 io_state, msg_sz, buf_size>>

-----------------------------------------------------------------------------
\* disconnect_from_backend, called by the owner (stop, destructor) or by a
\* stopper that holds the back end's mutex; m_mutex is held throughout.

Calls(p) ==
  IF p = Main THEN front \in {"made", "started"}
              ELSE sd[p] = "notifying" /\ Tfe \in pending

BackEndMutex(p) == IF p = Main THEN MutexFree ELSE sd[p] = "notifying"

Enter(p) ==
  /\ Calls(p)
  /\ holder = Nobody
  /\ ~m_shutdown_initiated
  /\ holder' = p
  /\ dfb' = "asking"
  /\ UNCHANGED <<backend_vars, front, m_shutdown_initiated, notified, loop_vars, conn_vars>>

\* A shutdown handler has run: the call returns at once, and the slot stays
\* connected.
SlotReturnsAtOnce(s) ==
  /\ Calls(s)
  /\ holder = Nobody
  /\ m_shutdown_initiated
  /\ pending' = pending \ {Tfe}
  /\ UNCHANGED <<gate_vars, client_vars, pool_vars, owner, sd, torn,
                 stop_vars, loop_vars, conn_vars>>

\* m_sig_connection_aptr is still null: the slot dereferences it and the program
\* ends.
SlotFindsNull(p) ==
  /\ holder = p /\ dfb = "asking"
  /\ front = "making"
  /\ loop' = "terminated"
  /\ UNCHANGED <<backend_vars, stop_vars, current, handlers, acceptor, conn_vars>>

\* is_connected(), then the post.
PostShutdown(p) ==
  /\ holder = p /\ dfb = "asking"
  /\ front # "making"
  /\ BackEndMutex(p)
  /\ Tfe \in slots
  /\ dfb' = "waiting"
  /\ handlers' = Append(handlers, Completed("shutdown", Nobody, TRUE))
  /\ UNCHANGED <<backend_vars, front, holder, m_shutdown_initiated, notified,
                 loop, current, acceptor, conn_vars>>

Wake(p) ==
  /\ holder = p /\ dfb = "waiting"
  /\ notified
  /\ dfb' = "polling"
  /\ UNCHANGED <<backend_vars, front, holder, m_shutdown_initiated, notified,
                 loop_vars, conn_vars>>

LoopHasStopped == loop = "stopped"

Stopped(p) ==
  /\ holder = p /\ dfb = "polling"
  /\ LoopHasStopped
  /\ dfb' = "leaving"
  /\ UNCHANGED <<backend_vars, front, holder, m_shutdown_initiated, notified,
                 loop_vars, conn_vars>>

\* Five polls have not seen the loop stopped: FrontEndException leaves stop(), or
\* the signal and the shutdown of the back end, and releases the mutexes.
TimedOut(p) ==
  /\ holder = p /\ dfb = "polling"
  /\ ~LoopHasStopped
  /\ holder' = Nobody /\ dfb' = "out"
  /\ IF p = Main
       THEN UNCHANGED driver_vars
       ELSE /\ Advance(p, "notifying", "threw")
            /\ pending' = {}
            /\ UNCHANGED <<owner, torn>>
  /\ UNCHANGED <<gate_vars, client_vars, pool_vars, front, m_shutdown_initiated,
                 notified, loop_vars, conn_vars>>

Leave(p) ==
  /\ holder = p /\ dfb = "leaving"
  /\ holder' = Nobody /\ dfb' = "out"
  /\ IF p = Main
       THEN SignalDisconnect(Tfe) /\ UNCHANGED driver_vars
       ELSE /\ SlotCalled(p, Tfe)
            /\ UNCHANGED <<m_accepting_requests, m_active_rpc_count, m_shutdown_state,
                           owner, sd, torn>>
  /\ UNCHANGED <<client_vars, pool_vars, front, m_shutdown_initiated, notified,
                 loop_vars, conn_vars>>

\* Once begun, disconnect_from_backend goes on by itself.
GoesOn(p) ==
  PostShutdown(p) \/ Wake(p) \/ Stopped(p) \/ TimedOut(p) \/ Leave(p)

-----------------------------------------------------------------------------
Environment ==
  \/ \E c \in Clients, ok \in BOOLEAN : OpCompletes(c, ok)
  \/ \E ok \in AcceptOutcomes : AcceptCompletes(ok)

Owners ==
  \/ (Start \/ StartAccepting) /\ UNCHANGED <<stop_vars, loop_vars, conn_vars>>
  \/ Construct \/ Constructed \/ StartFrontEnd \/ DestroyFrontEnd
  \/ Enter(Main) \/ GoesOn(Main)

Stopper(s) ==
  \/ Shutdown(s) /\ UNCHANGED <<stop_vars, loop_vars, conn_vars>>
  \/ Enter(s) \/ SlotFindsNull(s) \/ SlotReturnsAtOnce(s) \/ GoesOn(s)

Runs(w, c) == RunHandler(w, c) /\ UNCHANGED <<stop_vars, loop_vars, conn_vars>>

Works(w) ==
  \/ (EndRpc(w) \/ FinishHandler(w) \/ ExitThread(w))
       /\ UNCHANGED <<stop_vars, loop_vars, conn_vars>>
  \/ EndARequest(w) /\ UNCHANGED <<cookies, stop_vars, loop_vars, conn_vars>>
  \/ RespondFromPool(w)

\* The front end has been destroyed while its event loop runs, a pool thread or a
\* posted handler refers to one of its connections, or its slot is about to be
\* called: what the program does from here on is undefined, and not modelled.
Dangling ==
  /\ front = "gone"
  /\ \/ Running
     \/ \E c \in Clients : Referenced(c)
     \/ \E s \in Stoppers : sd[s] = "notifying" /\ Tfe \in pending

Alive == loop # "terminated" /\ ~Dangling

Next ==
  /\ Alive
  /\ \/ Environment
     \/ Owners
     \/ LoopStep
     \/ \E s \in Stoppers : Stopper(s)
     \/ \E w \in Workers : Works(w) \/ \E c \in Clients : Runs(w, c)

Spec == Init /\ [][Next]_vars

(***************************************************************************)
(* Fairness: as in InProcess for the pool and the stoppers; the event loop *)
(* is a thread, and a call of disconnect_from_backend that has begun goes  *)
(* on.  Peers owe nothing: no operation on a socket need ever complete.    *)
(***************************************************************************)
Fairness ==
  /\ WF_vars(LoopStep)
  /\ WF_vars(Alive /\ GoesOn(Main))
  /\ \A s \in Stoppers : WF_vars(Alive /\ sd[s] # "out" /\ Stopper(s))
  /\ \A w \in Workers : WF_vars(Alive /\ Works(w))
  /\ \A c \in Clients : SF_vars(Alive /\ \E w \in Workers : Runs(w, c))

FairSpec == Spec /\ Fairness

-----------------------------------------------------------------------------
\* The io_state that an operation on a socket belongs to.
OpState == [header |-> "INACTIVE", body |-> "READ_BODY", write |-> "RESPONSE_WRITE"]

\* The queued completions of c.
Completions(c) == {i \in DOMAIN handlers : handlers[i].c = c}

\* A connection that is alive has one thing under way at a time (an operation on
\* its socket, the completion of one, its request in the event loop or in the
\* pool), the one its io_state names; so two threads never use its buffer, its
\* request and its response at once, and shutdown_handler, which reads
\* io_state without a lock, disconnects no connection in use.
OneActivity ==
  \A c \in m_connections :
    LET doing == (IF op[c] = "none" THEN {} ELSE {<<"op", OpState[op[c]]>>})
            \cup {<<i, OpState[handlers[i].h]>> : i \in Completions(c)}
            \cup (IF current = c THEN {<<"loop", "DISPATCHED">>} ELSE {})
            \cup (IF Referenced(c) THEN {<<"pool", "DISPATCHED">>} ELSE {})
    IN  /\ Cardinality(doing) <= 1
        /\ \A d \in doing : d[2] = io_state[c]

\* An operation is outstanding on c's socket, its handler is to run, or c's
\* request is in the event loop or in the pool.  A header that has completed when
\* the shutdown handler runs is left out: to that handler its connection is
\* inactive, and it is closed, erased and, unless bound, freed.
InUse(c) ==
  \/ op[c] # "none"
  \/ \E i \in Completions(c) : handlers[i].h = "header" => ~m_shutdown_initiated
  \/ current = c
  \/ Referenced(c)

Counted(c) == (loop = "started" /\ current = c) \/ InPool(c)

\* As long as the front end exists, a connection in use is neither erased nor
\* destroyed, whatever happens to others, to the front end or to the back end:
\* handlers bound to a raw pointer and the pool's boost::ref find it alive.  An
\* admitted request finds the services and the pool as well.
UsedConnectionsLive ==
  \A c \in Clients :
    /\ front # "gone" /\ InUse(c) => c \in m_connections /\ c \in m_connected_clients
    /\ Counted(c) => torn = 0 /\ ~m_stopped

-----------------------------------------------------------------------------
GatePhase ==
  IF \E s \in Stoppers : sd[s] \in {"tearing", "done", "threw"} THEN "closed"
  ELSE IF m_shutdown_state = "WAITING_MANAGERS" THEN "drained"
  ELSE IF m_shutdown_state = "ACTIVE" THEN "serving"
  ELSE "draining"

Gate == INSTANCE RpcGate WITH
  Requesters <- Clients,
  open       <- m_accepting_requests,
  inflight   <- {c \in Clients : Counted(c)},
  phase      <- GatePhase

\* With its requests coming from the front end's event loop, and with a shutdown
\* that a front end's exception may cut short, the back end still implements
\* the abstract gate.
TcpImplementsGate == Gate!GateSpec

-----------------------------------------------------------------------------
\* Threads that wait for each other, or for a loop that nobody runs:
\* the event loop needs the back end's mutex, which a stopper holds while its
\* slot call waits for the event loop or for the owner's stop().
LoopCycle ==
  \E s \in Stoppers :
    /\ sd[s] = "notifying"
    /\ loop = "invoking"
    /\ dfb = "waiting" /\ ~notified

\* The owner's stop() needs the back end's mutex, and a stopper that holds it
\* needs the front end's.
LockCycle ==
  \E s \in Stoppers :
    sd[s] = "notifying" /\ holder = Main /\ dfb \in {"asking", "leaving"}

\* The shutdown handler is posted to a loop that was never started, or that has
\* stopped because accepting failed and no connection was left.
NobodyRuns == dfb = "waiting" /\ loop \in {"none", "stopped"} /\ ~notified

Stuck == LoopCycle \/ LockCycle \/ NobodyRuns \/ ~Alive

\* disconnect_from_backend ends, with or without its exception, whatever the
\* peers do, except in the named cycles.
DisconnectEndsOrStuck == dfb = "asking" ~> (dfb = "out" \/ Stuck)

\* Every request handed to the back end is answered (accepted, refused or
\* rejected, its response is written), except in the named cycles.
RequestsAnswered ==
  \A c \in Clients :
    io_state[c] = "DISPATCHED" ~> (io_state[c] # "DISPATCHED" \/ Stuck)

\* When the front end has disconnected from the back end it has disconnected all
\* of its clients.
NoClientLeft ==
  front \in {"made", "started"} /\ Tfe \notin slots => m_connected_clients = {}

\* A message's body fits in the buffer it is read into.
BodyFits ==
  \A c \in Clients : op[c] = "body" => msg_sz[c] - HeaderSize <= buf_size[c]
=============================================================================
