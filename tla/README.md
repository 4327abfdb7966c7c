# rbl-rpc: a TLA+ model of the back end and its clients

rbl-rpc is a small C++ rpc library. A *back end* owns a set of services and a
pool of threads; clients reach it through *invokers*, which are grouped under
*invoker managers*: an `InProcessInvoker` is its own manager, a `TcpFrontEnd`
manages one invoker per connection. Service 0 of every back end is the *basic
protocol*, through which a client introduces itself, lists services and methods,
subscribes and unsubscribes.

This directory models the back end, its services and sessions, the container
they are kept in, both kinds of managers, and the client side with its factory
and stubs. TLC checks the models on small instances; TLAPS proves, for every
instance, all the safety properties that TLC finds to hold.

## 1. Inventory

| Part (source) | State | Operations | What is hard | What makes it correct |
|---|---|---|---|---|
| `OidContainer` (`include/common/oid_container*.h`) | a vector of entries by ordinal, an intrusive set of the same entries by name | `SetEntry`, `clear`, copy, `SlicingPopulate`, lookups | the index links entries that move when the vector grows; names are folded to lower case; a refused entry has already grown the vector | both lookups agree; a binding is never replaced |
| `SynchronisedBackEndState` (`include/rpc/backend/BackEndBase.h`) | accepting flag, count of active rpcs, shutdown state, signal with the managers' slots, one recursive mutex | `start_a_request`, `end_a_request`, open and close, register a manager, call the managers, initiate the shutdown | called from client, pool, owner and stopper threads; the managers are called with the mutex held | the count is exact; a drained gate stays drained |
| `BackEnd` (`BackEndBase.h`, `src/rpc/server/BackEndBase.cc`) | services, seal, service count, shared error code, connected clients, io_service, work object, threads | constructor, `register_and_init_service`, `start`, `pause_requests`, `resume_requests`, `connect`, `disconnect`, `invoke`, `end_rpc`, `shutdown` | shutdown polls, notifies, joins and tears down while requests, registrations and disconnections go on; registrations fail half-way | nothing runs on a client, a cookie or a service that is gone; services have contiguous, stable ordinals |
| `ClientServiceCookies` | per service a map from client address to cookie (subscribed flag, service data) | create or retrieve, destroy, delete | keyed by the address of an object that may be freed and reused | no cookie of a user service outlives its client |
| `ClientData`, `ConnectedClientsSet` | request, response, error code, rpc, established and disconnect flags | `start_rpc`, `end_rpc`, `establish_client` | the flag is set by one thread and cleared by another, after the count | its assertions hold |
| `BasicProtocolImpl` (`BackEndBase.cc`) | none of its own | `hello`, `list_services`, `list_methods`, `rpc_subscribe_service`, `rpc_unsubscribe_service` | services may refuse a subscription; answers must match the cookies | the service, the back end and the client agree on who is subscribed |
| `InProcessInvoker`, `NotificationObject` (`include/rpc/invoker/InProcessInvoker.h`) | connected flag, mutex, ready flag and condition variable | construct, destroy, `reset`, `invoke`, `operator()`, `disconnect_from_backend` | two mutexes taken in two orders; lost and spurious wakeups; the pool holds the invoker by reference | calls return; the invoker outlives what refers to it |
| `TcpFrontEnd`, its connections (`src/rpc/server/TcpFrontEnd.cc`) | acceptor, set of connections, io state and buffer per connection, event loop, mutex and shutdown notification | accept, read header, read body, write response, `start`, `stop`, `disconnect_from_backend`, `shutdown_handler` | peers drop or fall silent at any point; event loop, pool, owner and a shutdown of the back end meet over two mutexes and one notification | a connection in use is left alone; requests are answered; `stop` ends and leaves no client |
| `TcpInvoker` (`include/rpc/invoker/TcpInvoker.h`) | socket, buffers | `reset`, `invoke` | connection lost in mid-call | a lost connection is not a success |
| `ServiceClientFactory`, `ClientServiceBase` (`include/rpc/client`) | stubs by service, method map per stub | `subscribe_service`, `unsubscribe_service` | several rpcs in one operation, each may fail | a call reaches the method it names; stubs and back end agree on subscriptions |
| code generator (`src/rpc/codegen`) | none at run time | generates stubs and skeletons | | what generated code does is in the actions that use it |

Components interact through calls (stub, invoker, back end), callbacks (the
pool calls the invoker, the signal calls the managers) and shared state (the
gate, the cookies, the connected set, the invoker's flags). `PROJECT.json`
lists the hazards at their lines.

## 2. Modules

    OidContainer  operators on container values     RpcGate   abstract gate
      |   \                                            ^
      |    OidTable --implements--> OidMap             | implement
      |                                                |
    Registry (services of a back end)    BackEnd <-- InProcess <-- InProcessProofs
                                            ^                        ^
                                            |      InProcessShutdownProofs
                                        TcpFrontEnd
                                            ^
                                        TcpFrontEndProofs

    OidContainer <-- OidContainerProofs <-- OidTableProofs, RegistryProofs

    Sessions (checks of invoke, basic protocol, cookies) <-- SessionsProofs
        ^ INSTANCE
    ServiceClientFactory (invoker, factories and stubs of a client)
        ^
    ServiceClientFactoryProofs

The `MC*` modules give values to constants for TLC.

**BackEnd, InProcess.** `BackEnd` has the back end's state and steps and the
operations it offers to managers; `InProcess` EXTENDS it with the client threads,
`TcpFrontEnd` with the event loop and its connections. Each critical section of the
back end's mutex is one step, except `disconect_managers`, during which the mutex
is held for several (`MutexFree` is the guard of all others). Each invoker's
mutex is held by its client in the stages of `HoldsInvoker`, or by the stopper
whose slot call is running (`inslot`). A client thread goes through the stages

    unborn -> idle -> called -> locked -> started -> posted -> (blocked) -> idle
              (reset)  (m_mutex)  (start_a_request)  (post)   (wait_for_notification)

with `rejecting` for a request that fails a check and `unlinking` for the second
half of its own `disconnect_from_backend`. A pool thread takes a handler
(`dispatching`), uncounts it (`ended`), clears the flag (`cleared`), notifies
(`finishing`) and returns. A stopper goes through `shutdown()` and
`shutdown_step()` stage by stage; the sleep between polls is nothing but the
time before the next poll.
*Data left out*: the request and which check it fails (either may happen; the
checks are in `Sessions`); cookies per service (a client has some or none: a check
may create one, and so may the dispatch, since `rpc_subscribe_service` and
`rpc_unsubscribe_service` create cookies, and the latter deletes them).
`Constructed` ends the construction of an invoker (`constructing`): its slot is in
the signal before `m_sig_connection` is set. `Shared` are the clients whose
`ClientData` somebody else holds too; the destructor of their invoker disconnects
nothing.
*Environment*: before a shutdown callers may do anything; `LateOps` names what
they may still begin afterwards. A destroyed invoker's identity is not reused
while the pool refers to it or the back end still knows it, and a client does not disconnect while `start()` is
between sealing and accepting (there the code indexes a vector that is not sized
yet).

**TcpFrontEnd** models one front end, the only manager of its back end.
`handlers` is the queue of the event loop; `op` is the operation outstanding on a
connection's socket. An operation completes well, fails, or never completes, as
the peer likes; its completion goes to the end of the queue, and the loop takes
the first entry. `BackEnd::invoke` is the loop's, in steps (`loop` = "invoking",
"started"); the pool ends an rpc with `RespondFromPool`, which starts the write.
`disconnect_from_backend` is one sequence of steps (`dfb`) for its two callers:
the owner, and a stopper whose slot call it is, with the back end's mutex held.
A connection's header is first read with a handler that shares ownership (`bound`),
later with a raw pointer; a connection is destroyed when the set and the handler
have let it go. Three things end the program (`loop` = "terminated"): an
exception of `disconnect_client` in the event loop, which nothing catches; the
use of an iterator of `m_connections` after its element has been erased,
which otherwise visits any nonempty part of the inactive connections; a slot call
that meets the constructor (`front` = "making") before it has set
`m_sig_connection_aptr`. The destructor runs as soon as its `stop()` has returned or
thrown, and takes every connection and everything queued with it. If the loop still
runs, the pool still refers to a connection, or a stopper is about to call the slot,
what follows is undefined, and the behaviour ends there (`Dangling`).
*Left out*: `m_rpc_count`, which nothing in the library reads; cookies (`InProcess`,
`Sessions`); pause and resume; spurious wakeups of `m_shutdown_notification`.
*Environment*: the memory of a connection is not reused while something refers to
it; accepting fails only where `AcceptOutcomes` says so.

**ServiceClientFactory** models one client thread with its invoker, of either
kind, the factories it builds on it and their stubs. Construction is two rpcs
(`hello`, `list_services`), `subscribe_service` is two (`rpc_subscribe_service`,
`list_methods`), `unsubscribe_service` and a call are one; an rpc is sent,
dispatched and answered in separate steps, between which the gate may close, the
back end may disconnect the client, or a TCP connection may be lost. An answer
that is lost reads as success with every field at its default. The back end is
an instance of `Sessions` with this one client; what `Verdict` says of the stub's
request decides whether it is posted. A stub is what the code keeps: its service
ordinal (`None` while uninitialised: it then reads as any value), its method
map, its flag. Any generated stub type may be used for any service, as the
template argument allows. `posted` and `failed` are history: what the request in
the back end was meant to be, and which subscriptions have thrown.
*Left out*: the client's buffer and framing; a stub that the client asks for
service 0 itself, through which it could subscribe behind the factory's back.

**Registry** models the services of one back end: `register_and_init_service`
with each of its outcomes, the sealing by `start()`, and the teardown loop,
one pass a step. A shutdown does not seal: a back end that was shut down without
having been started can still be registered with and started, and the model does. `m_ec` is the one error code that all services share; a
service's `init` and `teardown` clear it, leave it (the generated skeleton does)
or set it.

**Sessions** models what `BackEnd::invoke` checks, in its order and with the
16-bit conversion of the ordinals, what the basic protocol does to the session,
and `disconnect`. A request is checked in one step and dispatched in a later one;
other clients' steps come in between. Clients are addresses, and addresses are
reused.

**OidContainer, OidTable, OidMap.** The container's operations are functions of
its value; `OidTable` is one container under any sequence of them. `OidMap`
is what it promises.

In all modules an operator that stands just before another one and breaks a rule
of it is a mutant (`RequestNotCounted` before `CountRpc`): no specification
uses it. `PROJECT.json` says which property fails when the one replaces
the other.

## 3. Runs

| Run | Instance | Shows |
|---|---|---|
| `in_process_safety` | 3 clients, 2 pool threads, 2 stoppers, 2 services; calls and disconnections go on during the shutdown | `TypeOK`, `CountMatches`, `DispatchSafe`, `InvokerOutlivesCallbacks`, `RpcFlagAssertions`, `ClientsManaged`, `NoCookieLeftBehind`, `OneDriver`, `TeardownAfterManagers` |
| `in_process_liveness` | 2 clients, 2 pool threads, 1 stopper, fair | every call returns and every shutdown ends, or meets the lock cycle or an invoker under construction |
| `in_process_gate` | 2 clients, one with shared `ClientData`, spurious wakeups, late registrations and destructions | the system implements `RpcGate` |
| `oid_table` | 3 ordinals, names with two spellings, one too long | index and vector agree, answers are exact, slices are faithful, `OidMap` is implemented |
| `registry` | 3 ordinals stand for 2^16, every effect of init and teardown | contiguous and stable ordinals, errors blamed on who raised them, complete teardown, before and after a shutdown; nothing registered after an init error |
| `sessions` | 2 addresses, 2 user services | dispatch only for established and subscribed clients, agreement on subscriptions, no cookie left behind, truthful answers |
| `tcp_front_end` | 2 connections, 1 pool thread, the owner, 1 stopper, fair | one activity per connection, while the front end exists connections in use are never erased, the system implements `RpcGate`, requests are answered and disconnections end, or meet one of the named cycles |
| `factory` | 2 factories over 1 invoker of either kind, 2 user services, 3 stub types | a call reaches the method it names on the service it was subscribed to, or none; stubs and back end agree on subscriptions while the client is connected |

Four runs end in a violation; each states what the repository says of itself.

| Run | Property | What the code does |
|---|---|---|
| `in_process_lock_order` | `ShutdownEnds` | A client has locked its invoker and goes on to the back end's mutex, which the stopper holds while its slot call waits for the invoker. The loop needs no late call: the client entered `invoke()` before the shutdown and was slow. |
| `tcp_stop` | `NoClientLeft` | A connection that is active when the shutdown handler runs is left to the next request of its peer. A dispatched one has no operation outstanding, so the event loop may stop, and the front end leaves the back end with the client still connected. |
| `tcp_framing` | `BodyFits` | The buffer is resized when the message is smaller than it. A short request and a short answer, then a longer request: its body is longer than the buffer. |
| `factory_rejected` | `MarkedIsSubscribed` | A rejected subscription is answered without its required error field; the client reads the first value, success, and its stub says `is_subscribed()`. |

More disagreements show when a passing run's instance is widened, or a
property's exception is taken out; the properties state where they hold:

- with `SpuriousWakeups = TRUE` in `InProcessSafety.cfg`, `RpcFlagAssertions`
  fails: `wait_for_notification` does not test `ready` again after `cond.wait`, a
  call returns while its rpc runs and the next `reset()` asserts. So does
  `NoCookieLeftBehind`: the client disconnects after the early return, and its
  subscription, dispatched later, creates a cookie that nothing will delete;
- with `"register"` among its `LateOps`, `ClientsManaged` fails: an invoker
  registers between `manager_count()` and the assertion on the connected clients;
- with `"destroy"` among them, `InvokerOutlivesCallbacks` fails: the destructor
  reads `m_connected` without a lock (`InProcessInvoker.h:70`), finds that the slot
  has cleared it, and returns while the slot is still running. The run's property
  is about the pool, and about slots racing the client's own disconnection;
- with a client in `Shared`, `InvokerOutlivesCallbacks` fails: the destructor
  (`InProcessInvoker.h:68`) leaves the slot of a freed invoker in the signal;
- a slot call that comes between the registration and the assignment of
  `m_sig_connection` (`InProcessInvoker.h:58`, `TcpFrontEnd.cc:223`) dereferences a
  null pointer. The liveness properties allow for it (`NullSlot`, `SlotFindsNull`);
- without `front # "gone"`, `UsedConnectionsLive` fails: in the state that `tcp_stop`
  ends in, the destructor (`TcpFrontEnd.cc:230`) frees a connection whose request is
  in the pool. A header completion that is queued behind the shutdown handler may
  find its connection freed too, and `InUse` leaves it out;
- without its exception for collisions, `SealedWithoutHoles` of `Registry` fails:
  a refused registration has grown the container, and `start()` asserts;
- without its exception for shutdowns that have thrown, `ErrorsHaveCulprits` fails:
  `m_ec` keeps the error, and a service that registers next is blamed for it.

**Bounds.** Two pool threads are enough for handlers to run side by side and for
one to finish while another starts; the third client makes a queue longer than
the pool. Two stoppers give the race for the shutdown; a third would return
like the second. Two services give one that may fail and the one that may not.
The sets are otherwise unbounded in the code only by memory, and the properties
compare at most two clients, two workers or two stoppers at a time. In
`OidTable` and `Registry` the last ordinal is 2, so that the vector's growth, the
wrap of the 16-bit counter and a full container happen; two spellings of one
name show the folding. In `Sessions` two addresses are needed for interleaving
and one is enough for reuse; ordinals 0..3 cover both user services, one
service too many, the four protocol methods that differ (`list_methods` has no
effect, like `list_services`) and methods a user service lacks. Symmetry is used
in safety runs only, over sets that no definition tells apart.

The ordinals of `sessions` stay below the 16-bit width (8 in the model), as those
of the generated stubs do. `BackEnd::invoke` compares the 32-bit ordinals with 0
and converts them to look the service up; with ordinals at or above the width,
`EstablishedOnce` does not hold.

`Sessions` leaves out services whose `subscribe` creates a cookie and then
rejects (`WellBehaved`): the second attempt of such a client runs into the
assertion of `create_cookie`, which is what `CookieDataOwned` rules out for the
others.

In `TcpFrontEnd` two connections are needed for one to be erased while another is
in use, and for requests to queue behind the one pool thread; one owner and one
stopper give every pair of callers of `disconnect_from_backend`. Accepting
succeeds in the run; with `AcceptOutcomes = {TRUE, FALSE}` the same properties hold
(306,506 states instead of 164,043). Message sizes
matter to `BodyFits` only, and its run has a short and a long one. In
`ServiceClientFactory` the second factory is there for the second `hello`, the
second service for calls that might go astray; the three stub types match their
service, have a method more, and a method fewer. `ordinal_type` has six values,
one more than the largest dispatch table: the least width at which an unmapped
ordinal is out of range.

`Stuck` in `TcpFrontEnd` names the states in which threads wait for each other for
ever, and they are part of what the run shows: the event loop waits for the
back end's mutex, held by a stopper whose slot call waits for the event loop
(`LoopCycle`); the owner's `stop()` and a slot call hold one mutex each
(`LockCycle`); the shutdown handler is posted to a loop that nobody runs
(`NobodyRuns`); or the program has ended (`~Alive`). `Stuck` in `InProcess` is the
lock cycle and the null slot. The liveness properties say that there are no others.

**Deadlock.** `CHECK_DEADLOCK FALSE` is set where the system may stop: after a
shutdown, after a failed teardown, in the lock cycles, and where an assertion, an
exception, a null pointer or a destructor that frees what is in use ends the program. `OidTable`, `Sessions` and `ServiceClientFactory`
never stop, and are checked for it.

**Fairness** (`InProcess!Fairness`). Weak fairness of a call under way, of a
handler's steps and of a shutdown that has begun: threads are scheduled, mutexes
are handed over, services return. Strong fairness of running a posted handler:
asio's queue is first in, first out, so a handler that waits is taken although
each worker is at times busy. No fairness of starting, calling, disconnecting or
initiating a shutdown: nobody is obliged to. `TcpFrontEnd!Fairness` is the same
for pool and stoppers; the event loop is one more thread (weak fairness of its
steps), and a `disconnect_from_backend` that the owner has begun goes on. Peers
owe nothing: no operation on a socket need complete, and the properties hold all
the same, because `disconnect_from_backend` gives up after five polls.

## 4. Proofs

### The count, the calls and the gate

`InProcessProofs` proves for every set of clients (finite), workers and
stoppers, every number of services, whatever callers do late, with and without
spurious wakeups:

- `TypeCorrect`: `Spec => []TypeOK`;
- `CountExact`: `Spec => []CountMatches`.

They are proved together, because neither stands alone: that
`m_active_rpc_count` stays a natural number is not a matter of types (it is
decremented without a test) but follows from its counting something, and
`CountMatches` needs the types. The inductive invariant is

    CountInv == TypeOK /\ CountMatches /\ JobTyped /\ OnePlace

`OnePlace` says that a request is in one place at a time (being checked, queued,
or with one worker) and that its client is marked active as long as it is:
without it, a step that removes a client from one place could leave it counted
in another. `m_rpc_active` is the only thing that keeps a client whose wait
ended early from a second request: `reset()`'s assertion is part of the argument
(`InvokeLocks`). The cardinality steps rest on `CountGrows` and `CountShrinks`;
the shape lemmas carry the types that no step can break; one lemma per kind of
thread shows that each of its actions adds one client to the counted ones, takes
one away or leaves them alone, as the counter does.

`InProcessShutdownProofs` adds, on top of `CountInv`:

- `SingleDriver`: `Spec => []OneDriver`, with no further assumption. `DriverInv`
  adds that an active back end has no driver (`Undisturbed`), which is why the
  one that finds it active is the first;
- `RpcFlagsRight`: `Spec => []RpcFlagAssertions`, if waits do not wake spuriously
  (`~SpuriousWakeups`; section 3 says how it fails otherwise);
- `DispatchIsSafe`: `Spec => []DispatchSafe`, under the same assumption and
  `NoLateOpening`: nobody starts or resumes the back end during a shutdown.

Two more invariants carry them. `DrainInv` follows the shutdown: from the moment
a stopper has closed the gate it stays closed (this is where `NoLateOpening` is
used), from the moment it has read a count of zero the count stays zero (it can
only grow through the open gate), and nothing is torn down, stopped or released
before that. `CallInv` follows the calls: while the queue or a pool thread refers
to an invoker its client is in `posted` or `blocked` and not notified, so it can
neither leave `invoke()`, nor be disconnected, nor begin another request, and
there is one reference at a time. A counted request means a count that is not
zero (`CountMatches`), hence nothing taken away (`DrainInv`) and a client inside
`invoke()` (`CallInv`), hence connected.

`InProcessShutdownProofs` also proves the refinement:

- `GateRefined`: `Spec => ImplementsGate`, assuming `NoLateOpening` only. The
  initial states map to `GateInit`; the owner's steps are `Toggle`, `Shut` or a
  stutter; client and pool threads admit, complete or stutter (`ClientAdmits`,
  `WorkerCompletes`); the driver's steps are `BeginDraining`, `Shut`, `Drained`,
  `Close` or stutters. `StateOfStage` ties `m_shutdown_state` to the driver's
  stage, so that the phase is a function of it (`Phases`); `Drained` needs
  `StaysClosed` and, for `inflight = {}`, `CountMatches`.

### The links of an invoker, and its cookies

`InProcessShutdownProofs` goes on to what a shutdown and the clients' own
disconnections do to each other:

- `TeardownWaitsForManagers` (`TeardownAfterManagers`) and `AssertionHolds`
  (`ClientsManaged`), if nobody registers a manager during a shutdown
  (`NoLateRegister`);
- `InvokersOutliveCallbacks` (`InvokerOutlivesCallbacks`), if no invoker is
  destroyed during a shutdown (`NoLateDestroy`), no `ClientData` is shared
  (`NoSharing`) and waits do not wake spuriously;
- `CookiesLeaveWithClient` (`NoCookieLeftBehind`), under `NoLateOpening` and without
  spurious wakeups: the dispatch may create a cookie, so it matters that its client is
  still connected, which `DispatchIsSafe`'s invariants give.

The run `in_process_safety` satisfies all of these conditions. `LinkInv`, which needs
none of them, ties the three records of one fact together: the invoker's own
`m_connected`, the back end's set of clients and the slot of the signal. A slot
without a connected invoker is one that its client or the running slot call is just
taking away. So when no slot is left (`NoManagerLeft`) no client is. For cookies,
`CookieInv` adds that `BackEnd::disconnect` deletes them as long as the back end is
sealed and the io_service has not stopped, that there are none before the back end
is sealed, and that the io_service stops only after the notification, when the last
client has gone.

### Sessions

`SessionsProofs`, for every set of addresses, any number of services and methods and
every width of `ordinal_type`:

- `SessionsTyped`, `DispatchesAuthorised`, `CookiesGoWithClient`,
  `ViewsOfSubscriptionAgree`, `AnswersStayTrue`: the invariants of the same meaning
  of the run `sessions`, with no further assumption;
- `HelloOnlyOnce` (`EstablishedOnce`), if requests name ordinals that fit
  (`RequestsFit`): `invoke` recognises `hello` by the ordinals as they came, the
  dispatch after cutting them to 16 bits;
- `CookieDataHasOwner` (`CookieDataOwned`), if no service creates a cookie for a
  subscription that it rejects (`RejectsBare`);
- `SessionsIndependent`: an action property; a step changes the session of one
  client only.

The last one carries the others. `SessionsInv` is a conjunction over clients,
each conjunct about one client (`SessionInv(c)`); `StepKeepsOthers` shows that a step
of one client keeps it for all the others (`SessionKept`), so each action is only
looked at for its own client. `DispatchAuthorised` is the property that a time of
check and a time of use far apart could break: it holds because nobody but the
client itself can undo what was checked of its request, and the client waits.

### Containers and the registry

`OidContainerProofs` has what each operation does to a container in order, `Sound(c)`:
the index links exactly the initialized entries, all of them within the vector, no
two under one name. `SlicingPopulate` is a recursive function; the induction over
its loop is `SetInduction`, the principle in its set form (a subset of Nat with 0 and
successors is Nat), which follows from the well-foundedness of `<` and needs no
operator as a parameter. On it rest

- `OidTableProofs`: `TableTyped`, `IndexInOrder`, `SlicesFaithful`, `ResponsesExact`
  and the refinement `TableImplementsMap` (`Spec => ImplementsMap`), with
  `TableInv` (both containers are sound);
- `RegistryProofs`: `RegistryTyped`, `NoGaps`, `SealedContainerFull`, `ErrorsAreOwn`,
  `TeardownComplete`, and the action properties `ServicesKept` and
  `InitErrorIsFinal`, for every width of the counter. `RegistryInv` says that the
  services fill the ordinals up to some `top`, and that the counter offers the next
  one or one that is taken (after an init error, or once it has wrapped): a
  registration collides or extends the interval. For the shared error code it
  says where a left-over can be: only with a failed init, after which nothing
  is registered, before service 0's teardown, which clears it, and after a shutdown
  that has thrown. `ErrorsHaveCulprits` and `AllTornDown` are action properties: each
  speaks of the step that throws, or ends the loop.

### The TCP front end

`TcpFrontEndProofs`, for every set of connections (finite), pool threads and
stoppers, every size of messages, whatever peers and the acceptor do:

- `TcpTyped` (`TcpTypeOK`) and `ActivitiesExclusive` (`OneActivity`), with no
  assumption on what callers do late;
- `ConnectionsOutliveUse` (`UsedConnectionsLive`, which speaks of the time before the
  destructor, the one step that takes connections in use away) and the refinement `TcpGateRefined`
  (`Spec => TcpImplementsGate`), if nobody starts a back end that shuts down
  (`NoLateStart`).

`TcpInv` consists of the shape of the variables, `ConnInv` and the exact count. For
each connection, `ConnOK` says that at most one of four things is the case (an operation
on its socket, one completion in the queue, the request in the event loop, one
reference in the pool), that `io_state` names it, and who keeps the connection alive
meanwhile: `m_connections`, except for a completed header after the shutdown
handler. This is why `shutdown_handler` can read `io_state` without a lock: a
connection it finds INACTIVE has no request anywhere. Lemmas about the queue
(`AppendQueue`, `TailQueue`, `ConcatQueue`, `AbortedQueue`) say who is in it after each
change; `ConnKept` and `OneConnMoves` reduce a step to the connection it is about.
`KindsOfStep` sorts the steps by what they do to the gate: nothing but admit or
complete a request, start, shut down, or end a shutdown with the front end's
exception; the count, the drain (`DrainInv`) and the refinement all follow from it.
The exception is a `Close` of the abstract gate.

### The client's factory and stubs

`ServiceClientFactoryProofs`, for every set of factories, any services and dispatch
tables, any stub types and every width of `ordinal_type` that holds them:

- `FactoryTyped` (`FactoryTypeOK`) and `CallsReachNamedMethod`
  (`CallsReachTheirMethod`), whatever services reject, connections are lost and
  subscriptions fail half-way;
- `StubsAndBackEndAgree` (`ViewsAgree`) and `MarkedStubsAreSubscribed`
  (`MarkedIsSubscribed`), if no service rejects a subscription (`NoneRejects`). The
  second is the property that the run `factory_rejected` violates: the rejection,
  whose answer the client reads as success, is the only cause;
- `BackEndIsSessions`: `Spec => Server!Spec`. What the client's side does to the back
  end is a behaviour of `Sessions` with one client, and `FactoryAssumption` implies the
  assumption of that module, so what `SessionsProofs` proves holds below the factory.

`FactoryAssumption` says that the names of services, and of the methods of one
service, are distinct. The code keeps both in an `OidContainer`, where
`IndexInOrder` proves it.

`FactoryInv` has three parts besides types. `StubInv`: a method for which a stub has an
ordinal is the service's method of that name, and the stub then has the service's
ordinal; every other method is `Unmapped`, which lies outside every dispatch table, so
that the back end refuses the call. That is all that protects the caller, since the
test for a missing method in `subscribe_service` never succeeds. `PostedInv`: the request
in the pool is the one of the rpc it was posted for. It speaks of `posted`, not of the
operation under way, because a client whose TCP connection is lost goes on to other
operations while its old request is still being dispatched. `OperationInv`: what each
rpc of an operation may rely on.

The agreement holds on a connected client only, and needs two more invariants.
`LinkInv`: the request in the pool is the one that the client waits for, and at most
one factory has got past its `hello`, because the back end establishes a client
once; a second factory with stubs of its own could unsubscribe the first. `AgreeInv` is
`ViewsAgree` with the time between an answer and its receipt spelled out: an
unsubscription that has succeeded and has not reached the stub, a subscription
whose stub is not marked yet.

### Only model-checked

- All liveness (`ShutdownEndsOrCycles`, `CallsReturn`, `DisconnectEndsOrStuck`,
  `RequestsAnswered`): temporal properties under fairness are out of the
  prover's reach.
- The four runs that end in a counterexample, which need no proof.

Every invariant that carries a proof was checked by TLC on an instance first.

## 5. Plan

The components of section 1 are modelled, and every safety property that a passing run
checks is proved. What of the drain and of the single driver `InProcess` and
`TcpFrontEnd` have in common is proved twice; it could be stated about `BackEnd` alone.

## 6. Not modelled

The text the code generator writes; payloads and wording of exceptions; logging;
the front end's `m_rpc_count`; the TCP invoker's framing; the legacy headers
`TcpServer.h`, `tcp_client_connection.h` and `client_rpc_common.h`, which
nothing in the build includes; nested rpcs
made from a pool thread; `BackEnd::invoke` called on an invoker without its own
`invoke()`, as some tests do.
