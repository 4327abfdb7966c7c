------------------------ MODULE ServiceClientFactory ------------------------
(***************************************************************************)
(* The client side: an invoker, the ServiceClientFactory objects built on  *)
(* it, and the stubs they hand out.  One thread uses them, one operation   *)
(* at a time; an operation is one or two rpcs, and between and during them *)
(* the back end may stop or start accepting, disconnect the client, or the *)
(* TCP connection may be lost.  The back end is the one of Sessions, with  *)
(* this client.                                                            *)
(*                                                                         *)
(* An InProcessInvoker that is disconnected throws.  A TcpInvoker that     *)
(* cannot write or read prints, and returns with the response cleared: to  *)
(* the stub that is REQUEST_SUCCESS with an empty answer.                  *)
(*                                                                         *)
(* Calls that a factory answers without an rpc (an unknown name, a second  *)
(* subscription, get_service) change nothing and are no actions.           *)
(***************************************************************************)
EXTENDS Integers, SequencesExt

CONSTANTS
  Client,            \* the client's ClientData
  Factories,
  Invokers,          \* the invokers to choose from: "in_process", "tcp"
  ServiceNames,      \* names by ordinal + 1, service 0 first
  DispatchTables,    \* per user service: its method names by ordinal + 1
  StubTypes,         \* method names of the generated stubs, any of which may be
                     \* the template argument of subscribe_service
  NumServices, UserMethods, OrdinalWidth, RequestOrdinals, SubscribeEffects,
  None

UserNames == {ServiceNames[i] : i \in 2..Len(ServiceNames)}

MethodNames == UNION StubTypes

\* The names of services, and of the methods of one service, are distinct: each is
\* the name of one entry of an OidContainer.  The last value of ordinal_type, -1, is
\* no ordinal of a method.
ASSUME FactoryAssumption ==
  /\ Invokers \subseteq {"in_process", "tcp"}
  /\ NumServices \in Nat \ {0} /\ UserMethods \in Nat /\ OrdinalWidth \in Nat
  /\ NumServices <= OrdinalWidth /\ UserMethods < OrdinalWidth /\ 5 < OrdinalWidth
  /\ RequestOrdinals = 0..(OrdinalWidth - 1)
  /\ SubscribeEffects \subseteq {"accept", "accept_cookie", "reject", "reject_cookie"}
  /\ ServiceNames \in Seq(STRING) /\ IsInjective(ServiceNames)
  /\ Len(ServiceNames) = NumServices
  /\ DispatchTables \in [UserNames -> Seq(STRING)]
  /\ \A n \in UserNames :
       IsInjective(DispatchTables[n]) /\ Len(DispatchTables[n]) = UserMethods

VARIABLES
  connected, m_client_established, m_should_disconect, cookies, m_subscribed,
  m_cookie_base, served, pending, answer

\* The back end's side, of Sessions.
server_vars == <<connected, m_client_established, m_should_disconect, cookies,
                 m_subscribed, m_cookie_base, served, pending, answer>>

Server == INSTANCE Sessions WITH Addresses <- {Client}

VARIABLES
  invoker,       \* the kind of invoker, None before it is made
  link,          \* it is connected, as far as the client can tell
  accepting,     \* the back end accepts requests
  op,            \* the operation under way
  step,          \* the rpc of the operation that is under way
  reply,         \* None before the rpc is sent, then Awaited, then its answer
  posted,        \* operation and rpc of the request the back end has accepted
  m_services,    \* per factory: the services it lists, None if not constructed
  m_stubs,       \* per factory and service: the stub, None before
  failed         \* services whose last subscribe_service threw after its rpc began

client_vars == <<op, step, reply, m_services, m_stubs, failed>>
vars == <<server_vars, invoker, link, accepting, posted, client_vars>>

PositionOf(seq, x) == SelectInSeq(seq, LAMBDA y : y = x)

Ordinal(name) == PositionOf(ServiceNames, name) - 1

Steps == {"hello", "list_services", "subscribe", "list_methods", "unsubscribe", "call"}

Operations ==
  [f : Factories, name : UserNames \cup {None}, type : StubTypes \cup {None},
   receiver : BOOLEAN, method : MethodNames \cup {None}]

Replies ==
  [error : Server!Errors \cup {"lost", "already", "mismatch"}, result : BOOLEAN]

Answer(error, result) == [error |-> error, result |-> result]

Lost == Answer("lost", FALSE)
Awaited == Answer("awaited", FALSE)

Stubs ==
  UNION {[m_service_ordinal : RequestOrdinals \cup {None},
          m_service_method_map : [type -> RequestOrdinals],
          m_is_subscribed : BOOLEAN] : type \in StubTypes}

Posts == [step : Steps, op : Operations]

\* None stands for what is not there.
ASSUME FactoryNoneAssumption ==
  /\ None \notin Invokers /\ None \notin RequestOrdinals /\ None \notin Stubs
  /\ None \notin Replies \cup {Awaited} \cup Posts
  /\ None \notin Server!Requests \cup Server!Answers

FactoryTypeOK ==
  /\ Server!SessionsTypeOK
  /\ invoker \in Invokers \cup {None}
  /\ link \in BOOLEAN /\ (link => Client \in connected)
  /\ accepting \in BOOLEAN
  /\ op \in Operations \cup {None}
  /\ step \in Steps \cup {"idle", "terminated"}
  /\ reply \in Replies \cup {None, Awaited}
  /\ posted \in Posts \cup {None}
  /\ \A f \in Factories :
       /\ m_services[f] = None \/ m_services[f] \subseteq UserNames
       /\ \A n \in UserNames : m_stubs[f][n] \in Stubs \cup {None}
  /\ failed \subseteq UserNames

Init ==
  /\ Server!Init
  /\ invoker = None
  /\ link = FALSE
  /\ accepting = TRUE
  /\ op = None
  /\ step = "idle"
  /\ reply = None
  /\ posted = None
  /\ m_services = [f \in Factories |-> None]
  /\ m_stubs = [f \in Factories |-> [n \in UserNames |-> None]]
  /\ failed = {}

-----------------------------------------------------------------------------
\* The constructors of the invokers; a TcpInvoker that cannot connect throws.
CreateInvoker(kind) ==
  /\ invoker = None
  /\ invoker' = kind
  /\ link' = TRUE
  /\ Server!Connect(Client)
  /\ UNCHANGED <<accepting, posted, client_vars>>

\* The back end disconnects the client between two of its rpcs: in its shutdown,
\* when the invoker goes, or because its front end has seen the connection fail.
BackEndDisconnects ==
  /\ Server!Disconnect(Client)
  /\ link' = FALSE
  /\ UNCHANGED <<invoker, accepting, posted, client_vars>>

\* The connection is lost, at any time, and stays lost.
ConnectionLost ==
  /\ invoker = "tcp" /\ link
  /\ link' = FALSE
  /\ UNCHANGED <<server_vars, invoker, accepting, posted, client_vars>>

\* start_accepting, stop_accepting, and shutdown's closing of the gate.
GateMoves ==
  /\ accepting' = ~accepting
  /\ UNCHANGED <<server_vars, invoker, link, posted, client_vars>>

-----------------------------------------------------------------------------
\* The method ordinals of a new stub, -1 in 16 bits.
UnmappedIsZero == 0
UnmappedOverflows == OrdinalWidth
Unmapped == OrdinalWidth - 1

\* The constructor of a stub; it leaves m_service_ordinal uninitialised.
NewStub(type) ==
  [m_service_ordinal    |-> None,
   m_service_method_map |-> [m \in type |-> Unmapped],
   m_is_subscribed      |-> FALSE]

Marked(f, n) == m_stubs[f][n] # None /\ m_stubs[f][n].m_is_subscribed

\* Operations of the client, up to their first rpc.
Begin(f, n, type, receiver, method, first) ==
  /\ invoker # None
  /\ step = "idle"
  /\ step' = first
  /\ op' = [f |-> f, name |-> n, type |-> type, receiver |-> receiver, method |-> method]
  /\ UNCHANGED <<server_vars, invoker, link, accepting, posted, reply,
                 m_services, m_stubs, failed>>

\* The constructor of a factory; its invoker is_useable once the back end has
\* started, and a TcpInvoker for ever.
Construct(f) ==
  /\ m_services[f] = None
  /\ Begin(f, None, None, FALSE, None, "hello")

Subscribe(f, n, type, receiver) ==
  /\ m_services[f] # None /\ n \in m_services[f]
  /\ m_stubs[f][n] = None
  /\ Begin(f, n, type, receiver, None, "subscribe")

Unsubscribe(f, n) ==
  /\ m_stubs[f][n] # None
  /\ Begin(f, n, None, FALSE, None, "unsubscribe")

\* A call through a stub, which the client has from subscribe_service or, if
\* that threw, from get_service.
Call(f, n, m) ==
  /\ m_stubs[f][n] # None
  /\ m \in DOMAIN m_stubs[f][n].m_service_method_map
  /\ Begin(f, n, None, FALSE, m, "call")

-----------------------------------------------------------------------------
\* The rpc of a stub: its request, and what invoke makes of it.

MethodOrdinal ==
  [hello |-> Server!hello, list_services |-> Server!list_services,
   subscribe |-> Server!rpc_subscribe_service,
   unsubscribe |-> Server!rpc_unsubscribe_service,
   list_methods |-> Server!list_methods]

\* An ordinal that is not initialised reads as any.
Requests ==
  IF step = "call"
  THEN LET stub == m_stubs[op.f][op.name]
       IN  [service : IF stub.m_service_ordinal = None THEN RequestOrdinals
                                                       ELSE {stub.m_service_ordinal},
            method  : {stub.m_service_method_map[op.method]}]
  ELSE {[service |-> 0, method |-> MethodOrdinal[step]]}

Sending == step \in Steps /\ reply = None

Ended == op' = None /\ step' = "idle" /\ reply' = None

\* An exception leaves the operation, and what it has done stays done.
Throws ==
  /\ Ended
  /\ failed' = IF step \in {"subscribe", "list_methods"} THEN failed \cup {op.name} ELSE failed
  /\ UNCHANGED <<m_services, m_stubs>>

\* InProcessInvoker::invoke, not connected.
InvokerThrows ==
  /\ Sending
  /\ invoker = "in_process" /\ ~link
  /\ Throws
  /\ UNCHANGED <<server_vars, invoker, link, accepting, posted>>

\* TcpInvoker::invoke: the write or a read fails.
InvokerReturnsNothing ==
  /\ Sending \/ reply = Awaited
  /\ invoker = "tcp" /\ ~link
  /\ reply' = Lost
  /\ UNCHANGED <<server_vars, invoker, link, accepting, posted, op, step,
                 m_services, m_stubs, failed>>

\* BackEnd::invoke, the gate closed: the stub throws.
RequestRefused ==
  /\ Sending /\ link
  /\ ~accepting
  /\ Throws
  /\ UNCHANGED <<server_vars, invoker, link, accepting, posted>>

\* A check fails: the stub throws.  A second hello is answered instead.
RequestRejected(r) ==
  /\ accepting
  /\ Server!Verdict(Client, r) # "posted"
  /\ Server!Invoke(Client, r)
  /\ IF Server!Verdict(Client, r) = "ALLREADY_ESTABLISHED"
       THEN /\ reply' = Answer("already", FALSE)
            /\ UNCHANGED <<op, step, m_services, m_stubs, failed>>
       ELSE Throws
  /\ UNCHANGED <<invoker, link, accepting, posted>>

RequestPosted(r) ==
  /\ accepting
  /\ Server!Verdict(Client, r) = "posted"
  /\ Server!Invoke(Client, r)
  /\ posted' = [step |-> step, op |-> op]
  /\ reply' = Awaited
  /\ UNCHANGED <<invoker, link, accepting, op, step, m_services, m_stubs, failed>>

\* The pool dispatches the request; a client that has lost its connection does
\* not get the answer.
Delivered(error, result) ==
  reply' = IF reply = Awaited /\ link THEN Answer(error, result) ELSE reply

Dispatched ==
  /\ \/ \E matches \in BOOLEAN :
          /\ Server!Hello(Client, matches)
          /\ Delivered(IF matches THEN "NO_ERROR" ELSE "mismatch", FALSE)
     \/ /\ posted # None /\ posted.step \in {"list_services", "list_methods", "call"}
        /\ Server!NoEffect(Client)
        /\ Delivered("NO_ERROR", FALSE)
     \/ /\ posted # None /\ posted.step \in {"subscribe", "unsubscribe"}
        /\ Server!SubscriptionRpc(Client, Ordinal(posted.op.name))
        /\ \E result \in BOOLEAN :
             /\ result => posted.step = "subscribe"
             /\ Delivered(answer'[Client].error, result)
  /\ posted' = None
  /\ UNCHANGED <<invoker, link, accepting, op, step, m_services, m_stubs, failed>>

-----------------------------------------------------------------------------
\* What the factory makes of the answers.

Answered(rpc) == step = rpc /\ reply \in Replies

\* An enumeration that is not there reads as its first value: the stub ignores
\* that the answer does not parse.
ErrorRead(r) == IF r.error \in {"lost", "unset"} THEN "NO_ERROR" ELSE r.error

Continue(next) == step' = next /\ reply' = None /\ UNCHANGED op

AnyHello(r) == TRUE
HelloAccepted(r) == ErrorRead(r) = "NO_ERROR"

HelloAnswered ==
  /\ Answered("hello")
  /\ IF HelloAccepted(reply)
       THEN Continue("list_services") /\ UNCHANGED <<m_services, m_stubs, failed>>
       ELSE Throws
  /\ UNCHANGED <<server_vars, invoker, link, accepting, posted>>

ServicesListed ==
  /\ Answered("list_services")
  /\ m_services' = [m_services EXCEPT ![op.f] = IF reply = Lost THEN {} ELSE UserNames]
  /\ Ended
  /\ UNCHANGED <<server_vars, invoker, link, accepting, posted, m_stubs, failed>>

\* A result that the caller gave no message for is an exception.
ServiceSubscribed ==
  /\ Answered("subscribe")
  /\ IF ErrorRead(reply) # "NO_ERROR" \/ (reply.result /\ ~op.receiver)
       THEN Throws
       ELSE /\ m_stubs' = [m_stubs EXCEPT ![op.f][op.name] = NewStub(op.type)]
            /\ Continue("list_methods")
            /\ UNCHANGED <<m_services, failed>>
  /\ UNCHANGED <<server_vars, invoker, link, accepting, posted>>

\* produce_method_list: the dispatch table in the order of its ordinals.
MethodList(n) == DispatchTables[n]

\* The ordinals of the methods listed are set by name; no ordinal is ever equal
\* to -1, so a method that is not listed keeps its own.
Mapped(map, list) ==
  [m \in DOMAIN map |-> IF m \in ToSet(list) THEN PositionOf(list, m) - 1 ELSE map[m]]

MethodsListed ==
  LET stub == m_stubs[op.f][op.name]
      list == IF reply = Lost THEN <<>> ELSE MethodList(op.name)
  IN  /\ Answered("list_methods")
      /\ ToSet(list) \subseteq op.type
      /\ m_stubs' = [m_stubs EXCEPT ![op.f][op.name] =
           [m_service_ordinal    |-> Ordinal(op.name),
            m_service_method_map |-> Mapped(stub.m_service_method_map, list),
            m_is_subscribed      |-> TRUE]]
      /\ failed' = failed \ {op.name}
      /\ Ended
      /\ UNCHANGED <<server_vars, invoker, link, accepting, posted, m_services>>

\* The service lists a method that the stub lacks: the ordinal is written
\* through a null pointer.
StubLacksMethod ==
  /\ Answered("list_methods")
  /\ reply # Lost
  /\ ~(ToSet(MethodList(op.name)) \subseteq op.type)
  /\ step' = "terminated"
  /\ UNCHANGED <<server_vars, invoker, link, accepting, posted, op, reply,
                 m_services, m_stubs, failed>>

\* The stub stays where it is.
ServiceUnsubscribed ==
  /\ Answered("unsubscribe")
  /\ IF ErrorRead(reply) # "NO_ERROR"
       THEN Throws
       ELSE /\ m_stubs' = [m_stubs EXCEPT ![op.f][op.name].m_is_subscribed = FALSE]
            /\ Ended
            /\ UNCHANGED <<m_services, failed>>
  /\ UNCHANGED <<server_vars, invoker, link, accepting, posted>>

CallReturns ==
  /\ Answered("call")
  /\ Ended
  /\ UNCHANGED <<server_vars, invoker, link, accepting, posted, m_services, m_stubs, failed>>

-----------------------------------------------------------------------------
Environment ==
  \/ BackEndDisconnects \/ ConnectionLost \/ GateMoves \/ Dispatched

Operation ==
  \/ \E kind \in Invokers : CreateInvoker(kind)
  \/ \E f \in Factories :
       \/ Construct(f)
       \/ \E n \in UserNames :
            \/ \E type \in StubTypes, receiver \in BOOLEAN : Subscribe(f, n, type, receiver)
            \/ Unsubscribe(f, n)
            \/ \E m \in MethodNames : Call(f, n, m)

Rpc ==
  \/ InvokerThrows \/ InvokerReturnsNothing
  \/ RequestRefused
  \/ /\ Sending /\ link
     /\ \E r \in Requests : RequestRejected(r) \/ RequestPosted(r)

Receipt ==
  \/ HelloAnswered \/ ServicesListed \/ ServiceSubscribed \/ MethodsListed
  \/ StubLacksMethod \/ ServiceUnsubscribed \/ CallReturns

Next == Environment \/ Operation \/ Rpc \/ Receipt

Spec == Init /\ [][Next]_vars

-----------------------------------------------------------------------------
\* A request made through a stub reaches the method of its name on the service
\* the stub was made for, or none: after a subscribe_service that threw half way
\* (an uninitialised service ordinal), with a stub whose methods are other
\* ones than the service's, in another order, or more, and after lost answers.
CallsReachTheirMethod ==
  pending[Client] # None /\ posted.step = "call" =>
    LET s == Server!ToOrdinal(pending[Client].service)
        m == Server!ToOrdinal(pending[Client].method)
    IN  /\ s = Ordinal(posted.op.name)
        /\ DispatchTables[posted.op.name][m + 1] = posted.op.method

\* While the client is connected, the stubs and the back end agree on what it is
\* subscribed to: a stub says so only of a service that is subscribed or
\* just being unsubscribed; and a service is subscribed without a stub that says
\* so only in the course of subscribe_service or after it has thrown.
ViewsAgree ==
  link =>
    \A n \in UserNames :
      LET subscribed == <<Ordinal(n), Client>> \in m_subscribed
          marked == {f \in Factories : Marked(f, n)}
          during(rpcs) == step \in rpcs /\ op.name = n
      IN  /\ marked # {} => subscribed \/ during({"unsubscribe"})
          /\ subscribed /\ marked = {} =>
               n \in failed \/ during({"subscribe", "list_methods", "terminated"})

\* A stub that is_subscribed(), between two operations of a connected client, is
\* subscribed at the back end.
MarkedIsSubscribed ==
  link /\ step = "idle" =>
    \A f \in Factories, n \in UserNames :
      Marked(f, n) => <<Ordinal(n), Client>> \in m_subscribed
=============================================================================
