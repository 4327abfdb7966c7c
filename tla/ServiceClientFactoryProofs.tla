-------------------- MODULE ServiceClientFactoryProofs --------------------
(***************************************************************************)
(* Proofs about ServiceClientFactory, for every set of factories, services *)
(* and stub types, every order of the methods in a dispatch table, every   *)
(* width of ordinal_type, and both invokers.                               *)
(***************************************************************************)
EXTENDS ServiceClientFactory, TLAPS

-----------------------------------------------------------------------------
(***************************************************************************)
(* Names and ordinals.                                                     *)
(***************************************************************************)

\* In a sequence without repetitions, the position found for an element is its own.
LEMMA PositionFound ==
  ASSUME NEW seq \in Seq(STRING), IsInjective(seq), NEW i \in 1..Len(seq)
  PROVE  PositionOf(seq, seq[i]) = i
<1> DEFINE I == {j \in 1..Len(seq) : seq[j] = seq[i]}
<1>1. I = {i}
  BY DEF IsInjective
<1>2. Min({i}) = i
  BY DEF Min
<1>3. PositionOf(seq, seq[i]) = IF I # {} THEN Min(I) ELSE 0
  BY DEF PositionOf, SelectInSeq
<1> QED
  BY <1>1, <1>2, <1>3

\* Converting to ordinal_type keeps what fits.
LEMMA ConversionKeeps ==
  ASSUME NEW k \in Nat, OrdinalWidth \in Nat, k < OrdinalWidth
  PROVE  Server!ToOrdinal(k) = k
BY SMT DEF Server!ToOrdinal

\* The ordinal the client uses for a service is the one the back end gave it; it
\* is an ordinal_type, and not the one of service 0.
LEMMA OrdinalOfName ==
  ASSUME NEW n \in UserNames
  PROVE  /\ Ordinal(n) \in 1..(NumServices - 1)
         /\ Ordinal(n) \in RequestOrdinals
         /\ ServiceNames[Ordinal(n) + 1] = n
         /\ Server!ToOrdinal(Ordinal(n)) = Ordinal(n)
<1>1. PICK i \in 2..Len(ServiceNames) : n = ServiceNames[i]
  BY DEF UserNames
<1>2. PositionOf(ServiceNames, n) = i
  BY <1>1, PositionFound, FactoryAssumption
<1>3. Ordinal(n) = i - 1
  BY <1>2 DEF Ordinal
<1>4. i \in 2..NumServices
  BY FactoryAssumption
<1>5. Server!ToOrdinal(i - 1) = i - 1
  <2>1. i - 1 \in Nat /\ OrdinalWidth \in Nat /\ i - 1 < OrdinalWidth
    BY <1>4, FactoryAssumption
  <2> QED
    BY ConversionKeeps, <2>1
<1> QED
  BY <1>1, <1>3, <1>4, <1>5, FactoryAssumption

\* Two services of different names have different ordinals.
LEMMA OrdinalsDiffer ==
  ASSUME NEW n \in UserNames, NEW k \in UserNames, Ordinal(n) = Ordinal(k)
  PROVE  n = k
BY OrdinalOfName

\* produce_method_list gives the stub's ordinals by name: each is left alone, or
\* becomes the one of the method of its name.
LEMMA MappedByName ==
  ASSUME NEW n \in UserNames, NEW type, NEW map \in [type -> RequestOrdinals],
         NEW list \in {<<>>, MethodList(n)}
  PROVE  /\ Mapped(map, list) \in [type -> RequestOrdinals]
         /\ \A m \in type :
              Mapped(map, list)[m] = map[m] \/ DispatchTables[n][Mapped(map, list)[m] + 1] = m
<1>1. DispatchTables[n] \in Seq(STRING) /\ IsInjective(DispatchTables[n])
      /\ Len(DispatchTables[n]) = UserMethods
  BY FactoryAssumption
<1>2. ASSUME NEW m \in ToSet(list)
      PROVE  /\ PositionOf(list, m) - 1 \in RequestOrdinals
             /\ DispatchTables[n][PositionOf(list, m) - 1 + 1] = m
  <2>1. list = DispatchTables[n]
    BY DEF MethodList, ToSet
  <2>2. PICK i \in 1..Len(list) : m = list[i]
    BY <2>1, <1>1 DEF ToSet
  <2>3. PositionOf(list, m) = i
    BY <2>1, <2>2, <1>1, PositionFound
  <2> QED
    BY <2>1, <2>2, <2>3, <1>1, FactoryAssumption
<1>3. ASSUME NEW m \in type
      PROVE  Mapped(map, list)[m] = IF m \in ToSet(list) THEN PositionOf(list, m) - 1 ELSE map[m]
  BY DEF Mapped
<1>4. DOMAIN Mapped(map, list) = type /\ Mapped(map, list) = [m \in type |-> Mapped(map, list)[m]]
  BY DEF Mapped
<1>5. ASSUME NEW m \in type
      PROVE  /\ Mapped(map, list)[m] \in RequestOrdinals
             /\ Mapped(map, list)[m] = map[m] \/ DispatchTables[n][Mapped(map, list)[m] + 1] = m
  BY <1>2, <1>3
<1> QED
  BY <1>4, <1>5

\* The records that are stubs.
LEMMA StubMade ==
  ASSUME NEW type \in StubTypes, NEW ordinal \in RequestOrdinals \cup {None},
         NEW map \in [type -> RequestOrdinals], NEW marked \in BOOLEAN
  PROVE  [m_service_ordinal |-> ordinal, m_service_method_map |-> map,
          m_is_subscribed |-> marked] \in Stubs
BY DEF Stubs

\* The fields of a stub.
LEMMA StubFields ==
  ASSUME NEW stub \in Stubs
  PROVE  \E type \in StubTypes :
           /\ stub = [m_service_ordinal |-> stub.m_service_ordinal,
                      m_service_method_map |-> stub.m_service_method_map,
                      m_is_subscribed |-> stub.m_is_subscribed]
           /\ stub.m_service_ordinal \in RequestOrdinals \cup {None}
           /\ stub.m_service_method_map \in [type -> RequestOrdinals]
           /\ stub.m_is_subscribed \in BOOLEAN
BY DEF Stubs

\* What unsubscribe_service clears is the mark of a stub, and no more.
LEMMA StubUnmarked ==
  ASSUME NEW stub \in Stubs, NEW unmarked,
         unmarked = [stub EXCEPT !.m_is_subscribed = FALSE]
  PROVE  /\ unmarked \in Stubs
         /\ unmarked.m_service_ordinal = stub.m_service_ordinal
         /\ unmarked.m_service_method_map = stub.m_service_method_map
         /\ ~unmarked.m_is_subscribed
<1>1. PICK type \in StubTypes :
        stub \in [m_service_ordinal : RequestOrdinals \cup {None},
                 m_service_method_map : [type -> RequestOrdinals], m_is_subscribed : BOOLEAN]
  BY DEF Stubs
<1>2. [stub EXCEPT !.m_is_subscribed = FALSE] =
        [x \in DOMAIN stub |-> IF x = "m_is_subscribed" THEN FALSE ELSE stub[x]]
  BY <1>1
<1>3. unmarked = [x \in DOMAIN stub |-> IF x = "m_is_subscribed" THEN FALSE ELSE stub[x]]
  BY <1>2, Zenon
<1>4. DOMAIN stub = {"m_service_ordinal", "m_service_method_map", "m_is_subscribed"}
  BY <1>1
<1>5. unmarked.m_service_ordinal = stub.m_service_ordinal
  BY <1>3, <1>4
<1>6. unmarked.m_service_method_map = stub.m_service_method_map
  BY <1>3, <1>4
<1>7. unmarked.m_is_subscribed = FALSE
  BY <1>3, <1>4
<1>8. unmarked = [m_service_ordinal |-> unmarked.m_service_ordinal,
                  m_service_method_map |-> unmarked.m_service_method_map,
                  m_is_subscribed |-> unmarked.m_is_subscribed]
  BY <1>3, <1>4
<1>9. unmarked \in Stubs
  <2>1. unmarked.m_is_subscribed \in BOOLEAN
    BY <1>7
  <2>2. /\ unmarked.m_service_ordinal \in RequestOrdinals \cup {None}
        /\ unmarked.m_service_method_map \in [type -> RequestOrdinals]
    BY <1>1, <1>5, <1>6
  <2>3. [m_service_ordinal |-> unmarked.m_service_ordinal,
         m_service_method_map |-> unmarked.m_service_method_map,
         m_is_subscribed |-> unmarked.m_is_subscribed] \in Stubs
    BY <2>1, <2>2, StubMade, Zenon
  <2> QED
    BY <1>8, <2>3, Zenon
<1> QED
  BY <1>5, <1>6, <1>7, <1>9

\* -1 in 16 bits is a value of ordinal_type.
LEMMA UnmappedIsOrdinal == Unmapped \in RequestOrdinals
BY FactoryAssumption DEF Unmapped

\* The constructor of a stub makes one.
LEMMA NewStubMade == ASSUME NEW type \in StubTypes PROVE NewStub(type) \in Stubs
<1>1. [m \in type |-> Unmapped] \in [type -> RequestOrdinals]
  BY UnmappedIsOrdinal
<1> QED
  BY <1>1, StubMade DEF NewStub

-----------------------------------------------------------------------------
(***************************************************************************)
(* The inductive invariant.                                                *)
(***************************************************************************)

ClientTypes ==
  /\ op \in Operations \cup {None}
  /\ step \in Steps \cup {"idle", "terminated"}
  /\ reply \in Replies \cup {None, Awaited}
  /\ m_services \in [Factories -> (SUBSET UserNames) \cup {None}]
  /\ m_stubs \in [Factories -> [UserNames -> Stubs \cup {None}]]
  /\ failed \subseteq UserNames

FactoryTypes ==
  /\ Server!SessionsTypeOK
  /\ invoker \in Invokers \cup {None}
  /\ link \in BOOLEAN
  /\ accepting \in BOOLEAN
  /\ posted \in Posts \cup {None}
  /\ ClientTypes

\* Before the invoker is made.
NothingYet ==
  /\ ~link /\ step = "idle" /\ posted = None
  /\ m_client_established = {} /\ m_subscribed = {}
  /\ \A f \in Factories :
       m_services[f] = None /\ \A n \in UserNames : m_stubs[f][n] = None

AboutService == {"subscribe", "list_methods", "unsubscribe", "call"}

\* What is known of the operation at each of its rpcs.
StepInv ==
  /\ step = "idle" => reply = None
  /\ step # "idle" => op \in Operations
  /\ step \in AboutService => op.name \in UserNames
  /\ step \in {"subscribe", "list_methods"} => op.type \in StubTypes
  /\ step \in {"list_methods", "unsubscribe", "call"} => m_stubs[op.f][op.name] # None
  /\ step = "call" => op.method \in DOMAIN m_stubs[op.f][op.name].m_service_method_map

OperationInv ==
  /\ link => Client \in connected
  /\ invoker = None => NothingYet
  /\ StepInv

\* The request that the pool holds is the one of the rpc it was posted for, which
\* the client may have given up since.
PostedInv ==
  /\ posted = None <=> pending[Client] = None
  /\ posted # None /\ posted.step # "call" =>
       pending[Client] = [service |-> 0, method |-> MethodOrdinal[posted.step]]
  /\ posted # None /\ posted.step \in AboutService => posted.op.name \in UserNames
  /\ posted # None /\ posted.step = "call" =>
       /\ Server!ToOrdinal(pending[Client].service) = Ordinal(posted.op.name)
       /\ DispatchTables[posted.op.name][Server!ToOrdinal(pending[Client].method) + 1]
            = posted.op.method

\* A method that a stub has an ordinal for is the service's method of that name,
\* and then the stub has the service's ordinal too.
StubRight(n, stub) ==
  /\ stub.m_service_ordinal \in {None, Ordinal(n)}
  /\ \A m \in DOMAIN stub.m_service_method_map :
       stub.m_service_method_map[m] # Unmapped =>
         /\ stub.m_service_ordinal # None
         /\ DispatchTables[n][stub.m_service_method_map[m] + 1] = m

StubInv ==
  \A f \in Factories, n \in UserNames :
    m_stubs[f][n] # None => StubRight(n, m_stubs[f][n])

-----------------------------------------------------------------------------
(***************************************************************************)
(* What the steps of the back end do for this client.                      *)
(***************************************************************************)

\* BackEnd::invoke keeps the back end's types, and no subscription changes.
LEMMA InvokeKeeps ==
  ASSUME Server!SessionsTypeOK, NEW r \in Server!Requests, Server!Invoke(Client, r)
  PROVE  /\ Server!SessionsTypeOK'
         /\ UNCHANGED <<connected, m_client_established, m_subscribed>>
         /\ pending[Client] = None
         /\ pending'[Client] = IF Server!Verdict(Client, r) = "posted" THEN r ELSE None
<1>1. Server!NamesService(r) => Server!PairOf(Client, r) \in Server!Pairs
  BY DEF Server!NamesService, Server!PairOf, Server!Pairs
<1>2. Server!SessionsTypeOK'
  BY <1>1 DEF Server!SessionsTypeOK, Server!Invoke, Server!CookieCreated
<1> QED
  BY <1>2 DEF Server!SessionsTypeOK, Server!Invoke, Server!Idle

\* So do the dispatch of hello and the dispatches without an effect.
LEMMA PlainDispatchKeeps ==
  ASSUME Server!SessionsTypeOK,
         Server!NoEffect(Client) \/ \E matches \in BOOLEAN : Server!Hello(Client, matches)
  PROVE  /\ Server!SessionsTypeOK'
         /\ UNCHANGED <<connected, m_subscribed>>
         /\ pending'[Client] = None
<1>1. Server!SessionsTypeOK'
  BY DEF Server!SessionsTypeOK, Server!NoEffect, Server!Hello, Server!Dispatches
<1> QED
  BY <1>1 DEF Server!SessionsTypeOK, Server!NoEffect, Server!Hello, Server!Dispatches

\* The constructor of an invoker connects a client that is not established.
LEMMA ConnectKeeps ==
  ASSUME Server!SessionsTypeOK, Server!Connect(Client)
  PROVE  /\ Server!SessionsTypeOK'
         /\ Client \in connected'
         /\ Client \notin m_client_established'
         /\ UNCHANGED <<m_subscribed, pending>>
BY DEF Server!SessionsTypeOK, Server!Connect

\* BackEnd::disconnect, between two rpcs of the client.
LEMMA DisconnectKeeps ==
  ASSUME Server!SessionsTypeOK, Server!Disconnect(Client)
  PROVE  /\ Server!SessionsTypeOK'
         /\ UNCHANGED <<pending, m_client_established>>
         /\ m_subscribed' \subseteq m_subscribed
BY DEF Server!SessionsTypeOK, Server!Disconnect, Server!DestroyAndDelete

\* The dispatch of a subscription rpc about service t: no other subscription
\* changes, and unsubscribe's answer tells whether there was one.
Effects(t, rpc) ==
  /\ \A p : p # <<t, Client>> => (p \in m_subscribed' <=> p \in m_subscribed)
  /\ rpc = Server!rpc_subscribe_service =>
       /\ <<t, Client>> \in m_subscribed => <<t, Client>> \in m_subscribed'
       /\ answer'[Client].error \in {"NO_ERROR", "ALLREADY_SUBSCRIBED"} =>
            <<t, Client>> \in m_subscribed'
       /\ SubscribeEffects \subseteq {"accept", "accept_cookie"} =>
            answer'[Client].error # "unset"
  /\ rpc = Server!rpc_unsubscribe_service =>
       /\ <<t, Client>> \notin m_subscribed'
       /\ answer'[Client].error \in {"NO_ERROR", "NO_SUBSCRIPTION"}
       /\ answer'[Client].error = "NO_SUBSCRIPTION" => <<t, Client>> \notin m_subscribed

\* The subscription rpcs keep the types of the back end and have these effects.
LEMMA SubscriptionKeeps ==
  ASSUME Server!SessionsTypeOK, NEW t \in RequestOrdinals, t < NumServices,
         NEW rpc \in Nat,
         \A m \in Nat : Server!Dispatches(Client, m) => m = rpc,
         Server!SubscriptionRpc(Client, t)
  PROVE  /\ Server!SessionsTypeOK'
         /\ UNCHANGED <<connected, m_client_established>>
         /\ pending'[Client] = None
         /\ answer'[Client].error \in Server!Errors
         /\ Effects(t, rpc)
<1> DEFINE S == Server!rpc_subscribe_service
           U == Server!rpc_unsubscribe_service
<1>0. t \in Nat /\ NumServices \in Nat
  BY FactoryAssumption
<1>1. S = 2 /\ U = 3
  BY DEF Server!rpc_subscribe_service, Server!rpc_unsubscribe_service
<1>2. <<t, Client>> \in Server!Pairs
  BY <1>0, FactoryAssumption DEF Server!Services, Server!Pairs
<1>3. ASSUME NEW m \in {S, U}, NEW error \in Server!Errors, Server!Answered(Client, m, t, error)
      PROVE  /\ answer' \in [{Client} -> Server!Answers \cup {None}]
             /\ answer'[Client].error = error
  BY <1>3 DEF Server!Answered, Server!Answers, Server!SessionsTypeOK
<1>4. ASSUME NEW m, Server!Dispatches(Client, m)
      PROVE  /\ pending' \in [{Client} -> Server!Requests \cup {None}]
             /\ pending'[Client] = None
  BY <1>4 DEF Server!Dispatches, Server!SessionsTypeOK
<1> HIDE DEF S, U
<1>5. ASSUME Server!Dispatches(Client, S) PROVE rpc = S /\ rpc # U
  BY <1>1, <1>5
<1>6. ASSUME Server!Dispatches(Client, U) PROVE rpc = U /\ rpc # S
  BY <1>1, <1>6
<1> DEFINE Goal ==
      /\ Server!SessionsTypeOK'
      /\ UNCHANGED <<connected, m_client_established>>
      /\ pending'[Client] = None
      /\ answer'[Client].error \in Server!Errors
      /\ Effects(t, rpc)
<1>7. ~Server!SubscribeRefused(Client, t) /\ ~Server!UnsubscribeRefused(Client, t)
  BY <1>0 DEF Server!SubscribeRefused, Server!UnsubscribeRefused
<1>8. CASE Server!SubscribedAlready(Client, t)
  <2>1. /\ Server!Dispatches(Client, S)
        /\ <<t, Client>> \in m_subscribed
        /\ Server!Answered(Client, S, t, "ALLREADY_SUBSCRIBED")
        /\ UNCHANGED <<connected, m_client_established, m_should_disconect, cookies,
                       m_subscribed, m_cookie_base, served>>
    BY <1>8 DEF Server!SubscribedAlready, S
  <2>2. "ALLREADY_SUBSCRIBED" \in Server!Errors /\ S \in {S, U}
    BY DEF Server!Errors
  <2>3. answer'[Client].error = "ALLREADY_SUBSCRIBED"
    BY <2>1, <2>2, <1>3
  <2>4. Server!SessionsTypeOK'
    BY <2>1, <2>2, <1>3, <1>4 DEF Server!SessionsTypeOK
  <2>5. Effects(t, rpc)
    BY <2>1, <2>3, <1>5 DEF Effects, S, U
  <2> QED
    BY <2>1, <2>2, <2>3, <2>4, <2>5, <1>4
<1>9. ASSUME NEW effect \in SubscribeEffects, Server!Subscribe(Client, t, effect)
      PROVE  Goal
  <2> DEFINE accepted == effect \in {"accept", "accept_cookie"}
  <2>1. /\ Server!Dispatches(Client, S)
        /\ <<t, Client>> \notin m_subscribed
        /\ cookies' = cookies \cup {<<t, Client>>}
        /\ m_cookie_base' = IF effect \in {"accept_cookie", "reject_cookie"}
                            THEN m_cookie_base \cup {<<t, Client>>} ELSE m_cookie_base
        /\ m_subscribed' = IF accepted THEN m_subscribed \cup {<<t, Client>>} ELSE m_subscribed
        /\ served' = IF accepted THEN served \cup {<<t, Client>>} ELSE served
        /\ Server!Answered(Client, S, t, IF accepted THEN "NO_ERROR" ELSE "unset")
        /\ UNCHANGED <<connected, m_client_established, m_should_disconect>>
    BY <1>9 DEF Server!Subscribe, Server!MarkIfAccepted, S
  <2>2. (IF accepted THEN "NO_ERROR" ELSE "unset") \in Server!Errors /\ S \in {S, U}
    BY DEF Server!Errors
  <2>3. answer'[Client].error = IF accepted THEN "NO_ERROR" ELSE "unset"
    BY <2>1, <2>2, <1>3
  <2>4. Server!SessionsTypeOK'
    BY <2>1, <2>2, <1>2, <1>3, <1>4 DEF Server!SessionsTypeOK
  <2>5. SubscribeEffects \subseteq {"accept", "accept_cookie"} => accepted
    OBVIOUS
  <2>6. Effects(t, rpc)
    BY <2>1, <2>3, <2>5, <1>5 DEF Effects, S, U
  <2> QED
    BY <2>1, <2>2, <2>3, <2>4, <2>6, <1>4
<1>10. CASE Server!NotSubscribed(Client, t)
  <2>1. /\ Server!Dispatches(Client, U)
        /\ <<t, Client>> \notin m_subscribed
        /\ cookies' = cookies \cup {<<t, Client>>}
        /\ Server!Answered(Client, U, t, "NO_SUBSCRIPTION")
        /\ UNCHANGED <<connected, m_client_established, m_should_disconect,
                       m_subscribed, m_cookie_base, served>>
    BY <1>10 DEF Server!NotSubscribed, U
  <2>2. "NO_SUBSCRIPTION" \in Server!Errors /\ U \in {S, U}
    BY DEF Server!Errors
  <2>3. answer'[Client].error = "NO_SUBSCRIPTION"
    BY <2>1, <2>2, <1>3
  <2>4. Server!SessionsTypeOK'
    BY <2>1, <2>2, <1>2, <1>3, <1>4 DEF Server!SessionsTypeOK
  <2>5. Effects(t, rpc)
    BY <2>1, <2>3, <1>6 DEF Effects, S, U
  <2> QED
    BY <2>1, <2>2, <2>3, <2>4, <2>5, <1>4
<1>11. CASE Server!Unsubscribe(Client, t)
  <2>1. /\ Server!Dispatches(Client, U)
        /\ served' = served \ {<<t, Client>>}
        /\ m_cookie_base' = m_cookie_base \ {<<t, Client>>}
        /\ cookies' = cookies \ {<<t, Client>>}
        /\ m_subscribed' = m_subscribed \ {<<t, Client>>}
        /\ Server!Answered(Client, U, t, "NO_ERROR")
        /\ UNCHANGED <<connected, m_client_established, m_should_disconect>>
    BY <1>11 DEF Server!Unsubscribe, Server!DestroyAndDelete, U
  <2>2. "NO_ERROR" \in Server!Errors /\ U \in {S, U}
    BY DEF Server!Errors
  <2>3. answer'[Client].error = "NO_ERROR"
    BY <2>1, <2>2, <1>3
  <2>4. Server!SessionsTypeOK'
    BY <2>1, <2>2, <1>3, <1>4 DEF Server!SessionsTypeOK
  <2>5. Effects(t, rpc)
    BY <2>1, <2>3, <1>6 DEF Effects, S, U
  <2> QED
    BY <2>1, <2>2, <2>3, <2>4, <2>5, <1>4
<1> QED
  BY <1>7, <1>8, <1>9, <1>10, <1>11 DEF Server!SubscriptionRpc

-----------------------------------------------------------------------------
(***************************************************************************)
(* Types.                                                                  *)
(***************************************************************************)

\* The request of a stub names ordinals of ordinal_type.
LEMMA RequestTyped ==
  ASSUME FactoryTypes, OperationInv, step \in Steps, NEW r \in Requests
  PROVE  r \in Server!Requests
<1>1. CASE step = "call"
  <2> DEFINE stub == m_stubs[op.f][op.name]
  <2>1. op \in Operations /\ op.name \in UserNames /\ stub # None
        /\ op.method \in DOMAIN stub.m_service_method_map
    BY <1>1 DEF OperationInv, StepInv, AboutService
  <2>2. op.f \in Factories
    BY <2>1 DEF Operations
  <2>3. stub \in Stubs
    BY <2>1, <2>2 DEF FactoryTypes, ClientTypes
  <2>4. PICK type \in StubTypes : /\ stub.m_service_ordinal \in RequestOrdinals \cup {None}
                                  /\ stub.m_service_method_map \in [type -> RequestOrdinals]
    BY <2>3, StubFields
  <2>5. r.service \in RequestOrdinals /\ r.method \in RequestOrdinals
        /\ r = [service |-> r.service, method |-> r.method]
    BY <1>1, <2>1, <2>4 DEF Requests
  <2> QED
    BY <2>5 DEF Server!Requests
<1>2. CASE step # "call"
  <2>1. r = [service |-> 0, method |-> MethodOrdinal[step]]
    BY <1>2 DEF Requests
  <2>2. MethodOrdinal[step] \in 0..4
    BY <1>2 DEF Steps, MethodOrdinal, Server!hello, Server!list_services,
      Server!rpc_subscribe_service, Server!rpc_unsubscribe_service, Server!list_methods
  <2> QED
    BY <2>1, <2>2, FactoryAssumption DEF Server!Requests
<1> QED
  BY <1>1, <1>2

\* The operation that an exception leaves.
LEMMA ThrowsTypes ==
  ASSUME ClientTypes, OperationInv, Throws
  PROVE  ClientTypes'
<1>1. step \in {"subscribe", "list_methods"} => op.name \in UserNames
  BY DEF OperationInv, StepInv, AboutService
<1>2. op' \in Operations \cup {None} /\ step' \in Steps \cup {"idle", "terminated"}
      /\ reply' \in Replies \cup {None, Awaited}
  BY DEF Throws, Ended
<1>3. failed' \subseteq UserNames
  BY <1>1 DEF Throws, ClientTypes
<1> QED
  BY <1>2, <1>3 DEF Throws, ClientTypes

\* Operations up to their first rpc.
LEMMA BeginTypes ==
  ASSUME ClientTypes, NEW f \in Factories, NEW n \in UserNames \cup {None},
         NEW type \in StubTypes \cup {None}, NEW receiver \in BOOLEAN,
         NEW method \in MethodNames \cup {None}, NEW first \in Steps,
         Begin(f, n, type, receiver, method, first)
  PROVE  ClientTypes'
BY DEF ClientTypes, Begin, Operations

\* The operations of the client, up to their first rpc, keep the types.
LEMMA OperationTypes ==
  ASSUME FactoryTypes, Operation
  PROVE  FactoryTypes'
<1>1. ASSUME NEW kind \in Invokers, CreateInvoker(kind)
      PROVE  FactoryTypes'
  <2>1. Server!SessionsTypeOK'
    BY <1>1, ConnectKeeps DEF CreateInvoker, FactoryTypes
  <2>2. ClientTypes'
    BY <1>1 DEF CreateInvoker, FactoryTypes, ClientTypes, client_vars
  <2> QED
    BY <1>1, <2>1, <2>2 DEF CreateInvoker, FactoryTypes
<1>2. ASSUME NEW f \in Factories, NEW n \in UserNames \cup {None},
             NEW type \in StubTypes \cup {None}, NEW receiver \in BOOLEAN,
             NEW method \in MethodNames \cup {None}, NEW first \in Steps,
             Begin(f, n, type, receiver, method, first)
      PROVE  FactoryTypes'
  <2>1. ClientTypes'
    BY <1>2, BeginTypes DEF FactoryTypes
  <2>2. Server!SessionsTypeOK'
    BY <1>2 DEF Begin, FactoryTypes, Server!SessionsTypeOK, server_vars
  <2> QED
    BY <1>2, <2>1, <2>2 DEF Begin, FactoryTypes
<1>3. {"hello", "subscribe", "unsubscribe", "call"} \subseteq Steps
  BY DEF Steps
<1>4. ASSUME NEW f \in Factories, Construct(f) PROVE FactoryTypes'
  BY <1>2, <1>3, <1>4, Zenon DEF Construct
<1>5. ASSUME NEW f \in Factories, NEW n \in UserNames, NEW type \in StubTypes,
             NEW receiver \in BOOLEAN, Subscribe(f, n, type, receiver)
      PROVE  FactoryTypes'
  BY <1>2, <1>3, <1>5, Zenon DEF Subscribe
<1>6. ASSUME NEW f \in Factories, NEW n \in UserNames, Unsubscribe(f, n) PROVE FactoryTypes'
  BY <1>2, <1>3, <1>6, Zenon DEF Unsubscribe
<1>7. ASSUME NEW f \in Factories, NEW n \in UserNames, NEW m \in MethodNames, Call(f, n, m)
      PROVE  FactoryTypes'
  BY <1>2, <1>3, <1>7, Zenon DEF Call
<1> QED
  BY <1>1, <1>4, <1>5, <1>6, <1>7 DEF Operation

\* The pool dispatches the method of the basic protocol that the rpc is about.
LEMMA PostedMethod ==
  ASSUME PostedInv, FactoryTypes, posted # None, posted.step # "call"
  PROVE  /\ MethodOrdinal[posted.step] \in 0..4
         /\ \A m \in Nat : Server!Dispatches(Client, m) => m = MethodOrdinal[posted.step]
<1>1. posted.step \in Steps \ {"call"}
  BY DEF FactoryTypes, Posts
<1>2. MethodOrdinal[posted.step] \in 0..4
  BY <1>1 DEF Steps, MethodOrdinal, Server!hello, Server!list_services,
    Server!rpc_subscribe_service, Server!rpc_unsubscribe_service, Server!list_methods
<1>3. pending[Client].method = MethodOrdinal[posted.step]
  BY DEF PostedInv
<1>4. Server!ToOrdinal(MethodOrdinal[posted.step]) = MethodOrdinal[posted.step]
  <2>1. PICK k \in 0..4 : k = MethodOrdinal[posted.step]
    BY <1>2
  <2>2. k \in Nat /\ OrdinalWidth \in Nat /\ k < OrdinalWidth
    BY FactoryAssumption
  <2> QED
    BY <2>1, <2>2, ConversionKeeps
<1> QED
  BY <1>2, <1>3, <1>4 DEF Server!Dispatches

\* The subscription rpc that the pool dispatches is about the service of the operation
\* it was posted for.
LEMMA DispatchedSubscription ==
  ASSUME PostedInv, FactoryTypes, posted # None, posted.step \in {"subscribe", "unsubscribe"},
         Server!SubscriptionRpc(Client, Ordinal(posted.op.name))
  PROVE  /\ Server!SessionsTypeOK'
         /\ UNCHANGED <<connected, m_client_established>>
         /\ pending'[Client] = None
         /\ answer'[Client].error \in Server!Errors
         /\ Effects(Ordinal(posted.op.name), MethodOrdinal[posted.step])
<1>1. posted.op.name \in UserNames
  BY DEF PostedInv, AboutService
<1>2. Ordinal(posted.op.name) \in RequestOrdinals /\ Ordinal(posted.op.name) < NumServices
  BY <1>1, OrdinalOfName, FactoryAssumption
<1>3. MethodOrdinal[posted.step] \in Nat
  BY PostedMethod
<1>4. \A m \in Nat : Server!Dispatches(Client, m) => m = MethodOrdinal[posted.step]
  BY PostedMethod
<1>5. Server!SessionsTypeOK
  BY DEF FactoryTypes
<1> QED
  BY <1>2, <1>3, <1>4, <1>5, SubscriptionKeeps

\* The back end, its gate and the connection keep the types.
LEMMA EnvironmentTypes ==
  ASSUME FactoryTypes, PostedInv, Environment
  PROVE  FactoryTypes'
<1>1. CASE BackEndDisconnects
  <2>1. Server!SessionsTypeOK'
    BY <1>1, DisconnectKeeps DEF BackEndDisconnects, FactoryTypes
  <2> QED
    BY <1>1, <2>1 DEF BackEndDisconnects, FactoryTypes, ClientTypes, client_vars
<1>2. CASE ConnectionLost
  <2>1. Server!SessionsTypeOK'
    BY <1>2 DEF ConnectionLost, FactoryTypes, Server!SessionsTypeOK, server_vars
  <2> QED
    BY <1>2, <2>1 DEF ConnectionLost, FactoryTypes, ClientTypes, client_vars
<1>3. CASE GateMoves
  <2>1. Server!SessionsTypeOK'
    BY <1>3 DEF GateMoves, FactoryTypes, Server!SessionsTypeOK, server_vars
  <2> QED
    BY <1>3, <2>1 DEF GateMoves, FactoryTypes, ClientTypes, client_vars
<1>4. CASE Dispatched
  <2>1. ASSUME NEW error \in Server!Errors \cup {"mismatch"}, NEW result \in BOOLEAN,
               Delivered(error, result)
        PROVE  reply' \in Replies \cup {None, Awaited}
    <3>1. Answer(error, result) \in Replies
      BY DEF Answer, Replies
    <3> QED
      BY <2>1, <3>1 DEF Delivered, FactoryTypes, ClientTypes
  <2>2. "NO_ERROR" \in Server!Errors
    BY DEF Server!Errors
  <2>3. Server!SessionsTypeOK' /\ reply' \in Replies \cup {None, Awaited}
    <3>1. ASSUME NEW matches \in BOOLEAN, Server!Hello(Client, matches),
                 Delivered(IF matches THEN "NO_ERROR" ELSE "mismatch", FALSE)
          PROVE  Server!SessionsTypeOK' /\ reply' \in Replies \cup {None, Awaited}
      <4>1. (IF matches THEN "NO_ERROR" ELSE "mismatch") \in Server!Errors \cup {"mismatch"}
        BY <2>2
      <4>2. reply' \in Replies \cup {None, Awaited}
        BY <4>1, <3>1, <2>1, Zenon
      <4> QED
        BY <4>2, <3>1, PlainDispatchKeeps DEF FactoryTypes
    <3>2. ASSUME Server!NoEffect(Client), Delivered("NO_ERROR", FALSE)
          PROVE  Server!SessionsTypeOK' /\ reply' \in Replies \cup {None, Awaited}
      <4>1. reply' \in Replies \cup {None, Awaited}
        BY <2>2, <3>2, <2>1, Zenon
      <4> QED
        BY <4>1, <3>2, PlainDispatchKeeps DEF FactoryTypes
    <3>3. ASSUME posted # None, posted.step \in {"subscribe", "unsubscribe"},
                 Server!SubscriptionRpc(Client, Ordinal(posted.op.name)),
                 NEW result \in BOOLEAN, Delivered(answer'[Client].error, result)
          PROVE  Server!SessionsTypeOK' /\ reply' \in Replies \cup {None, Awaited}
      BY <3>3, DispatchedSubscription, <2>1, Zenon
    <3> QED
      BY <1>4, <3>1, <3>2, <3>3 DEF Dispatched
  <2> QED
    BY <1>4, <2>3 DEF Dispatched, FactoryTypes, ClientTypes
<1> QED
  BY <1>1, <1>2, <1>3, <1>4 DEF Environment

\* The invokers and BackEnd::invoke keep the types.
LEMMA RpcTypes ==
  ASSUME FactoryTypes, OperationInv, Rpc
  PROVE  FactoryTypes'
<1>1. ASSUME Throws, UNCHANGED <<server_vars, invoker, link, accepting, posted>>
      PROVE  FactoryTypes'
  <2>1. ClientTypes'
    BY <1>1, ThrowsTypes DEF FactoryTypes
  <2> QED
    BY <1>1, <2>1 DEF FactoryTypes, Server!SessionsTypeOK, server_vars
<1>2. CASE InvokerReturnsNothing
  <2>1. reply' \in Replies
    BY <1>2 DEF InvokerReturnsNothing, Lost, Answer, Replies
  <2>2. ClientTypes'
    BY <1>2, <2>1 DEF InvokerReturnsNothing, FactoryTypes, ClientTypes
  <2> QED
    BY <1>2, <2>2 DEF InvokerReturnsNothing, FactoryTypes, Server!SessionsTypeOK, server_vars
<1>3. ASSUME Sending, NEW r \in Requests, RequestRejected(r)
      PROVE  FactoryTypes'
  <2>1. Server!SessionsTypeOK'
    BY <1>3, RequestTyped, InvokeKeeps DEF RequestRejected, FactoryTypes, Sending
  <2>2. ClientTypes'
    <3>1. CASE Throws
      BY <3>1, ThrowsTypes DEF FactoryTypes
    <3>2. CASE /\ reply' = Answer("already", FALSE)
             /\ UNCHANGED <<op, step, m_services, m_stubs, failed>>
      <4>1. reply' \in Replies
        BY <3>2 DEF Answer, Replies
      <4> QED
        BY <3>2, <4>1 DEF FactoryTypes, ClientTypes
    <3> QED
      BY <1>3, <3>1, <3>2 DEF RequestRejected
  <2> QED
    BY <1>3, <2>1, <2>2 DEF RequestRejected, FactoryTypes
<1>4. ASSUME Sending, NEW r \in Requests, RequestPosted(r)
      PROVE  FactoryTypes'
  <2>1. Server!SessionsTypeOK'
    BY <1>4, RequestTyped, InvokeKeeps DEF RequestPosted, FactoryTypes, Sending
  <2>2. ClientTypes'
    BY <1>4 DEF RequestPosted, FactoryTypes, ClientTypes
  <2>3. posted' \in Posts
    <3>1. step \in Steps /\ op \in Operations
      BY <1>4 DEF Sending, OperationInv, StepInv, Steps
    <3> QED
      BY <1>4, <3>1 DEF RequestPosted, Posts
  <2> QED
    BY <1>4, <2>1, <2>2, <2>3 DEF RequestPosted, FactoryTypes
<1>5. CASE InvokerThrows
  BY <1>5, <1>1 DEF InvokerThrows
<1>6. CASE RequestRefused
  BY <1>6, <1>1 DEF RequestRefused
<1> QED
  BY <1>2, <1>3, <1>4, <1>5, <1>6 DEF Rpc

\* What the factory makes of an answer to list_methods: a stub whose ordinals are
\* the service's.
LEMMA MethodsListedStub ==
  ASSUME FactoryTypes, OperationInv, MethodsListed
  PROVE  \E stub \in Stubs :
           /\ op.f \in Factories /\ op.name \in UserNames
           /\ m_stubs' = [m_stubs EXCEPT ![op.f][op.name] = stub]
           /\ stub.m_service_ordinal = Ordinal(op.name)
           /\ stub.m_is_subscribed
           /\ \A m \in DOMAIN stub.m_service_method_map :
                DispatchTables[op.name][stub.m_service_method_map[m] + 1] = m
                \/ /\ m \in DOMAIN m_stubs[op.f][op.name].m_service_method_map
                   /\ stub.m_service_method_map[m]
                        = m_stubs[op.f][op.name].m_service_method_map[m]
<1> DEFINE old == m_stubs[op.f][op.name]
           list == IF reply = Lost THEN <<>> ELSE MethodList(op.name)
           map == Mapped(old.m_service_method_map, list)
           new == [m_service_ordinal |-> Ordinal(op.name), m_service_method_map |-> map,
                   m_is_subscribed |-> TRUE]
<1>1. step = "list_methods"
  BY DEF MethodsListed, Answered
<1>2. op \in Operations /\ op.name \in UserNames /\ old # None
  BY <1>1 DEF OperationInv, StepInv, AboutService
<1>3. op.f \in Factories
  BY <1>2 DEF Operations
<1>4. old \in Stubs
  BY <1>2, <1>3 DEF FactoryTypes, ClientTypes
<1>5. PICK type \in StubTypes : old.m_service_method_map \in [type -> RequestOrdinals]
  BY <1>4, StubFields
<1>6. list \in {<<>>, MethodList(op.name)}
  OBVIOUS
<1>7. m_stubs' = [m_stubs EXCEPT ![op.f][op.name] = new]
  BY DEF MethodsListed
<1> HIDE DEF list, old
<1>8. /\ map \in [type -> RequestOrdinals]
      /\ \A m \in type : \/ map[m] = old.m_service_method_map[m]
                         \/ DispatchTables[op.name][map[m] + 1] = m
  BY <1>2, <1>5, <1>6, MappedByName
<1> HIDE DEF map
<1>9. new \in Stubs
  <2>1. Ordinal(op.name) \in RequestOrdinals \cup {None} /\ TRUE \in BOOLEAN
    BY <1>2, OrdinalOfName
  <2> QED
    BY <2>1, <1>8, StubMade, Zenon
<1>10. /\ new.m_service_ordinal = Ordinal(op.name)
       /\ new.m_service_method_map = map
       /\ new.m_is_subscribed
  OBVIOUS
<1> HIDE DEF new
<1>11. \A m \in DOMAIN new.m_service_method_map :
         \/ DispatchTables[op.name][new.m_service_method_map[m] + 1] = m
         \/ /\ m \in DOMAIN old.m_service_method_map
            /\ new.m_service_method_map[m] = old.m_service_method_map[m]
  BY <1>5, <1>8, <1>10
<1> QED
  BY <1>2, <1>3, <1>7, <1>9, <1>10, <1>11 DEF old

\* A stub at one place of the table of stubs.
LEMMA StubPut ==
  ASSUME m_stubs \in [Factories -> [UserNames -> Stubs \cup {None}]],
         NEW f \in Factories, NEW n \in UserNames, NEW stub \in Stubs,
         m_stubs' = [m_stubs EXCEPT ![f][n] = stub]
  PROVE  /\ m_stubs' \in [Factories -> [UserNames -> Stubs \cup {None}]]
         /\ m_stubs'[f][n] = stub
         /\ \A g \in Factories, k \in UserNames :
              <<g, k>> # <<f, n>> => m_stubs'[g][k] = m_stubs[g][k]
OBVIOUS

\* The stub of an operation about a service.
LEMMA OperationStub ==
  ASSUME FactoryTypes, OperationInv, step \in AboutService
  PROVE  /\ op.f \in Factories /\ op.name \in UserNames
         /\ step # "subscribe" => m_stubs[op.f][op.name] \in Stubs
         /\ step \in {"subscribe", "list_methods"} => op.type \in StubTypes
<1>1. op \in Operations /\ op.name \in UserNames
  BY DEF OperationInv, StepInv, AboutService
<1>2. op.f \in Factories
  BY <1>1 DEF Operations
<1> QED
  BY <1>1, <1>2 DEF OperationInv, StepInv, FactoryTypes, ClientTypes, AboutService

\* What the factory makes of an unsubscription: the stub, without its mark.
LEMMA UnsubscribedStub ==
  ASSUME FactoryTypes, OperationInv, step = "unsubscribe",
         m_stubs' = [m_stubs EXCEPT ![op.f][op.name].m_is_subscribed = FALSE]
  PROVE  \E stub \in Stubs :
           /\ op.f \in Factories /\ op.name \in UserNames
           /\ m_stubs' = [m_stubs EXCEPT ![op.f][op.name] = stub]
           /\ m_stubs[op.f][op.name] # None
           /\ stub.m_service_ordinal = m_stubs[op.f][op.name].m_service_ordinal
           /\ stub.m_service_method_map = m_stubs[op.f][op.name].m_service_method_map
           /\ ~stub.m_is_subscribed
<1>1. op.f \in Factories /\ op.name \in UserNames /\ m_stubs[op.f][op.name] \in Stubs
  BY OperationStub DEF AboutService
<1>2. m_stubs[op.f][op.name] # None
  BY <1>1, FactoryNoneAssumption
<1>3. PICK stub : stub = [m_stubs[op.f][op.name] EXCEPT !.m_is_subscribed = FALSE]
  OBVIOUS
<1>4. m_stubs' = [m_stubs EXCEPT ![op.f][op.name] = stub]
  BY <1>3, Zenon
<1>5. /\ stub \in Stubs
      /\ stub.m_service_ordinal = m_stubs[op.f][op.name].m_service_ordinal
      /\ stub.m_service_method_map = m_stubs[op.f][op.name].m_service_method_map
      /\ ~stub.m_is_subscribed
  BY <1>1, <1>3, StubUnmarked, Zenon
<1> QED
  BY <1>1, <1>2, <1>4, <1>5, Zenon

\* What the factory makes of the answers keeps the types.
LEMMA ReceiptTypes ==
  ASSUME FactoryTypes, OperationInv, Receipt
  PROVE  FactoryTypes'
<1>0. ClientTypes /\ m_stubs \in [Factories -> [UserNames -> Stubs \cup {None}]]
  BY DEF FactoryTypes, ClientTypes
<1>1. ASSUME UNCHANGED <<server_vars, invoker, link, accepting, posted>>, ClientTypes'
      PROVE  FactoryTypes'
  BY <1>1 DEF FactoryTypes, Server!SessionsTypeOK, server_vars
<1>2. {"list_services", "list_methods"} \subseteq Steps
  BY DEF Steps
<1>3. CASE HelloAnswered
  <2>1. CASE Throws
    BY <1>1, <1>3, <2>1, <1>0, ThrowsTypes DEF HelloAnswered
  <2>2. CASE Continue("list_services") /\ UNCHANGED <<m_services, m_stubs, failed>>
    <3>1. ClientTypes'
      BY <1>0, <2>2, <1>2 DEF Continue, ClientTypes
    <3> QED
      BY <1>1, <1>3, <3>1 DEF HelloAnswered
  <2> QED
    BY <1>3, <2>1, <2>2 DEF HelloAnswered
<1>4. CASE ServicesListed
  <2>1. op.f \in Factories
    BY <1>4 DEF ServicesListed, Answered, OperationInv, StepInv, Operations
  <2>2. m_services' \in [Factories -> (SUBSET UserNames) \cup {None}]
    BY <1>0, <1>4, <2>1 DEF ServicesListed, ClientTypes
  <2>3. ClientTypes'
    BY <1>0, <1>4, <2>2 DEF ServicesListed, Ended, ClientTypes
  <2> QED
    BY <1>1, <1>4, <2>3 DEF ServicesListed
<1>5. CASE ServiceSubscribed
  <2>1. CASE Throws
    BY <1>1, <1>5, <2>1, <1>0, ThrowsTypes DEF ServiceSubscribed
  <2>2. CASE /\ m_stubs' = [m_stubs EXCEPT ![op.f][op.name] = NewStub(op.type)]
             /\ Continue("list_methods")
             /\ UNCHANGED <<m_services, failed>>
    <3>1. op.f \in Factories /\ op.name \in UserNames /\ op.type \in StubTypes
      BY <1>5, OperationStub DEF ServiceSubscribed, Answered, AboutService
    <3>2. NewStub(op.type) \in Stubs
      BY <3>1, NewStubMade
    <3>3. m_stubs' \in [Factories -> [UserNames -> Stubs \cup {None}]]
      BY <1>0, <3>1, <3>2, <2>2, StubPut DEF ClientTypes
    <3>4. ClientTypes'
      BY <1>0, <2>2, <3>3, <1>2 DEF Continue, ClientTypes
    <3> QED
      BY <1>1, <1>5, <3>4 DEF ServiceSubscribed
  <2> QED
    BY <1>5, <2>1, <2>2 DEF ServiceSubscribed
<1>6. CASE MethodsListed
  <2>1. m_stubs' \in [Factories -> [UserNames -> Stubs \cup {None}]]
    <3>1. PICK stub \in Stubs : /\ op.f \in Factories /\ op.name \in UserNames
                                /\ m_stubs' = [m_stubs EXCEPT ![op.f][op.name] = stub]
      BY <1>6, MethodsListedStub, Zenon
    <3> QED
      BY <1>0, <3>1, StubPut, Zenon
  <2>2. ClientTypes'
    BY <1>0, <1>6, <2>1 DEF MethodsListed, Ended, ClientTypes
  <2> QED
    BY <1>1, <1>6, <2>2 DEF MethodsListed
<1>7. CASE StubLacksMethod
  <2>1. ClientTypes'
    BY <1>0, <1>7 DEF StubLacksMethod, ClientTypes
  <2> QED
    BY <1>1, <1>7, <2>1 DEF StubLacksMethod
<1>8. CASE ServiceUnsubscribed
  <2>1. CASE Throws
    BY <1>1, <1>8, <2>1, <1>0, ThrowsTypes DEF ServiceUnsubscribed
  <2>2. CASE /\ m_stubs' = [m_stubs EXCEPT ![op.f][op.name].m_is_subscribed = FALSE]
             /\ Ended
             /\ UNCHANGED <<m_services, failed>>
    <3>1. step = "unsubscribe"
      BY <1>8 DEF ServiceUnsubscribed, Answered
    <3>2. m_stubs' = [m_stubs EXCEPT ![op.f][op.name].m_is_subscribed = FALSE]
      BY <2>2, Zenon
    <3>3. PICK stub \in Stubs : /\ op.f \in Factories /\ op.name \in UserNames
                                /\ m_stubs' = [m_stubs EXCEPT ![op.f][op.name] = stub]
      BY <3>1, <3>2, UnsubscribedStub, Zenon
    <3>4. m_stubs' \in [Factories -> [UserNames -> Stubs \cup {None}]]
      BY <1>0, <3>3, StubPut, Zenon
    <3>5. UNCHANGED <<m_services, failed>> /\ Ended
      BY <2>2, Zenon
    <3>6. ClientTypes'
      BY <1>0, <3>4, <3>5 DEF Ended, ClientTypes
    <3>7. UNCHANGED <<server_vars, invoker, link, accepting, posted>>
      BY <1>8 DEF ServiceUnsubscribed
    <3> QED
      BY <1>1, <3>6, <3>7
  <2> QED
    BY <1>8, <2>1, <2>2 DEF ServiceUnsubscribed
<1>9. CASE CallReturns
  <2>1. ClientTypes'
    BY <1>0, <1>9 DEF CallReturns, Ended, ClientTypes
  <2> QED
    BY <1>1, <1>9, <2>1 DEF CallReturns
<1> QED
  BY <1>3, <1>4, <1>5, <1>6, <1>7, <1>8, <1>9 DEF Receipt

\* Every step but the receipt of an answer leaves the stubs alone.
LEMMA StubsKept ==
  ASSUME Environment \/ Operation \/ Rpc
  PROVE  UNCHANGED m_stubs
<1>1. Environment => UNCHANGED m_stubs
  BY DEF Environment, BackEndDisconnects, ConnectionLost, GateMoves, Dispatched, client_vars
<1>2. Operation => UNCHANGED m_stubs
  BY DEF Operation, CreateInvoker, Construct, Subscribe, Unsubscribe, Call, Begin, client_vars
<1>3. Rpc => UNCHANGED m_stubs
  BY DEF Rpc, InvokerThrows, InvokerReturnsNothing, RequestRefused, RequestRejected,
    RequestPosted, Throws
<1> QED
  BY <1>1, <1>2, <1>3

-----------------------------------------------------------------------------
(***************************************************************************)
(* Stubs: their ordinals are the service's, or they have none.             *)
(***************************************************************************)

\* A stub that is right for its service may be put in its place.
LEMMA StubInvPut ==
  ASSUME FactoryTypes, StubInv, NEW f \in Factories, NEW n \in UserNames,
         NEW stub \in Stubs, m_stubs' = [m_stubs EXCEPT ![f][n] = stub],
         StubRight(n, stub)
  PROVE  StubInv'
<1>1. m_stubs \in [Factories -> [UserNames -> Stubs \cup {None}]]
  BY DEF FactoryTypes, ClientTypes
<1>2. SUFFICES ASSUME NEW g \in Factories, NEW k \in UserNames, m_stubs'[g][k] # None
               PROVE  StubRight(k, m_stubs'[g][k])
  BY DEF StubInv, StubRight
<1>3. CASE <<g, k>> = <<f, n>>
  <2>1. m_stubs'[g][k] = stub /\ k = n
    BY <1>1, <1>3, StubPut
  <2> QED
    BY <2>1
<1>4. CASE <<g, k>> # <<f, n>>
  <2>1. m_stubs'[g][k] = m_stubs[g][k]
    BY <1>1, <1>4, StubPut
  <2> QED
    BY <1>2, <2>1 DEF StubInv
<1> QED
  BY <1>3, <1>4

\* Whatever the step, what a stub has an ordinal for is the method of that name.
LEMMA StubInvKept ==
  ASSUME FactoryTypes, OperationInv, StubInv, Next
  PROVE  StubInv'
<1>1. ASSUME UNCHANGED m_stubs PROVE StubInv'
  BY <1>1 DEF StubInv, StubRight
<1>2. CASE Environment \/ Operation \/ Rpc
  BY <1>1, <1>2, StubsKept
<1>3. CASE HelloAnswered \/ ServicesListed \/ StubLacksMethod \/ CallReturns
  BY <1>1, <1>3 DEF HelloAnswered, ServicesListed, StubLacksMethod, CallReturns, Throws
<1>4. CASE ServiceSubscribed
  <2>1. CASE Throws
    BY <1>1, <2>1 DEF Throws
  <2>2. CASE m_stubs' = [m_stubs EXCEPT ![op.f][op.name] = NewStub(op.type)]
    <3>1. op.f \in Factories /\ op.name \in UserNames /\ op.type \in StubTypes
      BY <1>4, OperationStub DEF ServiceSubscribed, Answered, AboutService
    <3>2. StubRight(op.name, NewStub(op.type))
      BY DEF StubRight, NewStub
    <3> QED
      BY <2>2, <3>1, <3>2, NewStubMade, StubInvPut
  <2> QED
    BY <1>4, <2>1, <2>2 DEF ServiceSubscribed
<1>5. CASE MethodsListed
  <2>1. PICK stub \in Stubs :
           /\ op.f \in Factories /\ op.name \in UserNames
           /\ m_stubs' = [m_stubs EXCEPT ![op.f][op.name] = stub]
           /\ stub.m_service_ordinal = Ordinal(op.name)
           /\ \A m \in DOMAIN stub.m_service_method_map :
                DispatchTables[op.name][stub.m_service_method_map[m] + 1] = m
                \/ /\ m \in DOMAIN m_stubs[op.f][op.name].m_service_method_map
                   /\ stub.m_service_method_map[m]
                        = m_stubs[op.f][op.name].m_service_method_map[m]
    BY <1>5, MethodsListedStub, Zenon
  <2>2. Ordinal(op.name) # None
    BY <2>1, OrdinalOfName, FactoryNoneAssumption
  <2>3. m_stubs[op.f][op.name] # None
    BY <1>5 DEF MethodsListed, Answered, OperationInv, StepInv
  <2>4. StubRight(op.name, m_stubs[op.f][op.name])
    BY <2>1, <2>3 DEF StubInv
  <2>5. StubRight(op.name, stub)
    BY <2>1, <2>2, <2>4 DEF StubRight
  <2> QED
    BY <2>1, <2>5, StubInvPut
<1>6. CASE ServiceUnsubscribed
  <2>1. CASE Throws
    BY <1>1, <2>1 DEF Throws
  <2>2. CASE m_stubs' = [m_stubs EXCEPT ![op.f][op.name].m_is_subscribed = FALSE]
    <3>1. step = "unsubscribe"
      BY <1>6 DEF ServiceUnsubscribed, Answered
    <3>2. PICK stub \in Stubs :
           /\ op.f \in Factories /\ op.name \in UserNames
           /\ m_stubs' = [m_stubs EXCEPT ![op.f][op.name] = stub]
           /\ m_stubs[op.f][op.name] # None
           /\ stub.m_service_ordinal = m_stubs[op.f][op.name].m_service_ordinal
           /\ stub.m_service_method_map = m_stubs[op.f][op.name].m_service_method_map
      BY <2>2, <3>1, UnsubscribedStub, Zenon
    <3>3. StubRight(op.name, m_stubs[op.f][op.name])
      BY <3>2 DEF StubInv
    <3>4. StubRight(op.name, stub)
      BY <3>2, <3>3 DEF StubRight
    <3> QED
      BY <3>2, <3>4, StubInvPut
  <2> QED
    BY <1>6, <2>1, <2>2 DEF ServiceUnsubscribed
<1> QED
  BY <1>2, <1>3, <1>4, <1>5, <1>6 DEF Next, Receipt

-----------------------------------------------------------------------------
(***************************************************************************)
(* The operation under way.                                                *)
(***************************************************************************)

\* Steps that leave the operation where it is, or end it.
LEMMA StepInvStays ==
  ASSUME StepInv, UNCHANGED <<op, step, m_stubs>>, step = "idle" => reply' = reply
  PROVE  StepInv'
BY DEF StepInv

\* Between two operations nothing is to be known.
LEMMA StepInvEnds ==
  ASSUME Ended
  PROVE  StepInv'
BY DEF StepInv, Ended, AboutService

\* Each operation begins with what its first rpc needs.
LEMMA StepInvBegins ==
  ASSUME FactoryTypes, StepInv, Operation
  PROVE  StepInv'
<1>1. ASSUME NEW kind \in Invokers, CreateInvoker(kind) PROVE StepInv'
  BY <1>1, StepInvStays DEF CreateInvoker, client_vars
<1>2. ASSUME NEW f \in Factories, NEW n \in UserNames \cup {None},
             NEW type \in StubTypes \cup {None}, NEW receiver \in BOOLEAN,
             NEW method \in MethodNames \cup {None}, NEW first,
             Begin(f, n, type, receiver, method, first)
      PROVE  /\ op' \in Operations
             /\ op'.f = f /\ op'.name = n /\ op'.type = type /\ op'.method = method
             /\ step' = first
             /\ UNCHANGED m_stubs
  BY <1>2 DEF Begin, Operations
<1>3. ASSUME NEW f \in Factories, Construct(f) PROVE StepInv'
  <2>1. op' \in Operations /\ step' = "hello" /\ UNCHANGED m_stubs
    BY <1>2, <1>3, Zenon DEF Construct
  <2> QED
    BY <2>1 DEF StepInv, AboutService
<1>4. ASSUME NEW f \in Factories, NEW n \in UserNames, NEW type \in StubTypes,
             NEW receiver \in BOOLEAN, Subscribe(f, n, type, receiver)
      PROVE  StepInv'
  <2>1. /\ op' \in Operations /\ step' = "subscribe" /\ UNCHANGED m_stubs
        /\ op'.name = n /\ op'.type = type
    <3>1. Begin(f, n, type, receiver, None, "subscribe")
      BY <1>4 DEF Subscribe
    <3>2. n \in UserNames \cup {None} /\ type \in StubTypes \cup {None}
          /\ None \in MethodNames \cup {None}
      OBVIOUS
    <3> QED
      BY <3>1, <3>2 DEF Begin, Operations
  <2> QED
    BY <2>1 DEF StepInv, AboutService
<1>5. ASSUME NEW f \in Factories, NEW n \in UserNames, Unsubscribe(f, n) PROVE StepInv'
  <2>1. /\ op' \in Operations /\ step' = "unsubscribe" /\ UNCHANGED m_stubs
        /\ op'.f = f /\ op'.name = n
    BY <1>2, <1>5, Zenon DEF Unsubscribe
  <2>2. m_stubs[f][n] # None
    BY <1>5 DEF Unsubscribe
  <2> QED
    BY <2>1, <2>2 DEF StepInv, AboutService
<1>6. ASSUME NEW f \in Factories, NEW n \in UserNames, NEW m \in MethodNames, Call(f, n, m)
      PROVE  StepInv'
  <2>1. /\ op' \in Operations /\ step' = "call" /\ UNCHANGED m_stubs
        /\ op'.f = f /\ op'.name = n /\ op'.method = m
    BY <1>2, <1>6, Zenon DEF Call
  <2>2. m_stubs[f][n] # None /\ m \in DOMAIN m_stubs[f][n].m_service_method_map
    BY <1>6 DEF Call
  <2> QED
    BY <2>1, <2>2 DEF StepInv, AboutService
<1> QED
  BY <1>1, <1>3, <1>4, <1>5, <1>6 DEF Operation

\* Every step leaves the operation with what its next rpc needs.
LEMMA StepInvKept ==
  ASSUME FactoryTypes, OperationInv, Next
  PROVE  StepInv'
<1>0. StepInv
  BY DEF OperationInv
<1>1. ASSUME Throws PROVE StepInv'
  BY <1>1, StepInvEnds DEF Throws
<1>2. CASE Environment
  <2>1. UNCHANGED <<op, step, m_stubs>>
    BY <1>2 DEF Environment, BackEndDisconnects, ConnectionLost, GateMoves, Dispatched, client_vars
  <2>2. reply # Awaited => reply' = reply
    BY <1>2 DEF Environment, BackEndDisconnects, ConnectionLost, GateMoves, Dispatched,
      Delivered, client_vars
  <2>3. step = "idle" => reply # Awaited
    BY <1>0, FactoryNoneAssumption DEF StepInv
  <2> QED
    BY <1>0, <2>1, <2>2, <2>3, StepInvStays
<1>3. CASE Operation
  BY <1>0, <1>3, StepInvBegins
<1>4. CASE Rpc
  <2>1. CASE InvokerThrows \/ RequestRefused
    BY <1>1, <2>1 DEF InvokerThrows, RequestRefused
  <2>2. CASE InvokerReturnsNothing
    <3>1. step # "idle"
      BY <1>0, <2>2, FactoryNoneAssumption DEF InvokerReturnsNothing, Sending, Steps, StepInv
    <3> QED
      BY <1>0, <2>2, <3>1, StepInvStays DEF InvokerReturnsNothing
  <2>3. ASSUME Sending, NEW r, RequestRejected(r) \/ RequestPosted(r) PROVE StepInv'
    <3>1. step # "idle"
      BY <2>3 DEF Sending, Steps
    <3>2. Throws \/ UNCHANGED <<op, step, m_stubs>>
      BY <2>3 DEF RequestRejected, RequestPosted
    <3> QED
      BY <1>0, <1>1, <3>1, <3>2, StepInvStays
  <2> QED
    BY <1>4, <2>1, <2>2, <2>3 DEF Rpc
<1>5. CASE HelloAnswered
  <2>1. CASE Continue("list_services") /\ UNCHANGED m_stubs
    <3>1. op \in Operations
      BY <1>0, <1>5 DEF HelloAnswered, Answered, StepInv
    <3> QED
      BY <2>1, <3>1 DEF Continue, StepInv, AboutService
  <2> QED
    BY <1>1, <1>5, <2>1 DEF HelloAnswered
<1>6. CASE ServicesListed \/ CallReturns \/ MethodsListed
  BY <1>6, StepInvEnds DEF ServicesListed, CallReturns, MethodsListed
<1>7. CASE ServiceSubscribed
  <2>1. CASE /\ m_stubs' = [m_stubs EXCEPT ![op.f][op.name] = NewStub(op.type)]
             /\ Continue("list_methods")
    <3>1. op.f \in Factories /\ op.name \in UserNames /\ op.type \in StubTypes
      BY <1>7, OperationStub DEF ServiceSubscribed, Answered, AboutService
    <3>2. op \in Operations
      BY <1>0, <1>7 DEF ServiceSubscribed, Answered, StepInv
    <3>3. NewStub(op.type) \in Stubs
      BY <3>1, NewStubMade
    <3>4. m_stubs'[op.f][op.name] = NewStub(op.type)
      BY <3>1, <3>3, <2>1, StubPut DEF FactoryTypes, ClientTypes
    <3>5. m_stubs'[op.f][op.name] # None
      BY <3>3, <3>4, FactoryNoneAssumption
    <3> QED
      BY <2>1, <3>1, <3>2, <3>5 DEF Continue, StepInv, AboutService
  <2> QED
    BY <1>1, <1>7, <2>1 DEF ServiceSubscribed
<1>8. CASE StubLacksMethod
  <2>1. op \in Operations /\ step' = "terminated" /\ op' = op
    BY <1>0, <1>8 DEF StubLacksMethod, Answered, StepInv
  <2> QED
    BY <2>1 DEF StepInv, AboutService
<1>9. CASE ServiceUnsubscribed
  BY <1>1, <1>9, StepInvEnds DEF ServiceUnsubscribed
<1> QED
  BY <1>2, <1>3, <1>4, <1>5, <1>6, <1>7, <1>8, <1>9 DEF Next, Receipt

\* The client is connected by the constructor of its invoker, and by nothing else;
\* while it is, the back end keeps it.
LEMMA LinkSteps ==
  ASSUME FactoryTypes, OperationInv, PostedInv, Next
  PROVE  \/ \E kind \in Invokers : CreateInvoker(kind)
         \/ link' = FALSE /\ UNCHANGED invoker
         \/ UNCHANGED <<link, invoker, connected>>
<1> DEFINE Same == UNCHANGED <<link, invoker, connected>>
<1>1. CASE Environment
  <2>1. CASE Dispatched
    <3>1. Server!SessionsTypeOK
      BY DEF FactoryTypes
    <3>2. UNCHANGED connected
      <4>1. ASSUME NEW matches \in BOOLEAN, Server!Hello(Client, matches) PROVE UNCHANGED connected
        BY <4>1, <3>1, PlainDispatchKeeps
      <4>2. ASSUME Server!NoEffect(Client) PROVE UNCHANGED connected
        BY <4>2, <3>1, PlainDispatchKeeps
      <4>3. ASSUME posted # None, posted.step \in {"subscribe", "unsubscribe"},
                   Server!SubscriptionRpc(Client, Ordinal(posted.op.name))
            PROVE  UNCHANGED connected
        BY <4>3, DispatchedSubscription
      <4> QED
        BY <2>1, <4>1, <4>2, <4>3 DEF Dispatched
    <3> QED
      BY <2>1, <3>2 DEF Dispatched
  <2> QED
    BY <1>1, <2>1 DEF Environment, BackEndDisconnects, ConnectionLost, GateMoves, server_vars
<1>2. CASE Operation
  BY <1>2 DEF Operation, Construct, Subscribe, Unsubscribe, Call, Begin, server_vars
<1>3. CASE Rpc
  <2>1. ASSUME Sending, NEW r \in Requests, RequestRejected(r) \/ RequestPosted(r) PROVE Same
    <3>1. r \in Server!Requests
      BY <2>1, RequestTyped DEF Sending
    <3>2. UNCHANGED connected
      BY <2>1, <3>1, InvokeKeeps DEF RequestRejected, RequestPosted, FactoryTypes
    <3> QED
      BY <2>1, <3>2 DEF RequestRejected, RequestPosted
  <2> QED
    BY <1>3, <2>1 DEF Rpc, InvokerThrows, InvokerReturnsNothing, RequestRefused, server_vars
<1>4. CASE Receipt
  BY <1>4 DEF Receipt, HelloAnswered, ServicesListed, ServiceSubscribed, MethodsListed,
    StubLacksMethod, ServiceUnsubscribed, CallReturns, server_vars
<1> QED
  BY <1>1, <1>2, <1>3, <1>4 DEF Next

\* Before the invoker is made nothing happens but its constructor.
LEMMA StepsBeforeInvoker ==
  ASSUME FactoryTypes, OperationInv, PostedInv, Next, invoker = None
  PROVE  BackEndDisconnects \/ GateMoves \/ \E kind \in Invokers : CreateInvoker(kind)
<1>1. step = "idle" /\ posted = None /\ ~link
  BY DEF OperationInv, NothingYet
<1>2. pending[Client] = None
  BY <1>1 DEF PostedInv
<1>3. ~Dispatched
  BY <1>1, <1>2 DEF Dispatched, Server!Hello, Server!Dispatches
<1>4. ~Sending /\ \A rpc \in Steps : ~Answered(rpc)
  BY <1>1 DEF Sending, Answered, Steps
<1>5. ~Receipt
  BY <1>4 DEF Receipt, HelloAnswered, ServicesListed, ServiceSubscribed, MethodsListed,
    StubLacksMethod, ServiceUnsubscribed, CallReturns, Steps
<1>6. ~Rpc
  <2>1. reply = None /\ reply # Awaited
    BY <1>1, FactoryNoneAssumption DEF OperationInv, StepInv
  <2> QED
    BY <1>4, <2>1 DEF Rpc, InvokerThrows, InvokerReturnsNothing, RequestRefused
<1>7. Operation => \E kind \in Invokers : CreateInvoker(kind)
  BY DEF Operation, Construct, Subscribe, Unsubscribe, Call, Begin
<1> QED
  BY <1>1, <1>3, <1>5, <1>6, <1>7 DEF Next, Environment, ConnectionLost

\* And every step leaves a connected client in the set of connected clients.
LEMMA OperationInvKept ==
  ASSUME FactoryTypes, OperationInv, PostedInv, Next
  PROVE  OperationInv'
<1>1. StepInv'
  BY StepInvKept
<1>2. ASSUME NEW kind \in Invokers, CreateInvoker(kind)
      PROVE  Client \in connected' /\ invoker' # None
  BY <1>2, ConnectKeeps, FactoryNoneAssumption DEF CreateInvoker, FactoryTypes
<1>3. link' => Client \in connected'
  BY <1>2, LinkSteps DEF OperationInv
<1>4. ASSUME invoker' = None PROVE NothingYet'
  <2>1. invoker = None
    BY <1>2, <1>4, LinkSteps
  <2>2. NothingYet
    BY <2>1 DEF OperationInv
  <2>3. BackEndDisconnects \/ GateMoves
    BY <2>1, <1>2, <1>4, StepsBeforeInvoker
  <2>4. ~link' /\ UNCHANGED <<step, posted, m_services, m_stubs>>
    BY <2>2, <2>3 DEF BackEndDisconnects, GateMoves, NothingYet, client_vars
  <2>5. m_client_established' = {} /\ m_subscribed' = {}
    <3>1. CASE GateMoves
      BY <2>2, <3>1 DEF GateMoves, server_vars, NothingYet
    <3>2. CASE BackEndDisconnects
      BY <2>2, <3>2, DisconnectKeeps DEF BackEndDisconnects, NothingYet, FactoryTypes
    <3> QED
      BY <2>3, <3>1, <3>2
  <2> QED
    BY <2>2, <2>4, <2>5 DEF NothingYet
<1> QED
  BY <1>1, <1>3, <1>4 DEF OperationInv

-----------------------------------------------------------------------------
(***************************************************************************)
(* The request that the pool holds.                                        *)
(***************************************************************************)

\* Steps that post and dispatch nothing.
LEMMA PostedInvStays ==
  ASSUME PostedInv, UNCHANGED posted, pending'[Client] = pending[Client]
  PROVE  PostedInv'
BY DEF PostedInv, Server!ToOrdinal

\* A call that passes the checks of BackEnd::invoke is for the method of its name:
\* one that the stub has no ordinal for names no method of any service.
LEMMA CallPosted ==
  ASSUME FactoryTypes, OperationInv, StubInv, step = "call", NEW r \in Requests,
         Server!Verdict(Client, r) = "posted"
  PROVE  /\ Server!ToOrdinal(r.service) = Ordinal(op.name)
         /\ DispatchTables[op.name][Server!ToOrdinal(r.method) + 1] = op.method
<1> DEFINE stub == m_stubs[op.f][op.name]
           map == stub.m_service_method_map
<1>1. op.f \in Factories /\ op.name \in UserNames /\ stub \in Stubs /\ stub # None
  BY OperationStub, FactoryNoneAssumption DEF AboutService
<1>2. op.method \in DOMAIN map
  BY DEF OperationInv, StepInv
<1>3. StubRight(op.name, stub)
  BY <1>1 DEF StubInv
<1>4. PICK type \in StubTypes : map \in [type -> RequestOrdinals]
  BY <1>1, StubFields
<1>5. map[op.method] \in RequestOrdinals
  BY <1>2, <1>4
<1>6. r.method = map[op.method]
      /\ (stub.m_service_ordinal # None => r.service = stub.m_service_ordinal)
  BY DEF Requests
<1>7. Server!ToOrdinal(r.method) = r.method
  BY <1>5, <1>6, ConversionKeeps, FactoryAssumption
<1>8. Server!NamesMethod(r)
  BY DEF Server!Verdict
<1>9. map[op.method] # Unmapped
  BY <1>5, <1>6, <1>7, <1>8, FactoryAssumption DEF Unmapped, Server!NamesMethod, Server!Methods
<1>10. stub.m_service_ordinal = Ordinal(op.name) /\ stub.m_service_ordinal # None
       /\ DispatchTables[op.name][map[op.method] + 1] = op.method
  BY <1>2, <1>3, <1>9 DEF StubRight
<1> QED
  BY <1>1, <1>6, <1>7, <1>10, OrdinalOfName

\* Whatever the step, the pool holds the request of the rpc it was posted for.
LEMMA PostedInvKept ==
  ASSUME FactoryTypes, OperationInv, StubInv, PostedInv, Next
  PROVE  PostedInv'
<1>1. CASE Environment
  <2>1. CASE Dispatched
    <3>1. pending'[Client] = None
      <4>1. ASSUME NEW matches \in BOOLEAN, Server!Hello(Client, matches)
            PROVE  pending'[Client] = None
        BY <4>1, PlainDispatchKeeps DEF FactoryTypes
      <4>2. ASSUME Server!NoEffect(Client) PROVE pending'[Client] = None
        BY <4>2, PlainDispatchKeeps DEF FactoryTypes
      <4>3. ASSUME posted # None, posted.step \in {"subscribe", "unsubscribe"},
                   Server!SubscriptionRpc(Client, Ordinal(posted.op.name))
            PROVE  pending'[Client] = None
        BY <4>3, DispatchedSubscription
      <4> QED
        BY <2>1, <4>1, <4>2, <4>3 DEF Dispatched
    <3>2. posted' = None
      BY <2>1 DEF Dispatched
    <3> QED
      BY <3>1, <3>2 DEF PostedInv
  <2>2. CASE BackEndDisconnects
    <3>1. UNCHANGED pending
      BY <2>2, DisconnectKeeps DEF BackEndDisconnects, FactoryTypes
    <3> QED
      BY <2>2, <3>1, PostedInvStays DEF BackEndDisconnects
  <2>3. CASE ConnectionLost \/ GateMoves
    BY <2>3, PostedInvStays DEF ConnectionLost, GateMoves, server_vars
  <2> QED
    BY <1>1, <2>1, <2>2, <2>3 DEF Environment
<1>2. CASE Operation
  <2>1. ASSUME NEW kind \in Invokers, CreateInvoker(kind) PROVE PostedInv'
    <3>1. UNCHANGED pending
      BY <2>1, ConnectKeeps DEF CreateInvoker, FactoryTypes
    <3> QED
      BY <2>1, <3>1, PostedInvStays DEF CreateInvoker
  <2>2. (\E kind \in Invokers : CreateInvoker(kind)) \/ UNCHANGED <<posted, pending>>
    BY <1>2 DEF Operation, Construct, Subscribe, Unsubscribe, Call, Begin, server_vars
  <2> QED
    BY <2>1, <2>2, PostedInvStays
<1>3. CASE Rpc
  <2>1. CASE InvokerThrows \/ InvokerReturnsNothing \/ RequestRefused
    BY <2>1, PostedInvStays DEF InvokerThrows, InvokerReturnsNothing, RequestRefused, server_vars
  <2>2. ASSUME Sending, NEW r \in Requests, RequestRejected(r) PROVE PostedInv'
    <3>1. r \in Server!Requests
      BY <2>2, RequestTyped DEF Sending
    <3>2. pending'[Client] = pending[Client]
      BY <2>2, <3>1, InvokeKeeps DEF RequestRejected, FactoryTypes
    <3> QED
      BY <2>2, <3>2, PostedInvStays DEF RequestRejected
  <2>3. ASSUME Sending, NEW r \in Requests, RequestPosted(r) PROVE PostedInv'
    <3>1. r \in Server!Requests
      BY <2>3, RequestTyped DEF Sending
    <3>2. pending'[Client] = r /\ r # None
      BY <2>3, <3>1, InvokeKeeps, FactoryNoneAssumption DEF RequestPosted, FactoryTypes
    <3>3. step \in Steps /\ op \in Operations
      BY <2>3 DEF Sending, Steps, OperationInv, StepInv
    <3>4. posted' \in Posts /\ posted'.step = step /\ posted'.op = op
      BY <2>3, <3>3 DEF RequestPosted, Posts
    <3>5. posted' # None
      BY <3>4, FactoryNoneAssumption
    <3>6. step # "call" => r = [service |-> 0, method |-> MethodOrdinal[step]]
      BY DEF Requests
    <3>7. step \in AboutService => op.name \in UserNames
      BY DEF OperationInv, StepInv
    <3>8. step = "call" =>
            /\ Server!ToOrdinal(r.service) = Ordinal(op.name)
            /\ DispatchTables[op.name][Server!ToOrdinal(r.method) + 1] = op.method
      BY <2>3, CallPosted DEF RequestPosted
    <3> QED
      BY <3>2, <3>4, <3>5, <3>6, <3>7, <3>8 DEF PostedInv, Server!ToOrdinal
  <2> QED
    BY <1>3, <2>1, <2>2, <2>3 DEF Rpc
<1>4. CASE Receipt
  <2>1. UNCHANGED <<posted, pending>>
    BY <1>4 DEF Receipt, HelloAnswered, ServicesListed, ServiceSubscribed, MethodsListed,
      StubLacksMethod, ServiceUnsubscribed, CallReturns, server_vars
  <2> QED
    BY <2>1, PostedInvStays
<1> QED
  BY <1>1, <1>2, <1>3, <1>4 DEF Next

-----------------------------------------------------------------------------
(***************************************************************************)
(* Types and calls.                                                        *)
(***************************************************************************)

FactoryInv == FactoryTypes /\ OperationInv /\ PostedInv /\ StubInv

\* The invariant holds before the invoker is made.
LEMMA FactoryInvInit == Init => FactoryInv
<1> SUFFICES ASSUME Init PROVE FactoryInv
  OBVIOUS
<1>1. Server!SessionsTypeOK /\ pending[Client] = None
  BY DEF Init, Server!Init, Server!SessionsTypeOK
<1>2. ClientTypes
  <2>1. m_services \in [Factories -> (SUBSET UserNames) \cup {None}]
    BY DEF Init
  <2>2. m_stubs \in [Factories -> [UserNames -> Stubs \cup {None}]]
    <3>1. [n \in UserNames |-> None] \in [UserNames -> Stubs \cup {None}]
      OBVIOUS
    <3> QED
      BY <3>1 DEF Init
  <2>3. /\ op \in Operations \cup {None} /\ reply \in Replies \cup {None, Awaited}
        /\ step \in Steps \cup {"idle", "terminated"} /\ failed \subseteq UserNames
    BY DEF Init
  <2> QED
    BY <2>1, <2>2, <2>3 DEF ClientTypes
<1>3. FactoryTypes
  BY <1>1, <1>2 DEF Init, FactoryTypes
<1>4. OperationInv
  <2>1. NothingYet
    BY DEF Init, Server!Init, NothingYet
  <2>2. StepInv
    BY DEF Init, StepInv, AboutService
  <2> QED
    BY <2>1, <2>2 DEF Init, OperationInv
<1>5. PostedInv
  BY <1>1 DEF Init, PostedInv
<1>6. StubInv
  BY DEF Init, StubInv
<1> QED
  BY <1>3, <1>4, <1>5, <1>6 DEF FactoryInv

\* Every step keeps the invariant.
LEMMA FactoryInvKept == FactoryInv /\ [Next]_vars => FactoryInv'
<1> SUFFICES ASSUME FactoryInv, [Next]_vars PROVE FactoryInv'
  OBVIOUS
<1> USE DEF FactoryInv
<1>1. CASE Next
  <2>1. FactoryTypes'
    BY <1>1, EnvironmentTypes, OperationTypes, RpcTypes, ReceiptTypes DEF Next
  <2> QED
    BY <1>1, <2>1, OperationInvKept, PostedInvKept, StubInvKept
<1>2. CASE UNCHANGED vars
  <2>1. UNCHANGED server_vars /\ UNCHANGED client_vars
        /\ UNCHANGED <<invoker, link, accepting, posted>>
    BY <1>2 DEF vars
  <2>2. FactoryTypes'
    BY <2>1 DEF FactoryTypes, ClientTypes, Server!SessionsTypeOK, server_vars, client_vars
  <2>3. OperationInv'
    BY <2>1 DEF OperationInv, NothingYet, StepInv, server_vars, client_vars
  <2>4. PostedInv'
    BY <2>1, PostedInvStays DEF server_vars
  <2>5. StubInv'
    BY <2>1 DEF StubInv, StubRight, client_vars
  <2> QED
    BY <2>2, <2>3, <2>4, <2>5
<1> QED
  BY <1>1, <1>2

\* The invoker, the factories and the stubs of a client and its back end keep
\* their types, whatever the answers, losses and disconnections.
THEOREM FactoryTyped == Spec => []FactoryTypeOK
<1>1. ASSUME FactoryInv PROVE FactoryTypeOK
  <2>1. FactoryTypes /\ ClientTypes /\ (link => Client \in connected)
    BY <1>1 DEF FactoryInv, FactoryTypes, OperationInv
  <2>2. \A f \in Factories :
          /\ m_services[f] = None \/ m_services[f] \subseteq UserNames
          /\ \A n \in UserNames : m_stubs[f][n] \in Stubs \cup {None}
    <3> SUFFICES ASSUME NEW f \in Factories
                 PROVE  /\ m_services[f] = None \/ m_services[f] \subseteq UserNames
                        /\ \A n \in UserNames : m_stubs[f][n] \in Stubs \cup {None}
      OBVIOUS
    <3>1. m_services[f] \in (SUBSET UserNames) \cup {None}
      BY <2>1 DEF ClientTypes
    <3>2. \A n \in UserNames : m_stubs[f][n] \in Stubs \cup {None}
      BY <2>1 DEF ClientTypes
    <3> QED
      BY <3>1, <3>2
  <2> QED
    BY <2>1, <2>2 DEF FactoryTypes, ClientTypes, FactoryTypeOK
<1> QED
  BY <1>1, FactoryInvInit, FactoryInvKept, PTL DEF Spec

\* A call through a stub reaches the method of its name on the stub's service, or
\* none, for every order of the methods in the dispatch table and every stub type.
THEOREM CallsReachNamedMethod == Spec => []CallsReachTheirMethod
<1>1. FactoryInv => CallsReachTheirMethod
  BY DEF FactoryInv, PostedInv, CallsReachTheirMethod
<1> QED
  BY <1>1, FactoryInvInit, FactoryInvKept, PTL DEF Spec

-----------------------------------------------------------------------------
(***************************************************************************)
(* While the client is connected, the request that the pool holds is the   *)
(* one the client waits for, and only one factory has got past its hello.  *)
(***************************************************************************)

Awaits ==
  /\ posted # None <=> reply = Awaited
  /\ posted # None => posted.step = step /\ posted.op = op

Greeted ==
  \/ step = "list_services"
  \/ step = "hello" /\ reply \in Replies /\ HelloAccepted(reply)

\* hello establishes a client once, so the constructor of a second factory throws.
OneFactory ==
  /\ \A f \in Factories : m_services[f] # None => Client \in m_client_established
  /\ \A f, g \in Factories : m_services[f] # None /\ m_services[g] # None => f = g
  /\ \A f \in Factories, n \in UserNames : m_stubs[f][n] # None => m_services[f] # None
  /\ step \in AboutService => m_services[op.f] # None
  /\ step = "hello" /\ reply = Awaited => Client \notin m_client_established
  /\ Greeted => /\ Client \in m_client_established
                /\ \A f \in Factories : m_services[f] = None

LinkInv == link => Awaits /\ OneFactory

\* An answer is told from one that is awaited and from none; the answer to a second
\* hello is an error to the factory.
LEMMA RepliesApart ==
  /\ None \notin Replies /\ Awaited # None /\ Awaited \notin Replies
  /\ Answer("already", FALSE) \in Replies
  /\ ~HelloAccepted(Answer("already", FALSE))
  /\ ErrorRead(Answer("already", FALSE)) # "NO_ERROR"
<1>1. Awaited \notin Replies
  BY DEF Awaited, Answer, Replies, Server!Errors
<1>2. Answer("already", FALSE) \in Replies
  BY DEF Answer, Replies
<1>3. ErrorRead(Answer("already", FALSE)) # "NO_ERROR"
  BY DEF Answer, ErrorRead
<1> QED
  BY <1>1, <1>2, <1>3, FactoryNoneAssumption DEF HelloAccepted

\* An answer that is delivered is one of Replies.
LEMMA DeliveredReply ==
  ASSUME NEW error \in Server!Errors \cup {"mismatch"}, NEW result \in BOOLEAN
  PROVE  /\ Answer(error, result) \in Replies
         /\ Answer(error, result).error = error
BY DEF Answer, Replies

\* What the dispatch of a request leaves in reply.
LEMMA DispatchedReply ==
  ASSUME FactoryTypes, PostedInv, Dispatched
  PROVE  /\ posted # None
         /\ posted' = None
         /\ reply = Awaited /\ link => reply' \in Replies
         /\ reply # Awaited => reply' = reply
         /\ UNCHANGED <<link, op, step, m_services, m_stubs, failed>>
<1>1. posted # None
  BY DEF Dispatched, PostedInv, Server!Hello, Server!Dispatches
<1>2. "NO_ERROR" \in Server!Errors \cup {"mismatch"} /\ FALSE \in BOOLEAN
  BY DEF Server!Errors
<1>3. \E error \in Server!Errors \cup {"mismatch"}, result \in BOOLEAN : Delivered(error, result)
  <2>1. ASSUME NEW matches \in BOOLEAN, Delivered(IF matches THEN "NO_ERROR" ELSE "mismatch", FALSE)
        PROVE  \E error \in Server!Errors \cup {"mismatch"}, result \in BOOLEAN :
                 Delivered(error, result)
    <3>1. (IF matches THEN "NO_ERROR" ELSE "mismatch") \in Server!Errors \cup {"mismatch"}
      BY <1>2
    <3> QED
      BY <1>2, <2>1, <3>1, Zenon
  <2>2. ASSUME Delivered("NO_ERROR", FALSE)
        PROVE  \E error \in Server!Errors \cup {"mismatch"}, result \in BOOLEAN :
                 Delivered(error, result)
    BY <1>2, <2>2, Zenon
  <2>3. ASSUME posted.step \in {"subscribe", "unsubscribe"},
               Server!SubscriptionRpc(Client, Ordinal(posted.op.name)),
               NEW result \in BOOLEAN, Delivered(answer'[Client].error, result)
        PROVE  \E error \in Server!Errors \cup {"mismatch"}, r \in BOOLEAN : Delivered(error, r)
    <3>1. answer'[Client].error \in Server!Errors \cup {"mismatch"}
      BY <1>1, <2>3, DispatchedSubscription
    <3> QED
      BY <2>3, <3>1, Zenon
  <2> QED
    BY <2>1, <2>2, <2>3 DEF Dispatched
<1>4. PICK error \in Server!Errors \cup {"mismatch"}, result \in BOOLEAN : Delivered(error, result)
  BY <1>3
<1>5. Answer(error, result) \in Replies
  BY DeliveredReply
<1> QED
  BY <1>1, <1>4, <1>5 DEF Delivered, Dispatched

\* What the receipt of an answer leaves in reply.
LEMMA ReceiptReply ==
  ASSUME Receipt
  PROVE  /\ reply \in Replies /\ (reply' = None \/ reply' = reply)
         /\ UNCHANGED <<server_vars, link, posted>>
BY DEF Receipt, HelloAnswered, ServicesListed, ServiceSubscribed, MethodsListed,
  StubLacksMethod, ServiceUnsubscribed, CallReturns, Answered, Throws, Ended, Continue

\* While the client is connected, it waits for the request that the pool holds.
LEMMA AwaitsKept ==
  ASSUME FactoryInv, link => Awaits, Next, link'
  PROVE  Awaits'
<1> USE DEF FactoryInv
<1>1. ASSUME NEW kind \in Invokers, CreateInvoker(kind) PROVE Awaits'
  <2>1. invoker = None /\ UNCHANGED <<posted, reply>>
    BY <1>1 DEF CreateInvoker, client_vars
  <2>2. posted = None /\ reply = None
    BY <2>1 DEF OperationInv, NothingYet, StepInv
  <2> QED
    BY <2>1, <2>2, RepliesApart DEF Awaits
<1>2. CASE GateMoves
  BY <1>2 DEF GateMoves, Awaits, client_vars
<1>3. CASE Dispatched
  BY <1>3, DispatchedReply, RepliesApart DEF Awaits
<1>4. ASSUME NEW f, NEW n, NEW type, NEW receiver, NEW method, NEW first,
             Begin(f, n, type, receiver, method, first)
      PROVE  Awaits'
  <2>1. reply = None /\ UNCHANGED <<posted, reply, link>>
    BY <1>4 DEF Begin, OperationInv, StepInv
  <2> QED
    BY <2>1, RepliesApart DEF Awaits
<1>5. CASE Receipt
  BY <1>5, ReceiptReply, RepliesApart DEF Awaits
<1>6. CASE RequestRefused
  BY <1>6, RepliesApart DEF RequestRefused, Sending, Throws, Ended, Awaits
<1>7. ASSUME Sending, link, NEW r, RequestRejected(r) PROVE Awaits'
  <2>1. posted = None /\ posted' = None
    BY <1>7, RepliesApart DEF RequestRejected, Sending, Awaits
  <2>2. reply' # Awaited
    BY <1>7, RepliesApart DEF RequestRejected, Throws, Ended
  <2> QED
    BY <2>1, <2>2 DEF Awaits
<1>8. ASSUME Sending, link, NEW r, RequestPosted(r) PROVE Awaits'
  <2>1. step \in Steps /\ op \in Operations
    BY <1>8 DEF Sending, Steps, OperationInv, StepInv
  <2>2. posted' \in Posts /\ posted'.step = step /\ posted'.op = op
    BY <1>8, <2>1 DEF RequestPosted, Posts
  <2>3. posted' # None
    BY <2>2, FactoryNoneAssumption
  <2> QED
    BY <1>8, <2>2, <2>3 DEF RequestPosted, Awaits
<1>9. ~BackEndDisconnects /\ ~ConnectionLost
  BY DEF BackEndDisconnects, ConnectionLost
<1>10. ~InvokerThrows /\ ~InvokerReturnsNothing
  BY DEF InvokerThrows, InvokerReturnsNothing
<1>11. CASE Operation
  BY <1>1, <1>4, <1>11 DEF Operation, Construct, Subscribe, Unsubscribe, Call
<1> QED
  BY <1>2, <1>3, <1>5, <1>6, <1>7, <1>8, <1>9, <1>10, <1>11 DEF Next, Environment, Rpc

\* The hello that is dispatched is the one of a factory's constructor.
LEMMA HelloIsPosted ==
  ASSUME FactoryInv, posted # None, NEW matches \in BOOLEAN, Server!Hello(Client, matches)
  PROVE  posted.step = "hello"
<1> USE DEF FactoryInv
<1>1. Server!Dispatches(Client, 0)
  BY DEF Server!Hello, Server!hello
<1>2. posted.step # "call"
  <2>1. SUFFICES ASSUME posted.step = "call" PROVE FALSE
    OBVIOUS
  <2>2. /\ posted.op.name \in UserNames
        /\ Server!ToOrdinal(pending[Client].service) = Ordinal(posted.op.name)
    BY <2>1 DEF PostedInv, AboutService
  <2>3. Ordinal(posted.op.name) # 0
    BY <2>2, OrdinalOfName, FactoryAssumption
  <2> QED
    BY <1>1, <2>2, <2>3 DEF Server!Dispatches
<1>3. MethodOrdinal[posted.step] = 0
  BY <1>1, <1>2, PostedMethod
<1>4. posted.step \in Steps \ {"call"}
  BY <1>2 DEF FactoryTypes, Posts
<1> QED
  BY <1>3, <1>4 DEF Steps, MethodOrdinal, Server!hello, Server!list_services,
    Server!rpc_subscribe_service, Server!rpc_unsubscribe_service, Server!list_methods

\* BackEnd::invoke posts a hello only of a client that is not established.
LEMMA HelloPostedOnce ==
  ASSUME step = "hello", NEW r \in Requests, Server!Verdict(Client, r) = "posted"
  PROVE  Client \notin m_client_established
<1>1. r.service = 0 /\ r.method = 0
  BY DEF Requests, MethodOrdinal, Server!hello
<1> QED
  BY <1>1 DEF Server!Verdict, Server!IsHello, Server!hello, Server!HelloAllowed

\* Steps that end the operation, and touch nothing else that OneFactory is about.
LEMMA OneFactoryEnds ==
  ASSUME OneFactory, Ended, UNCHANGED <<m_services, m_stubs, m_client_established>>
  PROVE  OneFactory'
BY DEF OneFactory, Ended, Greeted, AboutService

\* Steps that put a stub where the factory of the operation keeps it.
LEMMA OneFactoryPut ==
  ASSUME FactoryTypes, OneFactory, step \in AboutService, op.f \in Factories, op.name \in UserNames,
         NEW stub \in Stubs, m_stubs' = [m_stubs EXCEPT ![op.f][op.name] = stub],
         UNCHANGED <<m_services, m_client_established>>,
         Ended \/ Continue("list_methods")
  PROVE  OneFactory'
<1>1. m_stubs \in [Factories -> [UserNames -> Stubs \cup {None}]]
  BY DEF FactoryTypes, ClientTypes
<1>2. \A g \in Factories, k \in UserNames :
        <<g, k>> # <<op.f, op.name>> => m_stubs'[g][k] = m_stubs[g][k]
  BY <1>1, StubPut
<1>3. m_services[op.f] # None
  BY DEF OneFactory
<1>4. \A g \in Factories, k \in UserNames : m_stubs'[g][k] # None => m_services[g] # None
  BY <1>2, <1>3 DEF OneFactory
<1>5. ~Greeted'
  BY DEF Ended, Continue, Greeted
<1>6. (step \in AboutService)' => m_services'[op'.f] # None
  BY <1>3 DEF Ended, Continue, AboutService
<1> QED
  BY <1>4, <1>5, <1>6 DEF OneFactory, Ended, Continue

\* While the client is connected, the constructor of a second factory throws.
LEMMA OneFactoryKept ==
  ASSUME FactoryInv, LinkInv, Next, link'
  PROVE  OneFactory'
<1> USE DEF FactoryInv
<1>1. ASSUME NEW kind \in Invokers, CreateInvoker(kind) PROVE OneFactory'
  <2>1. invoker = None /\ UNCHANGED <<op, step, reply, m_services, m_stubs>>
    BY <1>1 DEF CreateInvoker, client_vars
  <2>2. NothingYet
    BY <2>1 DEF OperationInv
  <2> QED
    BY <2>1, <2>2 DEF NothingYet, OneFactory, Greeted, AboutService
<1>2. CASE GateMoves
  <2>1. link /\ OneFactory /\ UNCHANGED <<server_vars, client_vars>>
    BY <1>2 DEF GateMoves, LinkInv
  <2> QED
    BY <2>1 DEF OneFactory, Greeted, server_vars, client_vars
<1>3. CASE Dispatched
  <2>1. /\ posted # None /\ UNCHANGED <<link, op, step, m_services, m_stubs, failed>>
        /\ link /\ reply = Awaited => reply' \in Replies
    BY <1>3, DispatchedReply
  <2>2. link /\ Awaits /\ OneFactory
    BY <2>1 DEF LinkInv
  <2>3. reply = Awaited /\ reply' # Awaited /\ posted.step = step
    BY <2>1, <2>2, RepliesApart DEF Awaits
  <2>4. m_client_established \subseteq m_client_established'
    <3>1. ASSUME posted.step \in {"subscribe", "unsubscribe"},
                 Server!SubscriptionRpc(Client, Ordinal(posted.op.name))
          PROVE  m_client_established \subseteq m_client_established'
      BY <3>1, <2>1, DispatchedSubscription
    <3> QED
      BY <1>3, <3>1 DEF Dispatched, Server!Hello, Server!NoEffect
  <2>5. ASSUME step = "hello", HelloAccepted(reply')
        PROVE  Client \in m_client_established' /\ \A f \in Factories : m_services[f] = None
    <3>1. Client \notin m_client_established
      BY <2>2, <2>3, <2>5 DEF OneFactory
    <3>2. PICK matches \in BOOLEAN : Server!Hello(Client, matches)
             /\ Delivered(IF matches THEN "NO_ERROR" ELSE "mismatch", FALSE)
      BY <1>3, <2>3, <2>5 DEF Dispatched
    <3>3. matches
      BY <2>2, <2>3, <2>5, <3>2 DEF Delivered, HelloAccepted, ErrorRead, Answer
    <3>4. Client \in m_client_established'
      BY <3>2, <3>3 DEF Server!Hello
    <3> QED
      BY <2>2, <3>1, <3>4 DEF OneFactory
  <2>6. Greeted' => Client \in m_client_established' /\ \A f \in Factories : m_services[f] = None
    <3>1. Greeted' => step = "list_services" \/ (step = "hello" /\ HelloAccepted(reply'))
      BY <2>1 DEF Greeted, HelloAccepted, ErrorRead
    <3>2. step = "list_services" =>
            Client \in m_client_established' /\ \A f \in Factories : m_services[f] = None
      BY <2>2, <2>4 DEF OneFactory, Greeted
    <3> QED
      BY <3>1, <3>2, <2>5
  <2> QED
    BY <2>1, <2>2, <2>3, <2>4, <2>6 DEF OneFactory
<1>4. ASSUME NEW f \in Factories, NEW n, NEW type, NEW receiver, NEW method, NEW first,
             Begin(f, n, type, receiver, method, first), link,
             first \in AboutService => m_services[f] # None, first # "list_services"
      PROVE  OneFactory'
  <2>1. /\ OneFactory /\ reply = None /\ step' = first /\ op'.f = f
        /\ UNCHANGED <<reply, m_services, m_stubs, m_client_established>>
    BY <1>4 DEF Begin, OperationInv, StepInv, LinkInv, server_vars
  <2>2. ~Greeted' /\ reply' # Awaited
    BY <1>4, <2>1, RepliesApart DEF Greeted
  <2> QED
    BY <1>4, <2>1, <2>2 DEF OneFactory
<1>5. CASE Operation
  <2>1. ASSUME NEW f \in Factories, Construct(f) PROVE OneFactory'
    <3>1. link /\ Begin(f, None, None, FALSE, None, "hello")
      BY <2>1 DEF Construct, Begin
    <3>2. "hello" \notin AboutService /\ "hello" # "list_services"
      BY DEF AboutService
    <3> QED
      BY <1>4, <3>1, <3>2, Zenon
  <2>2. ASSUME NEW f \in Factories, NEW n \in UserNames, NEW type, NEW receiver,
               Subscribe(f, n, type, receiver)
        PROVE  OneFactory'
    <3>1. link /\ Begin(f, n, type, receiver, None, "subscribe") /\ m_services[f] # None
      BY <2>2 DEF Subscribe, Begin
    <3>2. "subscribe" # "list_services"
      OBVIOUS
    <3> QED
      BY <1>4, <3>1, <3>2, Zenon
  <2>3. ASSUME NEW f \in Factories, NEW n \in UserNames, Unsubscribe(f, n) PROVE OneFactory'
    <3>1. link /\ m_stubs[f][n] # None
      BY <2>3 DEF Unsubscribe, Begin
    <3>2. m_services[f] # None
      BY <3>1 DEF LinkInv, OneFactory
    <3> QED
      BY <1>4, <2>3, <3>1, <3>2 DEF Unsubscribe
  <2>4. ASSUME NEW f \in Factories, NEW n \in UserNames, NEW m, Call(f, n, m) PROVE OneFactory'
    <3>1. link /\ m_stubs[f][n] # None
      BY <2>4 DEF Call, Begin
    <3>2. m_services[f] # None
      BY <3>1 DEF LinkInv, OneFactory
    <3> QED
      BY <1>4, <2>4, <3>1, <3>2 DEF Call
  <2> QED
    BY <1>1, <1>5, <2>1, <2>2, <2>3, <2>4 DEF Operation
<1>6. CASE RequestRefused
  BY <1>6, OneFactoryEnds DEF RequestRefused, Throws, LinkInv, server_vars
<1>7. ASSUME Sending, link, NEW r \in Requests, RequestRejected(r) PROVE OneFactory'
  <2>1. UNCHANGED m_client_established
    BY <1>7 DEF RequestRejected, Server!Invoke
  <2>2. CASE Throws
    BY <1>7, <2>1, <2>2, OneFactoryEnds DEF Throws, LinkInv
  <2>3. CASE /\ reply' = Answer("already", FALSE)
             /\ UNCHANGED <<op, step, m_services, m_stubs, failed>>
    <3>1. OneFactory
      BY <1>7 DEF LinkInv
    <3>2. reply' # Awaited /\ (Greeted' => Greeted)
      BY <2>3, RepliesApart DEF Greeted, HelloAccepted, ErrorRead
    <3> QED
      BY <2>1, <2>3, <3>1, <3>2 DEF OneFactory
  <2> QED
    BY <1>7, <2>2, <2>3 DEF RequestRejected
<1>8. ASSUME Sending, link, NEW r \in Requests, RequestPosted(r) PROVE OneFactory'
  <2>1. UNCHANGED <<m_client_established, op, step, m_services, m_stubs>> /\ reply' = Awaited
    BY <1>8 DEF RequestPosted, Server!Invoke
  <2>2. OneFactory
    BY <1>8 DEF LinkInv
  <2>3. Greeted' => Greeted
    BY <2>1, RepliesApart DEF Greeted
  <2>4. step = "hello" => Client \notin m_client_established
    BY <1>8, HelloPostedOnce DEF RequestPosted
  <2> QED
    BY <2>1, <2>2, <2>3, <2>4 DEF OneFactory
<1>9. CASE Receipt
  <2>1. link /\ OneFactory /\ UNCHANGED m_client_established
    BY <1>9, ReceiptReply DEF LinkInv, server_vars
  <2>2. CASE HelloAnswered
    <3>1. CASE Throws
      BY <2>1, <3>1, OneFactoryEnds DEF Throws
    <3>2. CASE /\ HelloAccepted(reply) /\ Continue("list_services")
               /\ UNCHANGED <<m_services, m_stubs, failed>>
      <4>1. Greeted
        BY <2>2, <3>2 DEF HelloAnswered, Answered, Greeted
      <4> QED
        BY <2>1, <3>2, <4>1 DEF OneFactory, Continue, AboutService
    <3> QED
      BY <2>2, <3>1, <3>2 DEF HelloAnswered
  <2>3. CASE ServicesListed
    <3>1. Greeted /\ Ended /\ UNCHANGED m_stubs
      BY <2>3 DEF ServicesListed, Answered, Greeted
    <3>2. Client \in m_client_established /\ \A f \in Factories : m_services[f] = None
      BY <2>1, <3>1 DEF OneFactory
    <3>3. \A f \in Factories : m_services'[f] # None => f = op.f
      BY <2>3, <3>2 DEF ServicesListed, FactoryTypes, ClientTypes
    <3>4. \A f \in Factories, n \in UserNames : m_stubs'[f][n] = None
      BY <2>1, <3>1, <3>2 DEF OneFactory
    <3>5. ~Greeted' /\ step' = "idle"
      BY <3>1 DEF Ended, Greeted
    <3> QED
      BY <2>1, <3>2, <3>3, <3>4, <3>5 DEF OneFactory, AboutService
  <2>4. CASE ServiceSubscribed
    <3>1. CASE Throws
      BY <2>1, <3>1, OneFactoryEnds DEF Throws
    <3>2. CASE /\ m_stubs' = [m_stubs EXCEPT ![op.f][op.name] = NewStub(op.type)]
               /\ Continue("list_methods")
               /\ UNCHANGED <<m_services, failed>>
      <4>1. step \in AboutService
        BY <2>4 DEF ServiceSubscribed, Answered, AboutService
      <4>2. op.f \in Factories /\ op.name \in UserNames /\ op.type \in StubTypes
        BY <2>4, <4>1, OperationStub DEF ServiceSubscribed, Answered
      <4>3. NewStub(op.type) \in Stubs
        BY <4>2, NewStubMade
      <4> QED
        BY <2>1, <3>2, <4>1, <4>2, <4>3, OneFactoryPut
    <3> QED
      BY <2>4, <3>1, <3>2 DEF ServiceSubscribed
  <2>5. CASE MethodsListed
    <3>1. PICK stub \in Stubs : /\ op.f \in Factories /\ op.name \in UserNames
                                /\ m_stubs' = [m_stubs EXCEPT ![op.f][op.name] = stub]
      BY <2>5, MethodsListedStub, Zenon
    <3>2. step \in AboutService /\ Ended /\ UNCHANGED m_services
      BY <2>5 DEF MethodsListed, Answered, AboutService
    <3> QED
      BY <2>1, <3>1, <3>2, OneFactoryPut
  <2>6. CASE StubLacksMethod
    <3>1. step' = "terminated" /\ UNCHANGED <<m_services, m_stubs>>
      BY <2>6 DEF StubLacksMethod
    <3> QED
      BY <2>1, <3>1 DEF OneFactory, Greeted, AboutService
  <2>7. CASE ServiceUnsubscribed
    <3>1. CASE Throws
      BY <2>1, <3>1, OneFactoryEnds DEF Throws
    <3>2. CASE /\ m_stubs' = [m_stubs EXCEPT ![op.f][op.name].m_is_subscribed = FALSE]
               /\ Ended
               /\ UNCHANGED <<m_services, failed>>
      <4>1. step = "unsubscribe"
        BY <2>7 DEF ServiceUnsubscribed, Answered
      <4>2. PICK stub \in Stubs : /\ op.f \in Factories /\ op.name \in UserNames
                                  /\ m_stubs' = [m_stubs EXCEPT ![op.f][op.name] = stub]
        BY <3>2, <4>1, UnsubscribedStub, Zenon
      <4>3. Ended /\ UNCHANGED m_services
        BY <3>2, Zenon
      <4>4. step \in AboutService
        BY <4>1 DEF AboutService
      <4> QED
        BY <2>1, <4>2, <4>3, <4>4, OneFactoryPut
    <3> QED
      BY <2>7, <3>1, <3>2 DEF ServiceUnsubscribed
  <2>8. CASE CallReturns
    BY <2>1, <2>8, OneFactoryEnds DEF CallReturns
  <2> QED
    BY <1>9, <2>2, <2>3, <2>4, <2>5, <2>6, <2>7, <2>8 DEF Receipt
<1>10. ~BackEndDisconnects /\ ~ConnectionLost
  BY DEF BackEndDisconnects, ConnectionLost
<1>11. ~InvokerThrows /\ ~InvokerReturnsNothing
  BY DEF InvokerThrows, InvokerReturnsNothing
<1> QED
  BY <1>2, <1>3, <1>5, <1>6, <1>7, <1>8, <1>9, <1>10, <1>11 DEF Next, Environment, Rpc

\* Every step keeps both.
LEMMA LinkInvKept == FactoryInv /\ LinkInv /\ [Next]_vars => LinkInv'
<1> SUFFICES ASSUME FactoryInv, LinkInv, [Next]_vars PROVE LinkInv'
  OBVIOUS
<1>1. CASE Next
  BY <1>1, AwaitsKept, OneFactoryKept DEF LinkInv
<1>2. CASE UNCHANGED vars
  BY <1>2 DEF vars, server_vars, client_vars, LinkInv, Awaits, OneFactory, Greeted
<1> QED
  BY <1>1, <1>2

-----------------------------------------------------------------------------
(***************************************************************************)
(* The stubs and the back end agree on the subscriptions, if no service    *)
(* rejects: a rejection leaves the error of its answer unset, and the      *)
(* factory reads that as NO_ERROR.                                         *)
(***************************************************************************)

NoneRejects == SubscribeEffects \subseteq {"accept", "accept_cookie"}

IsSubscribed(n) == <<Ordinal(n), Client>> \in m_subscribed

Succeeded(rpc) == step = rpc /\ reply \in Replies /\ ErrorRead(reply) = "NO_ERROR"

NameAgrees(n) ==
  /\ \A f \in Factories :
       Marked(f, n) => IsSubscribed(n) \/ (Succeeded("unsubscribe") /\ op.name = n)
  /\ Succeeded("unsubscribe") /\ op.name = n => ~IsSubscribed(n)
  /\ (Succeeded("subscribe") \/ step = "list_methods") /\ op.name = n => IsSubscribed(n)
  /\ IsSubscribed(n) /\ (\A f \in Factories : ~Marked(f, n)) =>
       n \in failed \/ (step \in {"subscribe", "list_methods", "terminated"} /\ op.name = n)

AgreeInv == link => \A n \in UserNames : NameAgrees(n)

\* A step that changes nothing about service n, and is not in its subscription or
\* unsubscription before or after.
LEMMA NameAgreesStays ==
  ASSUME NEW n \in UserNames, NameAgrees(n), (IsSubscribed(n))' <=> IsSubscribed(n),
         \A f \in Factories : (Marked(f, n))' <=> Marked(f, n),
         n \in failed' <=> n \in failed,
         step \notin {"subscribe", "list_methods", "unsubscribe", "terminated"} \/ op.name # n,
         (~Succeeded("subscribe")' /\ ~Succeeded("unsubscribe")') \/ op'.name # n,
         step' # "list_methods" \/ op'.name # n
  PROVE  NameAgrees(n)'
<1>1. ~(Succeeded("unsubscribe") /\ op.name = n)
  BY DEF Succeeded
<1>2. ASSUME NEW f \in Factories, Marked(f, n)' PROVE (IsSubscribed(n))'
  BY <1>1, <1>2 DEF NameAgrees
<1>3. ASSUME (IsSubscribed(n))', \A f \in Factories : ~Marked(f, n)' PROVE n \in failed'
  BY <1>3 DEF NameAgrees
<1> QED
  BY <1>2, <1>3 DEF NameAgrees

\* An exception leaves the operation, without an unsubscription that took place.
LEMMA NameAgreesThrows ==
  ASSUME NEW n \in UserNames, NameAgrees(n), Throws, UNCHANGED m_subscribed,
         step \in Steps, ~Succeeded("unsubscribe")
  PROVE  NameAgrees(n)'
<1>1. step' = "idle" /\ UNCHANGED m_stubs
  BY DEF Throws, Ended
<1>2. (IsSubscribed(n))' <=> IsSubscribed(n)
  BY DEF IsSubscribed
<1>3. \A f \in Factories : (Marked(f, n))' <=> Marked(f, n)
  BY <1>1 DEF Marked
<1>4. ASSUME NEW f \in Factories, Marked(f, n)' PROVE (IsSubscribed(n))'
  BY <1>2, <1>3, <1>4 DEF NameAgrees
<1>5. ASSUME (IsSubscribed(n))', \A f \in Factories : ~Marked(f, n)' PROVE n \in failed'
  <2>1. n \in failed \/ (step \in {"subscribe", "list_methods", "terminated"} /\ op.name = n)
    BY <1>2, <1>3, <1>5 DEF NameAgrees
  <2>2. step # "terminated"
    BY DEF Steps
  <2> QED
    BY <2>1, <2>2 DEF Throws
<1>6. ~Succeeded("subscribe")' /\ ~Succeeded("unsubscribe")' /\ step' # "list_methods"
  BY <1>1 DEF Succeeded
<1> QED
  BY <1>4, <1>5, <1>6 DEF NameAgrees

\* The dispatch of a request.
LEMMA NameAgreesDispatched ==
  ASSUME NoneRejects, FactoryInv, LinkInv, link, Dispatched, NEW n \in UserNames, NameAgrees(n)
  PROVE  NameAgrees(n)'
<1> USE DEF FactoryInv
<1>1. /\ posted # None /\ UNCHANGED <<op, step, m_stubs, failed>>
      /\ reply = Awaited => reply' \in Replies
  BY DispatchedReply
<1>2. posted.step = step /\ posted.op = op /\ reply = Awaited
  BY <1>1 DEF LinkInv, Awaits
<1>3. \A f \in Factories : (Marked(f, n))' <=> Marked(f, n)
  BY <1>1 DEF Marked
<1>4. \A rpc : ~Succeeded(rpc)
  BY <1>2, RepliesApart DEF Succeeded
<1>5. ASSUME UNCHANGED m_subscribed, step \notin {"subscribe", "unsubscribe"}
      PROVE  NameAgrees(n)'
  <2>1. (IsSubscribed(n))' <=> IsSubscribed(n)
    BY <1>5 DEF IsSubscribed
  <2>2. ~Succeeded("subscribe")' /\ ~Succeeded("unsubscribe")'
    BY <1>1, <1>5 DEF Succeeded
  <2> QED
    BY <1>1, <1>3, <1>4, <2>1, <2>2 DEF NameAgrees
<1>6. ASSUME NEW matches \in BOOLEAN, Server!Hello(Client, matches) PROVE NameAgrees(n)'
  <2>1. step = "hello"
    BY <1>1, <1>2, <1>6, HelloIsPosted
  <2>2. UNCHANGED m_subscribed
    BY <1>6 DEF Server!Hello
  <2> QED
    BY <1>5, <2>1, <2>2
<1>7. ASSUME posted.step \in {"list_services", "list_methods", "call"}, Server!NoEffect(Client)
      PROVE  NameAgrees(n)'
  <2>1. UNCHANGED m_subscribed
    BY <1>7 DEF Server!NoEffect
  <2> QED
    BY <1>2, <1>5, <1>7, <2>1
<1>8. ASSUME posted.step \in {"subscribe", "unsubscribe"},
             Server!SubscriptionRpc(Client, Ordinal(posted.op.name)),
             NEW result \in BOOLEAN, Delivered(answer'[Client].error, result)
      PROVE  NameAgrees(n)'
  <2>1. op.name \in UserNames
    BY <1>2, <1>8 DEF OperationInv, StepInv, AboutService
  <2> DEFINE error == answer'[Client].error
  <2>2. error \in Server!Errors /\ Effects(Ordinal(op.name), MethodOrdinal[step])
    BY <1>1, <1>2, <1>8, DispatchedSubscription
  <2>3. reply'.error = error /\ reply' \in Replies
    <3>1. reply' = Answer(error, result)
      BY <1>2, <1>8 DEF Delivered
    <3> QED
      BY <2>2, <3>1, DeliveredReply
  <2> HIDE DEF error
  <2>4. CASE op.name # n
    <3>1. (IsSubscribed(n))' <=> IsSubscribed(n)
      <4>1. Ordinal(n) # Ordinal(op.name)
        BY <2>1, <2>4, OrdinalsDiffer
      <4>2. <<Ordinal(n), Client>> # <<Ordinal(op.name), Client>>
        BY <4>1
      <4> QED
        BY <2>2, <4>2 DEF Effects, IsSubscribed
    <3> QED
      BY <1>1, <1>3, <2>4, <3>1, NameAgreesStays
  <2>5. CASE op.name = n /\ step = "subscribe"
    <3>1. MethodOrdinal[step] = Server!rpc_subscribe_service
      BY <2>5 DEF MethodOrdinal
    <3>2. IsSubscribed(n) => (IsSubscribed(n))'
      BY <2>2, <2>5, <3>1 DEF Effects, IsSubscribed
    <3>3. Succeeded("subscribe")' => (IsSubscribed(n))'
      <4>1. error # "unset" /\ error # "lost"
        BY <2>2, <3>1 DEF Effects, NoneRejects, Server!Errors, error
      <4>2. Succeeded("subscribe")' => error = "NO_ERROR"
        BY <2>3, <4>1 DEF Succeeded, ErrorRead
      <4> QED
        BY <2>2, <2>5, <3>1, <4>2 DEF Effects, IsSubscribed, error
    <3>4. ~Succeeded("unsubscribe")' /\ step' = "subscribe" /\ op'.name = n
      BY <1>1, <2>5 DEF Succeeded
    <3>5. \A f \in Factories : Marked(f, n)' => (IsSubscribed(n))'
      BY <1>3, <1>4, <3>2 DEF NameAgrees
    <3> QED
      BY <3>3, <3>4, <3>5 DEF NameAgrees
  <2>6. CASE op.name = n /\ step = "unsubscribe"
    <3>1. MethodOrdinal[step] = Server!rpc_unsubscribe_service
      BY <2>6 DEF MethodOrdinal
    <3>2. ~(IsSubscribed(n))' /\ error \in {"NO_ERROR", "NO_SUBSCRIPTION"}
          /\ (error = "NO_SUBSCRIPTION" => ~IsSubscribed(n))
      BY <2>2, <2>6, <3>1 DEF Effects, IsSubscribed, error
    <3>3. ASSUME NEW f \in Factories, Marked(f, n)' PROVE Succeeded("unsubscribe")' /\ op'.name = n
      <4>1. IsSubscribed(n)
        BY <1>3, <1>4, <3>3 DEF NameAgrees
      <4>2. error = "NO_ERROR"
        BY <3>2, <4>1
      <4> QED
        BY <1>1, <2>3, <2>6, <4>2 DEF Succeeded, ErrorRead
    <3>4. ~Succeeded("subscribe")' /\ step' # "list_methods"
      BY <1>1, <2>6 DEF Succeeded
    <3> QED
      BY <3>2, <3>3, <3>4 DEF NameAgrees
  <2> QED
    BY <1>2, <1>8, <2>4, <2>5, <2>6
<1> QED
  BY <1>6, <1>7, <1>8 DEF Dispatched

\* The marks after a stub has been put at one place of the table of stubs.
LEMMA MarksPut ==
  ASSUME FactoryTypes, NEW f \in Factories, NEW k \in UserNames, NEW stub \in Stubs,
         m_stubs' = [m_stubs EXCEPT ![f][k] = stub]
  PROVE  /\ Marked(f, k)' <=> stub.m_is_subscribed
         /\ \A g \in Factories, n \in UserNames :
              g # f \/ n # k => (Marked(g, n)' <=> Marked(g, n))
<1>1. m_stubs \in [Factories -> [UserNames -> Stubs \cup {None}]]
  BY DEF FactoryTypes, ClientTypes
<1>2. m_stubs'[f][k] = stub
  BY <1>1, StubPut
<1>3. \A g \in Factories, n \in UserNames : g # f \/ n # k => m_stubs'[g][n] = m_stubs[g][n]
  BY <1>1, StubPut
<1>4. stub # None
  BY FactoryNoneAssumption
<1>5. Marked(f, k)' <=> stub.m_is_subscribed
  BY <1>2, <1>4 DEF Marked
<1>6. ASSUME NEW g \in Factories, NEW n \in UserNames, g # f \/ n # k
      PROVE  Marked(g, n)' <=> Marked(g, n)
  BY <1>3, <1>6 DEF Marked
<1> QED
  BY <1>5, <1>6

\* The answers that the factory receives.
LEMMA NameAgreesReceipt ==
  ASSUME FactoryInv, LinkInv, link, Receipt, NEW n \in UserNames, NameAgrees(n)
  PROVE  NameAgrees(n)'
<1> USE DEF FactoryInv
<1>1. UNCHANGED m_subscribed /\ reply \in Replies
  BY ReceiptReply DEF server_vars
<1>2. (IsSubscribed(n))' <=> IsSubscribed(n)
  BY <1>1 DEF IsSubscribed
<1> PICK f0, k0 : f0 = op.f /\ k0 = op.name
  OBVIOUS
<1>3. ASSUME UNCHANGED <<m_stubs, failed>>,
             step \in {"hello", "list_services", "call"}, step' \in {"idle", "list_services"}
      PROVE  NameAgrees(n)'
  <2>1. \A f \in Factories : (Marked(f, n))' <=> Marked(f, n)
    BY <1>3 DEF Marked
  <2>2. ~Succeeded("subscribe")' /\ ~Succeeded("unsubscribe")' /\ step' # "list_methods"
    BY <1>3 DEF Succeeded
  <2> QED
    BY <1>2, <1>3, <2>1, <2>2, NameAgreesStays
<1>4. ASSUME Throws, step \in Steps, ~Succeeded("unsubscribe") PROVE NameAgrees(n)'
  BY <1>1, <1>4, NameAgreesThrows
<1>5. CASE HelloAnswered
  <2>1. step = "hello"
    BY <1>5 DEF HelloAnswered, Answered
  <2>2. CASE Throws
    BY <1>4, <2>1, <2>2 DEF Succeeded, Steps
  <2>3. CASE Continue("list_services") /\ UNCHANGED <<m_services, m_stubs, failed>>
    BY <1>3, <2>1, <2>3 DEF Continue
  <2> QED
    BY <1>5, <2>2, <2>3 DEF HelloAnswered
<1>6. CASE ServicesListed \/ CallReturns
  BY <1>3, <1>6 DEF ServicesListed, CallReturns, Answered, Ended
<1>7. CASE ServiceSubscribed
  <2>1. step = "subscribe"
    BY <1>7 DEF ServiceSubscribed, Answered
  <2>2. CASE Throws
    BY <1>4, <2>1, <2>2 DEF Succeeded, Steps
  <2>3. CASE /\ ErrorRead(reply) = "NO_ERROR"
             /\ m_stubs' = [m_stubs EXCEPT ![op.f][op.name] = NewStub(op.type)]
             /\ Continue("list_methods")
             /\ UNCHANGED <<m_services, failed>>
    <3>1. op.f \in Factories /\ op.name \in UserNames /\ op.type \in StubTypes
      BY <2>1, OperationStub DEF AboutService
    <3>2. NewStub(op.type) \in Stubs /\ ~NewStub(op.type).m_is_subscribed
      BY <3>1, NewStubMade DEF NewStub
    <3>3. /\ ~Marked(f0, k0)'
          /\ \A g \in Factories, k \in UserNames :
               g # f0 \/ k # k0 => (Marked(g, k)' <=> Marked(g, k))
      BY <2>3, <3>1, <3>2, MarksPut
    <3>4. /\ step' = "list_methods" /\ op'.name = op.name /\ UNCHANGED failed
          /\ ~Succeeded("subscribe")' /\ ~Succeeded("unsubscribe")'
      BY <2>3 DEF Continue, Succeeded
    <3>5. Succeeded("subscribe") /\ ~Succeeded("unsubscribe")
      BY <1>1, <2>1, <2>3 DEF Succeeded
    <3>6. \A f \in Factories : Marked(f, n)' => IsSubscribed(n)
      BY <3>1, <3>3, <3>5 DEF NameAgrees
    <3>7. op.name = n => IsSubscribed(n)
      BY <3>5 DEF NameAgrees
    <3>8. op.name # n /\ IsSubscribed(n) /\ (\A f \in Factories : ~Marked(f, n)') => n \in failed
      BY <3>3 DEF NameAgrees
    <3> QED
      BY <1>2, <3>4, <3>6, <3>7, <3>8 DEF NameAgrees
  <2> QED
    BY <1>7, <2>2, <2>3 DEF ServiceSubscribed
<1>8. CASE MethodsListed
  <2>1. step = "list_methods" /\ step' = "idle" /\ failed' = failed \ {op.name}
    BY <1>8 DEF MethodsListed, Answered, Ended
  <2>2. PICK stub \in Stubs : /\ op.f \in Factories /\ op.name \in UserNames
                              /\ m_stubs' = [m_stubs EXCEPT ![op.f][op.name] = stub]
                              /\ stub.m_is_subscribed
    BY <1>8, MethodsListedStub, Zenon
  <2>3. /\ Marked(f0, k0)'
        /\ \A g \in Factories, k \in UserNames :
             g # f0 \/ k # k0 => (Marked(g, k)' <=> Marked(g, k))
    BY <2>2, MarksPut
  <2>4. ~Succeeded("subscribe")' /\ ~Succeeded("unsubscribe")' /\ ~Succeeded("unsubscribe")
    BY <2>1 DEF Succeeded
  <2>5. op.name = n => IsSubscribed(n)
    BY <2>1 DEF NameAgrees
  <2>6. \A f \in Factories : Marked(f, n)' => IsSubscribed(n)
    BY <2>2, <2>3, <2>4, <2>5 DEF NameAgrees
  <2>7. IsSubscribed(n) /\ (\A f \in Factories : ~Marked(f, n)') => n \in failed'
    <3>1. SUFFICES ASSUME IsSubscribed(n), \A f \in Factories : ~Marked(f, n)' PROVE n \in failed'
      OBVIOUS
    <3>2. n # op.name
      BY <2>2, <2>3, <3>1
    <3>3. n \in failed
      BY <2>3, <3>1, <3>2 DEF NameAgrees
    <3> QED
      BY <2>1, <3>2, <3>3
  <2> QED
    BY <1>2, <2>1, <2>4, <2>6, <2>7 DEF NameAgrees
<1>9. CASE StubLacksMethod
  <2>1. step = "list_methods" /\ step' = "terminated" /\ UNCHANGED <<op, m_stubs, failed>>
    BY <1>9 DEF StubLacksMethod, Answered
  <2>2. \A f \in Factories : (Marked(f, n))' <=> Marked(f, n)
    BY <2>1 DEF Marked
  <2>3. ~Succeeded("subscribe")' /\ ~Succeeded("unsubscribe")' /\ ~Succeeded("unsubscribe")
    BY <2>1 DEF Succeeded
  <2> QED
    BY <1>2, <2>1, <2>2, <2>3 DEF NameAgrees
<1>10. CASE ServiceUnsubscribed
  <2>1. step = "unsubscribe"
    BY <1>10 DEF ServiceUnsubscribed, Answered
  <2>2. CASE Throws /\ ErrorRead(reply) # "NO_ERROR"
    BY <1>4, <2>1, <2>2 DEF Succeeded, Steps
  <2>3. CASE /\ ErrorRead(reply) = "NO_ERROR"
             /\ m_stubs' = [m_stubs EXCEPT ![op.f][op.name].m_is_subscribed = FALSE]
             /\ Ended
             /\ UNCHANGED <<m_services, failed>>
    <3>1. PICK stub \in Stubs : /\ op.f \in Factories /\ op.name \in UserNames
                                /\ m_stubs' = [m_stubs EXCEPT ![op.f][op.name] = stub]
                                /\ ~stub.m_is_subscribed
      BY <2>1, <2>3, UnsubscribedStub, Zenon
    <3>2. ErrorRead(reply) = "NO_ERROR" /\ Ended /\ UNCHANGED failed
      BY <2>3, Zenon
    <3>3. /\ ~Marked(f0, k0)'
          /\ \A g \in Factories, k \in UserNames :
               g # f0 \/ k # k0 => (Marked(g, k)' <=> Marked(g, k))
      BY <3>1, MarksPut
    <3>4. step' = "idle" /\ ~Succeeded("subscribe")' /\ ~Succeeded("unsubscribe")'
      BY <3>2 DEF Ended, Succeeded
    <3>5. Succeeded("unsubscribe")
      BY <1>1, <2>1, <3>2 DEF Succeeded
    <3>6. CASE op.name = n
      <4>1. ~IsSubscribed(n)
        BY <3>5, <3>6 DEF NameAgrees
      <4>2. ASSUME NEW g \in Factories, Marked(g, n)' PROVE FALSE
        <5>1. g # f0 /\ Marked(g, n)
          BY <3>1, <3>3, <3>6, <4>2
        <5>2. m_services[g] # None /\ m_services[op.f] # None
          BY <2>1, <5>1 DEF Marked, LinkInv, OneFactory, AboutService
        <5> QED
          BY <3>1, <5>1, <5>2 DEF LinkInv, OneFactory
      <4> QED
        BY <1>2, <3>4, <4>1, <4>2 DEF NameAgrees
    <3>7. CASE op.name # n
      <4>1. \A f \in Factories : (Marked(f, n))' <=> Marked(f, n)
        BY <3>3, <3>7
      <4> QED
        BY <1>2, <3>2, <3>4, <3>7, <4>1, NameAgreesStays
    <3> QED
      BY <3>6, <3>7
  <2> QED
    BY <1>10, <2>2, <2>3 DEF ServiceUnsubscribed
<1> QED
  BY <1>5, <1>6, <1>7, <1>8, <1>9, <1>10 DEF Receipt

\* Every step keeps the agreement of the stubs and the back end.
LEMMA AgreeInvKept ==
  ASSUME NoneRejects, FactoryInv, LinkInv, AgreeInv, [Next]_vars
  PROVE  AgreeInv'
<1> USE DEF FactoryInv
<1>1. SUFFICES ASSUME link', NEW n \in UserNames PROVE NameAgrees(n)'
  BY DEF AgreeInv
<1>2. ASSUME UNCHANGED <<m_stubs, failed>>, (IsSubscribed(n))' <=> IsSubscribed(n), NameAgrees(n),
             step \notin {"subscribe", "list_methods", "unsubscribe", "terminated"},
             step' # "list_methods",  ~Succeeded("subscribe")', ~Succeeded("unsubscribe")'
      PROVE  NameAgrees(n)'
  <2>1. \A f \in Factories : (Marked(f, n))' <=> Marked(f, n)
    BY <1>2 DEF Marked
  <2> QED
    BY <1>2, <2>1, NameAgreesStays
<1>3. ASSUME NEW kind \in Invokers, CreateInvoker(kind) PROVE NameAgrees(n)'
  <2>1. invoker = None /\ UNCHANGED client_vars
    BY <1>3 DEF CreateInvoker
  <2>2. NothingYet
    BY <2>1 DEF OperationInv
  <2>3. step' = "idle" /\ \A f \in Factories : ~Marked(f, n)'
    BY <2>1, <2>2 DEF NothingYet, Marked, client_vars
  <2>4. m_subscribed' = {}
    BY <1>3, <2>2, ConnectKeeps DEF CreateInvoker, NothingYet, FactoryTypes
  <2> QED
    BY <2>3, <2>4 DEF NameAgrees, IsSubscribed, Succeeded
<1>4. ASSUME link, UNCHANGED <<server_vars, client_vars>> PROVE NameAgrees(n)'
  <2>1. NameAgrees(n)
    BY <1>4 DEF AgreeInv
  <2> QED
    BY <1>4, <2>1 DEF NameAgrees, IsSubscribed, Succeeded, Marked, server_vars, client_vars
<1>5. CASE UNCHANGED vars
  BY <1>1, <1>4, <1>5 DEF vars
<1>6. CASE Environment
  <2>1. link
    BY <1>1, <1>6 DEF Environment, BackEndDisconnects, ConnectionLost, GateMoves, Dispatched
  <2>2. NameAgrees(n)
    BY <2>1 DEF AgreeInv
  <2>3. CASE GateMoves
    BY <1>4, <2>1, <2>3 DEF GateMoves
  <2>4. CASE Dispatched
    BY <2>1, <2>2, <2>4, NameAgreesDispatched
  <2> QED
    BY <1>1, <1>6, <2>3, <2>4 DEF Environment, BackEndDisconnects, ConnectionLost
<1>7. ASSUME NEW f, NEW k, NEW type, NEW receiver, NEW method,
             NEW first \in {"hello", "subscribe", "unsubscribe", "call"},
             Begin(f, k, type, receiver, method, first)
      PROVE  NameAgrees(n)'
  <2>1. /\ link /\ step = "idle" /\ step' = first /\ reply = None
        /\ UNCHANGED <<reply, m_stubs, failed, m_subscribed>>
    BY <1>1, <1>7 DEF Begin, server_vars, OperationInv, StepInv
  <2>2. NameAgrees(n)
    BY <2>1 DEF AgreeInv
  <2>3. (IsSubscribed(n))' <=> IsSubscribed(n)
    BY <2>1 DEF IsSubscribed
  <2>4. ~Succeeded("subscribe")' /\ ~Succeeded("unsubscribe")'
    BY <2>1, RepliesApart DEF Succeeded
  <2> QED
    BY <1>2, <1>7, <2>1, <2>2, <2>3, <2>4
<1>8. CASE Operation
  <2>1. ASSUME NEW f \in Factories, Construct(f) PROVE NameAgrees(n)'
    BY <1>7, <2>1 DEF Construct
  <2>2. ASSUME NEW f \in Factories, NEW k \in UserNames, NEW type, NEW receiver,
               Subscribe(f, k, type, receiver)
        PROVE  NameAgrees(n)'
    BY <1>7, <2>2 DEF Subscribe
  <2>3. ASSUME NEW f \in Factories, NEW k \in UserNames, Unsubscribe(f, k) PROVE NameAgrees(n)'
    BY <1>7, <2>3 DEF Unsubscribe
  <2>4. ASSUME NEW f \in Factories, NEW k \in UserNames, NEW m, Call(f, k, m) PROVE NameAgrees(n)'
    BY <1>7, <2>4 DEF Call
  <2> QED
    BY <1>3, <1>8, <2>1, <2>2, <2>3, <2>4 DEF Operation
<1>9. CASE Rpc
  <2>1. link /\ Sending
    BY <1>1, <1>9 DEF Rpc, InvokerThrows, InvokerReturnsNothing, RequestRefused
  <2>2. NameAgrees(n) /\ step \in Steps /\ \A rpc : ~Succeeded(rpc)
    BY <2>1, RepliesApart DEF AgreeInv, Sending, Succeeded
  <2>3. ASSUME Throws, UNCHANGED m_subscribed PROVE NameAgrees(n)'
    BY <2>2, <2>3, NameAgreesThrows
  <2>4. ASSUME UNCHANGED <<m_subscribed, op, step, m_stubs, failed>>,
               reply' = Awaited \/ reply' = Answer("already", FALSE)
        PROVE  NameAgrees(n)'
    <3>1. ~Succeeded("subscribe")' /\ ~Succeeded("unsubscribe")'
      BY <2>4, RepliesApart DEF Succeeded, ErrorRead
    <3>2. (IsSubscribed(n))' <=> IsSubscribed(n)
      BY <2>4 DEF IsSubscribed
    <3>3. \A f \in Factories : (Marked(f, n))' <=> Marked(f, n)
      BY <2>4 DEF Marked
    <3> QED
      BY <2>2, <2>4, <3>1, <3>2, <3>3 DEF NameAgrees
  <2>5. CASE RequestRefused
    BY <2>3, <2>5 DEF RequestRefused, server_vars
  <2>6. ASSUME NEW r, RequestRejected(r) \/ RequestPosted(r) PROVE NameAgrees(n)'
    <3>1. UNCHANGED m_subscribed
      BY <2>6 DEF RequestRejected, RequestPosted, Server!Invoke
    <3> QED
      BY <2>3, <2>4, <2>6, <3>1 DEF RequestRejected, RequestPosted
  <2> QED
    BY <1>9, <2>1, <2>5, <2>6 DEF Rpc, InvokerThrows, InvokerReturnsNothing
<1>10. CASE Receipt
  <2>1. link
    BY <1>1, <1>10, ReceiptReply
  <2>2. NameAgrees(n)
    BY <2>1 DEF AgreeInv
  <2> QED
    BY <1>10, <2>1, <2>2, NameAgreesReceipt
<1> QED
  BY <1>5, <1>6, <1>8, <1>9, <1>10 DEF Next

\* While the client is connected, its stubs and the back end agree on what it is
\* subscribed to, for any number of factories and services, if no service rejects.
THEOREM StubsAndBackEndAgree == ASSUME NoneRejects PROVE Spec => []ViewsAgree
<1>1. Init => LinkInv /\ AgreeInv
  BY DEF Init, LinkInv, AgreeInv
<1>2. FactoryInv /\ LinkInv /\ AgreeInv /\ [Next]_vars => LinkInv' /\ AgreeInv'
  BY LinkInvKept, AgreeInvKept
<1>3. AgreeInv => ViewsAgree
  <2> SUFFICES ASSUME AgreeInv, link, NEW n \in UserNames
               PROVE  LET subscribed == <<Ordinal(n), Client>> \in m_subscribed
                          marked == {f \in Factories : Marked(f, n)}
                          during(rpcs) == step \in rpcs /\ op.name = n
                      IN  /\ marked # {} => subscribed \/ during({"unsubscribe"})
                          /\ subscribed /\ marked = {} =>
                               n \in failed \/ during({"subscribe", "list_methods", "terminated"})
    BY DEF ViewsAgree
  <2>1. NameAgrees(n)
    BY DEF AgreeInv
  <2> QED
    BY <2>1 DEF NameAgrees, IsSubscribed, Succeeded
<1> QED
  BY <1>1, <1>2, <1>3, FactoryInvInit, FactoryInvKept, PTL DEF Spec

\* So the stub that says it is subscribed, and is not, is always one of a service
\* that rejected: between two operations of a connected client there is no other.
THEOREM MarkedStubsAreSubscribed == ASSUME NoneRejects PROVE Spec => []MarkedIsSubscribed
<1>1. Init => LinkInv /\ AgreeInv
  BY DEF Init, LinkInv, AgreeInv
<1>2. FactoryInv /\ LinkInv /\ AgreeInv /\ [Next]_vars => LinkInv' /\ AgreeInv'
  BY LinkInvKept, AgreeInvKept
<1>3. AgreeInv => MarkedIsSubscribed
  <2> SUFFICES ASSUME AgreeInv, link, step = "idle", NEW f \in Factories, NEW n \in UserNames,
                      Marked(f, n)
               PROVE  <<Ordinal(n), Client>> \in m_subscribed
    BY DEF MarkedIsSubscribed
  <2>1. NameAgrees(n)
    BY DEF AgreeInv
  <2> QED
    BY <2>1 DEF NameAgrees, IsSubscribed, Succeeded
<1> QED
  BY <1>1, <1>2, <1>3, FactoryInvInit, FactoryInvKept, PTL DEF Spec

-----------------------------------------------------------------------------
(***************************************************************************)
(* The back end behind the invoker is the one of Sessions.                 *)
(***************************************************************************)

\* A step of the composed system is a step of Sessions, or none of its business.
LEMMA ServerSteps ==
  ASSUME FactoryInv, Next
  PROVE  Server!Next \/ UNCHANGED server_vars
<1> USE DEF FactoryInv
<1>1. ASSUME Server!Connect(Client) \/ Server!Disconnect(Client)
             \/ (\E r \in Server!Requests : Server!Invoke(Client, r)) \/ Server!Dispatch(Client)
      PROVE  Server!Next
  BY <1>1 DEF Server!Next
<1>2. CASE Environment
  <2>1. CASE Dispatched
    <3>1. ASSUME posted # None, posted.step \in {"subscribe", "unsubscribe"},
                 Server!SubscriptionRpc(Client, Ordinal(posted.op.name))
          PROVE  Server!Dispatch(Client)
      <4>1. posted.op.name \in UserNames
        BY <3>1 DEF PostedInv, AboutService
      <4>2. Ordinal(posted.op.name) \in RequestOrdinals
        BY <4>1, OrdinalOfName
      <4> QED
        BY <3>1, <4>2 DEF Server!Dispatch
    <3>2. Server!Dispatch(Client)
      BY <2>1, <3>1 DEF Dispatched, Server!Dispatch
    <3> QED
      BY <1>1, <3>2
  <2> QED
    BY <1>1, <1>2, <2>1 DEF Environment, BackEndDisconnects, ConnectionLost, GateMoves
<1>3. CASE Operation
  BY <1>1, <1>3 DEF Operation, CreateInvoker, Construct, Subscribe, Unsubscribe, Call, Begin
<1>4. CASE Rpc
  <2>1. ASSUME Sending, NEW r \in Requests, RequestRejected(r) \/ RequestPosted(r)
        PROVE  Server!Next
    <3>1. r \in Server!Requests
      BY <2>1, RequestTyped DEF Sending
    <3>2. Server!Invoke(Client, r)
      BY <2>1 DEF RequestRejected, RequestPosted
    <3> QED
      BY <1>1, <3>1, <3>2
  <2> QED
    BY <1>4, <2>1 DEF Rpc, InvokerThrows, InvokerReturnsNothing, RequestRefused
<1>5. CASE Receipt
  BY <1>5, ReceiptReply
<1> QED
  BY <1>2, <1>3, <1>4, <1>5 DEF Next

\* Whatever the factories and the invoker do, the back end behaves as Sessions says
\* of a client that sends any request: what is proved of the sessions holds here.
THEOREM BackEndIsSessions == Spec => Server!Spec
<1>1. Init => Server!Init
  BY DEF Init
<1>2. FactoryInv /\ [Next]_vars => [Server!Next]_(Server!vars)
  <2> SUFFICES ASSUME FactoryInv, [Next]_vars PROVE Server!Next \/ UNCHANGED Server!vars
    OBVIOUS
  <2>1. Server!vars = server_vars
    BY DEF Server!vars, server_vars
  <2>2. UNCHANGED vars => UNCHANGED server_vars
    BY DEF vars
  <2>3. Server!Next \/ UNCHANGED server_vars
    BY <2>2, ServerSteps
  <2> QED
    BY <2>3 DEF Server!vars, server_vars
<1> QED
  BY <1>1, <1>2, FactoryInvInit, FactoryInvKept, PTL DEF Spec, Server!Spec
=============================================================================
