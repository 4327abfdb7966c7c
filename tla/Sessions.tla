------------------------------ MODULE Sessions ------------------------------
(***************************************************************************)
(* Client sessions: the checks of BackEnd::invoke, the basic protocol that *)
(* service 0 runs (hello, list, subscribe, unsubscribe), the cookies the   *)
(* back end keeps per service and client, and BackEnd::disconnect.         *)
(*                                                                         *)
(* The back end is started and its gate open; InProcess models the gate    *)
(* and the threads.  From there comes that one client has one rpc at a     *)
(* time and does not disconnect during it; rpcs of different clients       *)
(* interleave between their checks and their dispatch.  A client is the    *)
(* address of its ClientData, which keys the cookie maps: a new ClientData *)
(* may be allocated where a destroyed one was.                             *)
(***************************************************************************)
EXTENDS Integers

CONSTANTS
  Addresses,         \* addresses of ClientData objects
  NumServices,       \* services registered, service 0 included
  UserMethods,       \* methods of each user service
  OrdinalWidth,      \* number of values of ordinal_type, 2^16 in the code
  RequestOrdinals,   \* uint32 ordinals that requests name
  SubscribeEffects,  \* what the services' subscribe does
  None

ASSUME SessionsAssumption ==
  /\ NumServices \in Nat \ {0}
  /\ UserMethods \in Nat
  /\ OrdinalWidth \in Nat \ {0}
  /\ NumServices <= OrdinalWidth /\ UserMethods <= OrdinalWidth /\ 5 <= OrdinalWidth
  /\ RequestOrdinals \subseteq Nat
  /\ SubscribeEffects \subseteq {"accept", "accept_cookie", "reject", "reject_cookie"}

VARIABLES
  connected,             \* ClientData objects that exist and are connected
  m_client_established,
  m_should_disconect,
  cookies,               \* <<service, client>> pairs in the cookie maps
  m_subscribed,          \* the pairs whose cookie is subscribed
  m_cookie_base,         \* the pairs whose cookie holds service data
  served,                \* the pairs a user service counts as subscribed
  pending,               \* per client: the request posted for dispatch
  answer                 \* per client: the last answer of a subscription rpc

vars == <<connected, m_client_established, m_should_disconect, cookies,
          m_subscribed, m_cookie_base, served, pending, answer>>

Services == 0..(NumServices - 1)
UserServices == 1..(NumServices - 1)
Pairs == Services \X Addresses

\* request_ordinal on service 0, in the order of BasicProtocol.proto
hello == 0
list_services == 1
rpc_subscribe_service == 2
rpc_unsubscribe_service == 3
list_methods == 4

Requests == [service : RequestOrdinals, method : RequestOrdinals]

Errors == {"unset", "NO_ERROR", "NOT_IN_USE", "ALLREADY_SUBSCRIBED", "NO_SUBSCRIPTION"}

Answers == [rpc : {rpc_subscribe_service, rpc_unsubscribe_service},
            service : RequestOrdinals, error : Errors]

ASSUME NoneAssumption == None \notin Requests \cup Answers

SessionsTypeOK ==
  /\ connected \subseteq Addresses
  /\ m_client_established \subseteq Addresses
  /\ m_should_disconect \subseteq Addresses
  /\ cookies \subseteq Pairs
  /\ m_subscribed \subseteq cookies
  /\ m_cookie_base \subseteq cookies
  /\ served \subseteq Pairs
  /\ pending \in [Addresses -> Requests \cup {None}]
  /\ answer \in [Addresses -> Answers \cup {None}]

Init ==
  /\ connected = {}
  /\ m_client_established = {}
  /\ m_should_disconect = {}
  /\ cookies = {}
  /\ m_subscribed = {}
  /\ m_cookie_base = {}
  /\ served = {}
  /\ pending = [c \in Addresses |-> None]
  /\ answer = [c \in Addresses |-> None]

-----------------------------------------------------------------------------
\* A uint32 passed where an ordinal_type is expected.
ToOrdinal(n) == n % OrdinalWidth

Methods(s) == IF s = 0 THEN 5 ELSE UserMethods

\* BackEnd::invoke converts the ordinals to look things up, and compares the
\* unconverted ones with 0 to tell service 0 and hello.
NamesService(r) == ToOrdinal(r.service) \in Services

NamesMethod(r) == ToOrdinal(r.method) < Methods(ToOrdinal(r.service))

IsHello(r) == r.service = 0 /\ r.method = hello

\* The pair whose cookie the request uses.
PairOf(c, r) == <<ToOrdinal(r.service), c>>

SubscriptionUnchecked(c, r) == TRUE
Subscribed(c, r) == r.service = 0 \/ PairOf(c, r) \in m_subscribed

HelloAlways(c) == TRUE
HelloAllowed(c) == c \notin m_client_established

\* The checks, in the code's order; "posted" is none of the errors.
Verdict(c, r) ==
  IF ~NamesService(r) THEN "NO_SERVICE_WITH_ORDINAL"
  ELSE IF ~NamesMethod(r) THEN "NO_FUNCTION_WITH_ORDINAL"
  ELSE IF ~Subscribed(c, r) THEN "NOT_SUBSCRIBED"
  ELSE IF IsHello(r)
    THEN IF HelloAllowed(c) THEN "posted" ELSE "ALLREADY_ESTABLISHED"
  ELSE IF c \notin m_client_established THEN "NOT_ESTABLISHED"
  ELSE "posted"

\* create_or_retrieve_cookie comes after the lookups and before the other checks.
CookieCreated(c, r) ==
  cookies' = IF NamesService(r) /\ NamesMethod(r)
             THEN cookies \cup {PairOf(c, r)} ELSE cookies

Idle(c) == c \in connected /\ pending[c] = None

Invoke(c, r) ==
  /\ Idle(c)
  /\ CookieCreated(c, r)
  /\ pending' = [pending EXCEPT ![c] = IF Verdict(c, r) = "posted" THEN r ELSE None]
  /\ m_should_disconect' = IF Verdict(c, r) = "ALLREADY_ESTABLISHED"
                           THEN m_should_disconect \cup {c} ELSE m_should_disconect
  /\ answer' = [answer EXCEPT ![c] = None]
  /\ UNCHANGED <<connected, m_client_established, m_subscribed, m_cookie_base, served>>

-----------------------------------------------------------------------------
\* The dispatch of c's request by the pool.

Dispatches(c, m) ==
  /\ pending[c] # None
  /\ ToOrdinal(pending[c].service) = 0
  /\ ToOrdinal(pending[c].method) = m
  /\ pending' = [pending EXCEPT ![c] = None]

Answered(c, m, t, error) ==
  answer' = [answer EXCEPT ![c] = [rpc |-> m, service |-> t, error |-> error]]

\* hello with the back end's source and target types establishes the client,
\* any other one asks for its disconnection.
Hello(c, matches) ==
  /\ Dispatches(c, hello)
  /\ IF matches
       THEN /\ m_client_established' = m_client_established \cup {c}
            /\ UNCHANGED m_should_disconect
       ELSE /\ m_should_disconect' = m_should_disconect \cup {c}
            /\ UNCHANGED m_client_established
  /\ UNCHANGED <<connected, cookies, m_subscribed, m_cookie_base, served, answer>>

\* Dispatches that leave the sessions alone: list_services, list_methods, a
\* user service's method, and any request whose string does not parse.
NoEffect(c) ==
  /\ pending[c] # None
  /\ pending' = [pending EXCEPT ![c] = None]
  /\ UNCHANGED <<connected, m_client_established, m_should_disconect, cookies,
                 m_subscribed, m_cookie_base, served, answer>>

SubscribeRefused(c, t) ==
  /\ Dispatches(c, rpc_subscribe_service)
  /\ t >= NumServices
  /\ Answered(c, rpc_subscribe_service, t, "NOT_IN_USE")
  /\ UNCHANGED <<connected, m_client_established, m_should_disconect, cookies,
                 m_subscribed, m_cookie_base, served>>

SubscribedAlready(c, t) ==
  /\ Dispatches(c, rpc_subscribe_service)
  /\ t < NumServices
  /\ <<t, c>> \in m_subscribed
  /\ Answered(c, rpc_subscribe_service, t, "ALLREADY_SUBSCRIBED")
  /\ UNCHANGED <<connected, m_client_established, m_should_disconect, cookies,
                 m_subscribed, m_cookie_base, served>>

\* The service decides; one that rejects sets the client's error code, and the
\* response's error field is left unset.  Service 0 accepts without a cookie.
MarkedAnyway(p, accepted) == m_subscribed' = m_subscribed \cup {p}
MarkIfAccepted(p, accepted) ==
  m_subscribed' = IF accepted THEN m_subscribed \cup {p} ELSE m_subscribed

Subscribe(c, t, effect) ==
  LET accepted == effect \in {"accept", "accept_cookie"}
  IN  /\ Dispatches(c, rpc_subscribe_service)
      /\ t < NumServices
      /\ <<t, c>> \notin m_subscribed
      /\ t = 0 => effect = "accept"
      /\ cookies' = cookies \cup {<<t, c>>}
      /\ m_cookie_base' = IF effect \in {"accept_cookie", "reject_cookie"}
                          THEN m_cookie_base \cup {<<t, c>>} ELSE m_cookie_base
      /\ MarkIfAccepted(<<t, c>>, accepted)
      /\ served' = IF accepted THEN served \cup {<<t, c>>} ELSE served
      /\ Answered(c, rpc_subscribe_service, t, IF accepted THEN "NO_ERROR" ELSE "unset")
      /\ UNCHANGED <<connected, m_client_established, m_should_disconect>>

UnsubscribeRefused(c, t) ==
  /\ Dispatches(c, rpc_unsubscribe_service)
  /\ t >= NumServices
  /\ Answered(c, rpc_unsubscribe_service, t, "NOT_IN_USE")
  /\ UNCHANGED <<connected, m_client_established, m_should_disconect, cookies,
                 m_subscribed, m_cookie_base, served>>

\* create_or_retrieve_cookie has made a cookie even so.
NotSubscribed(c, t) ==
  /\ Dispatches(c, rpc_unsubscribe_service)
  /\ t < NumServices
  /\ <<t, c>> \notin m_subscribed
  /\ cookies' = cookies \cup {<<t, c>>}
  /\ Answered(c, rpc_unsubscribe_service, t, "NO_SUBSCRIPTION")
  /\ UNCHANGED <<connected, m_client_established, m_should_disconect,
                 m_subscribed, m_cookie_base, served>>

\* destroy_cookie, delete_cookie: the flag goes with the map's entry.
FlagOutlivesCookie(ps) ==
  /\ m_cookie_base' = m_cookie_base \ ps
  /\ cookies' = cookies \ ps
  /\ UNCHANGED m_subscribed
DeleteWithoutDestroy(ps) ==
  /\ cookies' = cookies \ ps
  /\ m_subscribed' = m_subscribed \ ps
  /\ UNCHANGED m_cookie_base
DestroyOnly(ps) ==
  /\ m_cookie_base' = m_cookie_base \ ps
  /\ UNCHANGED <<cookies, m_subscribed>>
DestroyAndDelete(ps) ==
  /\ m_cookie_base' = m_cookie_base \ ps
  /\ cookies' = cookies \ ps
  /\ m_subscribed' = m_subscribed \ ps

Unsubscribe(c, t) ==
  /\ Dispatches(c, rpc_unsubscribe_service)
  /\ t < NumServices
  /\ <<t, c>> \in m_subscribed
  /\ served' = served \ {<<t, c>>}
  /\ DestroyAndDelete({<<t, c>>})
  /\ Answered(c, rpc_unsubscribe_service, t, "NO_ERROR")
  /\ UNCHANGED <<connected, m_client_established, m_should_disconect>>

\* The subscription rpcs about service t.
SubscriptionRpc(c, t) ==
  \/ SubscribeRefused(c, t) \/ SubscribedAlready(c, t)
  \/ \E effect \in SubscribeEffects : Subscribe(c, t, effect)
  \/ UnsubscribeRefused(c, t) \/ NotSubscribed(c, t) \/ Unsubscribe(c, t)

Dispatch(c) ==
  \/ \E matches \in BOOLEAN : Hello(c, matches)
  \/ NoEffect(c)
  \/ \E t \in RequestOrdinals : SubscriptionRpc(c, t)

-----------------------------------------------------------------------------
\* A new ClientData at address c is connected.
Connect(c) ==
  /\ c \notin connected
  /\ connected' = connected \cup {c}
  /\ m_client_established' = m_client_established \ {c}
  /\ m_should_disconect' = m_should_disconect \ {c}
  /\ answer' = [answer EXCEPT ![c] = None]
  /\ UNCHANGED <<cookies, m_subscribed, m_cookie_base, served, pending>>

\* The pairs BackEnd::disconnect goes through: the loop starts at 1.
CleanedFromTwo(c) == {<<s, c>> : s \in UserServices \ {1}}
CleanedUp(c) == {<<s, c>> : s \in UserServices}

\* disconnect: the services the client is subscribed to are told, the cookies of
\* the user services are destroyed and deleted.
Disconnect(c) ==
  /\ Idle(c)
  /\ connected' = connected \ {c}
  /\ served' = served \ (CleanedUp(c) \cap m_subscribed)
  /\ DestroyAndDelete(CleanedUp(c))
  /\ answer' = [answer EXCEPT ![c] = None]
  /\ UNCHANGED <<m_client_established, m_should_disconect, pending>>

Next ==
  \E c \in Addresses :
    \/ Connect(c) \/ Disconnect(c)
    \/ \E r \in Requests : Invoke(c, r)
    \/ Dispatch(c)

Spec == Init /\ [][Next]_vars

-----------------------------------------------------------------------------
\* Whatever a request's history, it is dispatched for a connected client whose
\* cookie is in the map; apart from hello for an established client; and on a
\* user service for a subscribed one.
DispatchAuthorised ==
  \A c \in Addresses : pending[c] # None =>
    LET s == ToOrdinal(pending[c].service)
        m == ToOrdinal(pending[c].method)
    IN  /\ c \in connected
        /\ <<s, c>> \in cookies
        /\ s # 0 \/ m # hello => c \in m_client_established
        /\ s # 0 => <<s, c>> \in m_subscribed

\* The assertion of establish_client: "CANNOT ESTABLISH A CLIENT TWICE".
EstablishedOnce ==
  \A c \in Addresses :
    pending[c] # None /\ ToOrdinal(pending[c].service) = 0
                      /\ ToOrdinal(pending[c].method) = hello
      => c \notin m_client_established

\* A user service and the back end agree on who is subscribed, through any mix
\* of subscriptions, rejections, unsubscriptions and disconnections: unsubscribe
\* is called once for each accepted subscribe.
ServiceViewAgrees ==
  {p \in served : p[1] # 0} = {p \in m_subscribed : p[1] # 0}

\* No cookie of a user service outlives its client, so a client allocated at the
\* same address starts with none.
NoUserCookieLeft ==
  \A p \in cookies : p[1] # 0 => p[2] \in connected

\* Service data hangs only on subscribed cookies: the next subscribe's
\* create_cookie finds m_cookie_base == NULL, as it asserts.
CookieDataOwned == m_cookie_base \subseteq m_subscribed

\* An answer that sets its error field tells the truth about the subscription.
AnswersTrue ==
  \A c \in Addresses : answer[c] # None =>
    LET a == answer[c]
        p == <<a.service, c>>
    IN  /\ a.error = "NOT_IN_USE" <=> a.service >= NumServices
        /\ a.error = "NO_ERROR" /\ a.rpc = rpc_subscribe_service => p \in m_subscribed
        /\ a.error = "ALLREADY_SUBSCRIBED" => p \in m_subscribed
        /\ a.error = "NO_ERROR" /\ a.rpc = rpc_unsubscribe_service => p \notin cookies
        /\ a.error = "NO_SUBSCRIPTION" => p \notin m_subscribed
=============================================================================
