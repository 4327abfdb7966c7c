--------------------------- MODULE SessionsProofs ---------------------------
(***************************************************************************)
(* Proofs about Sessions, for every set of client addresses, every number  *)
(* of services and methods, and every width of ordinal_type.               *)
(***************************************************************************)
EXTENDS Sessions, TLAPS

\* Converting to ordinal_type gives an ordinal_type, and keeps what fits.
LEMMA OrdinalConversion ==
  ASSUME NEW n \in Nat
  PROVE  /\ ToOrdinal(n) \in 0..(OrdinalWidth - 1)
         /\ n < OrdinalWidth => ToOrdinal(n) = n
BY SessionsAssumption, SMT DEF ToOrdinal

LEMMA UserServicesAreServices == UserServices \subseteq Services
BY SessionsAssumption DEF Services, UserServices

-----------------------------------------------------------------------------
(***************************************************************************)
(* Types, which every step keeps on its own.                               *)
(***************************************************************************)

\* A request of BackEnd::invoke keeps the types.
LEMMA InvokeTypes ==
  ASSUME SessionsTypeOK, NEW c \in Addresses, NEW r \in Requests, Invoke(c, r)
  PROVE  SessionsTypeOK'
<1>1. NamesService(r) => PairOf(c, r) \in Pairs
  BY DEF NamesService, PairOf, Pairs
<1> QED
  BY <1>1 DEF SessionsTypeOK, Invoke, CookieCreated

\* The hello rpc, and the ones without an effect, keep the types.
LEMMA PlainDispatchTypes ==
  ASSUME SessionsTypeOK, NEW c \in Addresses,
         NoEffect(c) \/ \E matches \in BOOLEAN : Hello(c, matches)
  PROVE  SessionsTypeOK'
BY DEF SessionsTypeOK, NoEffect, Hello, Dispatches

\* The subscription rpcs keep the types.
LEMMA SubscriptionTypes ==
  ASSUME SessionsTypeOK, NEW c \in Addresses, NEW t \in RequestOrdinals, SubscriptionRpc(c, t)
  PROVE  SessionsTypeOK'
<1>1. t \in Nat
  BY SessionsAssumption
<1>2. t < NumServices => <<t, c>> \in Pairs
  BY <1>1, SessionsAssumption DEF Services, Pairs
<1>3. ASSUME NEW m \in {rpc_subscribe_service, rpc_unsubscribe_service},
             NEW error \in Errors, Answered(c, m, t, error)
      PROVE  answer' \in [Addresses -> Answers \cup {None}]
  BY <1>3 DEF Answered, Answers, SessionsTypeOK
<1>4. ASSUME NEW m, Dispatches(c, m)
      PROVE  pending' \in [Addresses -> Requests \cup {None}]
  BY <1>4 DEF Dispatches, SessionsTypeOK
<1>5. CASE SubscribeRefused(c, t)
  BY <1>5, <1>3, <1>4 DEF SubscribeRefused, SessionsTypeOK, Errors
<1>6. CASE SubscribedAlready(c, t)
  BY <1>6, <1>3, <1>4 DEF SubscribedAlready, SessionsTypeOK, Errors
<1>7. ASSUME NEW effect \in SubscribeEffects, Subscribe(c, t, effect)
      PROVE  SessionsTypeOK'
  BY <1>7, <1>2, <1>3, <1>4 DEF Subscribe, MarkIfAccepted, SessionsTypeOK, Errors
<1>8. CASE UnsubscribeRefused(c, t)
  BY <1>8, <1>3, <1>4 DEF UnsubscribeRefused, SessionsTypeOK, Errors
<1>9. CASE NotSubscribed(c, t)
  BY <1>9, <1>2, <1>3, <1>4 DEF NotSubscribed, SessionsTypeOK, Errors
<1>10. CASE Unsubscribe(c, t)
  BY <1>10, <1>3, <1>4 DEF Unsubscribe, DestroyAndDelete, SessionsTypeOK, Errors
<1> QED
  BY <1>5, <1>6, <1>7, <1>8, <1>9, <1>10 DEF SubscriptionRpc

\* Connecting and disconnecting keep the types.
LEMMA ConnectionTypes ==
  ASSUME SessionsTypeOK, NEW c \in Addresses, Connect(c) \/ Disconnect(c)
  PROVE  SessionsTypeOK'
BY DEF SessionsTypeOK, Connect, Disconnect, DestroyAndDelete

LEMMA TypesKept == SessionsTypeOK /\ [Next]_vars => SessionsTypeOK'
<1> SUFFICES ASSUME SessionsTypeOK, [Next]_vars
             PROVE  SessionsTypeOK'
  OBVIOUS
<1>1. CASE UNCHANGED vars
  BY <1>1 DEF vars, SessionsTypeOK
<1>2. CASE Next
  BY <1>2, InvokeTypes, PlainDispatchTypes, SubscriptionTypes, ConnectionTypes DEF Next, Dispatch
<1> QED
  BY <1>1, <1>2

\* Every variable keeps its type: a cookie's pair names a service there is, and
\* flags and service data are only on cookies in the maps.
THEOREM SessionsTyped == Spec => []SessionsTypeOK
<1>1. Init => SessionsTypeOK
  BY DEF Init, SessionsTypeOK
<1> QED
  BY <1>1, TypesKept, PTL DEF Spec

-----------------------------------------------------------------------------
(***************************************************************************)
(* Sessions do not interfere.                                              *)
(***************************************************************************)
ClientStep(c) ==
  \/ Connect(c) \/ Disconnect(c)
  \/ \E r \in Requests : Invoke(c, r)
  \/ Dispatch(c)

\* All that the back end and the services keep about client d is left as it was.
SessionKept(d) ==
  /\ pending'[d] = pending[d]
  /\ answer'[d] = answer[d]
  /\ d \in connected' <=> d \in connected
  /\ d \in m_client_established' <=> d \in m_client_established
  /\ d \in m_should_disconect' <=> d \in m_should_disconect
  /\ \A s : /\ <<s, d>> \in cookies' <=> <<s, d>> \in cookies
            /\ <<s, d>> \in m_subscribed' <=> <<s, d>> \in m_subscribed
            /\ <<s, d>> \in m_cookie_base' <=> <<s, d>> \in m_cookie_base
            /\ <<s, d>> \in served' <=> <<s, d>> \in served

\* No step for one client changes another's session.
LEMMA StepKeepsOthers ==
  ASSUME SessionsTypeOK, NEW c \in Addresses, NEW d \in Addresses, d # c, ClientStep(c)
  PROVE  SessionKept(d)
<1> USE DEF SessionKept, SessionsTypeOK
<1>1. CASE Connect(c)
  BY <1>1 DEF Connect
<1>2. CASE Disconnect(c)
  BY <1>2 DEF Disconnect, DestroyAndDelete, CleanedUp
<1>3. ASSUME NEW r \in Requests, Invoke(c, r)
      PROVE  SessionKept(d)
  BY <1>3 DEF Invoke, CookieCreated, PairOf
<1>4. ASSUME NEW matches \in BOOLEAN, Hello(c, matches)
      PROVE  SessionKept(d)
  BY <1>4 DEF Hello, Dispatches
<1>5. CASE NoEffect(c)
  BY <1>5 DEF NoEffect
<1>6. ASSUME NEW t \in RequestOrdinals, SubscriptionRpc(c, t)
      PROVE  SessionKept(d)
  <2> USE DEF Dispatches, Answered
  <2>1. CASE SubscribeRefused(c, t)
    BY <2>1 DEF SubscribeRefused
  <2>2. CASE SubscribedAlready(c, t)
    BY <2>2 DEF SubscribedAlready
  <2>3. ASSUME NEW effect \in SubscribeEffects, Subscribe(c, t, effect)
        PROVE  SessionKept(d)
    BY <2>3 DEF Subscribe, MarkIfAccepted
  <2>4. CASE UnsubscribeRefused(c, t)
    BY <2>4 DEF UnsubscribeRefused
  <2>5. CASE NotSubscribed(c, t)
    BY <2>5 DEF NotSubscribed
  <2>6. CASE Unsubscribe(c, t)
    BY <2>6 DEF Unsubscribe, DestroyAndDelete
  <2> QED
    BY <1>6, <2>1, <2>2, <2>3, <2>4, <2>5, <2>6 DEF SubscriptionRpc
<1> QED
  BY <1>1, <1>2, <1>3, <1>4, <1>5, <1>6 DEF ClientStep, Dispatch

-----------------------------------------------------------------------------
(***************************************************************************)
(* The safety invariants, client by client: a step of another client keeps *)
(* them by StepKeepsOthers, the client's own steps are gone through below. *)
(***************************************************************************)
Authorised(c) ==
  pending[c] # None =>
    LET s == ToOrdinal(pending[c].service)
        m == ToOrdinal(pending[c].method)
    IN  /\ c \in connected
        /\ <<s, c>> \in cookies
        /\ s # 0 \/ m # hello => c \in m_client_established
        /\ s # 0 => <<s, c>> \in m_subscribed

CookiesLive(c) ==
  \A s \in Services : s # 0 /\ <<s, c>> \in cookies => c \in connected

ViewAgrees(c) ==
  \A s \in Services : s # 0 => (<<s, c>> \in served <=> <<s, c>> \in m_subscribed)

\* What makes DispatchAuthorised, NoUserCookieLeft and ServiceViewAgrees
\* inductive: a dispatch may create a cookie because its client is connected.
SessionInv(c) == Authorised(c) /\ CookiesLive(c) /\ ViewAgrees(c)

SessionsInv == SessionsTypeOK /\ \A c \in Addresses : SessionInv(c)

LEMMA KeptInv ==
  ASSUME NEW d \in Addresses, SessionInv(d), SessionKept(d)
  PROVE  SessionInv(d)'
BY DEF SessionInv, Authorised, CookiesLive, ViewAgrees, SessionKept

\* A posted request has passed the checks.
LEMMA PostedIsChecked ==
  ASSUME SessionsTypeOK, NEW c \in Addresses, NEW r \in Requests,
         c \in connected, Verdict(c, r) = "posted"
  PROVE  LET s == ToOrdinal(r.service)
             m == ToOrdinal(r.method)
         IN  /\ NamesService(r) /\ NamesMethod(r)
             /\ s # 0 \/ m # hello => c \in m_client_established
             /\ s # 0 => <<s, c>> \in m_subscribed
<1>1. r.service \in Nat /\ r.method \in Nat
  BY SessionsAssumption DEF Requests
<1>2. ToOrdinal(0) = 0
  BY OrdinalConversion, SessionsAssumption
<1>3. NamesService(r) /\ NamesMethod(r) /\ Subscribed(c, r)
  BY DEF Verdict
<1>4. ~IsHello(r) => c \in m_client_established
  BY <1>3 DEF Verdict
<1> QED
  BY <1>2, <1>3, <1>4 DEF Subscribed, IsHello, PairOf, hello

\* The client's own request.
LEMMA InvokeInv ==
  ASSUME SessionsTypeOK, NEW c \in Addresses, SessionInv(c), NEW r \in Requests, Invoke(c, r)
  PROVE  SessionInv(c)'
<1>1. c \in connected /\ connected' = connected /\ pending[c] = None
  BY DEF Invoke, Idle
<1>2. Authorised(c)'
  <2>1. pending'[c] = IF Verdict(c, r) = "posted" THEN r ELSE None
    BY DEF Invoke, SessionsTypeOK
  <2>2. CASE Verdict(c, r) = "posted"
    BY <1>1, <2>1, <2>2, PostedIsChecked DEF Invoke, CookieCreated, PairOf, Authorised
  <2>3. CASE Verdict(c, r) # "posted"
    BY <2>1, <2>3 DEF Authorised
  <2> QED
    BY <2>2, <2>3
<1>3. CookiesLive(c)' /\ ViewAgrees(c)'
  BY <1>1 DEF Invoke, CookiesLive, ViewAgrees, SessionInv
<1> QED
  BY <1>2, <1>3 DEF SessionInv

\* The dispatch of the client's request.
LEMMA DispatchInv ==
  ASSUME SessionsTypeOK, NEW c \in Addresses, SessionInv(c), Dispatch(c)
  PROVE  SessionInv(c)'
<1>1. pending[c] # None /\ pending'[c] = None
  BY DEF Dispatch, Hello, NoEffect, SubscriptionRpc, SubscribeRefused, SubscribedAlready,
         Subscribe, UnsubscribeRefused, NotSubscribed, Unsubscribe, Dispatches, SessionsTypeOK
<1>2. Authorised(c)'
  BY <1>1 DEF Authorised
<1>3. c \in connected
  BY <1>1 DEF SessionInv, Authorised
<1>4. c \in connected'
  BY <1>3 DEF Dispatch, Hello, NoEffect, SubscriptionRpc, SubscribeRefused, SubscribedAlready,
              Subscribe, UnsubscribeRefused, NotSubscribed, Unsubscribe
<1>5. ViewAgrees(c)'
  <2> USE DEF ViewAgrees, SessionInv
  <2>1. CASE \E matches \in BOOLEAN : Hello(c, matches)
    BY <2>1 DEF Hello
  <2>2. CASE NoEffect(c)
    BY <2>2 DEF NoEffect
  <2>3. ASSUME NEW t \in RequestOrdinals, SubscriptionRpc(c, t)
        PROVE  ViewAgrees(c)'
    <3>1. CASE SubscribeRefused(c, t) \/ SubscribedAlready(c, t)
      BY <3>1 DEF SubscribeRefused, SubscribedAlready
    <3>2. ASSUME NEW effect \in SubscribeEffects, Subscribe(c, t, effect)
          PROVE  ViewAgrees(c)'
      BY <3>2 DEF Subscribe, MarkIfAccepted
    <3>3. CASE UnsubscribeRefused(c, t) \/ NotSubscribed(c, t)
      BY <3>3 DEF UnsubscribeRefused, NotSubscribed
    <3>4. CASE Unsubscribe(c, t)
      BY <3>4 DEF Unsubscribe, DestroyAndDelete
    <3> QED
      BY <2>3, <3>1, <3>2, <3>3, <3>4 DEF SubscriptionRpc
  <2> QED
    BY <2>1, <2>2, <2>3 DEF Dispatch
<1> QED
  BY <1>2, <1>4, <1>5 DEF SessionInv, CookiesLive

\* The client comes and goes: the address that a new ClientData gets has no
\* cookie of a user service left from an earlier one.
LEMMA ConnectionInv ==
  ASSUME SessionsTypeOK, NEW c \in Addresses, SessionInv(c), Connect(c) \/ Disconnect(c)
  PROVE  SessionInv(c)'
<1> USE DEF SessionInv, Authorised, CookiesLive, ViewAgrees
<1>1. CASE Connect(c)
  BY <1>1 DEF Connect
<1>2. CASE Disconnect(c)
  <2>1. \A s \in Services : s # 0 => <<s, c>> \in CleanedUp(c)
    BY SessionsAssumption DEF Services, UserServices, CleanedUp
  <2> QED
    BY <1>2, <2>1 DEF Disconnect, DestroyAndDelete, Idle
<1> QED
  BY <1>1, <1>2

LEMMA SessionsInvKept == SessionsInv /\ [Next]_vars => SessionsInv'
<1> SUFFICES ASSUME SessionsInv, [Next]_vars
             PROVE  SessionsInv'
  OBVIOUS
<1>1. SessionsTypeOK'
  BY TypesKept DEF SessionsInv
<1>2. CASE UNCHANGED vars
  BY <1>1, <1>2 DEF vars, SessionsInv, SessionInv, Authorised, CookiesLive, ViewAgrees
<1>3. CASE Next
  <2>1. PICK c \in Addresses : ClientStep(c)
    BY <1>3 DEF Next, ClientStep
  <2>2. SessionInv(c)'
    BY <2>1, InvokeInv, DispatchInv, ConnectionInv DEF ClientStep, SessionsInv
  <2>3. ASSUME NEW d \in Addresses, d # c
        PROVE  SessionInv(d)'
    BY <2>1, <2>3, StepKeepsOthers, KeptInv DEF SessionsInv
  <2> QED
    BY <1>1, <2>2, <2>3 DEF SessionsInv
<1> QED
  BY <1>2, <1>3

\* The invariant of every session holds throughout.
LEMMA SessionsInvHolds == Spec => []SessionsInv
<1>1. Init => SessionsInv
  BY DEF Init, SessionsInv, SessionsTypeOK, SessionInv, Authorised, CookiesLive, ViewAgrees
<1> QED
  BY <1>1, SessionsInvKept, PTL DEF Spec

\* BackEnd::invoke's checks still hold when the pool dispatches the request,
\* whatever other clients have done in between.
THEOREM DispatchesAuthorised == Spec => []DispatchAuthorised
<1>1. SessionsInv => DispatchAuthorised
  BY DEF SessionsInv, SessionInv, Authorised, DispatchAuthorised
<1> QED
  BY <1>1, SessionsInvHolds, PTL

\* BackEnd::disconnect leaves no cookie of a user service behind, so none waits
\* for the next ClientData at the same address.
THEOREM CookiesGoWithClient == Spec => []NoUserCookieLeft
<1>1. SessionsInv => NoUserCookieLeft
  BY DEF SessionsInv, SessionInv, CookiesLive, NoUserCookieLeft, SessionsTypeOK, Pairs
<1> QED
  BY <1>1, SessionsInvHolds, PTL

\* The user services and the back end's cookies agree on who is subscribed:
\* subscribe and unsubscribe of a service are called in turns for a client.
THEOREM ViewsOfSubscriptionAgree == Spec => []ServiceViewAgrees
<1>1. SessionsInv => ServiceViewAgrees
  <2> SUFFICES ASSUME SessionsInv
               PROVE  ServiceViewAgrees
    OBVIOUS
  <2>1. ASSUME NEW p \in Pairs, p[1] # 0
        PROVE  p \in served <=> p \in m_subscribed
    BY <2>1 DEF SessionsInv, SessionInv, ViewAgrees, Pairs
  <2>2. served \subseteq Pairs /\ m_subscribed \subseteq Pairs
    BY DEF SessionsInv, SessionsTypeOK
  <2> QED
    BY <2>1, <2>2 DEF ServiceViewAgrees
<1> QED
  BY <1>1, SessionsInvHolds, PTL

\* A step is about one client: the sessions of all the others, the services'
\* view of them included, are as before.
THEOREM SessionsIndependent ==
  Spec => [][\E c \in Addresses : \A d \in Addresses \ {c} : SessionKept(d)]_vars
<1>1. SessionsTypeOK /\ Next => \E c \in Addresses : \A d \in Addresses \ {c} : SessionKept(d)
  <2> SUFFICES ASSUME SessionsTypeOK, Next
               PROVE  \E c \in Addresses : \A d \in Addresses \ {c} : SessionKept(d)
    OBVIOUS
  <2>1. PICK c \in Addresses : ClientStep(c)
    BY DEF Next, ClientStep
  <2> QED
    BY <2>1, StepKeepsOthers
<1> QED
  BY <1>1, SessionsTyped, PTL DEF Spec

-----------------------------------------------------------------------------
(***************************************************************************)
(* The answers of subscription rpcs.                                       *)
(***************************************************************************)
AnswerTrue(c) ==
  answer[c] # None =>
    LET a == answer[c]
        p == <<a.service, c>>
    IN  /\ a.error = "NOT_IN_USE" <=> a.service >= NumServices
        /\ a.error = "NO_ERROR" /\ a.rpc = rpc_subscribe_service => p \in m_subscribed
        /\ a.error = "ALLREADY_SUBSCRIBED" => p \in m_subscribed
        /\ a.error = "NO_ERROR" /\ a.rpc = rpc_unsubscribe_service => p \notin cookies
        /\ a.error = "NO_SUBSCRIPTION" => p \notin m_subscribed

\* The client's own steps: an answer is forgotten, or new and true.
LEMMA OwnAnswerTrue ==
  ASSUME SessionsTypeOK, NEW c \in Addresses, AnswerTrue(c), ClientStep(c)
  PROVE  AnswerTrue(c)'
<1>1. CASE Connect(c) \/ Disconnect(c) \/ \E r \in Requests : Invoke(c, r)
  BY <1>1 DEF Connect, Disconnect, Invoke, SessionsTypeOK, AnswerTrue
<1>2. CASE NoEffect(c) \/ \E matches \in BOOLEAN : Hello(c, matches)
  BY <1>2 DEF NoEffect, Hello, AnswerTrue
<1>3. ASSUME NEW t \in RequestOrdinals, SubscriptionRpc(c, t)
      PROVE  AnswerTrue(c)'
  <2>1. t \in Nat /\ NumServices \in Nat
    BY SessionsAssumption
  <2>2. c \in DOMAIN answer
    BY DEF SessionsTypeOK
  <2> USE <2>1 DEF AnswerTrue, Answered, rpc_subscribe_service, rpc_unsubscribe_service
  <2>3. CASE SubscribeRefused(c, t)
    BY <2>2, <2>3 DEF SubscribeRefused
  <2>4. CASE SubscribedAlready(c, t)
    BY <2>2, <2>4 DEF SubscribedAlready
  <2>5. ASSUME NEW effect \in SubscribeEffects, Subscribe(c, t, effect)
        PROVE  AnswerTrue(c)'
    BY <2>2, <2>5 DEF Subscribe, MarkIfAccepted
  <2>6. CASE UnsubscribeRefused(c, t)
    BY <2>2, <2>6 DEF UnsubscribeRefused
  <2>7. CASE NotSubscribed(c, t)
    BY <2>2, <2>7 DEF NotSubscribed
  <2>8. CASE Unsubscribe(c, t)
    BY <2>2, <2>8 DEF Unsubscribe, DestroyAndDelete
  <2> QED
    BY <1>3, <2>3, <2>4, <2>5, <2>6, <2>7, <2>8 DEF SubscriptionRpc
<1> QED
  BY <1>1, <1>2, <1>3 DEF ClientStep, Dispatch

\* A set error field tells the truth about the subscription for as long as the
\* answer is the client's last: no other client's rpc makes it stale.
THEOREM AnswersStayTrue == Spec => []AnswersTrue
<1>1. Init => AnswersTrue
  BY DEF Init, AnswersTrue
<1>2. SessionsTypeOK /\ AnswersTrue /\ [Next]_vars => AnswersTrue'
  <2> SUFFICES ASSUME SessionsTypeOK, AnswersTrue, [Next]_vars
               PROVE  AnswersTrue'
    OBVIOUS
  <2>1. AnswersTrue <=> \A c \in Addresses : AnswerTrue(c)
    BY DEF AnswersTrue, AnswerTrue
  <2>2. AnswersTrue' <=> \A c \in Addresses : AnswerTrue(c)'
    BY DEF AnswersTrue, AnswerTrue
  <2>3. CASE UNCHANGED vars
    BY <2>3 DEF vars, AnswersTrue
  <2>4. CASE Next
    <3>1. PICK c \in Addresses : ClientStep(c)
      BY <2>4 DEF Next, ClientStep
    <3>2. AnswerTrue(c)'
      BY <2>1, <3>1, OwnAnswerTrue
    <3>3. ASSUME NEW d \in Addresses, d # c
          PROVE  AnswerTrue(d)'
      <4>1. SessionKept(d)
        BY <3>1, <3>3, StepKeepsOthers
      <4> QED
        BY <2>1, <4>1 DEF SessionKept, AnswerTrue
    <3> QED
      BY <2>2, <3>2, <3>3
  <2> QED
    BY <2>3, <2>4
<1> QED
  BY <1>1, <1>2, SessionsTyped, PTL DEF Spec

-----------------------------------------------------------------------------
(***************************************************************************)
(* The assertions of establish_client and create_cookie, each under the    *)
(* condition on its callers that it needs.                                 *)
(***************************************************************************)

\* The requests name ordinals that fit ordinal_type.
RequestsFit == \A n \in RequestOrdinals : n < OrdinalWidth

\* A service that rejects a subscription creates no cookie data for it.
RejectsBare == "reject_cookie" \notin SubscribeEffects

EstablishOnce(c) ==
  pending[c] # None /\ ToOrdinal(pending[c].service) = 0
                    /\ ToOrdinal(pending[c].method) = hello
    => c \notin m_client_established

LEMMA OwnEstablishOnce ==
  ASSUME RequestsFit, SessionsTypeOK, NEW c \in Addresses, EstablishOnce(c), ClientStep(c)
  PROVE  EstablishOnce(c)'
<1>1. CASE Connect(c)
  BY <1>1 DEF Connect, EstablishOnce
<1>2. CASE Disconnect(c)
  BY <1>2 DEF Disconnect, EstablishOnce
<1>3. ASSUME NEW r \in Requests, Invoke(c, r)
      PROVE  EstablishOnce(c)'
  <2>1. pending'[c] = IF Verdict(c, r) = "posted" THEN r ELSE None
    BY <1>3 DEF Invoke, SessionsTypeOK
  <2>2. ToOrdinal(r.service) = r.service /\ ToOrdinal(r.method) = r.method
    BY OrdinalConversion, SessionsAssumption DEF Requests, RequestsFit
  <2>3. Verdict(c, r) = "posted" /\ IsHello(r) => c \notin m_client_established
    BY DEF Verdict, HelloAllowed
  <2> QED
    BY <1>3, <2>1, <2>2, <2>3 DEF Invoke, EstablishOnce, IsHello
<1>4. CASE Dispatch(c)
  <2>1. pending'[c] = None
    BY <1>4 DEF Dispatch, Hello, NoEffect, SubscriptionRpc, SubscribeRefused, SubscribedAlready,
           Subscribe, UnsubscribeRefused, NotSubscribed, Unsubscribe, Dispatches, SessionsTypeOK
  <2> QED
    BY <2>1 DEF EstablishOnce
<1> QED
  BY <1>1, <1>2, <1>3, <1>4 DEF ClientStep

\* establish_client is never called for an established client: between the check
\* of hello and its dispatch nobody else establishes the client, if ordinals are not
\* cut off (one that is cut off to 0 escapes the check and is dispatched as hello).
THEOREM HelloOnlyOnce == ASSUME RequestsFit PROVE Spec => []EstablishedOnce
<1>1. Init => EstablishedOnce
  BY DEF Init, EstablishedOnce
<1>2. SessionsTypeOK /\ EstablishedOnce /\ [Next]_vars => EstablishedOnce'
  <2> SUFFICES ASSUME SessionsTypeOK, EstablishedOnce, [Next]_vars
               PROVE  EstablishedOnce'
    OBVIOUS
  <2>1. CASE UNCHANGED vars
    BY <2>1 DEF vars, EstablishedOnce
  <2>2. CASE Next
    <3>1. PICK c \in Addresses : ClientStep(c)
      BY <2>2 DEF Next, ClientStep
    <3>2. EstablishOnce(c)'
      BY <3>1, OwnEstablishOnce DEF EstablishedOnce, EstablishOnce
    <3>3. ASSUME NEW d \in Addresses, d # c
          PROVE  EstablishOnce(d)'
      BY <3>1, <3>3, StepKeepsOthers DEF SessionKept, EstablishedOnce, EstablishOnce
    <3> QED
      BY <3>2, <3>3 DEF EstablishedOnce, EstablishOnce
  <2> QED
    BY <2>1, <2>2
<1> QED
  BY <1>1, <1>2, SessionsTyped, PTL DEF Spec

LEMMA DataOwnedKept ==
  ASSUME RejectsBare, CookieDataOwned, [Next]_vars
  PROVE  CookieDataOwned'
<1> USE DEF CookieDataOwned
<1>1. CASE UNCHANGED vars
  BY <1>1 DEF vars
<1>2. ASSUME NEW c \in Addresses, ClientStep(c)
      PROVE  CookieDataOwned'
  <2>1. CASE Connect(c) \/ \E r \in Requests : Invoke(c, r)
    BY <2>1 DEF Connect, Invoke
  <2>2. CASE Disconnect(c)
    BY <2>2 DEF Disconnect, DestroyAndDelete
  <2>3. CASE NoEffect(c) \/ \E matches \in BOOLEAN : Hello(c, matches)
    BY <2>3 DEF NoEffect, Hello
  <2>4. ASSUME NEW t \in RequestOrdinals, SubscriptionRpc(c, t)
        PROVE  CookieDataOwned'
    <3>1. CASE SubscribeRefused(c, t) \/ SubscribedAlready(c, t) \/ UnsubscribeRefused(c, t)
               \/ NotSubscribed(c, t)
      BY <3>1 DEF SubscribeRefused, SubscribedAlready, UnsubscribeRefused, NotSubscribed
    <3>2. ASSUME NEW effect \in SubscribeEffects, Subscribe(c, t, effect)
          PROVE  CookieDataOwned'
      <4>1. effect # "reject_cookie"
        BY DEF RejectsBare
      <4> QED
        BY <3>2, <4>1 DEF Subscribe, MarkIfAccepted
    <3>3. CASE Unsubscribe(c, t)
      BY <3>3 DEF Unsubscribe, DestroyAndDelete
    <3> QED
      BY <2>4, <3>1, <3>2, <3>3 DEF SubscriptionRpc
  <2> QED
    BY <1>2, <2>1, <2>2, <2>3, <2>4 DEF ClientStep, Dispatch
<1> QED
  BY <1>1, <1>2 DEF Next, ClientStep

\* Service data hangs on subscribed cookies only, so create_cookie's assertion
\* that there is none yet holds in every subscribe, if a service that rejects a
\* subscription has created none for it.
THEOREM CookieDataHasOwner == ASSUME RejectsBare PROVE Spec => []CookieDataOwned
<1>1. Init => CookieDataOwned
  BY DEF Init, CookieDataOwned
<1>2. CookieDataOwned /\ [Next]_vars => CookieDataOwned'
  BY DataOwnedKept
<1> QED
  BY <1>1, <1>2, PTL DEF Spec
=============================================================================
