------------------------------ MODULE Registry ------------------------------
(***************************************************************************)
(* The services of a back end: register_and_init_service, the sealing by   *)
(* start(), and the teardown loop at the end of shutdown_step.             *)
(*                                                                         *)
(* The owner calls these from one thread.  It catches what a registration  *)
(* throws and may go on (tests/rpc_tests/TestServiceOracle.cc does).       *)
(* m_ec is one error_code that the back end passes to every service's init *)
(* and teardown; a generated skeleton leaves it as it was.  A shutdown     *)
(* does not seal the back end: one that was never started can still be     *)
(* registered with, and started, after it.                                 *)
(***************************************************************************)
EXTENDS OidContainer

CONSTANT BasicProtocol  \* the spelling of service 0's name

ASSUME RegistryAssumption == BasicProtocol \in Spellings \ TooLong

VARIABLES
  m_services,        \* the container of services
  m_service_count,   \* uint16: the ordinal of the next service
  m_ec,              \* whether the shared error code holds an error
  m_is_sealed,
  m_cookie_maps,     \* ClientServiceCookies: number of activated maps
  alive,             \* ordinals whose service pointer is not null
  phase,             \* "open", "tearing", "down" or "threw" (from shutdown)
  tearing,           \* the loop variable of the teardown loop
  outcomes,          \* what registrations came to so far
  culprit            \* who raised the error of the last throw, if anyone did

vars == <<m_services, m_service_count, m_ec, m_is_sealed, m_cookie_maps,
          alive, phase, tearing, outcomes, culprit>>

Outcomes == {"ok", "too_long", "collision", "init_error", "sealed"}

\* What a service's init or teardown does to the error code it is given.
Effects == {"clears", "leaves", "fails"}

ErrorAfter(effect) == effect = "fails" \/ (effect = "leaves" /\ m_ec)

RegistryTypeOK ==
  /\ m_services \in Containers
  /\ m_service_count \in Ordinals
  /\ m_ec \in BOOLEAN
  /\ m_is_sealed \in BOOLEAN
  /\ m_cookie_maps \in 0..(MaxOrdinal + 1)
  /\ alive \subseteq Ordinals
  /\ phase \in {"open", "tearing", "down", "threw"}
  /\ tearing \in 0..(MaxOrdinal + 1)
  /\ outcomes \subseteq Outcomes
  /\ culprit \in {"none", "nobody", "service"}

\* m_service_count is 16 bits wide; MaxOrdinal is 2^16 - 1.
NextCountWide == m_service_count + 1
NextCount == (m_service_count + 1) % (MaxOrdinal + 1)

\* The constructor registers the basic protocol, whose init clears the code.
Init ==
  /\ m_services = SetEntry(EmptyContainer, OidName(BasicProtocol), 0).container
  /\ m_service_count = 1 % (MaxOrdinal + 1)
  /\ m_ec = FALSE
  /\ m_is_sealed = FALSE
  /\ m_cookie_maps = 0
  /\ alive = {0}
  /\ phase = "open"
  /\ tearing = 0
  /\ outcomes = {"ok"}
  /\ culprit = "none"

Ends(outcome) == outcomes' = outcomes \cup {outcome}

\* A sealed back end, or a name too long for an Oid: nothing has changed.
RegistrationRefused(s) ==
  /\ phase # "tearing"
  /\ m_is_sealed \/ ~CanConstructOid(s, m_service_count)
  /\ Ends(IF m_is_sealed THEN "sealed" ELSE "too_long")
  /\ UNCHANGED <<m_services, m_service_count, m_ec, m_is_sealed, m_cookie_maps,
                 alive, phase, tearing, culprit>>

CollisionCounts(s) ==
  LET r == SetEntry(m_services, OidName(s), m_service_count)
  IN  /\ phase # "tearing"
      /\ ~m_is_sealed
      /\ CanConstructOid(s, m_service_count)
      /\ r.response # "NO_ERROR"
      /\ m_services' = r.container
      /\ m_service_count' = NextCount
      /\ Ends("collision")
      /\ UNCHANGED <<m_ec, m_is_sealed, m_cookie_maps, alive, phase, tearing, culprit>>

\* SetEntry refuses the identifier, having resized the container for it.
RegistrationCollides(s) ==
  LET r == SetEntry(m_services, OidName(s), m_service_count)
  IN  /\ phase # "tearing"
      /\ ~m_is_sealed
      /\ CanConstructOid(s, m_service_count)
      /\ r.response # "NO_ERROR"
      /\ m_services' = r.container
      /\ Ends("collision")
      /\ UNCHANGED <<m_service_count, m_ec, m_is_sealed, m_cookie_maps,
                     alive, phase, tearing, culprit>>

CountAnyway(failed) == m_service_count' = NextCount
CountIfInitialised(failed) ==
  m_service_count' = IF failed THEN m_service_count ELSE NextCount

\* The service is in the container before its init runs, and stays when init
\* reports an error; only the count is left behind.
Register(s, effect) ==
  LET r      == SetEntry(m_services, OidName(s), m_service_count)
      failed == ErrorAfter(effect)
  IN  /\ phase # "tearing"
      /\ ~m_is_sealed
      /\ CanConstructOid(s, m_service_count)
      /\ r.response = "NO_ERROR"
      /\ m_services' = r.container
      /\ alive' = alive \cup {m_service_count}
      /\ m_ec' = failed
      /\ CountIfInitialised(failed)
      /\ Ends(IF failed THEN "init_error" ELSE "ok")
      /\ culprit' = IF ~failed THEN culprit
                    ELSE IF effect = "fails" THEN "service" ELSE "nobody"
      /\ UNCHANGED <<m_is_sealed, m_cookie_maps, phase, tearing>>

MapsForCounted == m_cookie_maps' = m_service_count
MapsForServices == m_cookie_maps' = OccupiedSize(m_services)

\* start(), as far as it concerns the services: it seals them and activates one
\* cookie map per occupied ordinal.
Start ==
  /\ phase # "tearing"
  /\ ~m_is_sealed
  /\ m_is_sealed' = TRUE
  /\ MapsForServices
  /\ UNCHANGED <<m_services, m_service_count, m_ec, alive, phase, tearing,
                 outcomes, culprit>>

BeginTeardown ==
  /\ phase = "open"
  /\ phase' = "tearing"
  /\ UNCHANGED <<m_services, m_service_count, m_ec, m_is_sealed, m_cookie_maps,
                 alive, tearing, outcomes, culprit>>

\* BasicProtocolImpl::teardown clears the code, any other service does as it
\* likes.
LenientEffects(i) == Effects
TeardownEffects(i) == IF i = 0 THEN {"clears"} ELSE Effects

LoopToCount == m_service_count
LoopBound == OccupiedSize(m_services)

\* One pass of the teardown loop.
TeardownService(effect) ==
  LET failed == ErrorAfter(effect)
  IN  /\ phase = "tearing"
      /\ tearing < LoopBound
      /\ EntryAtOrdinal(m_services, tearing) # Hole
      /\ effect \in TeardownEffects(tearing)
      /\ m_ec' = failed
      /\ IF failed
           THEN /\ phase' = "threw"
                /\ culprit' = IF effect = "fails" THEN "service" ELSE "nobody"
                /\ UNCHANGED <<alive, tearing>>
           ELSE /\ alive' = alive \ {tearing}
                /\ tearing' = tearing + 1
                /\ UNCHANGED <<phase, culprit>>
      /\ UNCHANGED <<m_services, m_service_count, m_is_sealed, m_cookie_maps, outcomes>>

TeardownEnds ==
  /\ phase = "tearing"
  /\ tearing >= LoopBound
  /\ phase' = "down"
  /\ UNCHANGED <<m_services, m_service_count, m_ec, m_is_sealed, m_cookie_maps,
                 alive, tearing, outcomes, culprit>>

Next ==
  \/ \E s \in Spellings :
       \/ RegistrationRefused(s)
       \/ RegistrationCollides(s)
       \/ \E effect \in Effects : Register(s, effect)
  \/ Start
  \/ BeginTeardown
  \/ \E effect \in Effects : TeardownService(effect)
  \/ TeardownEnds

Spec == Init /\ [][Next]_vars

-----------------------------------------------------------------------------
Services == Occupied(m_services)

\* The services' ordinals are contiguous from 0 on, whatever failed on the way:
\* all loops over the services count up from 0.
OrdinalsContiguous == Services = 0..(Cardinality(Services) - 1)

\* start()'s assertion holds when no registration has collided: the container
\* has no ordinal without a service, so the cookie maps cover every ordinal
\* that list_services, subscriptions and disconnect go through.
SealedWithoutHoles ==
  m_is_sealed /\ "collision" \notin outcomes =>
    m_services.size = OccupiedSize(m_services) /\ m_cookie_maps = m_services.size

\* A registered service keeps its ordinal and its name for the life of the back
\* end, at 16 bits' worth of services too (the counter wraps to an ordinal in
\* use), and a sealed back end has the services it was sealed with.
ServicesStable ==
  [][/\ \A o \in Services : m_services'.entries[o] = m_services.entries[o]
     /\ m_is_sealed => m_services' = m_services]_vars

\* After an init error nothing can be registered any more: the failed service
\* holds the ordinal that the counter still gives to the next one.
InitErrorEndsRegistration ==
  [][/\ "init_error" \in outcomes => Services' = Services
     /\ "init_error" \in outcomes => m_service_count' = m_service_count]_vars

\* An error that a registration or a shutdown throws was raised by the service
\* it names, never left in m_ec by an earlier one, until a shutdown has thrown:
\* its error stays in m_ec, and the next registration is blamed for it.
ErrorsHaveCulprits == [][culprit' = "nobody" => phase = "threw"]_vars

\* A teardown loop that reaches its end has torn every service down.
AllTornDown == [][phase' = "down" /\ phase # "down" => alive' = {}]_vars
=============================================================================
