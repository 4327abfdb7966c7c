--------------------------- MODULE RegistryProofs ---------------------------
(***************************************************************************)
(* Proofs about Registry, for every set of names and every width of the    *)
(* ordinals, up to and over the point where m_service_count wraps.         *)
(***************************************************************************)
EXTENDS Registry, OidContainerProofs

SimpleTypes ==
  /\ m_service_count \in Ordinals
  /\ m_ec \in BOOLEAN
  /\ m_is_sealed \in BOOLEAN
  /\ phase \in {"open", "tearing", "down", "threw"}
  /\ outcomes \subseteq Outcomes
  /\ culprit \in {"none", "nobody", "service"}

\* The services fill the ordinals up to top.  The counter gives the next one, or
\* one that is taken: after an init error, and once it has wrapped.
Filled(top) ==
  /\ Services = 0..top
  /\ \/ m_service_count \in 0..top
     \/ m_service_count = top + 1 /\ "init_error" \notin outcomes
  /\ "collision" \notin outcomes => m_services.size = top + 1

\* The cookie maps are the ones for the services the back end was sealed with.
MapsRight ==
  /\ m_cookie_maps \in 0..(MaxOrdinal + 1)
  /\ m_is_sealed => m_cookie_maps = OccupiedSize(m_services)

\* An error left in m_ec by an init meets no service that could take it for its
\* own: none is registered any more, and service 0's teardown clears it first.
\* Only a shutdown that threw leaves one for the next registration.
ErrorContained ==
  /\ culprit = "nobody" => phase = "threw"
  /\ phase \in {"open", "down"} /\ m_ec => "init_error" \in outcomes
  /\ phase = "tearing" /\ tearing > 0 => ~m_ec

\* The teardown loop has passed exactly the services that are gone; those that
\* are registered after it have higher ordinals.
TornUpTo ==
  /\ tearing \in 0..OccupiedSize(m_services)
  /\ alive = {o \in Services : o >= tearing}
  /\ phase = "open" => tearing = 0

\* What makes the invariants of Registry inductive.
RegistryInv ==
  /\ Sound(m_services)
  /\ SimpleTypes
  /\ \E top \in Ordinals : Filled(top)
  /\ MapsRight
  /\ ErrorContained
  /\ TornUpTo

\* The number of services that fill the ordinals up to top.
LEMMA FilledSize ==
  ASSUME Sound(m_services), NEW top \in Ordinals, Services = 0..top
  PROVE  OccupiedSize(m_services) = top + 1 /\ Cardinality(Services) = top + 1
<1>1. Cardinality(0..top) = top + 1
  BY FS_Interval, OidAssumption DEF Ordinals
<1> QED
  BY <1>1 DEF OccupiedSize, Sound, Services

\* What the next registration finds: the container accepts it only at an ordinal
\* that no service has, which is then the next one.
LEMMA RegistrationEffect ==
  ASSUME RegistryInv, NEW top \in Ordinals, Filled(top),
         NEW s \in Spellings, CanConstructOid(s, m_service_count),
         NEW r, r = SetEntry(m_services, OidName(s), m_service_count)
  PROVE  /\ Sound(r.container)
         /\ r.response = "NO_ERROR" =>
              /\ m_service_count = top + 1 /\ "init_error" \notin outcomes
              /\ Occupied(r.container) = 0..(top + 1)
              /\ r.container.size = IF m_services.size < top + 2 THEN top + 2 ELSE m_services.size
              /\ \A o \in Services : r.container.entries[o] = m_services.entries[o]
         /\ r.response # "NO_ERROR" => r.container.entries = m_services.entries
<1>1. PICK n : n = OidName(s)
  OBVIOUS
<1>2. n \in OidNames /\ m_service_count \in Ordinals /\ Sound(m_services)
  BY <1>1, OidNameIsName DEF CanConstructOid, RegistryInv, SimpleTypes
<1>3. r = SetEntry(m_services, n, m_service_count)
  BY <1>1
<1>4. Sound(r.container)
  BY <1>2, <1>3, SetEntrySound
<1>5. r.container.size =
        IF m_services.size < m_service_count + 1 THEN m_service_count + 1 ELSE m_services.size
  BY <1>2, <1>3, SetEntrySize
<1>6. r.container.entries = IF r.response = "NO_ERROR"
                            THEN [m_services.entries EXCEPT ![m_service_count] = n]
                            ELSE m_services.entries
  BY <1>2, <1>3, SetEntryEffect
<1>7. ASSUME r.response = "NO_ERROR"
      PROVE  /\ m_service_count = top + 1 /\ "init_error" \notin outcomes
             /\ Occupied(r.container) = 0..(top + 1)
             /\ r.container.size = IF m_services.size < top + 2 THEN top + 2 ELSE m_services.size
             /\ \A o \in Services : r.container.entries[o] = m_services.entries[o]
  <2>1. m_service_count \notin Services
    BY <1>2, <1>3, <1>7, SetEntryAccepts DEF Services, Occupied
  <2>2. m_service_count = top + 1 /\ "init_error" \notin outcomes
    BY <2>1 DEF Filled
  <2>3. m_services.entries \in [Ordinals -> OidNames \cup {Hole}]
    BY <1>2 DEF Sound, Containers
  <2>4. Occupied(r.container) = Services \cup {m_service_count}
    BY <1>2, <1>6, <1>7, <2>3, HoleIsNoName DEF Services, Occupied
  <2>5. 0..(top + 1) = (0..top) \cup {top + 1}
    BY OidAssumption DEF Ordinals
  <2>6. Occupied(r.container) = 0..(top + 1)
    BY <2>2, <2>4, <2>5 DEF Filled
  <2>7. r.container.size = IF m_services.size < top + 2 THEN top + 2 ELSE m_services.size
    BY <1>5, <2>2, OidAssumption DEF Ordinals
  <2>8. \A o \in Services : r.container.entries[o] = m_services.entries[o]
    BY <1>6, <1>7, <2>1, <2>3 DEF Services, Occupied
  <2> QED
    BY <2>2, <2>6, <2>7, <2>8
<1> QED
  BY <1>4, <1>6, <1>7

-----------------------------------------------------------------------------
(***************************************************************************)
(* The steps.                                                              *)
(***************************************************************************)

\* Registrations that fail leave the services alone; a collision may have made
\* the container longer.
LEMMA FailedRegistration ==
  ASSUME RegistryInv, NEW s \in Spellings, RegistrationRefused(s) \/ RegistrationCollides(s)
  PROVE  RegistryInv' /\ m_services'.entries = m_services.entries
<1>1. PICK top \in Ordinals : Filled(top)
  BY DEF RegistryInv
<1>2. CASE RegistrationRefused(s)
  <2>1. Filled(top)'
    BY <1>1, <1>2 DEF RegistrationRefused, Ends, Filled, Services
  <2>2. SimpleTypes'
    BY <1>2 DEF RegistrationRefused, Ends, RegistryInv, SimpleTypes, Outcomes
  <2>3. MapsRight' /\ ErrorContained' /\ TornUpTo'
    BY <1>2 DEF RegistrationRefused, Ends, RegistryInv, MapsRight, ErrorContained, TornUpTo, Services
  <2>4. Sound(m_services') /\ m_services' = m_services
    BY <1>2 DEF RegistrationRefused, RegistryInv
  <2> QED
    BY <1>1, <2>1, <2>2, <2>3, <2>4 DEF RegistryInv, Sound
<1>3. CASE RegistrationCollides(s)
  <2>1. PICK r : r = SetEntry(m_services, OidName(s), m_service_count)
    OBVIOUS
  <2>2. Sound(r.container) /\ r.container.entries = m_services.entries
    BY <1>1, <1>3, <2>1, RegistrationEffect DEF RegistrationCollides
  <2>3. m_services' = r.container
    BY <1>3, <2>1 DEF RegistrationCollides
  <2>4. Services' = Services /\ OccupiedSize(m_services') = OccupiedSize(m_services)
    BY <2>2, <2>3 DEF Services, OccupiedSize, RegistryInv, Sound, Occupied
  <2>5. Filled(top)'
    BY <1>1, <1>3, <2>4 DEF RegistrationCollides, Ends, Filled
  <2>6. SimpleTypes'
    BY <1>3 DEF RegistrationCollides, Ends, RegistryInv, SimpleTypes, Outcomes
  <2>7. MapsRight' /\ ErrorContained' /\ TornUpTo'
    BY <1>3, <2>4 DEF RegistrationCollides, Ends, RegistryInv, MapsRight, ErrorContained, TornUpTo
  <2>8. Sound(m_services')
    BY <2>2, <2>3
  <2> QED
    BY <1>1, <2>2, <2>3, <2>5, <2>6, <2>7, <2>8 DEF RegistryInv, Sound
<1> QED
  BY <1>2, <1>3

\* A registration that the container accepts, whatever init does.
LEMMA AcceptedRegistration ==
  ASSUME RegistryInv, NEW s \in Spellings, NEW effect \in Effects, Register(s, effect)
  PROVE  /\ RegistryInv'
         /\ "init_error" \notin outcomes
         /\ \A o \in Services : m_services'.entries[o] = m_services.entries[o]
<1>1. PICK top \in Ordinals : Filled(top)
  BY DEF RegistryInv
<1>2. PICK r : r = SetEntry(m_services, OidName(s), m_service_count)
  OBVIOUS
<1>3. r.response = "NO_ERROR" /\ m_services' = r.container
  BY <1>2 DEF Register
<1>4. /\ Sound(m_services')
      /\ m_service_count = top + 1 /\ "init_error" \notin outcomes
      /\ Occupied(m_services') = 0..(top + 1)
      /\ m_services'.size = IF m_services.size < top + 2 THEN top + 2 ELSE m_services.size
      /\ \A o \in Services : m_services'.entries[o] = m_services.entries[o]
  BY <1>1, <1>2, <1>3, RegistrationEffect DEF Register
<1>5. top \in Nat /\ MaxOrdinal \in Nat /\ top + 1 \in Ordinals
  BY <1>4, OidAssumption DEF RegistryInv, SimpleTypes, Ordinals
<1>6. ErrorAfter(effect) \in BOOLEAN /\ (ErrorAfter(effect) => effect = "fails" \/ m_ec)
  BY DEF ErrorAfter
<1>7. /\ m_ec \in BOOLEAN /\ ~m_is_sealed /\ phase \in {"open", "down", "threw"}
      /\ phase # "threw" => ~m_ec
  BY <1>4 DEF Register, RegistryInv, ErrorContained, SimpleTypes
<1>8. NextCount \in Ordinals /\ (NextCount = top + 2 \/ NextCount \in 0..(top + 1))
  <2>1. NextCount = (top + 2) % (MaxOrdinal + 1)
    BY <1>4, <1>5 DEF NextCount
  <2>2. top + 2 <= MaxOrdinal + 1
    BY <1>5 DEF Ordinals
  <2>3. CASE top + 2 <= MaxOrdinal
    BY <1>5, <2>1, <2>3 DEF Ordinals
  <2>4. CASE top + 2 = MaxOrdinal + 1
    BY <1>5, <2>1, <2>4 DEF Ordinals
  <2> QED
    BY <1>5, <2>2, <2>3, <2>4
<1>9. Filled(top + 1)'
  <2>1. Services' = 0..(top + 1)
    BY <1>4 DEF Services
  <2>2. "collision" \notin outcomes' => m_services'.size = top + 2
    BY <1>1, <1>4, <1>5 DEF Filled, Register, Ends
  <2>3. \/ m_service_count' \in 0..(top + 1)
        \/ m_service_count' = top + 2 /\ "init_error" \notin outcomes'
    <3>1. CASE ErrorAfter(effect)
      BY <1>4, <1>5, <3>1 DEF Register, CountIfInitialised
    <3>2. CASE ~ErrorAfter(effect)
      BY <1>4, <1>8, <3>2 DEF Register, CountIfInitialised, Ends
    <3> QED
      BY <3>1, <3>2
  <2> QED
    BY <1>5, <2>1, <2>2, <2>3 DEF Filled
<1>10. SimpleTypes'
  BY <1>6, <1>8 DEF Register, CountIfInitialised, Ends, RegistryInv, SimpleTypes, Outcomes
<1>11. MapsRight'
  BY <1>7 DEF Register, RegistryInv, MapsRight
<1>12. ErrorContained'
  BY <1>6, <1>7 DEF Register, Ends, RegistryInv, ErrorContained
<1>13. TornUpTo'
  <2>1. /\ alive' = alive \cup {top + 1} /\ alive = {o \in Services : o >= tearing}
        /\ tearing \in Nat /\ tearing <= top + 1
    BY <1>1, <1>4, <1>5, FilledSize DEF Register, RegistryInv, TornUpTo, Filled
  <2>2. Services' = Services \cup {top + 1}
    BY <1>1, <1>4, <1>5 DEF Services, Filled
  <2>3. alive' = {o \in Services' : o >= tearing}
    BY <1>5, <2>1, <2>2
  <2>4. OccupiedSize(m_services') = top + 2
    <3>1. Cardinality(0..(top + 1)) = top + 2
      BY <1>5, FS_Interval
    <3> QED
      BY <1>4, <3>1 DEF OccupiedSize, Sound
  <2>5. tearing' = tearing /\ phase' = phase /\ (phase = "open" => tearing = 0)
    BY DEF Register, RegistryInv, TornUpTo
  <2> QED
    BY <1>5, <2>1, <2>3, <2>4, <2>5 DEF TornUpTo
<1>14. \E t \in Ordinals : Filled(t)'
  BY <1>5, <1>9
<1>15. RegistryInv'
  BY <1>4, <1>10, <1>11, <1>12, <1>13, <1>14 DEF RegistryInv, Sound
<1> QED
  BY <1>4, <1>15

\* Sealing, and the end of the open phase.
LEMMA StartInv ==
  ASSUME RegistryInv, Start \/ BeginTeardown
  PROVE  RegistryInv'
<1>1. PICK top \in Ordinals : Filled(top)
  BY DEF RegistryInv
<1>2. m_services' = m_services
  BY DEF Start, BeginTeardown
<1>3. Sound(m_services')
  BY <1>2 DEF RegistryInv
<1>4. Filled(top)'
  BY <1>1, <1>2 DEF Start, BeginTeardown, Filled, Services
<1>5. SimpleTypes'
  BY DEF Start, BeginTeardown, RegistryInv, SimpleTypes
<1>6. ErrorContained'
  BY DEF Start, BeginTeardown, RegistryInv, ErrorContained, TornUpTo
<1>7. TornUpTo'
  BY <1>2 DEF Start, BeginTeardown, RegistryInv, TornUpTo, Services
<1>8. MapsRight'
  <2>1. OccupiedSize(m_services) \in 0..(MaxOrdinal + 1)
    BY <1>1, FilledSize, OidAssumption DEF RegistryInv, Filled, Ordinals
  <2> QED
    BY <2>1 DEF Start, BeginTeardown, MapsForServices, RegistryInv, MapsRight
<1> QED
  BY <1>1, <1>3, <1>4, <1>5, <1>6, <1>7, <1>8 DEF RegistryInv, Sound

\* The teardown loop.
LEMMA TeardownInv ==
  ASSUME RegistryInv, TeardownEnds \/ \E effect \in Effects : TeardownService(effect)
  PROVE  RegistryInv'
<1>1. PICK top \in Ordinals : Filled(top)
  BY DEF RegistryInv
<1>2. m_services' = m_services
  BY DEF TeardownService, TeardownEnds
<1>3. Sound(m_services') /\ OccupiedSize(m_services) = top + 1 /\ top \in Nat /\ top <= MaxOrdinal
  BY <1>1, <1>2, FilledSize, OidAssumption DEF RegistryInv, Filled, Ordinals
<1>4. Filled(top)'
  BY <1>1, <1>2 DEF TeardownService, TeardownEnds, Filled, Services
<1>5. MapsRight'
  BY <1>2 DEF TeardownService, TeardownEnds, RegistryInv, MapsRight
<1>6. CASE TeardownEnds
  BY <1>1, <1>2, <1>3, <1>4, <1>5, <1>6
     DEF TeardownEnds, LoopBound, RegistryInv, SimpleTypes, ErrorContained, TornUpTo, Services, Sound
<1>7. ASSUME NEW effect \in Effects, TeardownService(effect)
      PROVE  RegistryInv'
  <2>1. ErrorAfter(effect) \in BOOLEAN
    BY DEF ErrorAfter
  <2>2. SimpleTypes'
    BY <1>7, <2>1 DEF TeardownService, RegistryInv, SimpleTypes
  <2>3. tearing \in Nat /\ tearing < top + 1 /\ MaxOrdinal \in Nat
    BY <1>3, <1>7, OidAssumption DEF TeardownService, LoopBound, RegistryInv, TornUpTo
  <2>4. ErrorAfter(effect) => effect = "fails"
    BY <1>7, <2>3 DEF TeardownService, TeardownEffects, ErrorAfter, RegistryInv, ErrorContained, SimpleTypes
  <2>5. ErrorContained'
    BY <1>7, <2>4 DEF TeardownService, RegistryInv, ErrorContained
  <2>6. TornUpTo'
    <3>1. CASE ErrorAfter(effect)
      BY <1>2, <1>7, <3>1 DEF TeardownService, RegistryInv, TornUpTo, Services
    <3>2. CASE ~ErrorAfter(effect)
      <4>1. \A o \in Services : o \in Int
        BY <1>1 DEF Filled
      <4>2. alive' = {o \in Services : o >= tearing + 1}
        BY <1>7, <2>3, <3>2, <4>1 DEF TeardownService, RegistryInv, TornUpTo
      <4>3. tearing' = tearing + 1 /\ tearing + 1 \in 0..OccupiedSize(m_services)
        BY <1>3, <1>7, <2>3, <3>2 DEF TeardownService
      <4>4. phase' = "tearing"
        BY <1>7, <3>2 DEF TeardownService
      <4> QED
        BY <1>2, <4>2, <4>3, <4>4 DEF TornUpTo, Services
    <3> QED
      BY <3>1, <3>2
  <2> QED
    BY <1>1, <1>3, <1>4, <1>5, <2>2, <2>5, <2>6 DEF RegistryInv, Sound
<1> QED
  BY <1>6, <1>7

LEMMA RegistryInvKept == RegistryInv /\ [Next]_vars => RegistryInv'
<1> SUFFICES ASSUME RegistryInv, [Next]_vars
             PROVE  RegistryInv'
  OBVIOUS
<1>1. CASE Next
  BY <1>1, FailedRegistration, AcceptedRegistration, StartInv, TeardownInv DEF Next
<1>2. CASE UNCHANGED vars
  BY <1>2 DEF vars, RegistryInv, SimpleTypes, Filled, MapsRight, ErrorContained, TornUpTo, Services, Sound
<1> QED
  BY <1>1, <1>2

\* The invariant holds throughout.
LEMMA RegistryInvHolds == Spec => []RegistryInv
<1>1. Init => RegistryInv
  <2> SUFFICES ASSUME Init
               PROVE  RegistryInv
    OBVIOUS
  <2>1. PICK n : n = OidName(BasicProtocol)
    OBVIOUS
  <2>2. n \in OidNames /\ 0 \in Ordinals /\ MaxOrdinal \in Nat
    BY <2>1, OidNameIsName, RegistryAssumption, OidAssumption DEF Ordinals
  <2>3. PICK r : r = SetEntry(EmptyContainer, n, 0)
    OBVIOUS
  <2>4. m_services = r.container
    BY <2>1, <2>3 DEF Init
  <2>5. Sound(m_services)
    BY <2>2, <2>3, <2>4, EmptySound, SetEntrySound
  <2>6. m_services.size = 1
    <3>1. EmptyContainer.size = 0
      BY DEF EmptyContainer
    <3>2. m_services.size = IF EmptyContainer.size < 0 + 1 THEN 0 + 1 ELSE EmptyContainer.size
      BY <2>2, <2>3, <2>4, EmptySound, SetEntrySize
    <3> QED
      BY <3>1, <3>2
  <2>7. \A o \in Ordinals : EmptyContainer.entries[o] = Hole
    BY DEF EmptyContainer
  <2>8. r.response = "NO_ERROR"
    <3>1. \A o \in Ordinals : EmptyContainer.entries[o] # n
      BY <2>2, <2>7, HoleIsNoName
    <3>2. EmptyContainer.entries[0] = Hole
      BY <2>2, <2>7
    <3> QED
      BY <2>2, <2>3, <3>1, <3>2, EmptySound, SetEntryFree
  <2>9. m_services.entries = [EmptyContainer.entries EXCEPT ![0] = n]
    BY <2>2, <2>3, <2>4, <2>8, EmptySound, SetEntryEffect
  <2>10. Services = 0..0
    <3>1. EmptyContainer.entries \in [Ordinals -> {Hole}]
      BY DEF EmptyContainer
    <3>2. Services = {0}
      BY <2>2, <2>7, <2>9, <3>1, HoleIsNoName DEF Services, Occupied
    <3> QED
      BY <3>2
  <2>11. m_service_count \in Ordinals /\ (m_service_count \in 0..0 \/ m_service_count = 0 + 1)
    <3>1. CASE MaxOrdinal = 0
      BY <3>1 DEF Init, Ordinals
    <3>2. CASE MaxOrdinal >= 1
      <4>1. 1 % (MaxOrdinal + 1) = 1
        BY <2>2, <3>2
      <4> QED
        BY <2>2, <3>2, <4>1 DEF Init, Ordinals
    <3> QED
      BY <2>2, <3>1, <3>2
  <2>12. Filled(0)
    BY <2>6, <2>10, <2>11 DEF Init, Filled
  <2>13. SimpleTypes /\ MapsRight /\ ErrorContained
    <3>1. SimpleTypes
      BY <2>11 DEF Init, SimpleTypes, Outcomes
    <3>2. MapsRight
      BY <2>2 DEF Init, MapsRight
    <3>3. ErrorContained
      BY DEF Init, ErrorContained
    <3> QED
      BY <3>1, <3>2, <3>3
  <2>14. TornUpTo
    <3>1. alive = {o \in Services : o >= tearing}
      BY <2>10 DEF Init
    <3>2. OccupiedSize(m_services) = 0 + 1
      BY <2>2, <2>5, <2>10, FilledSize
    <3> QED
      BY <3>1, <3>2 DEF Init, TornUpTo
  <2> QED
    BY <2>2, <2>5, <2>12, <2>13, <2>14 DEF RegistryInv
<1> QED
  BY <1>1, RegistryInvKept, PTL DEF Spec

-----------------------------------------------------------------------------
(***************************************************************************)
(* The theorems.                                                           *)
(***************************************************************************)

\* Every variable keeps its type: m_service_count stays an ordinal when it wraps,
\* and the teardown loop stays within the vector.
THEOREM RegistryTyped == Spec => []RegistryTypeOK
<1>1. RegistryInv => RegistryTypeOK
  <2> SUFFICES ASSUME RegistryInv
               PROVE  RegistryTypeOK
    OBVIOUS
  <2>1. m_services \in Containers /\ Services \subseteq Ordinals
    BY DEF RegistryInv, Sound, Services, Occupied
  <2>2. PICK top \in Ordinals : Filled(top)
    BY DEF RegistryInv
  <2>3. tearing \in 0..(MaxOrdinal + 1)
    BY <2>2, FilledSize, OidAssumption DEF RegistryInv, TornUpTo, Filled, Ordinals
  <2> QED
    BY <2>1, <2>3 DEF RegistryInv, SimpleTypes, MapsRight, TornUpTo, RegistryTypeOK
<1> QED
  BY <1>1, RegistryInvHolds, PTL

\* Failed registrations, init errors and the counter's wrap leave no gap between
\* the services' ordinals.
THEOREM NoGaps == Spec => []OrdinalsContiguous
<1>1. RegistryInv => OrdinalsContiguous
  <2> SUFFICES ASSUME RegistryInv
               PROVE  OrdinalsContiguous
    OBVIOUS
  <2>1. PICK top \in Ordinals : Filled(top)
    BY DEF RegistryInv
  <2>2. Cardinality(Services) = top + 1 /\ top \in Nat
    BY <2>1, FilledSize, OidAssumption DEF RegistryInv, Filled, Ordinals
  <2> QED
    BY <2>1, <2>2 DEF Filled, OrdinalsContiguous
<1> QED
  BY <1>1, RegistryInvHolds, PTL

\* start()'s assertion, and one cookie map for each ordinal of the container, as
\* long as no registration has collided.
THEOREM SealedContainerFull == Spec => []SealedWithoutHoles
<1>1. RegistryInv => SealedWithoutHoles
  <2> SUFFICES ASSUME RegistryInv
               PROVE  SealedWithoutHoles
    OBVIOUS
  <2>1. PICK top \in Ordinals : Filled(top)
    BY DEF RegistryInv
  <2>2. OccupiedSize(m_services) = top + 1
    BY <2>1, FilledSize DEF RegistryInv, Filled
  <2> QED
    BY <2>1, <2>2 DEF RegistryInv, Filled, MapsRight, SealedWithoutHoles
<1> QED
  BY <1>1, RegistryInvHolds, PTL

\* No error that a registration or shutdown throws is a left-over of another
\* service's in the shared m_ec, unless a shutdown has thrown before.
THEOREM ErrorsAreOwn == Spec => ErrorsHaveCulprits
<1>1. RegistryInv /\ [Next]_vars => [culprit' = "nobody" => phase = "threw"]_vars
  <2> SUFFICES ASSUME RegistryInv, Next, culprit' = "nobody"
               PROVE  phase = "threw"
    OBVIOUS
  <2>1. CASE \E s \in Spellings : RegistrationRefused(s) \/ RegistrationCollides(s)
    BY <2>1 DEF RegistrationRefused, RegistrationCollides, RegistryInv, ErrorContained
  <2>2. CASE \E s \in Spellings, effect \in Effects : Register(s, effect)
    BY <2>2, AcceptedRegistration DEF Register, RegistryInv, ErrorContained
  <2>3. CASE Start \/ BeginTeardown \/ TeardownEnds
    BY <2>3 DEF Start, BeginTeardown, TeardownEnds, RegistryInv, ErrorContained
  <2>4. ASSUME NEW effect \in Effects, TeardownService(effect)
        PROVE  FALSE
    <3>1. ErrorAfter(effect) => effect = "fails"
      BY <2>4 DEF TeardownService, TeardownEffects, ErrorAfter, RegistryInv, TornUpTo,
                  ErrorContained, SimpleTypes
    <3> QED
      BY <2>4, <3>1 DEF TeardownService, RegistryInv, ErrorContained
  <2> QED
    BY <2>1, <2>2, <2>3, <2>4 DEF Next
<1> QED
  BY <1>1, RegistryInvHolds, PTL DEF Spec, ErrorsHaveCulprits

\* A teardown loop that ends has torn down every service, those whose init failed
\* included.
THEOREM TeardownComplete == Spec => AllTornDown
<1>1. RegistryInv /\ [Next]_vars => [phase' = "down" /\ phase # "down" => alive' = {}]_vars
  <2> SUFFICES ASSUME RegistryInv, Next, phase' = "down", phase # "down"
               PROVE  alive' = {}
    OBVIOUS
  <2>1. TeardownEnds
    BY DEF Next, RegistrationRefused, RegistrationCollides, Register, Start, BeginTeardown, TeardownService
  <2>2. PICK top \in Ordinals : Filled(top)
    BY DEF RegistryInv
  <2>3. OccupiedSize(m_services) = top + 1 /\ top \in Nat
    BY <2>2, FilledSize, OidAssumption DEF RegistryInv, Filled, Ordinals
  <2>4. tearing \in Nat /\ tearing >= top + 1 /\ alive' = alive
    BY <2>1, <2>3 DEF TeardownEnds, LoopBound, RegistryInv, TornUpTo
  <2> QED
    BY <2>2, <2>3, <2>4 DEF RegistryInv, TornUpTo, Filled
<1> QED
  BY <1>1, RegistryInvHolds, PTL DEF Spec, AllTornDown

\* No step takes a registered service's ordinal or name away, the registration
\* after the counter has wrapped included; none changes a sealed container.
THEOREM ServicesKept == Spec => ServicesStable
<1> DEFINE Stable == /\ \A o \in Services : m_services'.entries[o] = m_services.entries[o]
                     /\ m_is_sealed => m_services' = m_services
<1>1. RegistryInv /\ [Next]_vars => [Stable]_vars
  <2> SUFFICES ASSUME RegistryInv, Next
               PROVE  Stable
    OBVIOUS
  <2>1. CASE \E s \in Spellings : RegistrationRefused(s)
    BY <2>1 DEF RegistrationRefused
  <2>2. CASE \E s \in Spellings : RegistrationCollides(s)
    BY <2>2, FailedRegistration DEF RegistrationCollides
  <2>3. CASE \E s \in Spellings, effect \in Effects : Register(s, effect)
    BY <2>3, AcceptedRegistration DEF Register
  <2>4. CASE Start \/ BeginTeardown \/ TeardownEnds \/ \E effect \in Effects : TeardownService(effect)
    BY <2>4 DEF Start, BeginTeardown, TeardownEnds, TeardownService
  <2> QED
    BY <2>1, <2>2, <2>3, <2>4 DEF Next
<1> QED
  BY <1>1, RegistryInvHolds, PTL DEF Spec, ServicesStable

\* A service whose init failed holds the ordinal that the counter offers next, so
\* that no later registration succeeds.
THEOREM InitErrorIsFinal == Spec => InitErrorEndsRegistration
<1> DEFINE Ended == /\ "init_error" \in outcomes => Services' = Services
                    /\ "init_error" \in outcomes => m_service_count' = m_service_count
<1>1. RegistryInv /\ [Next]_vars => [Ended]_vars
  <2> SUFFICES ASSUME RegistryInv, Next
               PROVE  Ended
    OBVIOUS
  <2>1. CASE \E s \in Spellings : RegistrationRefused(s) \/ RegistrationCollides(s)
    BY <2>1, FailedRegistration DEF RegistrationRefused, RegistrationCollides, Services, Occupied
  <2>2. CASE \E s \in Spellings, effect \in Effects : Register(s, effect)
    BY <2>2, AcceptedRegistration
  <2>3. CASE Start \/ BeginTeardown \/ TeardownEnds \/ \E effect \in Effects : TeardownService(effect)
    BY <2>3 DEF Start, BeginTeardown, TeardownEnds, TeardownService, Services
  <2> QED
    BY <2>1, <2>2, <2>3 DEF Next
<1> QED
  BY <1>1, RegistryInvHolds, PTL DEF Spec, InitErrorEndsRegistration
=============================================================================
