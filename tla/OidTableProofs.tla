--------------------------- MODULE OidTableProofs ---------------------------
(***************************************************************************)
(* Proofs about OidTable, for every set of names, whichever of them fold   *)
(* together or are too long, and every largest ordinal.                    *)
(***************************************************************************)
EXTENDS OidTable, OidContainerProofs

\* What makes the invariants inductive: both containers are in order.  The types
\* are part of that.
TableInv == Sound(table) /\ Sound(copy) /\ response \in Responses

LEMMA TableInvKept == TableInv /\ [Next]_vars => TableInv'
<1> SUFFICES ASSUME TableInv, [Next]_vars
             PROVE  TableInv'
  OBVIOUS
<1> USE DEF TableInv
<1>1. ASSUME NEW s \in Spellings, NEW o \in Ordinals, Set(s, o)
      PROVE  TableInv'
  <2>1. OidName(s) \in OidNames
    BY <1>1, OidNameIsName DEF Set, CanConstructOid
  <2>2. Sound(table')
    BY <1>1, <2>1, SetEntryEffect DEF Set
  <2>3. response' \in Responses
    BY <1>1 DEF Set, SetEntry, ContainsEither, Responses
  <2>4. Sound(copy')
    BY <1>1 DEF Set
  <2> QED
    BY <2>2, <2>3, <2>4 DEF Sound, Occupied
<1>2. CASE Clear
  <2>1. Sound(table') /\ Sound(copy') /\ response' \in Responses
    BY <1>2, EmptySound DEF Clear, Responses
  <2> QED
    BY <2>1 DEF Sound, Occupied
<1>3. CASE Copy
  <2>1. Sound(table') /\ Sound(copy') /\ response' \in Responses
    BY <1>3, CopySound DEF Copy
  <2> QED
    BY <2>1 DEF Sound, Occupied
<1>4. CASE Slice
  <2>1. Sound(table') /\ Sound(copy') /\ response' \in Responses
    BY <1>4, SliceExact DEF Slice
  <2> QED
    BY <2>1 DEF Sound, Occupied
<1>5. CASE UNCHANGED vars
  BY <1>5 DEF vars, Sound, Occupied
<1> QED
  BY <1>1, <1>2, <1>3, <1>4, <1>5 DEF Next

\* Both containers are in order after any sequence of operations.
LEMMA TableInvHolds == Spec => []TableInv
<1>1. Init => TableInv
  BY EmptySound DEF Init, TableInv, Responses
<1> QED
  BY <1>1, TableInvKept, PTL DEF Spec

\* The containers keep their shape.
THEOREM TableTyped == Spec => []TypeOK
<1>1. TableInv => TypeOK
  BY DEF TableInv, Sound, TypeOK
<1> QED
  BY <1>1, TableInvHolds, PTL

\* The name index of a container links exactly its initialized entries, no two of
\* them under one name, after any sequence of SetEntry, clear, copies,
\* assignments and slices.
THEOREM IndexInOrder == Spec => []IndexAgrees
<1>1. TableInv => IndexAgrees
  BY DEF TableInv, Sound, IndexAgrees, WellFormed
<1> QED
  BY <1>1, TableInvHolds, PTL

\* SlicingPopulate, whose target takes the entries one by one, gives the entries
\* of its source and is no longer.
THEOREM SlicesFaithful == Spec => []SliceFaithful
<1>1. TableInv => SliceFaithful
  BY SliceExact DEF TableInv, SliceFaithful
<1> QED
  BY <1>1, TableInvHolds, PTL

\* SetEntry's response says which of the ordinal and the name was in use.
THEOREM ResponsesExact == Spec => []ResponseExact
<1>1. Init => ResponseExact
  BY DEF Init, ResponseExact
<1>2. TableInv /\ ResponseExact /\ [Next]_vars => ResponseExact'
  <2> SUFFICES ASSUME TableInv, ResponseExact, [Next]_vars
               PROVE  ResponseExact'
    OBVIOUS
  <2>1. ASSUME NEW s \in Spellings, NEW o \in Ordinals, Set(s, o)
        PROVE  ResponseExact'
    <3> DEFINE n == OidName(s)
               grown == ResizeIfNeeded(table, o)
    <3>1. n \in OidNames
      BY <2>1, OidNameIsName DEF Set, CanConstructOid
    <3>2. response' = ContainsEither(grown, n, o)
      BY <2>1 DEF Set, SetEntry
    <3>3. asked'.name = n /\ asked'.ordinal = o /\ asked'.of = table
      BY <2>1 DEF Set
    <3>4. Sound(grown) /\ grown.entries = table.entries
      BY ResizeSound DEF TableInv
    <3> HIDE DEF n, grown
    <3> DEFINE ordinal_used == table.entries[o] # Hole
               name_used == \E p \in Ordinals : table.entries[p] = n
    <3>5. /\ ordinal_used /\ name_used => response' = "ALLREADY_CONTAINS_ENTRY"
          /\ ordinal_used /\ ~name_used => response' = "ORDINAL_USED"
          /\ ~ordinal_used /\ name_used => response' = "NAME_USED"
          /\ ~ordinal_used /\ ~name_used => response' = "NO_ERROR"
      BY <3>1, <3>2, <3>4, ContainsEitherExact
    <3> QED
      BY <3>3, <3>5 DEF ResponseExact
  <2>2. CASE Clear
    BY <2>2 DEF Clear, ResponseExact
  <2>3. CASE Copy \/ Slice \/ UNCHANGED vars
    BY <2>3 DEF Copy, Slice, vars, ResponseExact
  <2> QED
    BY <2>1, <2>2, <2>3 DEF Next
<1> QED
  BY <1>1, <1>2, TableInvHolds, PTL DEF Spec

-----------------------------------------------------------------------------
(***************************************************************************)
(* The table implements OidMap.                                            *)
(***************************************************************************)
Bound == {<<o, table.entries[o]>> : o \in Occupied(table)}

\* A step of the table binds a free name to a free ordinal, drops everything, or
\* leaves the bindings alone.
LEMMA TableStepMaps ==
  ASSUME TableInv, [Next]_vars
  PROVE  [Map!MapNext]_Bound
<1>1. ASSUME NEW s \in Spellings, NEW o \in Ordinals, Set(s, o)
      PROVE  [Map!MapNext]_Bound
  <2>1. PICK n : n = OidName(s)
    OBVIOUS
  <2>2. n \in OidNames
    BY <1>1, <2>1, OidNameIsName DEF Set, CanConstructOid
  <2>3. PICK r : r = SetEntry(table, n, o)
    OBVIOUS
  <2>4. /\ r.response = "NO_ERROR" =>
             table.entries[o] = Hole /\ \A p \in Ordinals : table.entries[p] # n
        /\ r.container.entries =
             IF r.response = "NO_ERROR" THEN [table.entries EXCEPT ![o] = n] ELSE table.entries
    <3>1. Sound(table)
      BY DEF TableInv
    <3>2. r.response = "NO_ERROR" =>
            table.entries[o] = Hole /\ \A p \in Ordinals : table.entries[p] # n
      BY <2>2, <2>3, <3>1, SetEntryAccepts
    <3>3. r.container.entries =
            IF r.response = "NO_ERROR" THEN [table.entries EXCEPT ![o] = n] ELSE table.entries
      BY <2>2, <2>3, <3>1, SetEntryEffect
    <3> QED
      BY <3>2, <3>3
  <2>5. table' = r.container
    BY <1>1, <2>1, <2>3 DEF Set
  <2>6. table.entries \in [Ordinals -> OidNames \cup {Hole}]
    BY DEF TableInv, Sound, Containers
  <2>7. CASE r.response = "NO_ERROR"
    <3>1. table'.entries = [table.entries EXCEPT ![o] = n]
      BY <2>4, <2>5, <2>7
    <3>2. Occupied(table)' = Occupied(table) \cup {o}
      BY <2>2, <2>6, <3>1, HoleIsNoName DEF Occupied
    <3>3. Bound' = Bound \cup {<<o, n>>}
      BY <2>4, <2>6, <2>7, <3>1, <3>2 DEF Bound, Occupied
    <3>4. \A b \in Bound : b[1] # o /\ b[2] # n
      BY <2>4, <2>7 DEF Bound, Occupied
    <3>5. Map!Bind(o, n)
      BY <3>3, <3>4 DEF Map!Bind, Map!Free, Bound
    <3> QED
      BY <2>2, <3>5 DEF Map!MapNext
  <2>8. CASE r.response # "NO_ERROR"
    BY <2>4, <2>5, <2>8 DEF Bound, Occupied
  <2> QED
    BY <2>7, <2>8
<1>2. CASE Clear
  <2>1. Bound' = {}
    BY <1>2 DEF Clear, EmptyContainer, Bound, Occupied
  <2> QED
    BY <2>1 DEF Map!MapNext, Map!Drop, Bound
<1>3. CASE Copy \/ Slice \/ UNCHANGED vars
  BY <1>3 DEF Copy, Slice, vars, Bound, Occupied
<1> QED
  BY <1>1, <1>2, <1>3 DEF Next

\* An OidContainer is a table in which name and ordinal are bound to each other
\* at most once, and only replacing the whole table ends a binding.
THEOREM TableImplementsMap == Spec => ImplementsMap
<1>1. Init => Map!MapInit
  BY DEF Init, EmptyContainer, Occupied, Map!MapInit
<1>2. TableInv /\ [Next]_vars => [Map!MapNext]_Bound
  BY TableStepMaps
<1> QED
  BY <1>1, <1>2, TableInvHolds, PTL DEF Spec, ImplementsMap, Map!MapSpec, Bound
=============================================================================
