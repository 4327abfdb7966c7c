------------------------- MODULE OidContainerProofs -------------------------
(***************************************************************************)
(* What the operations of an OidContainer do to a container in order, for  *)
(* every set of names and every largest ordinal.  OidTableProofs and       *)
(* RegistryProofs rest on these facts.                                     *)
(***************************************************************************)
EXTENDS OidContainer, FiniteSetTheorems, WellFoundedInduction, TLAPS

\* Induction over the naturals, in the form of a set that is closed under
\* successor: a least number outside of it cannot be.
LEMMA SetInduction ==
  ASSUME NEW S, 0 \in S, \A n \in Nat : n \in S => n + 1 \in S
  PROVE  Nat \subseteq S
<1> SUFFICES ASSUME Nat \ S # {} PROVE FALSE
  OBVIOUS
<1> DEFINE Less == {ss \in Nat \X Nat : ss[1] < ss[2]}
<1>1. IsWellFoundedOn(Less, Nat)
  BY NatLessThanWellFounded, Zenon DEF OpToRel
<1>2. PICK m \in Nat \ S : \A k \in Nat \ S : ~(<<k, m>> \in Less)
  <2>1. Nat \ S \subseteq Nat
    OBVIOUS
  <2> HIDE DEF Less
  <2> QED
    BY <1>1, <2>1, WFMin, Zenon
<1>3. m # 0
  OBVIOUS
<1>4. m - 1 \in Nat /\ m - 1 < m /\ (m - 1) + 1 = m
  BY <1>3
<1>5. m - 1 \in S
  BY <1>2, <1>4
<1> QED
  BY <1>4, <1>5

\* The index is finite: OccupiedSize is 0 only for an empty one.
LEMMA OrdinalSetsFinite ==
  ASSUME NEW S, S \subseteq Ordinals
  PROVE  IsFiniteSet(S) /\ Cardinality(S) \in Nat /\ (Cardinality(S) = 0 <=> S = {})
<1>1. IsFiniteSet(Ordinals)
  BY OidAssumption, FS_Interval DEF Ordinals
<1>2. IsFiniteSet(S)
  BY <1>1, FS_Subset
<1> QED
  BY <1>2, FS_CardinalityType, FS_EmptySet

\* A name is never the mark of a hole.
LEMMA HoleIsNoName == Hole \notin OidNames
BY OidAssumption DEF OidNames

\* Folding gives a name, if the string fits.
LEMMA OidNameIsName ==
  ASSUME NEW s \in Spellings, s \notin TooLong
  PROVE  OidName(s) \in OidNames
BY DEF OidName, OidNames

\* A container in order: the index links the initialized entries, all of them are
\* in the vector, and no two have the same name.
Sound(c) ==
  /\ c \in Containers
  /\ c.index = Occupied(c)
  /\ Occupied(c) \subseteq 0..(c.size - 1)
  /\ \A o, p \in Occupied(c) : c.entries[o] = c.entries[p] => o = p

LEMMA EmptySound == Sound(EmptyContainer)
BY OidAssumption DEF Sound, EmptyContainer, Containers, Occupied, Ordinals

\* Looking an ordinal up in the vector.
LEMMA LookupByOrdinal ==
  ASSUME NEW c, Sound(c), NEW o \in Ordinals
  PROVE  EntryAtOrdinal(c, o) = c.entries[o]
BY OidAssumption DEF Sound, Containers, EntryAtOrdinal, Occupied, Ordinals

\* Growing keeps the entries.
LEMMA ResizeSound ==
  ASSUME NEW c, Sound(c), NEW o \in Ordinals
  PROVE  LET grown == ResizeIfNeeded(c, o)
         IN  /\ Sound(grown)
             /\ grown.entries = c.entries
             /\ grown.size = IF c.size < o + 1 THEN o + 1 ELSE c.size
<1>1. CASE c.size < o + 1
  <2>1. ResizeIfNeeded(c, o) = [size |-> o + 1, entries |-> c.entries, index |-> Occupied(c)]
    BY <1>1 DEF ResizeIfNeeded, Regenerate, Sound, Containers, Occupied
  <2>2. o + 1 \in 0..(MaxOrdinal + 1)
    BY OidAssumption DEF Ordinals
  <2> QED
    BY <1>1, <2>1, <2>2, OidAssumption DEF Sound, Containers, Occupied, Ordinals
<1>2. CASE ~(c.size < o + 1)
  BY <1>2 DEF ResizeIfNeeded
<1> QED
  BY <1>1, <1>2

\* Linking again what is linked.
LEMMA CopySound ==
  ASSUME NEW c, Sound(c)
  PROVE  CopyOf(c) = c
BY DEF CopyOf, Regenerate, Sound, Containers

\* ContainsEither, which asks the index only if it is not empty, answers as a
\* search of the vector would.
LEMMA ContainsEitherExact ==
  ASSUME NEW c, Sound(c), NEW n \in OidNames, NEW o \in Ordinals
  PROVE  LET ordinal_used == c.entries[o] # Hole
             name_used    == \E p \in Ordinals : c.entries[p] = n
         IN  /\ ordinal_used /\ name_used => ContainsEither(c, n, o) = "ALLREADY_CONTAINS_ENTRY"
             /\ ordinal_used /\ ~name_used => ContainsEither(c, n, o) = "ORDINAL_USED"
             /\ ~ordinal_used /\ name_used => ContainsEither(c, n, o) = "NAME_USED"
             /\ ~ordinal_used /\ ~name_used => ContainsEither(c, n, o) = "NO_ERROR"
<1>1. EntryAtOrdinal(c, o) = c.entries[o]
  BY LookupByOrdinal
<1>2. EntriesWithName(c, n) # {} <=> \E p \in Ordinals : c.entries[p] = n
  BY HoleIsNoName DEF EntriesWithName, Sound, Occupied
<1>3. OccupiedSize(c) = 0 <=> Occupied(c) = {}
  BY OrdinalSetsFinite DEF OccupiedSize, Sound, Occupied
<1>4. Occupied(c) = {} => c.entries[o] = Hole /\ ~\E p \in Ordinals : c.entries[p] = n
  BY HoleIsNoName DEF Occupied
<1> QED
  BY <1>1, <1>2, <1>3, <1>4 DEF ContainsEither

\* SetEntry accepts an entry iff neither its ordinal nor its name is in use, and
\* writes it then and only then.
LEMMA SetEntryEffect ==
  ASSUME NEW c, Sound(c), NEW n \in OidNames, NEW o \in Ordinals
  PROVE  LET r == SetEntry(c, n, o)
         IN  /\ r.response = ContainsEither(ResizeIfNeeded(c, o), n, o)
             /\ r.response = "NO_ERROR" <=>
                  c.entries[o] = Hole /\ \A p \in Ordinals : c.entries[p] # n
             /\ r.container.entries =
                  IF r.response = "NO_ERROR" THEN [c.entries EXCEPT ![o] = n] ELSE c.entries
             /\ r.container.size = IF c.size < o + 1 THEN o + 1 ELSE c.size
             /\ Sound(r.container)
<1> DEFINE grown == ResizeIfNeeded(c, o)
           r == SetEntry(c, n, o)
           set == [grown EXCEPT !.entries[o] = n, !.index = @ \cup {o}]
<1>1. /\ Sound(grown)
      /\ grown.entries = c.entries
      /\ grown.size = IF c.size < o + 1 THEN o + 1 ELSE c.size
  BY ResizeSound
<1>2. /\ r.response = ContainsEither(grown, n, o)
      /\ r.container = IF r.response = "NO_ERROR" THEN set ELSE grown
  BY DEF SetEntry
<1>3. r.response = "NO_ERROR" <=> c.entries[o] = Hole /\ \A p \in Ordinals : c.entries[p] # n
  <2> HIDE DEF grown, r
  <2> QED
    BY <1>1, <1>2, ContainsEitherExact
<1>4. grown \in Containers
  BY <1>1 DEF Sound
<1>5. /\ set \in Containers
      /\ set.size = grown.size
      /\ set.entries = [c.entries EXCEPT ![o] = n]
      /\ set.index = grown.index \cup {o}
  <2>1. set = [grown EXCEPT !.entries[o] = n, !.index = @ \cup {o}]
    OBVIOUS
  <2> HIDE DEF grown, set
  <2>2. set \in Containers
    BY <1>4, <2>1 DEF Containers
  <2>3. set.size = grown.size /\ set.index = grown.index \cup {o}
        /\ set.entries = [grown.entries EXCEPT ![o] = n]
    BY <1>4, <2>1 DEF Containers
  <2>4. grown.entries = c.entries
    BY <1>1
  <2> QED
    BY <2>2, <2>3, <2>4
<1>6. c.size \in Nat /\ o \in Nat /\ c.entries \in [Ordinals -> OidNames \cup {Hole}]
  BY OidAssumption DEF Sound, Containers, Ordinals
<1>7. ASSUME r.response = "NO_ERROR"
      PROVE  Sound(set)
  <2>1. Occupied(set) = Occupied(grown) \cup {o}
    <3> HIDE DEF grown, set
    <3> QED
      BY <1>1, <1>5, <1>6, HoleIsNoName DEF Occupied
  <2>2. o \in 0..(grown.size - 1)
    BY <1>1, <1>6
  <2> HIDE DEF grown, set, r
  <2>3. \A p, q \in Occupied(set) : set.entries[p] = set.entries[q] => p = q
    BY <1>1, <1>3, <1>5, <1>6, <1>7, <2>1 DEF Sound, Occupied
  <2>4. set.index = Occupied(set)
    BY <1>1, <1>5, <2>1 DEF Sound
  <2>5. Occupied(set) \subseteq 0..(set.size - 1)
    BY <1>1, <1>5, <2>1, <2>2 DEF Sound
  <2> QED
    BY <1>5, <2>3, <2>4, <2>5 DEF Sound
<1> HIDE DEF grown, set, r
<1>8. CASE r.response = "NO_ERROR"
  BY <1>1, <1>2, <1>3, <1>5, <1>7, <1>8 DEF r, grown
<1>9. CASE r.response # "NO_ERROR"
  BY <1>1, <1>2, <1>3, <1>9 DEF r, grown
<1> QED
  BY <1>8, <1>9

\* Its parts, as they are used.
LEMMA SetEntrySound ==
  ASSUME NEW c, Sound(c), NEW n \in OidNames, NEW o \in Ordinals
  PROVE  Sound(SetEntry(c, n, o).container)
BY SetEntryEffect, Zenon

LEMMA SetEntrySize ==
  ASSUME NEW c, Sound(c), NEW n \in OidNames, NEW o \in Ordinals
  PROVE  SetEntry(c, n, o).container.size = IF c.size < o + 1 THEN o + 1 ELSE c.size
<1> DEFINE grown == ResizeIfNeeded(c, o)
<1>1. grown \in Containers /\ grown.size = IF c.size < o + 1 THEN o + 1 ELSE c.size
  BY ResizeSound DEF Sound
<1>2. \/ SetEntry(c, n, o).container = grown
      \/ SetEntry(c, n, o).container = [grown EXCEPT !.entries[o] = n, !.index = @ \cup {o}]
  BY DEF SetEntry
<1> HIDE DEF grown
<1>3. SetEntry(c, n, o).container.size = grown.size
  BY <1>1, <1>2 DEF Containers
<1> QED
  BY <1>1, <1>3

\* What is accepted was free.
LEMMA SetEntryAccepts ==
  ASSUME NEW c, Sound(c), NEW n \in OidNames, NEW o \in Ordinals,
         SetEntry(c, n, o).response = "NO_ERROR"
  PROVE  c.entries[o] = Hole /\ \A p \in Ordinals : c.entries[p] # n
<1> DEFINE grown == ResizeIfNeeded(c, o)
<1>1. Sound(grown) /\ grown.entries = c.entries
  BY ResizeSound
<1>2. ContainsEither(grown, n, o) = "NO_ERROR"
  BY DEF SetEntry
<1> HIDE DEF grown
<1> QED
  BY <1>1, <1>2, ContainsEitherExact

\* What is free is accepted.
LEMMA SetEntryFree ==
  ASSUME NEW c, Sound(c), NEW n \in OidNames, NEW o \in Ordinals,
         c.entries[o] = Hole, \A p \in Ordinals : c.entries[p] # n
  PROVE  SetEntry(c, n, o).response = "NO_ERROR"
<1> DEFINE grown == ResizeIfNeeded(c, o)
<1>1. Sound(grown) /\ grown.entries = c.entries
  BY ResizeSound
<1>2. SetEntry(c, n, o).response = ContainsEither(grown, n, o)
  BY DEF SetEntry
<1> HIDE DEF grown
<1> QED
  BY <1>1, <1>2, ContainsEitherExact

-----------------------------------------------------------------------------
(***************************************************************************)
(* Slices.                                                                 *)
(***************************************************************************)

\* The recursive function of SliceUpTo exists: one for the first n entries can be
\* continued by one more entry.
LEMMA SlicedExists ==
  ASSUME NEW c
  PROVE  \E f : f = [k \in 0..(MaxOrdinal + 1) |->
                      IF k = 0 THEN EmptyContainer ELSE SliceEntry(c, f[k - 1], k - 1)]
<1> DEFINE Upto(n, f) ==
             f = [k \in 0..n |-> IF k = 0 THEN EmptyContainer ELSE SliceEntry(c, f[k - 1], k - 1)]
           Good == {n \in Nat : \E f : Upto(n, f)}
<1>1. 0 \in Good
  <2>1. Upto(0, [k \in 0..0 |-> EmptyContainer])
    OBVIOUS
  <2> QED
    BY <2>1
<1>2. ASSUME NEW n \in Nat, n \in Good
      PROVE  n + 1 \in Good
  <2>1. PICK f : Upto(n, f)
    BY <1>2
  <2> DEFINE g == [k \in 0..(n + 1) |-> IF k <= n THEN f[k] ELSE SliceEntry(c, f[n], n)]
  <2>2. ASSUME NEW k \in 0..(n + 1)
        PROVE  g[k] = IF k = 0 THEN EmptyContainer ELSE SliceEntry(c, g[k - 1], k - 1)
    <3>1. CASE k = 0
      BY <2>1, <3>1
    <3>2. CASE k # 0 /\ k <= n
      <4>1. k - 1 \in 0..n /\ k \in 0..n
        BY <3>2
      <4>2. g[k] = f[k] /\ g[k - 1] = f[k - 1]
        BY <4>1
      <4>3. f[k] = SliceEntry(c, f[k - 1], k - 1)
        BY <2>1, <3>2, <4>1
      <4> QED
        BY <3>2, <4>2, <4>3
    <3>3. CASE k = n + 1
      <4>1. k - 1 = n /\ n \in 0..(n + 1) /\ k # 0 /\ ~(k <= n)
        BY <3>3
      <4>2. g[k] = SliceEntry(c, f[n], n) /\ g[n] = f[n]
        BY <4>1
      <4> QED
        BY <4>1, <4>2
    <3> QED
      BY <3>1, <3>2, <3>3
  <2>3. Upto(n + 1, g)
    BY <2>2
  <2> HIDE DEF Upto, g
  <2> QED
    BY <2>3
<1>3. Nat \subseteq Good
  <2> HIDE DEF Good
  <2> QED
    BY <1>1, <1>2, SetInduction
<1>4. \E f : Upto(MaxOrdinal + 1, f)
  <2> HIDE DEF Upto
  <2> QED
    BY <1>3, OidAssumption
<1> QED
  BY <1>4, Zenon

\* ... so that SliceUpTo is what it takes from its definition.
LEMMA SliceSteps ==
  ASSUME NEW c
  PROVE  /\ SliceUpTo(c, 0) = EmptyContainer
         /\ \A k \in Ordinals : SliceUpTo(c, k + 1) = SliceEntry(c, SliceUpTo(c, k), k)
<1> DEFINE Defines(f) ==
             f = [k \in 0..(MaxOrdinal + 1) |->
                    IF k = 0 THEN EmptyContainer ELSE SliceEntry(c, f[k - 1], k - 1)]
           sliced == CHOOSE f : Defines(f)
<1>1. \E f : Defines(f)
  BY SlicedExists
<1>2. Defines(sliced)
  <2> HIDE DEF Defines
  <2> QED
    BY <1>1
<1>3. ASSUME NEW n
      PROVE  SliceUpTo(c, n) = sliced[n]
  BY DEF SliceUpTo
<1> HIDE DEF sliced
<1>4. 0 \in 0..(MaxOrdinal + 1)
  BY OidAssumption
<1>5. SliceUpTo(c, 0) = EmptyContainer
  BY <1>2, <1>3, <1>4
<1>6. ASSUME NEW k \in Ordinals
      PROVE  SliceUpTo(c, k + 1) = SliceEntry(c, SliceUpTo(c, k), k)
  <2>1. k + 1 \in 0..(MaxOrdinal + 1) /\ k + 1 # 0 /\ (k + 1) - 1 = k
    BY OidAssumption DEF Ordinals
  <2>2. sliced[k + 1] = SliceEntry(c, sliced[k], k)
    BY <1>2, <2>1
  <2> QED
    BY <1>3, <2>2
<1> QED
  BY <1>5, <1>6

\* The target after the first n entries: the entries of the source below n.
SlicedRight(c, n) ==
  LET slice == SliceUpTo(c, n)
  IN  /\ Sound(slice)
      /\ slice.entries = [o \in Ordinals |-> IF o < n THEN c.entries[o] ELSE Hole]
      /\ slice.size <= n /\ slice.size <= c.size

LEMMA SliceOneMore ==
  ASSUME NEW c, Sound(c), NEW n \in Ordinals, SlicedRight(c, n)
  PROVE  SlicedRight(c, n + 1)
<1> DEFINE slice == SliceUpTo(c, n)
           more == SliceUpTo(c, n + 1)
<1>1. more = SliceEntry(c, slice, n)
  BY SliceSteps
<1>2. EntryAtOrdinal(c, n) = c.entries[n]
  BY LookupByOrdinal
<1>3. /\ n \in Nat /\ c.size \in Nat /\ slice.size \in Nat
      /\ c.entries \in [Ordinals -> OidNames \cup {Hole}]
      /\ \A o \in Ordinals : o \in Nat
  BY OidAssumption DEF SlicedRight, Sound, Containers, Ordinals
<1>s. /\ Sound(slice)
      /\ slice.entries = [o \in Ordinals |-> IF o < n THEN c.entries[o] ELSE Hole]
      /\ slice.size <= n /\ slice.size <= c.size
  BY DEF SlicedRight
<1>m. ASSUME /\ Sound(more)
             /\ more.entries = [o \in Ordinals |-> IF o < n + 1 THEN c.entries[o] ELSE Hole]
             /\ more.size <= n + 1 /\ more.size <= c.size
      PROVE  SlicedRight(c, n + 1)
  BY <1>m DEF SlicedRight
<1> HIDE DEF slice, more
<1>4. CASE c.entries[n] = Hole
  <2>1. more = slice
    BY <1>1, <1>2, <1>4 DEF SliceEntry
  <2>2. [o \in Ordinals |-> IF o < n THEN c.entries[o] ELSE Hole]
          = [o \in Ordinals |-> IF o < n + 1 THEN c.entries[o] ELSE Hole]
    BY <1>3, <1>4
  <2> QED
    <3>1. slice.size <= n + 1
      BY <1>3, <1>s
    <3> QED
      BY <1>s, <1>m, <2>1, <2>2, <3>1, Zenon
<1>5. CASE c.entries[n] # Hole
  <2>1. PICK name : name = c.entries[n]
    OBVIOUS
  <2>2. name \in OidNames
    BY <1>3, <1>5, <2>1
  <2>3. more = SetEntry(slice, name, n).container
    BY <1>1, <1>2, <1>5, <2>1 DEF SliceEntry
  <2>4. \A o \in Ordinals : slice.entries[o] = IF o < n THEN c.entries[o] ELSE Hole
    BY <1>s
  <2>5. \A o \in Ordinals : o < n => c.entries[o] # name
    BY <1>3, <1>5, <2>1 DEF Sound, Occupied
  <2>6. slice.entries[n] = Hole /\ \A p \in Ordinals : slice.entries[p] # name
    BY <1>3, <1>5, <2>1, <2>4, <2>5
  <2>7. /\ more.entries = [slice.entries EXCEPT ![n] = name]
        /\ more.size = IF slice.size < n + 1 THEN n + 1 ELSE slice.size
        /\ Sound(more)
    BY <1>s, <2>2, <2>3, <2>6, SetEntryEffect
  <2>8. n \in 0..(c.size - 1)
    BY <1>5 DEF Sound, Occupied
  <2>9. more.entries = [o \in Ordinals |-> IF o < n + 1 THEN c.entries[o] ELSE Hole]
    <3>1. \A o \in Ordinals : o < n + 1 <=> o < n \/ o = n
      BY OidAssumption DEF Ordinals
    <3> QED
      BY <1>s, <2>1, <2>7, <3>1
  <2>10. more.size <= n + 1 /\ more.size <= c.size
    BY <1>3, <1>s, <2>7, <2>8
  <2> QED
    BY <1>m, <2>7, <2>9, <2>10
<1> QED
  BY <1>4, <1>5

LEMMA SlicePrefix ==
  ASSUME NEW c, Sound(c), NEW n \in 0..(MaxOrdinal + 1)
  PROVE  SlicedRight(c, n)
<1> DEFINE Good == {k \in Nat : k <= MaxOrdinal + 1 => SlicedRight(c, k)}
<1>1. 0 \in Good
  <2>1. SliceUpTo(c, 0) = EmptyContainer
    BY SliceSteps
  <2>2. c.size \in Nat
    BY OidAssumption DEF Sound, Containers
  <2>3. EmptyContainer.size = 0
        /\ EmptyContainer.entries = [o \in Ordinals |-> IF o < 0 THEN c.entries[o] ELSE Hole]
    BY OidAssumption DEF EmptyContainer, Ordinals
  <2>4. SlicedRight(c, 0)
    BY <2>1, <2>2, <2>3, EmptySound DEF SlicedRight
  <2> QED
    BY <2>4
<1>2. ASSUME NEW k \in Nat, k \in Good
      PROVE  k + 1 \in Good
  <2>1. k + 1 <= MaxOrdinal + 1 => k \in Ordinals /\ k <= MaxOrdinal + 1
    BY OidAssumption DEF Ordinals
  <2> QED
    BY <1>2, <2>1, SliceOneMore
<1>3. Nat \subseteq Good
  <2> HIDE DEF Good
  <2> QED
    BY <1>1, <1>2, SetInduction
<1> QED
  BY <1>3, OidAssumption

\* SlicingPopulate gives a container in order with the entries of its source at
\* the same ordinals, and no longer: none of its SetEntry calls is refused.
LEMMA SliceExact ==
  ASSUME NEW c, Sound(c)
  PROVE  LET slice == SlicingPopulate(c)
         IN  Sound(slice) /\ slice.entries = c.entries /\ slice.size <= c.size
<1>1. c.size \in 0..(MaxOrdinal + 1) /\ c.entries \in [Ordinals -> OidNames \cup {Hole}]
  BY DEF Sound, Containers
<1>2. SlicedRight(c, c.size)
  BY <1>1, SlicePrefix
<1>3. c.entries = [o \in Ordinals |-> IF o < c.size THEN c.entries[o] ELSE Hole]
  BY <1>1, OidAssumption DEF Sound, Occupied, Ordinals
<1> QED
  BY <1>2, <1>3 DEF SlicedRight, SlicingPopulate
=============================================================================
