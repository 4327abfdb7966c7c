---------------------------- MODULE OidContainer ----------------------------
(***************************************************************************)
(* common::OidContainer: a vector of entries addressed by ordinal, with an *)
(* intrusive set over the same entries ordered by name.  The back end      *)
(* keeps its services in one, a service its methods, a client stub its     *)
(* method map.  The operations are functions of the container's value.     *)
(*                                                                         *)
(* name_index_ links entries of the vector, so its value is the set of the *)
(* ordinals it links.  An entry is reduced to its name: what it carries    *)
(* besides (the service, the dispatch function) is never looked at.        *)
(***************************************************************************)
EXTENDS Integers, FiniteSets

CONSTANTS
  Spellings,   \* the non-empty strings callers use as names
  Lower,       \* boost::to_lower
  TooLong,     \* the strings of OidName's 32 characters or more
  MaxOrdinal,  \* OidType::MAX, 65535 in the code
  Hole         \* an entry whose name is not initialized

ASSUME OidAssumption ==
  /\ Lower \in [Spellings -> Spellings]
  /\ TooLong \subseteq Spellings
  /\ MaxOrdinal \in Nat
  /\ Hole \notin Spellings

Ordinals == 0..MaxOrdinal

OidNames == {Lower[s] : s \in Spellings \ TooLong}

Responses == {"NO_ERROR", "ORDINAL_USED", "NAME_USED", "ALLREADY_CONTAINS_ENTRY"}

\* entries holds what the vector holds below size, and holes from there on.
Containers ==
  [size : 0..(MaxOrdinal + 1), entries : [Ordinals -> OidNames \cup {Hole}],
   index : SUBSET Ordinals]

EmptyContainer == [size |-> 0, entries |-> [o \in Ordinals |-> Hole], index |-> {}]

\* The name an OidName holds: folded to lower case.  Constructing one from a
\* string that is too long throws std::length_error.
OidName(s) == Lower[s]

CanConstructOid(s, o) == s \notin TooLong /\ o <= MaxOrdinal

Occupied(c) == {o \in Ordinals : c.entries[o] # Hole}

OccupiedSize(c) == Cardinality(c.index)

EntryAtOrdinal(c, o) == IF o < c.size THEN c.entries[o] ELSE Hole

\* The entries EntryWithName may find: at most one, if the index is in order.
EntriesWithName(c, n) == {o \in c.index : c.entries[o] = n}

\* regen_name_index_ links every initialized entry.
Regenerate(c) == [c EXCEPT !.index = Occupied(c)]

\* resize_if_needed_ unlinks everything, grows the vector and links it again.
ResizeTooFar(c, o) ==
  IF c.size < o + 1 THEN Regenerate([c EXCEPT !.size = o + 2]) ELSE c
ResizeForgetsIndex(c, o) ==
  IF c.size < o + 1 THEN [c EXCEPT !.size = o + 1, !.index = {}] ELSE c
ResizeIfNeeded(c, o) ==
  IF c.size < o + 1 THEN Regenerate([c EXCEPT !.size = o + 1]) ELSE c

NameUsedFirst(c, n, o) ==
  IF OccupiedSize(c) = 0 THEN "NO_ERROR"
  ELSE IF EntriesWithName(c, n) # {} THEN "NAME_USED"
  ELSE IF EntryAtOrdinal(c, o) # Hole THEN "ORDINAL_USED"
  ELSE "NO_ERROR"

\* ContainsEither: the ordinal is looked up in the vector, the name in the index.
ContainsEither(c, n, o) ==
  LET ordinal_in_vector == EntryAtOrdinal(c, o) # Hole
      entry_name_used   == EntriesWithName(c, n) # {}
  IN  IF OccupiedSize(c) = 0 THEN "NO_ERROR"
      ELSE IF ordinal_in_vector /\ entry_name_used THEN "ALLREADY_CONTAINS_ENTRY"
      ELSE IF ordinal_in_vector THEN "ORDINAL_USED"
      ELSE IF entry_name_used THEN "NAME_USED"
      ELSE "NO_ERROR"

OverwritingSetEntry(c, n, o) ==
  LET grown == ResizeIfNeeded(c, o)
  IN  [response |-> ContainsEither(grown, n, o),
       container |-> [grown EXCEPT !.entries[o] = n, !.index = @ \cup {o}]]

\* SetEntry: the vector has grown even when the entry is refused.
SetEntry(c, n, o) ==
  LET grown    == ResizeIfNeeded(c, o)
      response == ContainsEither(grown, n, o)
  IN  [response  |-> response,
       container |-> IF response = "NO_ERROR"
                     THEN [grown EXCEPT !.entries[o] = n, !.index = @ \cup {o}]
                     ELSE grown]

\* The copy constructor and operator=.
CopyOf(c) == Regenerate(c)

\* One entry of a slice: holes are skipped, anything else is set at its ordinal.
SliceEntry(c, target, o) ==
  LET m == EntryAtOrdinal(c, o)
  IN  IF m = Hole THEN target ELSE SetEntry(target, m, o).container

\* The target of a slice is cleared and takes the entries one after the other, by
\* ascending ordinal; sliced[k] is the target after the first k.
SliceUpTo(c, n) ==
  LET sliced[k \in 0..(MaxOrdinal + 1)] ==
        IF k = 0 THEN EmptyContainer ELSE SliceEntry(c, sliced[k - 1], k - 1)
  IN  sliced[n]

SliceOccupied(c) == SliceUpTo(c, OccupiedSize(c))

\* SlicingPopulate goes through the whole vector, holes included.
SlicingPopulate(c) == SliceUpTo(c, c.size)
=============================================================================
