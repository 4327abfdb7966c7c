------------------------------ MODULE OidTable ------------------------------
(***************************************************************************)
(* One OidContainer under any sequence of its public operations, and a     *)
(* second one that is copied or sliced from it.                            *)
(***************************************************************************)
EXTENDS OidContainer

VARIABLES
  table,     \* the container
  copy,      \* the target of a copy, an assignment or a slice
  response,  \* what the last SetEntry returned
  asked      \* its name and ordinal, and the table it was asked of

vars == <<table, copy, response, asked>>

NothingAsked == [name |-> Hole, ordinal |-> 0, of |-> EmptyContainer]

TypeOK ==
  /\ table \in Containers
  /\ copy \in Containers
  /\ response \in Responses

Init ==
  /\ table = EmptyContainer
  /\ copy = EmptyContainer
  /\ response = "NO_ERROR"
  /\ asked = NothingAsked

Set(s, o) ==
  /\ CanConstructOid(s, o)
  /\ LET r == SetEntry(table, OidName(s), o)
     IN  /\ table' = r.container
         /\ response' = r.response
         /\ asked' = [name |-> OidName(s), ordinal |-> o, of |-> table]
  /\ UNCHANGED copy

Clear ==
  /\ table' = EmptyContainer
  /\ response' = "NO_ERROR"
  /\ asked' = NothingAsked
  /\ UNCHANGED copy

\* The copy constructor, or operator= over an earlier copy.
Copy ==
  /\ copy' = CopyOf(table)
  /\ UNCHANGED <<table, response, asked>>

Slice ==
  /\ copy' = SlicingPopulate(table)
  /\ UNCHANGED <<table, response, asked>>

Next ==
  \/ \E s \in Spellings, o \in Ordinals : Set(s, o)
  \/ Clear \/ Copy \/ Slice

Spec == Init /\ [][Next]_vars

-----------------------------------------------------------------------------
WellFormed(c) ==
  /\ c.index = Occupied(c)
  /\ Occupied(c) \subseteq 0..(c.size - 1)
  /\ \A o, p \in Occupied(c) : c.entries[o] = c.entries[p] => o = p

\* The name index links exactly the initialized entries, and no two of them have
\* the same name once folded: looking an entry up by ordinal and by name gives
\* the same answer after any sequence of insertions, refusals, growths, copies
\* and slices.
IndexAgrees == WellFormed(table) /\ WellFormed(copy)

\* What SetEntry answered is what a search of the vector alone would have told:
\* which of the ordinal and the name was in use.
ResponseExact ==
  asked # NothingAsked =>
    LET ordinal_used == asked.of.entries[asked.ordinal] # Hole
        name_used    == \E o \in Ordinals : asked.of.entries[o] = asked.name
    IN  response = CASE ordinal_used /\ name_used   -> "ALLREADY_CONTAINS_ENTRY"
                     [] ordinal_used /\ ~name_used  -> "ORDINAL_USED"
                     [] ~ordinal_used /\ name_used  -> "NAME_USED"
                     [] OTHER                       -> "NO_ERROR"

\* A slice holds the entries of its source at the same ordinals, and is never
\* longer: SlicingPopulate loses none to a collision.
SliceFaithful ==
  LET slice == SlicingPopulate(table)
  IN  slice.entries = table.entries /\ slice.size <= table.size

Map == INSTANCE OidMap WITH
  MapOrdinals <- Ordinals,
  MapNames    <- OidNames,
  bound       <- {<<o, table.entries[o]>> : o \in Occupied(table)}

\* SetEntry binds a free name to a free ordinal or changes no binding; nothing
\* rebinds an ordinal or a name short of clearing the table.
ImplementsMap == Map!MapSpec
=============================================================================
