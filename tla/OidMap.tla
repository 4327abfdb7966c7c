------------------------------- MODULE OidMap -------------------------------
(***************************************************************************)
(* What an OidContainer promises: a table in which a name and an ordinal   *)
(* are bound to each other at most once, and a binding stays until the     *)
(* whole table is replaced.                                                *)
(***************************************************************************)
CONSTANTS MapOrdinals, MapNames

VARIABLE bound  \* a set of <<ordinal, name>> pairs

Free(o, n) == \A b \in bound : b[1] # o /\ b[2] # n

MapInit == bound = {}

Bind(o, n) ==
  /\ Free(o, n)
  /\ bound' = bound \cup {<<o, n>>}

Drop == bound' = {}

MapNext ==
  \/ \E o \in MapOrdinals, n \in MapNames : Bind(o, n)
  \/ Drop

MapSpec == MapInit /\ [][MapNext]_bound
=============================================================================
