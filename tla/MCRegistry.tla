----------------------------- MODULE MCRegistry -----------------------------
(***************************************************************************)
(* An instance of Registry for TLC: the basic protocol, two spellings of   *)
(* one service name, two other names and one that is too long, with        *)
(* ordinals 0..2 standing for the 16-bit ones.                             *)
(***************************************************************************)
EXTENDS Registry

MCSpellings == {"basic_protocol", "Echo", "echo", "log", "stat", "overlong"}

MCLower == [s \in MCSpellings |-> IF s = "Echo" THEN "echo" ELSE s]
=============================================================================
