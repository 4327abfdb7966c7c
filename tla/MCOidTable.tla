----------------------------- MODULE MCOidTable -----------------------------
(***************************************************************************)
(* An instance of OidTable for TLC: two spellings of one name, two other   *)
(* names and one that is too long.                                         *)
(***************************************************************************)
EXTENDS OidTable

MCSpellings == {"Echo", "echo", "log", "stat", "overlong"}

MCLower == [s \in MCSpellings |-> IF s = "Echo" THEN "echo" ELSE s]
=============================================================================
