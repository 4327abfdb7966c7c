----------------------------- MODULE MCSessions -----------------------------
(***************************************************************************)
(* Instances of Sessions for TLC: ordinal_type has 8 values instead of     *)
(* 2^16.  Well-behaved services reject before they create a cookie.        *)
(***************************************************************************)
EXTENDS Sessions, TLC

OrdinalsInRange == 0..3

WellBehaved == {"accept", "accept_cookie", "reject"}

AddressSymmetry == Permutations(Addresses)
=============================================================================
