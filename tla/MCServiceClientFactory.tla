----------------------- MODULE MCServiceClientFactory -----------------------
(***************************************************************************)
(* Instances of ServiceClientFactory for TLC: two user services whose      *)
(* methods are the same in another order, a stub that has them, one that   *)
(* has more, and one that has fewer; ordinal_type has 6 values, so that an *)
(* uninitialised service ordinal may name every service and none.          *)
(***************************************************************************)
EXTENDS ServiceClientFactory, TLC

Names == <<"basic_protocol", "one", "two">>

Tables == [one |-> <<"read", "write">>, two |-> <<"write", "read">>]

Types == {{"read", "write"}, {"read", "write", "trim"}, {"read"}}

Ordinals == 0..5

FactorySymmetry == Permutations(Factories)
=============================================================================
