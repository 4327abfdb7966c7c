---------------------------- MODULE MCInProcess ----------------------------
(***************************************************************************)
(* Instances of InProcess for TLC.                                         *)
(***************************************************************************)
EXTENDS InProcess, TLC

\* Everything that callers may still begin while the back end shuts down, short
\* of what the back end does not survive: starting or resuming it, and
\* destroying or constructing an invoker.
LateCalls == {"invoke", "disconnect"}

\* Everything but what opens the gate again.
LateOpsButOpening == LateCalls \cup {"register", "destroy"}

NoLateOps == {}

ThreadSymmetry ==
  Permutations(Clients) \cup Permutations(Workers) \cup Permutations(Stoppers)
=============================================================================
