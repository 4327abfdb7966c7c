--------------------------- MODULE MCTcpFrontEnd ---------------------------
(***************************************************************************)
(* Instances of TcpFrontEnd for TLC.                                       *)
(***************************************************************************)
EXTENDS TcpFrontEnd

NoLateOps == {}
=============================================================================
