------------------------------ MODULE RpcGate ------------------------------
(***************************************************************************)
(* What the back end promises about requests and shutdown, with no threads,*)
(* mutexes or managers: a request is admitted only while the gate is open; *)
(* once the shutdown has drained the requests in flight none is ever       *)
(* admitted again, so the services can be closed.                          *)
(***************************************************************************)
CONSTANT Requesters

VARIABLES open, inflight, phase

gate == <<open, inflight, phase>>

GateTypeOK ==
  /\ open \in BOOLEAN
  /\ inflight \subseteq Requesters
  /\ phase \in {"serving", "draining", "drained", "closed"}

GateInit ==
  /\ open = FALSE
  /\ inflight = {}
  /\ phase = "serving"

Admit(c) ==
  /\ open
  /\ c \notin inflight
  /\ inflight' = inflight \cup {c}
  /\ UNCHANGED <<open, phase>>

Complete(c) ==
  /\ c \in inflight
  /\ inflight' = inflight \ {c}
  /\ UNCHANGED <<open, phase>>

\* Starting, pausing and resuming are over once the shutdown begins.
Toggle ==
  /\ phase = "serving"
  /\ open' = ~open
  /\ UNCHANGED <<inflight, phase>>

BeginDraining ==
  /\ phase = "serving"
  /\ phase' = "draining"
  /\ UNCHANGED <<open, inflight>>

\* Pausing is harmless at any time, and the shutdown closes the gate.
Shut ==
  /\ open' = FALSE
  /\ UNCHANGED <<inflight, phase>>

Drained ==
  /\ phase = "draining"
  /\ ~open
  /\ inflight = {}
  /\ phase' = "drained"
  /\ UNCHANGED <<open, inflight>>

Close ==
  /\ phase = "drained"
  /\ phase' = "closed"
  /\ UNCHANGED <<open, inflight>>

GateNext ==
  \/ \E c \in Requesters : Admit(c) \/ Complete(c)
  \/ Toggle \/ BeginDraining \/ Shut \/ Drained \/ Close

GateSpec == GateInit /\ [][GateNext]_gate

\* After the drain no request is in flight and none can be admitted.
GateClosed == phase \in {"drained", "closed"} => ~open /\ inflight = {}
=============================================================================
