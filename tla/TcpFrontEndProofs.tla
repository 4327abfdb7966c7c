------------------------- MODULE TcpFrontEndProofs -------------------------
(***************************************************************************)
(* Proofs about TcpFrontEnd, for every set of connections, pool threads and*)
(* stoppers, every size of messages and buffers, and whatever peers do.    *)
(***************************************************************************)
EXTENDS TcpFrontEnd, FiniteSetTheorems, TLAPS

HandlerKinds == {"accept", "header", "body", "write", "shutdown"}

\* Connection c is in the queue q, with a completion of kind h, at most once.
In(q, c) == \E i \in DOMAIN q : q[i].c = c
Has(q, c, h) == \E i \in DOMAIN q : q[i].c = c /\ q[i].h = h
Once(q, c) == \A i, j \in DOMAIN q : q[i].c = c /\ q[j].c = c => i = j

\* Worker w refers to c's invoker.
Holds(w, c) == thread[w] \in {"dispatching", "ended", "cleared"} /\ job[w] = c

\* One completion, of the kind its io_state names, and nothing else beside it.
QueueOK(c) ==
  /\ Once(handlers, c)
  /\ In(handlers, c) => op[c] = "none" /\ current # c /\ ~Referenced(c)
  /\ \A h \in HandlerKinds : Has(handlers, c, h) =>
       h \in {"header", "body", "write"} /\ io_state[c] = OpState[h]

\* An outstanding operation is the only activity of a connection.
SocketOK(c) ==
  op[c] # "none" =>
    /\ io_state[c] = OpState[op[c]]
    /\ current # c /\ ~Referenced(c)
    /\ c \in m_connections

\* So is a request in the event loop, or in the pool, in one place of it; only
\* the destructor takes its connection away.
RequestOK(c) ==
  /\ current = c => ~Referenced(c)
  /\ current = c \/ Referenced(c) => io_state[c] = "DISPATCHED"
  /\ current = c \/ Referenced(c) => c \in m_connections \/ front = "gone"
  /\ \A w \in Workers : Holds(w, c) => c \notin posted
  /\ \A v, w \in Workers : Holds(v, c) /\ Holds(w, c) => v = w

\* Only the completion of a header may be left of an erased connection, and only
\* after the shutdown handler; the shared_ptr is that of a header's handler.
LifeOK(c) ==
  /\ Has(handlers, c, "body") \/ Has(handlers, c, "write") => c \in m_connections
  /\ Has(handlers, c, "header") => c \in m_connections \/ m_shutdown_initiated
  /\ c \in bound => op[c] = "header" \/ Has(handlers, c, "header") \/ loop = "terminated"

ConnOK(c) == QueueOK(c) /\ SocketOK(c) /\ RequestOK(c) /\ LifeOK(c)

\* The event loop hands one connection at a time to the back end, and leaves no
\* completion behind when it stops.
LoopOK ==
  /\ loop \in {"invoking", "started"} <=> current # Nobody
  /\ front \in {"unborn", "made"} => loop = "none"
  /\ front = "making" => loop \in {"none", "terminated"}
  /\ loop = "stopped" => \A c \in Clients : ~In(handlers, c) /\ c \notin bound

JobOK ==
  /\ \A w \in Workers :
       thread[w] \in {"dispatching", "ended", "cleared", "finishing"} => job[w] \in Clients
  /\ owner = "new" => \A w \in Workers : thread[w] = "none"

\* Connections that are known, or referred to by a handler, are alive.
LiveOK == m_connections \subseteq m_connected_clients /\ bound \subseteq m_connected_clients

CountedConns == {c \in Clients : Counted(c)}

CountOK == m_active_rpc_count = Cardinality(CountedConns)

BackEndShape ==
  /\ m_accepting_requests \in BOOLEAN
  /\ m_shutdown_state \in ShutdownStates
  /\ slots \subseteq Managers
  /\ m_connected_clients \subseteq Clients
  /\ cookies \subseteq Clients
  /\ m_rpc_active \in [Clients -> BOOLEAN]
  /\ posted \subseteq Clients
  /\ thread \in [Workers -> ThreadStages]
  /\ job \in [Workers -> Clients \cup {Nobody}]
  /\ m_work \in BOOLEAN
  /\ m_stopped \in BOOLEAN
  /\ owner \in {"new", "sealed", "up"}
  /\ sd \in [Stoppers -> StopperStages]
  /\ pending \subseteq Managers
  /\ torn \in 0..NumServices

FrontShape ==
  /\ front \in {"unborn", "making", "made", "started", "gone"}
  /\ holder \in Stoppers \cup {Main, Nobody}
  /\ dfb \in {"out", "asking", "waiting", "polling", "leaving"}
  /\ m_shutdown_initiated \in BOOLEAN
  /\ notified \in BOOLEAN
  /\ loop \in {"none", "idle", "invoking", "started", "stopped", "terminated"}
  /\ current \in Clients \cup {Nobody}
  /\ handlers \in Seq(Handlers)
  /\ acceptor \in {"none", "pending", "idle", "closed"}
  /\ m_connections \subseteq Clients
  /\ io_state \in [Clients -> IoStates]
  /\ op \in [Clients -> {"none", "header", "body", "write"}]
  /\ bound \subseteq Clients
  /\ msg_sz \in [Clients -> RequestSizes \cup {0}]
  /\ buf_size \in [Clients -> RequestSizes \cup ResponseSizes \cup {InitialSize}]

ShapeOK == BackEndShape /\ FrontShape

ConnInv == LoopOK /\ JobOK /\ LiveOK /\ \A c \in Clients : ConnOK(c)

TcpInv == ShapeOK /\ ConnInv /\ CountOK

-----------------------------------------------------------------------------
(***************************************************************************)
(* The queue of the event loop.                                            *)
(***************************************************************************)

\* A completion is queued at the end.
LEMMA AppendQueue ==
  ASSUME NEW q \in Seq(Handlers), NEW x \in Handlers
  PROVE  /\ Append(q, x) \in Seq(Handlers)
         /\ \A c : In(Append(q, x), c) <=> In(q, c) \/ x.c = c
         /\ \A c, h : Has(Append(q, x), c, h) <=> Has(q, c, h) \/ (x.c = c /\ x.h = h)
         /\ \A c : Once(q, c) /\ (x.c = c => ~In(q, c)) => Once(Append(q, x), c)
<1> DEFINE r == Append(q, x)
<1>1. /\ r \in Seq(Handlers) /\ Len(q) \in Nat /\ DOMAIN q = 1..Len(q)
      /\ DOMAIN r = 1..(Len(q) + 1)
      /\ r[Len(q) + 1] = x /\ \A i \in 1..Len(q) : r[i] = q[i]
  OBVIOUS
<1>2. /\ DOMAIN r = DOMAIN q \cup {Len(q) + 1} /\ Len(q) + 1 \notin DOMAIN q
      /\ r[Len(q) + 1] = x /\ \A i \in DOMAIN q : r[i] = q[i]
  BY <1>1
<1>3. PICK n : n = Len(q) + 1
  OBVIOUS
<1>4. /\ DOMAIN r = DOMAIN q \cup {n} /\ n \notin DOMAIN q
      /\ r[n] = x /\ \A i \in DOMAIN q : r[i] = q[i]
  BY <1>2, <1>3
<1> HIDE DEF r
<1>5. \A c : In(r, c) <=> In(q, c) \/ x.c = c
  BY <1>4 DEF In
<1>6. \A c, h : Has(r, c, h) <=> Has(q, c, h) \/ (x.c = c /\ x.h = h)
  BY <1>4 DEF Has
<1>7. \A c : Once(q, c) /\ (x.c = c => ~In(q, c)) => Once(r, c)
  BY <1>4 DEF Once, In
<1> QED
  BY <1>1, <1>5, <1>6, <1>7 DEF r

\* The event loop takes the first completion.
LEMMA TailQueue ==
  ASSUME NEW q \in Seq(Handlers), q # <<>>
  PROVE  /\ Tail(q) \in Seq(Handlers) /\ Head(q) \in Handlers
         /\ \A c : Head(q).c # c => (In(Tail(q), c) <=> In(q, c))
         /\ \A c, h : Head(q).c # c => (Has(Tail(q), c, h) <=> Has(q, c, h))
         /\ \A c : Once(q, c) => Once(Tail(q), c)
         /\ \A c : Once(q, c) /\ Head(q).c = c => ~In(Tail(q), c) /\ Has(q, c, Head(q).h)
<1> DEFINE r == Tail(q)
<1>1. /\ r \in Seq(Handlers) /\ Len(q) \in Nat \ {0} /\ DOMAIN q = 1..Len(q)
      /\ DOMAIN r = 1..(Len(q) - 1)
      /\ Head(q) = q[1] /\ \A i \in DOMAIN r : r[i] = q[i + 1]
  OBVIOUS
<1>2. Head(q) \in Handlers
  BY <1>1
<1>3. /\ 1 \in DOMAIN q
      /\ \A i \in DOMAIN r : i + 1 \in DOMAIN q /\ i + 1 # 1
      /\ \A i, j \in DOMAIN r : i + 1 = j + 1 => i = j
      /\ \A i \in DOMAIN q : i # 1 => i - 1 \in DOMAIN r /\ r[i - 1] = q[i]
  BY <1>1
<1> HIDE DEF r
<1>4. \A c : Head(q).c # c => (In(r, c) <=> In(q, c))
  BY <1>1, <1>3 DEF In
<1>5. ASSUME NEW c, NEW h, Head(q).c # c PROVE Has(r, c, h) <=> Has(q, c, h)
  <2>1. ASSUME NEW i \in DOMAIN r, r[i].c = c, r[i].h = h PROVE Has(q, c, h)
    BY <1>1, <1>3, <2>1 DEF Has
  <2>2. ASSUME NEW i \in DOMAIN q, q[i].c = c, q[i].h = h PROVE Has(r, c, h)
    BY <1>1, <1>3, <1>5, <2>2 DEF Has
  <2> QED
    BY <2>1, <2>2 DEF Has
<1>6. \A c : Once(q, c) => Once(r, c)
  BY <1>1, <1>3 DEF Once
<1>7. \A c : Once(q, c) /\ Head(q).c = c => ~In(r, c) /\ Has(q, c, Head(q).h)
  BY <1>1, <1>3 DEF Once, In, Has
<1> QED
  BY <1>1, <1>2, <1>4, <1>5, <1>6, <1>7 DEF r

\* Several completions are queued at once.
LEMMA ConcatQueue ==
  ASSUME NEW p \in Seq(Handlers), NEW q \in Seq(Handlers)
  PROVE  /\ p \o q \in Seq(Handlers)
         /\ \A c : In(p \o q, c) <=> In(p, c) \/ In(q, c)
         /\ \A c, h : Has(p \o q, c, h) <=> Has(p, c, h) \/ Has(q, c, h)
         /\ \A c : Once(p, c) /\ Once(q, c) /\ ~(In(p, c) /\ In(q, c)) => Once(p \o q, c)
<1> DEFINE r == p \o q
<1>1. /\ r \in Seq(Handlers) /\ Len(p) \in Nat /\ Len(q) \in Nat
      /\ DOMAIN p = 1..Len(p) /\ DOMAIN q = 1..Len(q)
      /\ DOMAIN r = 1..(Len(p) + Len(q))
      /\ \A i \in 1..(Len(p) + Len(q)) : r[i] = IF i <= Len(p) THEN p[i] ELSE q[i - Len(p)]
  OBVIOUS
<1>2. /\ \A i \in DOMAIN p : i \in DOMAIN r /\ r[i] = p[i]
      /\ \A i \in DOMAIN q : i + Len(p) \in DOMAIN r /\ r[i + Len(p)] = q[i]
      /\ \A i \in DOMAIN r : i \notin DOMAIN p => i - Len(p) \in DOMAIN q /\ r[i] = q[i - Len(p)]
      /\ \A i, j \in DOMAIN r : i - Len(p) = j - Len(p) => i = j
  BY <1>1
<1> HIDE DEF r
<1>3. \A c : In(r, c) <=> In(p, c) \/ In(q, c)
  BY <1>2 DEF In
<1>4. \A c, h : Has(r, c, h) <=> Has(p, c, h) \/ Has(q, c, h)
  BY <1>2 DEF Has
<1>5. \A c : Once(p, c) /\ Once(q, c) /\ ~(In(p, c) /\ In(q, c)) => Once(r, c)
  BY <1>2 DEF Once, In
<1> QED
  BY <1>1, <1>3, <1>4, <1>5 DEF r

\* A set put in a queue is in it, each member once.
LEMMA SetToSeqOnce ==
  ASSUME NEW S, IsFiniteSet(S)
  PROVE  /\ SetToSeq(S) \in Seq(S)
         /\ \A i, j \in DOMAIN SetToSeq(S) : SetToSeq(S)[i] = SetToSeq(S)[j] => i = j
         /\ \A x \in S : \E i \in DOMAIN SetToSeq(S) : SetToSeq(S)[i] = x
<1> DEFINE n == Cardinality(S)
<1>1. n \in Nat /\ ExistsBijection(1..n, S)
  BY FS_CardinalityType
<1>2. PICK f : f \in Bijection(1..n, S)
  BY <1>1 DEF ExistsBijection
<1>3. f \in [1..n -> S] /\ IsInjective(f)
  BY <1>2 DEF Bijection, Injection, IsInjective
<1>4. SetToSeq(S) \in [1..n -> S] /\ IsInjective(SetToSeq(S))
  BY <1>3 DEF SetToSeq
<1>5. PICK g : g = SetToSeq(S)
  OBVIOUS
<1>6. g \in Injection(1..n, S)
  BY <1>4, <1>5 DEF Injection
<1>7. IsFiniteSet(1..n) /\ Cardinality(1..n) = n
  BY <1>1, FS_Interval
<1>8. g \in Surjection(1..n, S)
  BY <1>6, <1>7, FS_Injection
<1>9. g \in Seq(S)
  BY <1>1, <1>4, <1>5
<1> QED
  BY <1>4, <1>5, <1>8, <1>9 DEF IsInjective, Surjection

\* What closing the sockets of cs and cancelling the acceptor queues: one aborted
\* header for each connection of cs that was reading one.
LEMMA AbortedQueue ==
  ASSUME ShapeOK, NEW cs \in SUBSET Clients
  PROVE  /\ Aborted(cs) \in Seq(Handlers)
         /\ \A c \in Clients : In(Aborted(cs), c) <=> c \in cs /\ op[c] = "header"
         /\ \A c \in Clients : \A h : Has(Aborted(cs), c, h) <=>
              c \in cs /\ op[c] = "header" /\ h = "header"
         /\ \A c \in Clients : Once(Aborted(cs), c)
<1> DEFINE reading == {c \in cs : op[c] = "header"}
           S == {Completed("header", c, FALSE) : c \in reading}
           accepts == IF acceptor = "pending" THEN <<Completed("accept", Nobody, FALSE)>> ELSE <<>>
           q == SetToSeq(S)
           f == [c \in reading |-> Completed("header", c, FALSE)]
<1>1. Aborted(cs) = accepts \o q
  BY DEF Aborted
<1>2. IsFiniteSet(S)
  <2>1. IsFiniteSet(reading)
    BY BackEndAssumption, FS_Subset
  <2>2. f \in Surjection(reading, S)
    BY DEF Surjection
  <2> QED
    BY <2>1, <2>2, FS_Surjection
<1>3. accepts \in Seq(Handlers) /\ \A c \in Clients : ~In(accepts, c)
  <2>1. PICK x : x = Completed("accept", Nobody, FALSE)
    OBVIOUS
  <2>2. x \in Handlers /\ x.c \notin Clients
    <3>1. Nobody \notin Clients
      BY BackEndAssumption
    <3> QED
      BY <2>1, <3>1 DEF Completed, Handlers
  <2>3. PICK e, s : e = <<>> /\ s = <<x>>
    OBVIOUS
  <2>4. e \in Seq(Handlers) /\ s = Append(e, x) /\ \A c : ~In(e, c)
    BY <2>3 DEF In
  <2>5. s \in Seq(Handlers) /\ \A c \in Clients : ~In(s, c)
    BY <2>2, <2>4, AppendQueue
  <2> QED
    BY <2>1, <2>3, <2>4, <2>5
<1>4. ASSUME NEW c \in reading
      PROVE  /\ Completed("header", c, FALSE) \in Handlers
             /\ Completed("header", c, FALSE).c = c
             /\ Completed("header", c, FALSE).h = "header"
  BY DEF Completed, Handlers
<1>5. S \subseteq Handlers
  BY <1>4
<1>6. \A x \in S : x.c \in reading /\ x.h = "header" /\ x = Completed("header", x.c, FALSE)
  BY <1>4
<1>7. \A c \in reading : \E x \in S : x.c = c
  BY <1>4
<1>8. PICK T : T = S
  OBVIOUS
<1>9. PICK t : t = SetToSeq(T)
  OBVIOUS
<1>10. /\ t \in Seq(T)
       /\ \A i, j \in DOMAIN t : t[i] = t[j] => i = j
       /\ \A x \in T : \E i \in DOMAIN t : t[i] = x
  BY <1>2, <1>8, <1>9, SetToSeqOnce
<1>11. t \in Seq(Handlers) /\ \A i \in DOMAIN t : t[i] \in T
  <2>1. Len(t) \in Nat /\ DOMAIN t = 1..Len(t) /\ t \in [1..Len(t) -> T]
    BY <1>10
  <2>2. t \in [1..Len(t) -> Handlers]
    BY <1>5, <1>8, <2>1
  <2> QED
    BY <2>1, <2>2
<1>12. PICK a : a = accepts
  OBVIOUS
<1>13. /\ Aborted(cs) = a \o t
       /\ a \in Seq(Handlers) /\ \A c \in Clients : ~In(a, c)
       /\ \A x \in T : x.c \in reading /\ x.h = "header" /\ x = Completed("header", x.c, FALSE)
       /\ \A c \in reading : \E x \in T : x.c = c
  BY <1>1, <1>3, <1>6, <1>7, <1>8, <1>9, <1>12
<1>14. ASSUME NEW c, c \in reading
       PROVE  \E i \in DOMAIN t : t[i].c = c /\ t[i].h = "header"
  <2>1. PICK x \in T : x.c = c
    BY <1>13, <1>14
  <2>2. PICK i \in DOMAIN t : t[i] = x
    BY <1>10
  <2> QED
    BY <1>13, <2>1, <2>2
<1>15. ASSUME NEW i \in DOMAIN t PROVE t[i].c \in reading /\ t[i].h = "header"
  BY <1>11, <1>13
<1>16. /\ \A c : In(t, c) <=> c \in reading
       /\ \A c, h : Has(t, c, h) <=> c \in reading /\ h = "header"
  <2> HIDE DEF reading
  <2> QED
    BY <1>14, <1>15 DEF In, Has
<1>17. ASSUME NEW c, NEW i \in DOMAIN t, NEW j \in DOMAIN t, t[i].c = c, t[j].c = c
       PROVE  i = j
  <2>1. t[i] = Completed("header", c, FALSE) /\ t[j] = Completed("header", c, FALSE)
    BY <1>11, <1>13, <1>17
  <2> QED
    BY <1>10, <2>1
<1>18. \A c : Once(t, c)
  BY <1>17 DEF Once
<1>19. \A c \in Clients : Once(a, c) /\ \A h : ~Has(a, c, h)
  BY <1>13 DEF Once, Has, In
<1> QED
  BY <1>11, <1>13, <1>16, <1>18, <1>19, ConcatQueue

-----------------------------------------------------------------------------
(***************************************************************************)
(* Types.  Those of m_active_rpc_count and of the sets of living           *)
(* connections need the invariants below.                                  *)
(***************************************************************************)

\* Every completion is one of a known kind.
LEMMA CompletedHandler ==
  ASSUME NEW h \in HandlerKinds, NEW c \in Clients \cup {Nobody}, NEW ok \in BOOLEAN
  PROVE  /\ Completed(h, c, ok) \in Handlers
         /\ Completed(h, c, ok).h = h /\ Completed(h, c, ok).c = c
BY DEF Completed, Handlers, HandlerKinds

\* What the event loop does to its queue when it takes the completion of c.
LEMMA TakenQueue ==
  ASSUME ShapeOK, NEW h \in HandlerKinds, NEW c \in Clients \cup {Nobody}, NEW ok \in BOOLEAN,
         Takes(h, c, ok)
  PROVE  /\ handlers \in Seq(Handlers) /\ handlers # <<>>
         /\ Tail(handlers) \in Seq(Handlers)
         /\ Head(handlers).c = c /\ Head(handlers).h = h
<1>1. PICK x : x = Completed(h, c, ok)
  OBVIOUS
<1>2. x.c = c /\ x.h = h
  BY <1>1, CompletedHandler
<1>3. handlers \in Seq(Handlers) /\ handlers # <<>> /\ Head(handlers) = x
  BY <1>1 DEF ShapeOK, FrontShape, Takes
<1> QED
  BY <1>2, <1>3, TailQueue

\* Peers and the network.
LEMMA EnvironmentShape ==
  ASSUME ShapeOK, Environment
  PROVE  ShapeOK'
<1> USE DEF gate_vars, client_vars, pool_vars, driver_vars, backend_vars, stop_vars, conn_vars
<1>1. ASSUME NEW c \in Clients, NEW ok \in BOOLEAN, OpCompletes(c, ok) PROVE ShapeOK'
  <2>1. op[c] \in HandlerKinds
    BY <1>1 DEF OpCompletes, ShapeOK, BackEndShape, FrontShape, HandlerKinds
  <2>2. handlers' \in Seq(Handlers)
    BY <1>1, <2>1, CompletedHandler, AppendQueue DEF OpCompletes, ShapeOK, BackEndShape, FrontShape
  <2> QED
    BY <1>1, <2>2 DEF OpCompletes, ShapeOK, BackEndShape, FrontShape, Sets
<1>2. ASSUME NEW ok \in AcceptOutcomes, AcceptCompletes(ok) PROVE ShapeOK'
  <2>1. handlers' \in Seq(Handlers)
    <3>1. "accept" \in HandlerKinds /\ ok \in BOOLEAN
      BY TcpAssumption DEF HandlerKinds
    <3>2. Completed("accept", Nobody, ok) \in Handlers
      BY <3>1, CompletedHandler
    <3> QED
      BY <1>2, <3>2, AppendQueue DEF AcceptCompletes, ShapeOK, FrontShape
  <2> QED
    BY <1>2, <2>1 DEF AcceptCompletes, ShapeOK, BackEndShape, FrontShape
<1> QED
  BY <1>1, <1>2 DEF Environment

\* The completions of c that the event loop handles.
LEMMA HandlerShape ==
  ASSUME ShapeOK, NEW c \in Clients,
         \/ HandleAccept(c) \/ HandleReadHeader(c) \/ HandleReadHeaderError(c)
         \/ DisconnectClient(c) \/ DisconnectClientThrows(c)
         \/ HandleReadBody(c) \/ HandleIoError(c) \/ HandleResetForNextRequest(c)
  PROVE  ShapeOK'
<1> USE DEF gate_vars, client_vars, pool_vars, driver_vars, backend_vars, stop_vars, conn_vars
<1>1. CASE HandleAccept(c)
  <2>1. Tail(handlers) \in Seq(Handlers)
    BY <1>1, TakenQueue DEF HandleAccept, HandlerKinds
  <2>2. handlers' \in Seq(Handlers)
    <3>1. Completed("accept", Nobody, FALSE) \in Handlers
      BY CompletedHandler DEF HandlerKinds
    <3>2. Append(Tail(handlers), Completed("accept", Nobody, FALSE)) \in Seq(Handlers)
      BY <2>1, <3>1, AppendQueue
    <3> QED
      BY <1>1, <2>1, <3>2 DEF HandleAccept
  <2> QED
    <3>1. BackEndShape'
      BY <1>1 DEF HandleAccept, Connect, ShapeOK, BackEndShape, Sets
    <3>2. FrontShape'
      <4>1. acceptor' \in {"none", "pending", "idle", "closed"}
        BY <1>1 DEF HandleAccept, ShapeOK, FrontShape
      <4>2. /\ io_state' \in [Clients -> IoStates]
            /\ op' \in [Clients -> {"none", "header", "body", "write"}]
            /\ msg_sz' \in [Clients -> RequestSizes \cup {0}]
            /\ buf_size' \in [Clients -> RequestSizes \cup ResponseSizes \cup {InitialSize}]
        BY <1>1 DEF HandleAccept, ShapeOK, FrontShape, Sets, IoStates
      <4>3. /\ m_connections' \subseteq Clients /\ bound' \subseteq Clients
            /\ UNCHANGED <<stop_vars, loop, current>>
        BY <1>1 DEF HandleAccept, ShapeOK, FrontShape
      <4> QED
        BY <2>2, <4>1, <4>2, <4>3 DEF ShapeOK, FrontShape
    <3> QED
      BY <3>1, <3>2 DEF ShapeOK
<1>2. ASSUME NEW h \in HandlerKinds, NEW ok \in BOOLEAN, Handles(h, c, ok)
      PROVE  handlers' \in Seq(Handlers)
  BY <1>2, TakenQueue DEF Handles
<1>3. CASE HandleReadHeader(c)
  <2>1. handlers' \in Seq(Handlers)
    BY <1>2, <1>3 DEF HandleReadHeader, HandlerKinds
  <2>2. /\ msg_sz' \in [Clients -> RequestSizes \cup {0}]
        /\ buf_size' \in [Clients -> RequestSizes \cup ResponseSizes \cup {InitialSize}]
    BY <1>3 DEF HandleReadHeader, ShrinkBuffer, ShapeOK, BackEndShape, FrontShape, Sets
  <2> QED
    BY <1>3, <2>1, <2>2 DEF HandleReadHeader, ShapeOK, BackEndShape, FrontShape, Sets, IoStates
<1>4. CASE HandleReadHeaderError(c)
  <2>1. handlers' \in Seq(Handlers)
    BY <1>2, <1>4 DEF HandleReadHeaderError, HandlerKinds
  <2> QED
    BY <1>4, <2>1 DEF HandleReadHeaderError, Destroyed, ShapeOK, BackEndShape, FrontShape
<1>5. CASE DisconnectClient(c)
  <2>1. handlers' \in Seq(Handlers)
    BY <1>2, <1>5 DEF DisconnectClient, HandlerKinds
  <2> QED
    BY <1>5, <2>1 DEF DisconnectClient, Destroyed, ShapeOK, BackEndShape, FrontShape
<1>6. CASE DisconnectClientThrows(c)
  <2>1. handlers' \in Seq(Handlers)
    BY <1>2, <1>6 DEF DisconnectClientThrows, HandlerKinds
  <2> QED
    BY <1>6, <2>1 DEF DisconnectClientThrows, ShapeOK, BackEndShape, FrontShape
<1>7. CASE HandleReadBody(c)
  <2>1. handlers' \in Seq(Handlers)
    BY <1>2, <1>7 DEF HandleReadBody, HandlerKinds
  <2> QED
    BY <1>7, <2>1 DEF HandleReadBody, ShapeOK, BackEndShape, FrontShape, Sets, IoStates
<1>8. CASE HandleIoError(c)
  <2>1. handlers' \in Seq(Handlers)
    BY <1>2, <1>8 DEF HandleIoError, HandlerKinds
  <2> QED
    BY <1>8, <2>1 DEF HandleIoError, ShapeOK, BackEndShape, FrontShape
<1>9. CASE HandleResetForNextRequest(c)
  <2>1. handlers' \in Seq(Handlers)
    BY <1>2, <1>9 DEF HandleResetForNextRequest, HandlerKinds
  <2> QED
    BY <1>9, <2>1 DEF HandleResetForNextRequest, ShapeOK, BackEndShape, FrontShape, Sets, IoStates
<1> QED
  BY <1>1, <1>3, <1>4, <1>5, <1>6, <1>7, <1>8, <1>9

\* Starting to write a response keeps the types of the connection.
LEMMA ResponseShape ==
  ASSUME ShapeOK, NEW c \in Clients, HandleWriteResponse(c)
  PROVE  /\ io_state' \in [Clients -> IoStates]
         /\ op' \in [Clients -> {"none", "header", "body", "write"}]
         /\ buf_size' \in [Clients -> RequestSizes \cup ResponseSizes \cup {InitialSize}]
         /\ UNCHANGED <<m_connections, bound, msg_sz>>
BY DEF HandleWriteResponse, GrowBuffer, ShapeOK, BackEndShape, FrontShape, Sets, IoStates

\* The rest of what the event loop does.
LEMMA LoopShape ==
  ASSUME ShapeOK, LoopOK, LoopStep
  PROVE  ShapeOK'
<1> USE DEF gate_vars, client_vars, pool_vars, driver_vars, backend_vars, stop_vars, conn_vars
<1>1. CASE HandleAcceptError
  <2>1. handlers' \in Seq(Handlers)
    BY <1>1, TakenQueue DEF HandleAcceptError, Handles, HandlerKinds
  <2> QED
    BY <1>1, <2>1 DEF HandleAcceptError, ShapeOK, BackEndShape, FrontShape
<1>2. loop \in {"invoking", "started"} => current \in Clients
  BY DEF LoopOK, ShapeOK, BackEndShape, FrontShape
<1>3. CASE RequestAccepted
  BY <1>2, <1>3 DEF RequestAccepted, InvokeGoes, StartARequest, ShapeOK, BackEndShape, FrontShape
<1>4. CASE RequestRefused
  <2>1. current \in Clients /\ HandleWriteResponse(current)
    BY <1>2, <1>4 DEF RequestRefused, InvokeGoes
  <2> QED
    BY <1>4, <2>1, ResponseShape DEF RequestRefused, InvokeGoes, ShapeOK, BackEndShape, FrontShape
<1>5. CASE RequestRejected
  <2>1. current \in Clients /\ HandleWriteResponse(current)
    BY <1>2, <1>5 DEF RequestRejected, InvokeGoes
  <2> QED
    BY <1>5, <2>1, ResponseShape DEF RequestRejected, InvokeGoes, RejectRequest, ShapeOK, BackEndShape, FrontShape
<1>6. CASE RequestPosted
  BY <1>2, <1>6 DEF RequestPosted, InvokeGoes, Post, ShapeOK, BackEndShape, FrontShape
<1>7. ASSUME NEW cs \in SUBSET Clients, ShutdownHandler(cs) PROVE ShapeOK'
  <2>1. handlers' \in Seq(Handlers)
    <3>1. Tail(handlers) \in Seq(Handlers) /\ Aborted(cs) \in Seq(Handlers)
      BY <1>7, TakenQueue, AbortedQueue DEF ShutdownHandler, HandlerKinds
    <3> QED
      BY <1>7, <3>1, ConcatQueue DEF ShutdownHandler
  <2> QED
    BY <1>7, <2>1 DEF ShutdownHandler, NotifyOne, Destroyed, ShapeOK, BackEndShape, FrontShape
<1>8. CASE ShutdownHandlerThrows
  <2>1. handlers' \in Seq(Handlers)
    BY <1>8, TakenQueue DEF ShutdownHandlerThrows, Handles, HandlerKinds
  <2> QED
    BY <1>8, <2>1 DEF ShutdownHandlerThrows, ShapeOK, BackEndShape, FrontShape
<1>9. CASE LoopStops
  BY <1>9 DEF LoopStops, ShapeOK, BackEndShape, FrontShape
<1> QED
  BY <1>1, <1>3, <1>4, <1>5, <1>6, <1>7, <1>8, <1>9, HandlerShape DEF LoopStep

\* disconnect_from_backend, run by p.
LEMMA DisconnectShape ==
  ASSUME ShapeOK, NEW p \in Stoppers \cup {Main}, Enter(p) \/ GoesOn(p)
  PROVE  ShapeOK'
<1> USE DEF gate_vars, client_vars, pool_vars, driver_vars, backend_vars, conn_vars, loop_vars
<1>1. CASE Enter(p)
  BY <1>1 DEF Enter, ShapeOK, BackEndShape, FrontShape
<1>2. CASE PostShutdown(p)
  <2>1. handlers' \in Seq(Handlers)
    BY <1>2, CompletedHandler, AppendQueue DEF PostShutdown, ShapeOK, BackEndShape, FrontShape, HandlerKinds
  <2> QED
    <3>1. BackEndShape'
      BY <1>2 DEF PostShutdown, ShapeOK, BackEndShape
    <3>2. FrontShape'
      BY <1>2, <2>1 DEF PostShutdown, ShapeOK, FrontShape
    <3> QED
      BY <3>1, <3>2 DEF ShapeOK
<1>3. CASE Wake(p) \/ Stopped(p)
  BY <1>3 DEF Wake, Stopped, ShapeOK, BackEndShape, FrontShape
<1>4. CASE TimedOut(p)
  BY <1>4 DEF TimedOut, Advance, StopperStages, ShapeOK, BackEndShape, FrontShape
<1>5. CASE Leave(p)
  BY <1>5 DEF Leave, SignalDisconnect, SlotCalled, ShapeOK, BackEndShape, FrontShape
<1> QED
  BY <1>1, <1>2, <1>3, <1>4, <1>5 DEF GoesOn

\* The owner of the front end and of the back end.
LEMMA OwnersShape ==
  ASSUME ShapeOK, Owners
  PROVE  ShapeOK'
<1> USE DEF gate_vars, client_vars, pool_vars, driver_vars, backend_vars, stop_vars,
        loop_vars, conn_vars
<1>1. CASE (Start \/ StartAccepting) /\ UNCHANGED <<stop_vars, loop_vars, conn_vars>>
  <2>1. BackEndShape'
    BY <1>1 DEF Start, StartAccepting, ThreadStages, ShapeOK, BackEndShape
  <2>2. FrontShape'
    BY <1>1 DEF ShapeOK, FrontShape
  <2> QED
    BY <2>1, <2>2 DEF ShapeOK
<1>2. CASE Construct
  BY <1>2, TcpAssumption DEF Construct, RegisterInvokerManager, ShapeOK, BackEndShape, FrontShape
<1>3. CASE StartFrontEnd \/ Constructed
  BY <1>3 DEF StartFrontEnd, Constructed, ShapeOK, BackEndShape, FrontShape
<1>4. CASE DestroyFrontEnd
  <2>1. handlers' \in Seq(Handlers)
    BY <1>4 DEF DestroyFrontEnd
  <2>2. BackEndShape'
    BY <1>4 DEF DestroyFrontEnd, Destroyed, ShapeOK, BackEndShape
  <2>3. FrontShape'
    BY <1>4, <2>1 DEF DestroyFrontEnd, ShapeOK, FrontShape
  <2> QED
    BY <2>2, <2>3 DEF ShapeOK
<1> QED
  BY <1>1, <1>2, <1>3, <1>4, DisconnectShape DEF Owners

\* The stoppers.
LEMMA StopperShape ==
  ASSUME ShapeOK, NEW s \in Stoppers, Stopper(s)
  PROVE  ShapeOK'
<1> USE DEF gate_vars, client_vars, pool_vars, driver_vars, stop_vars, loop_vars, conn_vars
<1>1. CASE SlotReturnsAtOnce(s) \/ SlotFindsNull(s)
  BY <1>1 DEF SlotReturnsAtOnce, SlotFindsNull, backend_vars, ShapeOK, BackEndShape, FrontShape
<1>2. CASE Shutdown(s) /\ UNCHANGED <<stop_vars, loop_vars, conn_vars>>
  <2>1. FrontShape'
    BY <1>2 DEF ShapeOK, FrontShape
  <2> USE DEF Advance, StopperStages, ShapeOK, BackEndShape
  <2>2. CASE CheckAndInitiateShutdown(s) \/ ShutdownAlreadyInitiated(s) \/ StopAccepting(s)
    BY <2>1, <2>2 DEF CheckAndInitiateShutdown, ShutdownAlreadyInitiated, StopAccepting,
       CloseGate, ShutdownStates
  <2>3. CASE PollRpcCount(s) \/ DisconectManagers(s) \/ ManagersNotified(s)
    BY <2>1, <2>3 DEF PollRpcCount, DisconectManagers, ManagersNotified, ShutdownStates
  <2>4. CASE ManagerCount(s) \/ AssertNoClients(s) \/ JoinAll(s) \/ TeardownFails(s)
    BY <2>1, <2>4 DEF ManagerCount, AssertNoClients, JoinAll, TeardownFails
  <2>5. CASE WorkReset(s)
    BY <2>1, <2>5 DEF WorkReset
  <2>6. CASE Teardown(s)
    BY <2>1, <2>6, BackEndAssumption DEF Teardown
  <2> QED
    BY <1>2, <2>2, <2>3, <2>4, <2>5, <2>6 DEF Shutdown
<1> QED
  BY <1>1, <1>2, DisconnectShape DEF Stopper

\* The pool.
LEMMA WorkerShape ==
  ASSUME ShapeOK, JobOK, NEW w \in Workers, Works(w) \/ \E c \in Clients : Runs(w, c)
  PROVE  ShapeOK'
<1> USE DEF gate_vars, client_vars, pool_vars, driver_vars, stop_vars, loop_vars, conn_vars
<1>1. CASE RespondFromPool(w)
  <2>1. job[w] \in Clients /\ HandleWriteResponse(job[w])
    BY <1>1 DEF RespondFromPool, HandlerTells, JobOK
  <2> QED
    BY <1>1, <2>1, ResponseShape DEF RespondFromPool, HandlerTells, ThreadStages, ShapeOK, BackEndShape, FrontShape
<1>2. CASE /\ (EndARequest(w) /\ UNCHANGED cookies) \/ EndRpc(w) \/ FinishHandler(w) \/ ExitThread(w)
           /\ UNCHANGED <<stop_vars, loop_vars, conn_vars>>
  <2>1. BackEndShape'
    BY <1>2 DEF EndARequest, EndRpc, FinishHandler, ExitThread, ThreadStages, ShapeOK, BackEndShape
  <2>2. FrontShape'
    BY <1>2 DEF ShapeOK, FrontShape
  <2> QED
    BY <2>1, <2>2 DEF ShapeOK
<1>3. ASSUME NEW c \in Clients, Runs(w, c) PROVE ShapeOK'
  BY <1>3 DEF Runs, RunHandler, ThreadStages, ShapeOK, BackEndShape, FrontShape
<1> QED
  BY <1>1, <1>2, <1>3 DEF Works

\* Every step keeps the types.
LEMMA NextShape ==
  ASSUME TcpInv, [Next]_vars
  PROVE  ShapeOK'
<1>1. CASE UNCHANGED vars
  BY <1>1 DEF TcpInv, ShapeOK, BackEndShape, FrontShape, vars, backend_vars, gate_vars, client_vars, pool_vars,
     driver_vars, stop_vars, loop_vars, conn_vars
<1> QED
  BY <1>1, EnvironmentShape, LoopShape, OwnersShape, StopperShape, WorkerShape
  DEF Next, TcpInv, ConnInv

-----------------------------------------------------------------------------
(***************************************************************************)
(* One activity per connection.                                            *)
(***************************************************************************)

\* Nothing that ConnOK(d) reads changes for the worse.
ConnSame(d) ==
  /\ op'[d] = op[d] /\ io_state'[d] = io_state[d]
  /\ current' = d <=> current = d
  /\ d \in posted' <=> d \in posted
  /\ \A w \in Workers : Holds(w, d)' <=> Holds(w, d)
  /\ d \in m_connections' <=> d \in m_connections
  /\ d \in bound' => d \in bound

QueueSame(d) ==
  /\ In(handlers', d) <=> In(handlers, d)
  /\ \A h \in HandlerKinds : Has(handlers', d, h) <=> Has(handlers, d, h)
  /\ Once(handlers, d) => Once(handlers', d)

OnwardOnly ==
  /\ m_shutdown_initiated => m_shutdown_initiated'
  /\ front = "gone" => front' = "gone"
  /\ loop # "terminated"

LEMMA ReferencedHeld ==
  \A c \in Clients : Referenced(c) <=> c \in posted \/ \E w \in Workers : Holds(w, c)
BY DEF Referenced, Holds

LEMMA ReferencedHeldNext ==
  \A c \in Clients : Referenced(c)' <=> c \in posted' \/ \E w \in Workers : Holds(w, c)'
BY DEF Referenced, Holds

\* A step that leaves connection d alone keeps ConnOK(d).
LEMMA ConnKept ==
  ASSUME NEW d \in Clients, ConnOK(d), ConnSame(d), QueueSame(d), OnwardOnly
  PROVE  ConnOK(d)'
<1>1. Referenced(d)' <=> Referenced(d)
  BY ReferencedHeld, ReferencedHeldNext DEF ConnSame
<1>2. QueueOK(d)'
  BY <1>1 DEF ConnOK, QueueOK, ConnSame, QueueSame
<1>3. SocketOK(d)'
  BY <1>1 DEF ConnOK, SocketOK, ConnSame
<1>4. RequestOK(d)'
  BY <1>1 DEF ConnOK, RequestOK, ConnSame, OnwardOnly
<1>5. LifeOK(d)'
  BY DEF ConnOK, LifeOK, ConnSame, QueueSame, OnwardOnly, HandlerKinds
<1> QED
  BY <1>2, <1>3, <1>4, <1>5 DEF ConnOK

\* A step of the event loop, of a peer or of the owner that is about c.
LEMMA OneConnMoves ==
  ASSUME ConnInv, NEW c \in Clients, OnwardOnly,
         UNCHANGED <<thread, job, owner>>,
         \A d \in Clients \ {c} :
           /\ op'[d] = op[d] /\ io_state'[d] = io_state[d]
           /\ current' = d <=> current = d
           /\ d \in posted' <=> d \in posted
           /\ d \in m_connections' <=> d \in m_connections
           /\ d \in bound' => d \in bound
           /\ QueueSame(d),
         ConnOK(c)', LoopOK', LiveOK'
  PROVE  ConnInv'
<1>1. ASSUME NEW d \in Clients \ {c} PROVE ConnOK(d)'
  <2>1. ConnSame(d)
    BY DEF ConnSame, Holds
  <2> QED
    BY <2>1, ConnKept DEF ConnInv
<1>2. JobOK'
  BY DEF ConnInv, JobOK
<1> QED
  BY <1>1, <1>2 DEF ConnInv

\* What the event loop knows of the connection whose completion it takes.
LEMMA TakenConn ==
  ASSUME ShapeOK, NEW c \in Clients, ConnOK(c), NEW h \in HandlerKinds, NEW ok \in BOOLEAN,
         Handles(h, c, ok)
  PROVE  /\ loop = "idle"
         /\ h \in {"header", "body", "write"} /\ io_state[c] = OpState[h]
         /\ op[c] = "none" /\ current # c /\ ~Referenced(c)
         /\ h # "header" => c \in m_connections
         /\ h = "header" => c \in m_connections \/ m_shutdown_initiated
         /\ ~In(handlers', c) /\ Once(handlers', c)
         /\ \A k \in HandlerKinds : ~Has(handlers', c, k)
<1>1. /\ handlers \in Seq(Handlers) /\ handlers # <<>>
      /\ Head(handlers).c = c /\ Head(handlers).h = h
  BY TakenQueue DEF Handles
<1>2. Once(handlers, c)
  BY DEF ConnOK, QueueOK
<1>3. ~In(Tail(handlers), c) /\ Once(Tail(handlers), c) /\ Has(handlers, c, h)
  BY <1>1, <1>2, TailQueue
<1>4. In(handlers, c)
  BY <1>3 DEF In, Has
<1>5. \A k \in HandlerKinds : ~Has(Tail(handlers), c, k)
  BY <1>3 DEF In, Has
<1> QED
  BY <1>3, <1>4, <1>5 DEF Handles, Takes, ConnOK, QueueOK, LifeOK

\* The other connections stay in the queue.
LEMMA TakenOthers ==
  ASSUME ShapeOK, NEW c \in Clients \cup {Nobody}, NEW h \in HandlerKinds, NEW ok \in BOOLEAN,
         Handles(h, c, ok)
  PROVE  loop = "idle" /\ \A d \in Clients \ {c} : QueueSame(d)
<1>1. /\ handlers \in Seq(Handlers) /\ handlers # <<>>
      /\ Head(handlers).c = c /\ handlers' = Tail(handlers)
  BY TakenQueue DEF Handles
<1> QED
  BY <1>1, TailQueue DEF QueueSame, Handles, Takes

\* A completion is queued behind the others.
LEMMA AppendedOthers ==
  ASSUME ShapeOK, NEW x \in Handlers, handlers' = Append(handlers, x)
  PROVE  \A d \in Clients \ {x.c} : QueueSame(d)
BY AppendQueue DEF QueueSame, ShapeOK, FrontShape

\* The operation on a socket completes.
LEMMA OpCompletesConn ==
  ASSUME ShapeOK, ConnInv, NEW c \in Clients, NEW ok \in BOOLEAN, OpCompletes(c, ok)
  PROVE  ConnInv'
<1> USE DEF gate_vars, client_vars, pool_vars, driver_vars, backend_vars, stop_vars
<1>1. ConnOK(c) /\ LoopOK /\ LiveOK
  BY DEF ConnInv
<1>2. op[c] \in {"header", "body", "write"} /\ op[c] \in HandlerKinds
  BY DEF OpCompletes, ShapeOK, FrontShape, HandlerKinds
<1>3. PICK x \in Handlers : handlers' = Append(handlers, x) /\ x.h = op[c] /\ x.c = c
  <2>1. PICK k : k = op[c]
    OBVIOUS
  <2>2. k \in HandlerKinds
    BY <1>2, <2>1
  <2>3. /\ Completed(k, c, ok) \in Handlers
        /\ Completed(k, c, ok).h = k /\ Completed(k, c, ok).c = c
    BY <2>2, CompletedHandler
  <2> QED
    BY <2>1, <2>3 DEF OpCompletes
<1>4. \A d \in Clients \ {c} : QueueSame(d)
  BY <1>3, AppendedOthers
<1>5. ~In(handlers, c) /\ current # c /\ ~Referenced(c) /\ c \in m_connections
      /\ io_state[c] = OpState[op[c]] /\ Once(handlers, c)
  BY <1>1, <1>2 DEF ConnOK, QueueOK, SocketOK
<1>6. \A k : ~Has(handlers, c, k)
  BY <1>5 DEF In, Has
<1>7. Once(handlers', c) /\ \A k : Has(handlers', c, k) <=> k = op[c]
  BY <1>3, <1>5, <1>6, AppendQueue DEF ShapeOK, FrontShape
<1>8. /\ op'[c] = "none" /\ UNCHANGED <<io_state, current, m_connections, bound, posted,
                                        thread, job, owner, m_shutdown_initiated, loop, front>>
      /\ \A d \in Clients \ {c} : op'[d] = op[d]
  BY DEF OpCompletes, Sets, ShapeOK, FrontShape
<1>9. ~Referenced(c)'
  BY <1>5, <1>8 DEF Referenced
<1>10. ConnOK(c)'
  BY <1>1, <1>2, <1>5, <1>6, <1>7, <1>8, <1>9, ReferencedHeldNext
  DEF ConnOK, QueueOK, SocketOK, RequestOK, LifeOK
<1>11. LoopOK'
  BY <1>1, <1>8 DEF LoopOK, OpCompletes, Running
<1>12. LiveOK'
  BY <1>1, <1>8 DEF LiveOK, OpCompletes
<1>13. OnwardOnly
  BY <1>8 DEF OnwardOnly, OpCompletes, Running
<1> QED
  BY <1>4, <1>8, <1>10, <1>11, <1>12, <1>13, OneConnMoves

\* A new connection has everything before it.
LEMMA AcceptConn ==
  ASSUME ShapeOK, ConnInv, NEW c \in Clients, HandleAccept(c)
  PROVE  ConnInv'
<1> USE DEF gate_vars, client_vars, pool_vars, driver_vars, stop_vars
<1>1. ConnOK(c) /\ LoopOK /\ LiveOK /\ Nobody \notin Clients
  BY BackEndAssumption DEF ConnInv
<1>2. PICK t : t = Tail(handlers)
  OBVIOUS
<1>3. /\ handlers \in Seq(Handlers) /\ handlers # <<>> /\ t \in Seq(Handlers)
      /\ Head(handlers).c = Nobody
  BY <1>2, TakenQueue DEF HandleAccept, HandlerKinds
<1>4. \A d \in Clients :
        /\ In(t, d) <=> In(handlers, d)
        /\ \A h \in HandlerKinds : Has(t, d, h) <=> Has(handlers, d, h)
        /\ Once(handlers, d) => Once(t, d)
  BY <1>1, <1>2, <1>3, TailQueue
<1>5. PICK x : x = Completed("accept", Nobody, FALSE)
  OBVIOUS
<1>6. x \in Handlers /\ x.c = Nobody
  <2>1. /\ Completed("accept", Nobody, FALSE) \in Handlers
        /\ Completed("accept", Nobody, FALSE).c = Nobody
    <3>1. "accept" \in HandlerKinds /\ Nobody \in Clients \cup {Nobody} /\ FALSE \in BOOLEAN
      BY DEF HandlerKinds
    <3> QED
      BY <3>1, CompletedHandler, Zenon
  <2> QED
    BY <1>5, <2>1, Zenon
<1>7. handlers' = t \/ handlers' = Append(t, x)
  <2>1. \/ handlers' = Tail(handlers)
        \/ handlers' = Append(Tail(handlers), Completed("accept", Nobody, FALSE))
    BY DEF HandleAccept
  <2> QED
    BY <1>2, <1>5, <2>1, Zenon
<1>8. \A d \in Clients : QueueSame(d)
  <2> TAKE d \in Clients
  <2>1. /\ In(Append(t, x), d) <=> In(t, d)
        /\ \A h \in HandlerKinds : Has(Append(t, x), d, h) <=> Has(t, d, h)
        /\ Once(t, d) => Once(Append(t, x), d)
    BY <1>1, <1>3, <1>6, AppendQueue
  <2> QED
    BY <1>4, <1>7, <2>1 DEF QueueSame
<1>9. ~In(handlers, c) /\ op[c] = "none" /\ ~Referenced(c) /\ c \notin m_connected_clients
  BY DEF HandleAccept, Fresh, Queued, In
<1>10. \A h : ~Has(handlers, c, h)
  BY <1>9 DEF In, Has
<1>11. current = Nobody /\ loop = "idle"
  BY <1>1 DEF HandleAccept, Takes, LoopOK
<1>12. /\ UNCHANGED <<posted, thread, job, owner, stop_vars, loop, current>>
       /\ op'[c] = "header" /\ io_state'[c] = "INACTIVE"
       /\ m_connections' = m_connections \cup {c} /\ bound' = bound \cup {c}
       /\ m_connected_clients' = m_connected_clients \cup {c}
       /\ \A d \in Clients \ {c} : op'[d] = op[d] /\ io_state'[d] = io_state[d]
  BY DEF HandleAccept, Connect, Sets, ShapeOK, FrontShape
<1>13. ~Referenced(c)'
  BY <1>9, <1>12 DEF Referenced
<1>14. ConnOK(c)'
  BY <1>1, <1>8, <1>9, <1>10, <1>11, <1>12, <1>13
  DEF ConnOK, QueueOK, SocketOK, RequestOK, LifeOK, Holds, QueueSame, OpState, HandlerKinds
<1>15. LoopOK'
  BY <1>1, <1>11, <1>12 DEF LoopOK
<1>16. LiveOK'
  BY <1>1, <1>12 DEF LiveOK
<1>17. OnwardOnly
  BY <1>11, <1>12 DEF OnwardOnly
<1> QED
  BY <1>8, <1>12, <1>14, <1>15, <1>16, <1>17, OneConnMoves

\* The completion of one of c's operations is handled.
LEMMA HandlerConn ==
  ASSUME ShapeOK, ConnInv, NEW c \in Clients,
         \/ HandleReadHeader(c) \/ HandleReadHeaderError(c)
         \/ DisconnectClient(c) \/ DisconnectClientThrows(c)
         \/ HandleReadBody(c) \/ HandleIoError(c) \/ HandleResetForNextRequest(c)
  PROVE  ConnInv'
<1> USE DEF gate_vars, client_vars, pool_vars, driver_vars, backend_vars, stop_vars, conn_vars
<1>1. ConnOK(c) /\ LoopOK /\ LiveOK /\ Nobody \notin Clients
  BY BackEndAssumption DEF ConnInv
<1>2. PICK h \in HandlerKinds, ok \in BOOLEAN : Handles(h, c, ok)
  BY DEF HandleReadHeader, HandleReadHeaderError, DisconnectClient, DisconnectClientThrows,
     HandleReadBody, HandleIoError, HandleResetForNextRequest, HandlerKinds
<1>3. /\ loop = "idle" /\ op[c] = "none" /\ ~Referenced(c) /\ io_state[c] = OpState[h]
      /\ h # "header" => c \in m_connections
      /\ h = "header" => c \in m_connections \/ m_shutdown_initiated
      /\ ~In(handlers', c) /\ Once(handlers', c)
      /\ \A k \in HandlerKinds : ~Has(handlers', c, k)
  BY <1>1, <1>2, TakenConn
<1>4. \A d \in Clients \ {c} : QueueSame(d)
  BY <1>2, TakenOthers
<1>5. current = Nobody
  BY <1>1, <1>3 DEF LoopOK
<1>6. UNCHANGED <<posted, thread, job, owner, stop_vars>>
  BY DEF HandleReadHeader, HandleReadHeaderError, DisconnectClient, DisconnectClientThrows,
     HandleReadBody, HandleIoError, HandleResetForNextRequest
<1>7. /\ ~Referenced(c)'
      /\ \A w \in Workers : ~Holds(w, c)'
      /\ OnwardOnly
  BY <1>3, <1>6 DEF Referenced, OnwardOnly, Holds
<1> USE DEF ConnOK, QueueOK, SocketOK, RequestOK, LifeOK, OpState, HandlerKinds
<1>8. \A k, ok2 : Handles(k, c, ok2) => h = k
  BY <1>2 DEF Handles, Takes, Completed
<1>9. CASE HandleReadHeader(c)
  <2>1. /\ op'[c] = "body" /\ io_state'[c] = "READ_BODY" /\ bound' = bound \ {c}
        /\ \A d \in Clients \ {c} : op'[d] = op[d] /\ io_state'[d] = io_state[d]
        /\ UNCHANGED <<loop, current, m_connections, m_connected_clients>>
        /\ ~m_shutdown_initiated /\ h = "header"
    BY <1>8, <1>9 DEF HandleReadHeader, Sets, ShapeOK, FrontShape
  <2>2. ConnOK(c)'
    BY <1>1, <1>3, <1>5, <1>7, <2>1
  <2>3. LoopOK' /\ LiveOK'
    BY <1>1, <1>3, <2>1, <1>6 DEF LoopOK, LiveOK
  <2> QED
    BY <1>4, <1>6, <1>7, <2>1, <2>2, <2>3, OneConnMoves
<1>10. CASE HandleReadHeaderError(c)
  <2>1. /\ bound' = bound \ {c}
        /\ UNCHANGED <<loop, current, m_connections, op, io_state>>
        /\ m_connected_clients' = m_connected_clients \ ((bound \cap {c}) \ m_connections)
    BY <1>10 DEF HandleReadHeaderError, Destroyed
  <2>2. ConnOK(c)'
    BY <1>1, <1>3, <1>5, <1>7, <2>1
  <2>3. LoopOK' /\ LiveOK'
    BY <1>1, <1>3, <2>1, <1>6 DEF LoopOK, LiveOK
  <2> QED
    BY <1>4, <1>6, <1>7, <2>1, <2>2, <2>3, OneConnMoves
<1>11. CASE DisconnectClient(c)
  <2>1. /\ bound' = bound \ {c} /\ m_connections' = m_connections \ {c}
        /\ UNCHANGED <<loop, current, op, io_state>>
        /\ m_connected_clients' = m_connected_clients \ {c}
    BY <1>11 DEF DisconnectClient, Destroyed
  <2>2. ConnOK(c)'
    BY <1>1, <1>3, <1>5, <1>7, <2>1
  <2>3. LoopOK' /\ LiveOK'
    BY <1>1, <1>3, <2>1, <1>6 DEF LoopOK, LiveOK
  <2> QED
    BY <1>4, <1>6, <1>7, <2>1, <2>2, <2>3, OneConnMoves
<1>12. CASE DisconnectClientThrows(c)
  <2>1. /\ UNCHANGED <<m_connected_clients, m_connections, bound, current, op, io_state>>
        /\ loop' = "terminated"
    BY <1>12 DEF DisconnectClientThrows
  <2>2. ConnOK(c)'
    BY <1>1, <1>3, <1>5, <1>7, <2>1
  <2>3. LoopOK' /\ LiveOK'
    BY <1>1, <1>3, <1>5, <2>1, <1>6 DEF LoopOK, LiveOK
  <2> QED
    BY <1>4, <1>6, <1>7, <2>1, <2>2, <2>3, OneConnMoves
<1>13. CASE HandleReadBody(c)
  <2>1. /\ UNCHANGED <<m_connected_clients, m_connections, bound, op>>
        /\ loop' = "invoking" /\ current' = c /\ io_state'[c] = "DISPATCHED" /\ h = "body"
        /\ \A d \in Clients \ {c} : io_state'[d] = io_state[d]
    BY <1>8, <1>13 DEF HandleReadBody, Sets, ShapeOK, FrontShape
  <2>2. c \notin bound
    BY <1>1, <1>3, <2>1
  <2>3. ConnOK(c)'
    BY <1>1, <1>3, <1>5, <1>7, <2>1, <2>2
  <2>4. LoopOK' /\ LiveOK'
    BY <1>1, <1>3, <1>5, <2>1, <1>6 DEF LoopOK, LiveOK
  <2> QED
    BY <1>1, <1>4, <1>5, <1>6, <1>7, <2>1, <2>3, <2>4, OneConnMoves
<1>14. CASE HandleIoError(c)
  <2>1. /\ UNCHANGED <<m_connected_clients, m_connections, bound, op, io_state, loop, current>>
        /\ h \in {"body", "write"}
    BY <1>8, <1>14 DEF HandleIoError
  <2>2. c \notin bound
    BY <1>1, <1>3, <2>1
  <2>3. ConnOK(c)'
    BY <1>1, <1>3, <1>5, <1>7, <2>1, <2>2
  <2>4. LoopOK' /\ LiveOK'
    BY <1>1, <1>3, <2>1, <1>6 DEF LoopOK, LiveOK
  <2> QED
    BY <1>4, <1>6, <1>7, <2>1, <2>3, <2>4, OneConnMoves
<1>15. CASE HandleResetForNextRequest(c)
  <2>1. /\ UNCHANGED <<m_connected_clients, m_connections, bound, loop, current>>
        /\ op'[c] = "header" /\ io_state'[c] = "INACTIVE" /\ h = "write"
        /\ \A d \in Clients \ {c} : op'[d] = op[d] /\ io_state'[d] = io_state[d]
    BY <1>8, <1>15 DEF HandleResetForNextRequest, Sets, ShapeOK, FrontShape
  <2>2. ConnOK(c)'
    BY <1>1, <1>3, <1>5, <1>7, <2>1
  <2>3. LoopOK' /\ LiveOK'
    BY <1>1, <1>3, <2>1, <1>6 DEF LoopOK, LiveOK
  <2> QED
    BY <1>4, <1>6, <1>7, <2>1, <2>2, <2>3, OneConnMoves
<1> QED
  BY <1>9, <1>10, <1>11, <1>12, <1>13, <1>14, <1>15

\* A step that leaves all connections alone.
LEMMA AllConnsKept ==
  ASSUME ConnInv, OnwardOnly, \A d \in Clients : ConnSame(d) /\ QueueSame(d),
         JobOK', LoopOK', LiveOK'
  PROVE  ConnInv'
BY ConnKept DEF ConnInv

\* ... and the queue, the pool and the connections altogether.
LEMMA NothingConcerned ==
  ASSUME ConnInv, OnwardOnly,
         UNCHANGED <<op, io_state, current, posted, thread, job, m_connections, bound,
                     m_connected_clients>>,
         \A d \in Clients : QueueSame(d),
         owner' # owner => owner' # "new",
         LoopOK'
  PROVE  ConnInv'
<1>1. \A d \in Clients : ConnSame(d)
  BY DEF ConnSame, Holds
<1>2. JobOK' /\ LiveOK'
  BY DEF ConnInv, JobOK, LiveOK
<1> QED
  BY <1>1, <1>2, AllConnsKept

\* An unchanged queue.
LEMMA QueueUntouched ==
  ASSUME UNCHANGED handlers
  PROVE  \A d \in Clients : QueueSame(d)
BY DEF QueueSame

\* A completion that concerns no connection, queued.
LEMMA AnonymousQueued ==
  ASSUME ShapeOK, NEW h \in HandlerKinds, NEW ok \in BOOLEAN,
         handlers' = Append(handlers, Completed(h, Nobody, ok))
  PROVE  \A d \in Clients : QueueSame(d)
<1>1. PICK x : x = Completed(h, Nobody, ok)
  OBVIOUS
<1>2. x \in Handlers /\ x.c = Nobody
  BY <1>1, CompletedHandler, Zenon
<1>3. \A d \in Clients \ {Nobody} : QueueSame(d)
  BY <1>1, <1>2, AppendedOthers
<1> QED
  BY <1>3, BackEndAssumption

\* BackEnd::invoke on the connection that the event loop has read a request of.
LEMMA InvokeConn ==
  ASSUME ShapeOK, ConnInv, Alive,
         RequestAccepted \/ RequestRefused \/ RequestRejected \/ RequestPosted
  PROVE  ConnInv'
<1> USE DEF gate_vars, client_vars, pool_vars, driver_vars, backend_vars, stop_vars, conn_vars
<1>1. /\ loop \in {"invoking", "started"}
      /\ UNCHANGED <<stop_vars, handlers, thread, job, owner, m_connections, bound,
                     m_connected_clients>>
  BY DEF RequestAccepted, RequestRefused, RequestRejected, RequestPosted, InvokeGoes,
     StartARequest, RejectRequest, HandleWriteResponse
<1>2. PICK c \in Clients : c = current
  BY <1>1 DEF ConnInv, LoopOK, ShapeOK, FrontShape
<1>3. ConnOK(c) /\ LoopOK /\ LiveOK /\ Nobody \notin Clients
  BY BackEndAssumption DEF ConnInv
<1>4. /\ ~In(handlers, c) /\ op[c] = "none" /\ ~Referenced(c)
      /\ io_state[c] = "DISPATCHED" /\ c \in m_connections
  BY <1>1, <1>2, <1>3 DEF ConnOK, QueueOK, SocketOK, RequestOK, Alive, Dangling, Running
<1>5. \A h : ~Has(handlers, c, h)
  BY <1>4 DEF In, Has
<1>6. c \notin bound
  BY <1>1, <1>3, <1>4, <1>5 DEF ConnOK, LifeOK
<1>7. OnwardOnly /\ LiveOK' /\ \A d \in Clients : QueueSame(d)
  BY <1>1, <1>3, QueueUntouched DEF OnwardOnly, LiveOK
<1>8. c \notin posted /\ \A w \in Workers : ~Holds(w, c)
  BY <1>4, ReferencedHeld
<1> USE DEF ConnOK, QueueOK, SocketOK, RequestOK, LifeOK
<1>9. CASE RequestAccepted
  <2>1. UNCHANGED <<op, io_state, current, posted>> /\ loop' = "started"
    BY <1>9 DEF RequestAccepted, InvokeGoes, StartARequest
  <2>2. LoopOK'
    BY <1>1, <1>2, <1>3, <2>1 DEF LoopOK
  <2> QED
    BY <1>1, <1>7, <2>1, <2>2, NothingConcerned
<1>10. CASE RequestRefused \/ RequestRejected
  <2>1. /\ UNCHANGED posted /\ loop' = "idle" /\ current' = Nobody
        /\ HandleWriteResponse(c)
    BY <1>2, <1>10 DEF RequestRefused, RequestRejected, RejectRequest, InvokeGoes
  <2>2. /\ op'[c] = "write" /\ io_state'[c] = "RESPONSE_WRITE"
        /\ \A d \in Clients \ {c} : op'[d] = op[d] /\ io_state'[d] = io_state[d]
    BY <2>1 DEF HandleWriteResponse, Sets, ShapeOK, FrontShape
  <2>3. ~Referenced(c)' /\ \A w \in Workers : ~Holds(w, c)'
    BY <1>1, <1>8, <2>1, ReferencedHeldNext DEF Holds
  <2>4. ConnOK(c)'
    BY <1>1, <1>3, <1>4, <1>5, <1>6, <2>1, <2>2, <2>3 DEF OpState
  <2>5. LoopOK'
    BY <1>1, <1>3, <2>1 DEF LoopOK
  <2> QED
    BY <1>1, <1>2, <1>3, <1>7, <2>1, <2>2, <2>4, <2>5, OneConnMoves
<1>11. CASE RequestPosted
  <2>1. /\ posted' = posted \cup {c} /\ loop' = "idle" /\ current' = Nobody
        /\ UNCHANGED <<op, io_state>>
    BY <1>2, <1>11 DEF RequestPosted, Post, InvokeGoes
  <2>2. \A w \in Workers : ~Holds(w, c)'
    BY <1>1, <1>8 DEF Holds
  <2>3. ConnOK(c)'
    BY <1>1, <1>3, <1>4, <1>5, <1>6, <2>1, <2>2
  <2>4. LoopOK'
    BY <1>1, <1>3, <2>1 DEF LoopOK
  <2> QED
    BY <1>1, <1>2, <1>3, <1>7, <2>1, <2>3, <2>4, OneConnMoves
<1> QED
  BY <1>9, <1>10, <1>11

\* The shutdown handler erases connections that nothing uses.
LEMMA ShutdownHandlerConn ==
  ASSUME ShapeOK, ConnInv, NEW cs \in SUBSET Clients, ShutdownHandler(cs)
  PROVE  ConnInv'
<1> USE DEF gate_vars, client_vars, pool_vars, driver_vars
<1>1. LoopOK /\ LiveOK /\ JobOK /\ Nobody \notin Clients
  BY BackEndAssumption DEF ConnInv
<1>2. PICK t, a : t = Tail(handlers) /\ a = Aborted(cs)
  OBVIOUS
<1>3. /\ handlers \in Seq(Handlers) /\ handlers # <<>> /\ t \in Seq(Handlers)
      /\ Head(handlers).c = Nobody
  BY <1>2, TakenQueue DEF ShutdownHandler, HandlerKinds
<1>4. \A d \in Clients :
        /\ In(t, d) <=> In(handlers, d)
        /\ \A h \in HandlerKinds : Has(t, d, h) <=> Has(handlers, d, h)
        /\ Once(handlers, d) => Once(t, d)
  BY <1>1, <1>2, <1>3, TailQueue
<1>5. /\ a \in Seq(Handlers)
      /\ \A d \in Clients :
           /\ In(a, d) <=> d \in cs /\ op[d] = "header"
           /\ \A h \in HandlerKinds : Has(a, d, h) <=> d \in cs /\ op[d] = "header" /\ h = "header"
           /\ Once(a, d)
  BY <1>2, AbortedQueue
<1>6. handlers' = t \o a
  BY <1>2 DEF ShutdownHandler
<1>7. \A d \in Clients :
        /\ In(handlers', d) <=> In(t, d) \/ In(a, d)
        /\ \A h \in HandlerKinds : Has(handlers', d, h) <=> Has(t, d, h) \/ Has(a, d, h)
        /\ Once(t, d) /\ Once(a, d) /\ ~(In(t, d) /\ In(a, d)) => Once(handlers', d)
  BY <1>3, <1>5, <1>6, ConcatQueue
<1>8. /\ UNCHANGED <<posted, thread, job, owner, front, loop, current, io_state, bound>>
      /\ m_shutdown_initiated' = TRUE
      /\ m_connections' = m_connections \ cs
      /\ m_connected_clients' = m_connected_clients \ (cs \ bound)
      /\ \A d \in Clients : op'[d] = IF d \in cs THEN "none" ELSE op[d]
      /\ \A d \in cs : d \in m_connections /\ io_state[d] = "INACTIVE"
      /\ loop = "idle"
  BY DEF ShutdownHandler, InactiveConnections, Destroyed, Takes
<1>9. OnwardOnly
  BY <1>8 DEF OnwardOnly
<1>10. ASSUME NEW d \in Clients, d \notin cs PROVE ConnOK(d)'
  <2>1. ConnSame(d)
    BY <1>8, <1>10 DEF ConnSame, Holds
  <2>2. ConnOK(d) /\ Once(handlers, d)
    BY DEF ConnInv, ConnOK, QueueOK
  <2>3. QueueSame(d)
    BY <1>4, <1>5, <1>7, <1>10, <2>2 DEF QueueSame
  <2> QED
    BY <1>9, <2>1, <2>2, <2>3, ConnKept
<1>11. ASSUME NEW d \in cs PROVE ConnOK(d)'
  <2>1. ConnOK(d) /\ io_state[d] = "INACTIVE"
    BY <1>8 DEF ConnInv
  <2>2. current # d /\ ~Referenced(d) /\ op[d] \in {"none", "header"}
    BY <2>1 DEF ConnOK, SocketOK, RequestOK, OpState, ShapeOK, FrontShape
  <2>3. \A h \in HandlerKinds : Has(handlers, d, h) => h = "header"
    BY <2>1 DEF ConnOK, QueueOK, OpState
  <2>4. In(handlers, d) => op[d] = "none"
    BY <2>1 DEF ConnOK, QueueOK
  <2>5. \A h \in HandlerKinds : Has(handlers', d, h) => h = "header"
    BY <1>4, <1>5, <1>7, <2>3
  <2>6. Once(handlers', d)
    BY <1>4, <1>5, <1>7, <2>1, <2>4 DEF ConnOK, QueueOK
  <2>7. d \in bound => Has(handlers', d, "header")
    BY <1>4, <1>5, <1>7, <1>8, <2>1 DEF ConnOK, LifeOK, HandlerKinds
  <2>8. ~Referenced(d)' /\ \A w \in Workers : ~Holds(w, d)'
    BY <1>8, <2>2, ReferencedHeld, ReferencedHeldNext DEF Holds
  <2>9. QueueOK(d)'
    BY <1>8, <2>1, <2>2, <2>5, <2>6, <2>8 DEF QueueOK, OpState
  <2>10. SocketOK(d)' /\ RequestOK(d)'
    BY <1>8, <2>2, <2>8 DEF SocketOK, RequestOK
  <2>11. LifeOK(d)'
    BY <1>8, <2>5, <2>7 DEF LifeOK, HandlerKinds
  <2> QED
    BY <2>9, <2>10, <2>11 DEF ConnOK
<1>12. LoopOK' /\ JobOK' /\ LiveOK'
  BY <1>1, <1>8 DEF LoopOK, JobOK, LiveOK
<1> QED
  BY <1>10, <1>11, <1>12 DEF ConnInv

\* The rest of what the event loop does.
LEMMA LoopConn ==
  ASSUME ShapeOK, ConnInv, Alive, LoopStep
  PROVE  ConnInv'
<1> USE DEF gate_vars, client_vars, pool_vars, driver_vars, backend_vars, stop_vars, conn_vars
<1>1. LoopOK /\ Nobody \notin Clients
  BY BackEndAssumption DEF ConnInv
<1>2. CASE HandleAcceptError
  <2>1. loop = "idle" /\ \A d \in Clients : QueueSame(d)
    BY <1>1, <1>2, TakenOthers DEF HandleAcceptError, HandlerKinds
  <2>2. LoopOK' /\ OnwardOnly
    BY <1>1, <1>2, <2>1 DEF HandleAcceptError, LoopOK, OnwardOnly
  <2> QED
    BY <1>2, <2>1, <2>2, NothingConcerned DEF HandleAcceptError
<1>3. CASE ShutdownHandlerThrows
  <2>1. loop = "idle" /\ \A d \in Clients : QueueSame(d)
    BY <1>1, <1>3, TakenOthers DEF ShutdownHandlerThrows, HandlerKinds
  <2>2. LoopOK' /\ OnwardOnly
    BY <1>1, <1>3, <2>1 DEF ShutdownHandlerThrows, LoopOK, OnwardOnly
  <2> QED
    BY <1>3, <2>1, <2>2, NothingConcerned DEF ShutdownHandlerThrows
<1>4. CASE LoopStops
  <2>1. \A c \in Clients : ~In(handlers, c) /\ op[c] = "none" /\ ~Has(handlers, c, "header")
    BY <1>4 DEF LoopStops, In, Has
  <2>2. \A c \in Clients : c \notin bound
    BY <1>4, <2>1 DEF LoopStops, ConnInv, ConnOK, LifeOK
  <2>3. LoopOK' /\ OnwardOnly
    BY <1>1, <1>4, <2>1, <2>2 DEF LoopStops, LoopOK, OnwardOnly
  <2> QED
    BY <1>4, <2>3, QueueUntouched, NothingConcerned DEF LoopStops
<1> QED
  BY <1>2, <1>3, <1>4, AcceptConn, HandlerConn, InvokeConn, ShutdownHandlerConn DEF LoopStep

\* Peers and the network.
LEMMA EnvironmentConn ==
  ASSUME ShapeOK, ConnInv, Environment
  PROVE  ConnInv'
<1> USE DEF gate_vars, client_vars, pool_vars, driver_vars, backend_vars, stop_vars, conn_vars
<1>1. ASSUME NEW ok \in AcceptOutcomes, AcceptCompletes(ok) PROVE ConnInv'
  <2>1. "accept" \in HandlerKinds /\ ok \in BOOLEAN
    BY TcpAssumption DEF HandlerKinds
  <2>2. \A d \in Clients : QueueSame(d)
    BY <1>1, <2>1, AnonymousQueued DEF AcceptCompletes
  <2>3. LoopOK' /\ OnwardOnly
    BY <1>1 DEF AcceptCompletes, Running, ConnInv, LoopOK, OnwardOnly
  <2> QED
    BY <1>1, <2>2, <2>3, NothingConcerned DEF AcceptCompletes
<1> QED
  BY <1>1, OpCompletesConn DEF Environment

\* disconnect_from_backend only adds its handler to the queue.
LEMMA DisconnectConn ==
  ASSUME ShapeOK, ConnInv, Alive, NEW p, Enter(p) \/ GoesOn(p)
  PROVE  ConnInv'
<1> USE DEF gate_vars, client_vars, pool_vars, driver_vars, backend_vars, conn_vars, loop_vars
<1>1. LoopOK
  BY DEF ConnInv
<1>2. CASE PostShutdown(p)
  <2>1. \A d \in Clients : QueueSame(d)
    BY <1>2, AnonymousQueued DEF PostShutdown, HandlerKinds
  <2>2. LoopOK' /\ OnwardOnly
    BY <1>1, <1>2, <2>1 DEF PostShutdown, LoopOK, OnwardOnly, Alive, QueueSame
  <2> QED
    BY <1>2, <2>1, <2>2, NothingConcerned DEF PostShutdown
<1>3. CASE Enter(p) \/ Wake(p) \/ Stopped(p) \/ TimedOut(p) \/ Leave(p)
  <2>1. UNCHANGED <<op, io_state, current, posted, thread, job, m_connections, bound,
                    m_connected_clients, handlers, loop, front, m_shutdown_initiated, owner>>
    BY <1>3 DEF Enter, Wake, Stopped, TimedOut, Leave
  <2>2. LoopOK' /\ OnwardOnly
    BY <1>1, <2>1 DEF LoopOK, OnwardOnly, Alive
  <2> QED
    BY <2>1, <2>2, QueueUntouched, NothingConcerned
<1> QED
  BY <1>2, <1>3 DEF GoesOn

\* The owner of the front end and of the back end.
LEMMA OwnersConn ==
  ASSUME ShapeOK, ConnInv, Alive, Owners
  PROVE  ConnInv'
<1> USE DEF gate_vars, client_vars, pool_vars, driver_vars, backend_vars, stop_vars,
        loop_vars, conn_vars
<1>1. LoopOK /\ JobOK /\ LiveOK /\ Nobody \notin Clients
  BY BackEndAssumption DEF ConnInv
<1>2. CASE Start /\ UNCHANGED <<stop_vars, loop_vars, conn_vars>>
  <2>1. /\ owner = "new" /\ owner' = "sealed" /\ thread' = [w \in Workers |-> "idle"]
        /\ UNCHANGED <<job, posted, m_connected_clients>>
    BY <1>2 DEF Start
  <2>2. \A w \in Workers, d \in Clients : ~Holds(w, d) /\ ~Holds(w, d)'
    BY <1>1, <2>1 DEF JobOK, Holds
  <2>3. \A d \in Clients : ConnSame(d)
    BY <1>2, <2>1, <2>2 DEF ConnSame
  <2>4. JobOK' /\ LoopOK' /\ LiveOK' /\ OnwardOnly
    BY <1>1, <1>2, <2>1 DEF JobOK, LoopOK, LiveOK, OnwardOnly, Alive
  <2> QED
    BY <1>2, <2>3, <2>4, QueueUntouched, AllConnsKept
<1>3. CASE \/ StartAccepting /\ UNCHANGED <<stop_vars, loop_vars, conn_vars>>
           \/ Construct \/ Constructed
  <2>1. /\ UNCHANGED <<op, io_state, current, posted, thread, job, m_connections, bound,
                       handlers, loop, m_shutdown_initiated>>
        /\ m_connected_clients' = m_connected_clients
        /\ \/ front' = front \/ (front = "unborn" /\ front' = "making")
           \/ (front = "making" /\ front' = "made")
        /\ owner' # owner => owner' # "new"
    BY <1>3 DEF StartAccepting, Construct, Constructed, RegisterInvokerManager
  <2>2. LoopOK' /\ OnwardOnly
    BY <1>1, <2>1 DEF LoopOK, OnwardOnly, Alive
  <2> QED
    BY <2>1, <2>2, QueueUntouched, NothingConcerned
<1>4. CASE StartFrontEnd
  <2>1. /\ UNCHANGED <<op, io_state, current, posted, thread, job, m_connections, bound,
                       m_connected_clients, handlers, m_shutdown_initiated, owner>>
        /\ front = "made" /\ front' = "started" /\ loop' = "idle"
    BY <1>4 DEF StartFrontEnd
  <2>2. LoopOK' /\ OnwardOnly
    BY <1>1, <2>1 DEF LoopOK, OnwardOnly, Alive
  <2> QED
    BY <2>1, <2>2, QueueUntouched, NothingConcerned
<1>5. CASE DestroyFrontEnd
  <2>1. /\ UNCHANGED <<io_state, current, posted, thread, job, loop, m_shutdown_initiated, owner>>
        /\ front' = "gone" /\ m_connections' = {} /\ bound' = {} /\ handlers' = <<>>
        /\ \A c \in Clients : op'[c] = "none"
    BY <1>5 DEF DestroyFrontEnd
  <2>2. \A c \in Clients : \A h : ~In(handlers', c) /\ Once(handlers', c) /\ ~Has(handlers', c, h)
    BY <2>1 DEF Once, In, Has
  <2>3. ASSUME NEW c \in Clients PROVE ConnOK(c)'
    <3>1. (Referenced(c)' <=> Referenced(c)) /\ \A w \in Workers : Holds(w, c)' <=> Holds(w, c)
      BY <2>1 DEF Referenced, Holds
    <3>2. RequestOK(c)
      BY DEF ConnInv, ConnOK
    <3> QED
      BY <2>1, <2>2, <3>1, <3>2 DEF ConnOK, QueueOK, SocketOK, RequestOK, LifeOK
  <2>4. JobOK' /\ LoopOK' /\ LiveOK'
    BY <1>1, <2>1, <2>2 DEF JobOK, LoopOK, LiveOK
  <2> QED
    BY <2>3, <2>4 DEF ConnInv
<1> QED
  BY <1>2, <1>3, <1>4, <1>5, DisconnectConn DEF Owners

\* The stoppers.
LEMMA StopperConn ==
  ASSUME ShapeOK, ConnInv, Alive, NEW s \in Stoppers, Stopper(s)
  PROVE  ConnInv'
<1> USE DEF gate_vars, client_vars, pool_vars, driver_vars, stop_vars, loop_vars, conn_vars
<1>1. CASE \/ Shutdown(s) /\ UNCHANGED <<stop_vars, loop_vars, conn_vars>>
           \/ SlotReturnsAtOnce(s)
  <2>1. UNCHANGED <<op, io_state, current, posted, thread, job, m_connections, bound,
                    m_connected_clients, handlers, loop, front, m_shutdown_initiated, owner>>
    BY <1>1 DEF SlotReturnsAtOnce, Shutdown, CheckAndInitiateShutdown,
       ShutdownAlreadyInitiated, StopAccepting, PollRpcCount, DisconectManagers,
       ManagersNotified, ManagerCount, AssertNoClients, WorkReset, JoinAll, Teardown,
       TeardownFails
  <2>2. LoopOK' /\ OnwardOnly
    BY <2>1 DEF ConnInv, LoopOK, OnwardOnly, Alive
  <2> QED
    BY <2>1, <2>2, QueueUntouched, NothingConcerned
<1>2. CASE SlotFindsNull(s)
  <2>1. /\ UNCHANGED <<op, io_state, current, posted, thread, job, m_connections, bound,
                       m_connected_clients, handlers, front, m_shutdown_initiated, owner>>
        /\ front = "making" /\ loop' = "terminated"
    BY <1>2 DEF SlotFindsNull, backend_vars
  <2>2. LoopOK' /\ OnwardOnly
    BY <2>1 DEF ConnInv, LoopOK, OnwardOnly, Alive
  <2> QED
    BY <2>1, <2>2, QueueUntouched, NothingConcerned
<1> QED
  BY <1>1, <1>2, DisconnectConn DEF Stopper

\* The pool.
LEMMA WorkerConn ==
  ASSUME ShapeOK, ConnInv, Alive, NEW w \in Workers,
         Works(w) \/ \E c \in Clients : Runs(w, c)
  PROVE  ConnInv'
<1> USE DEF gate_vars, client_vars, pool_vars, driver_vars, stop_vars, loop_vars, conn_vars
<1>1. LoopOK /\ JobOK /\ LiveOK /\ Nobody \notin Clients
  BY BackEndAssumption DEF ConnInv
<1>2. ASSUME NEW c \in Clients, Runs(w, c) PROVE ConnInv'
  <2>1. /\ UNCHANGED <<stop_vars, loop_vars, conn_vars, owner, m_connected_clients>>
        /\ c \in posted /\ posted' = posted \ {c}
        /\ thread[w] = "idle" /\ thread' = [thread EXCEPT ![w] = "dispatching"]
        /\ job' = [job EXCEPT ![w] = c]
    BY <1>2 DEF Runs, RunHandler
  <2>2. \A v \in Workers, d \in Clients : Holds(v, d)' <=> Holds(v, d) \/ (v = w /\ d = c)
    BY <2>1 DEF Holds, ShapeOK, BackEndShape
  <2>3. JobOK' /\ LoopOK' /\ LiveOK' /\ OnwardOnly
    BY <1>1, <2>1 DEF JobOK, LoopOK, LiveOK, OnwardOnly, Alive, ShapeOK, BackEndShape
  <2>4. ASSUME NEW d \in Clients \ {c} PROVE ConnOK(d)'
    <3>1. ConnSame(d) /\ QueueSame(d)
      BY <2>1, <2>2, QueueUntouched DEF ConnSame
    <3> QED
      BY <2>3, <3>1, ConnKept DEF ConnInv
  <2>5. ConnOK(c)'
    <3>1. Referenced(c) /\ Referenced(c)'
      BY <2>1, <2>2, ReferencedHeld, ReferencedHeldNext
    <3>2. ConnOK(c)
      BY DEF ConnInv
    <3>3. QueueOK(c)' /\ SocketOK(c)' /\ LifeOK(c)'
      BY <2>1, <3>1, <3>2 DEF ConnOK, QueueOK, SocketOK, LifeOK
    <3>4. \A v \in Workers : ~Holds(v, c)
      BY <2>1, <3>2 DEF ConnOK, RequestOK
    <3>5. RequestOK(c)'
      BY <2>1, <2>2, <3>1, <3>2, <3>4 DEF ConnOK, RequestOK
    <3> QED
      BY <3>3, <3>5 DEF ConnOK
  <2> QED
    BY <2>3, <2>4, <2>5 DEF ConnInv
<1>3. CASE /\ EndARequest(w) \/ EndRpc(w) \/ FinishHandler(w) \/ ExitThread(w)
           /\ UNCHANGED <<stop_vars, loop_vars, conn_vars>>
  <2>1. UNCHANGED <<posted, owner, m_connected_clients>>
    BY <1>3 DEF EndARequest, EndRpc, FinishHandler, ExitThread
  <2>2. \A v \in Workers, d \in Clients : Holds(v, d)' <=> Holds(v, d)
    BY <1>3 DEF EndARequest, EndRpc, FinishHandler, ExitThread, Holds, ShapeOK, BackEndShape
  <2>3. JobOK'
    BY <1>1, <1>3 DEF EndARequest, EndRpc, FinishHandler, ExitThread, JobOK, ShapeOK, BackEndShape
  <2>4. LoopOK' /\ LiveOK' /\ OnwardOnly
    BY <1>1, <1>3, <2>1 DEF LoopOK, LiveOK, OnwardOnly, Alive
  <2>5. \A d \in Clients : ConnSame(d)
    BY <1>3, <2>1, <2>2 DEF ConnSame
  <2> QED
    BY <1>3, <2>3, <2>4, <2>5, QueueUntouched, AllConnsKept
<1>4. CASE RespondFromPool(w)
  <2>1. PICK c \in Clients : c = job[w]
    BY <1>1, <1>4 DEF RespondFromPool, HandlerTells, JobOK
  <2>2. /\ UNCHANGED <<stop_vars, loop_vars, posted, job, owner, m_connected_clients,
                       m_connections, bound>>
        /\ thread[w] = "cleared" /\ thread' = [thread EXCEPT ![w] = "finishing"]
        /\ op'[c] = "write" /\ io_state'[c] = "RESPONSE_WRITE"
        /\ \A d \in Clients \ {c} : op'[d] = op[d] /\ io_state'[d] = io_state[d]
    BY <1>4, <2>1 DEF RespondFromPool, HandlerTells, HandleWriteResponse, Sets, ShapeOK, FrontShape
  <2>3. \A v \in Workers, d \in Clients : Holds(v, d)' <=> Holds(v, d) /\ v # w
    BY <2>2 DEF Holds, ShapeOK, BackEndShape
  <2>4. ConnOK(c) /\ Holds(w, c) /\ \A d \in Clients : Holds(w, d) => d = c
    BY <2>1, <2>2 DEF ConnInv, Holds
  <2>5. JobOK' /\ LoopOK' /\ LiveOK' /\ OnwardOnly
    BY <1>1, <2>1, <2>2 DEF JobOK, LoopOK, LiveOK, OnwardOnly, Alive, ShapeOK, BackEndShape
  <2>6. ASSUME NEW d \in Clients \ {c} PROVE ConnOK(d)'
    <3>1. ConnSame(d) /\ QueueSame(d)
      BY <2>2, <2>3, <2>4, QueueUntouched DEF ConnSame
    <3> QED
      BY <2>5, <3>1, ConnKept DEF ConnInv
  <2>7. ConnOK(c)'
    <3>1. Referenced(c)
      BY <2>4, ReferencedHeld
    <3>2. ~In(handlers, c) /\ op[c] = "none" /\ current # c /\ c \in m_connections
      BY <2>4, <3>1 DEF ConnOK, QueueOK, SocketOK, RequestOK, Alive, Dangling
    <3>3. \A h : ~Has(handlers, c, h)
      BY <3>2 DEF In, Has
    <3>4. c \notin bound
      BY <2>4, <3>2, <3>3 DEF ConnOK, LifeOK, Alive
    <3>5. c \notin posted /\ \A v \in Workers : ~Holds(v, c)'
      BY <2>3, <2>4 DEF ConnOK, RequestOK
    <3>6. ~Referenced(c)'
      BY <2>2, <3>5, ReferencedHeldNext
    <3> QED
      BY <2>2, <2>4, <3>2, <3>3, <3>4, <3>5, <3>6
      DEF ConnOK, QueueOK, SocketOK, RequestOK, LifeOK, OpState
  <2> QED
    BY <2>5, <2>6, <2>7 DEF ConnInv
<1> QED
  BY <1>2, <1>3, <1>4 DEF Works

\* Every step keeps ConnInv.
LEMMA NextConn ==
  ASSUME ShapeOK, ConnInv, [Next]_vars
  PROVE  ConnInv'
<1>1. CASE UNCHANGED vars
  BY <1>1 DEF ConnInv, LoopOK, JobOK, LiveOK, ConnOK, QueueOK, SocketOK, RequestOK, LifeOK,
     Referenced, Holds, vars, backend_vars, gate_vars, client_vars, pool_vars,
     driver_vars, stop_vars, loop_vars, conn_vars
<1> QED
  BY <1>1, EnvironmentConn, LoopConn, OwnersConn, StopperConn, WorkerConn DEF Next

-----------------------------------------------------------------------------
(***************************************************************************)
(* The requests in flight, and the gate.                                   *)
(***************************************************************************)

\* A step admits the request of connection c, completes it, or moves none.
Admits(c) ==
  /\ GateOpen /\ CountRpc
  /\ c \notin CountedConns /\ CountedConns' = CountedConns \cup {c}

Completes(c) ==
  /\ UncountRpc
  /\ c \in CountedConns /\ CountedConns' = CountedConns \ {c}

Rests == UNCHANGED <<m_active_rpc_count, CountedConns>>

Passes == Rests \/ \E c \in Clients : Admits(c) \/ Completes(c)

\* A step that neither starts nor shuts down: it may end the io_service, but only
\* without the work object.
GateAlone ==
  /\ UNCHANGED <<owner, m_shutdown_state, m_accepting_requests, sd, torn, m_work>>
  /\ m_stopped' => m_stopped \/ ~m_work

\* The exception of disconnect_from_backend ends the shutdown of stopper s.
Throws(s) ==
  /\ Advance(s, "notifying", "threw")
  /\ UNCHANGED <<gate_vars, pool_vars, owner, torn>>

\* Only finitely many requests are ever counted.
LEMMA CountedFinite ==
  /\ IsFiniteSet(CountedConns)
  /\ Cardinality(CountedConns) \in Nat
<1>1. CountedConns \subseteq Clients
  BY DEF CountedConns
<1>2. IsFiniteSet(CountedConns)
  BY <1>1, BackEndAssumption, FS_Subset
<1> QED
  BY <1>2, FS_CardinalityType

\* A connection is counted while the event loop checks its request, or while
\* it waits for the pool or is dispatched there.
LEMMA RestsWhenStill ==
  ASSUME UNCHANGED <<m_active_rpc_count, posted>>,
         \A c \in Clients : (loop' = "started" /\ current' = c) <=> (loop = "started" /\ current = c),
         \A w \in Workers, c \in Clients :
           (thread'[w] = "dispatching" /\ job'[w] = c) <=> (thread[w] = "dispatching" /\ job[w] = c)
  PROVE  Rests
<1>1. \A c \in Clients : Counted(c)' <=> Counted(c)
  BY DEF Counted, InPool
<1> QED
  BY <1>1 DEF Rests, CountedConns

\* The event loop moves requests only in BackEnd::invoke.
LEMMA InvokePasses ==
  ASSUME ShapeOK, ConnInv,
         RequestAccepted \/ RequestRefused \/ RequestRejected \/ RequestPosted
  PROVE  GateAlone /\ Passes
<1> USE DEF gate_vars, client_vars, pool_vars, driver_vars, backend_vars
<1>1. GateAlone /\ UNCHANGED <<thread, job>> /\ loop \in {"invoking", "started"}
  BY DEF GateAlone, RequestAccepted, RequestRefused, RequestRejected, RequestPosted, InvokeGoes,
     StartARequest, RejectRequest
<1>2. PICK c \in Clients : c = current
  BY <1>1 DEF ConnInv, LoopOK, ShapeOK, FrontShape
<1>3. ~Referenced(c) /\ ~InPool(c)
  BY <1>2 DEF ConnInv, ConnOK, RequestOK, Referenced, InPool
<1>4. CASE RequestAccepted
  <2>1. /\ GateOpen /\ CountRpc /\ loop = "invoking" /\ loop' = "started"
        /\ UNCHANGED <<posted, current>>
    BY <1>4 DEF RequestAccepted, InvokeGoes, StartARequest
  <2>2. ~Counted(c) /\ \A d \in Clients : Counted(d)' <=> Counted(d) \/ d = c
    BY <1>1, <1>2, <1>3, <2>1 DEF Counted, InPool
  <2>3. Admits(c)
    BY <2>1, <2>2 DEF Admits, CountedConns
  <2> QED
    BY <1>1, <2>3 DEF Passes
<1>5. CASE RequestRefused
  <2>1. UNCHANGED <<m_active_rpc_count, posted>> /\ loop = "invoking" /\ loop' = "idle"
    BY <1>5 DEF RequestRefused, InvokeGoes
  <2> QED
    BY <1>1, <2>1, RestsWhenStill DEF Passes
<1>6. CASE RequestRejected
  <2>1. /\ UncountRpc /\ loop = "started" /\ loop' = "idle"
        /\ UNCHANGED posted
    BY <1>6 DEF RequestRejected, InvokeGoes, RejectRequest
  <2>2. Counted(c) /\ \A d \in Clients : Counted(d)' <=> Counted(d) /\ d # c
    BY <1>1, <1>2, <1>3, <2>1 DEF Counted, InPool
  <2>3. Completes(c)
    BY <2>1, <2>2 DEF Completes, CountedConns
  <2> QED
    BY <1>1, <2>3 DEF Passes
<1>7. CASE RequestPosted
  <2>1. /\ UNCHANGED m_active_rpc_count /\ loop = "started" /\ loop' = "idle"
        /\ posted' = posted \cup {c}
    BY <1>2, <1>7 DEF RequestPosted, InvokeGoes, Post
  <2>2. \A d \in Clients : Counted(d)' <=> Counted(d)
    BY <1>1, <1>2, <2>1 DEF Counted, InPool
  <2> QED
    BY <1>1, <2>1, <2>2 DEF Passes, Rests, CountedConns
<1> QED
  BY <1>4, <1>5, <1>6, <1>7

\* What else the event loop does concerns sockets.
LEMMA LoopPasses ==
  ASSUME ShapeOK, ConnInv, LoopStep
  PROVE  GateAlone /\ Passes
<1> USE DEF gate_vars, client_vars, pool_vars, driver_vars, backend_vars, stop_vars
<1>1. CASE RequestAccepted \/ RequestRefused \/ RequestRejected \/ RequestPosted
  BY <1>1, InvokePasses
<1>2. CASE /\ UNCHANGED <<gate_vars, pool_vars, driver_vars>>
           /\ loop = "idle" /\ loop' \in {"idle", "invoking", "stopped", "terminated"}
  <2>1. Rests
    BY <1>2, RestsWhenStill
  <2> QED
    BY <1>2, <2>1 DEF GateAlone, Passes
<1>3. ASSUME NEW c \in Clients,
             \/ HandleAccept(c) \/ HandleReadHeader(c) \/ HandleReadHeaderError(c)
             \/ DisconnectClient(c) \/ DisconnectClientThrows(c)
             \/ HandleReadBody(c) \/ HandleIoError(c) \/ HandleResetForNextRequest(c)
      PROVE  /\ UNCHANGED <<gate_vars, pool_vars, driver_vars>>
             /\ loop = "idle" /\ loop' \in {"idle", "invoking", "stopped", "terminated"}
  BY <1>3 DEF HandleAccept, HandleReadHeader, HandleReadHeaderError, DisconnectClient,
     DisconnectClientThrows, HandleReadBody, HandleIoError, HandleResetForNextRequest,
     Handles, Takes
<1>4. ASSUME HandleAcceptError \/ ShutdownHandlerThrows \/ LoopStops
      PROVE  /\ UNCHANGED <<gate_vars, pool_vars, driver_vars>>
             /\ loop = "idle" /\ loop' \in {"idle", "invoking", "stopped", "terminated"}
  BY <1>4 DEF HandleAcceptError, ShutdownHandlerThrows, LoopStops, Handles, Takes
<1>5. ASSUME NEW cs \in SUBSET Clients, ShutdownHandler(cs)
      PROVE  /\ UNCHANGED <<gate_vars, pool_vars, driver_vars>>
             /\ loop = "idle" /\ loop' \in {"idle", "invoking", "stopped", "terminated"}
  BY <1>5 DEF ShutdownHandler, Takes
<1> QED
  BY <1>1, <1>2, <1>3, <1>4, <1>5 DEF LoopStep

\* A pool thread takes a request over, or completes it.
LEMMA WorkerPasses ==
  ASSUME ShapeOK, ConnInv, NEW w \in Workers,
         Works(w) \/ \E c \in Clients : Runs(w, c)
  PROVE  GateAlone /\ Passes
<1> USE DEF gate_vars, client_vars, pool_vars, driver_vars, stop_vars, loop_vars, conn_vars
<1>1. GateAlone /\ UNCHANGED <<loop, current>>
  <2>1. /\ UNCHANGED <<owner, m_shutdown_state, m_accepting_requests, sd, torn, m_work>>
        /\ UNCHANGED <<loop, current>>
    BY DEF Works, Runs, RunHandler, EndARequest, EndRpc, FinishHandler, ExitThread,
       RespondFromPool, HandlerTells
  <2>2. m_stopped' => m_stopped \/ ~m_work
    <3>1. CASE FinishHandler(w)
      BY <3>1 DEF FinishHandler
    <3>2. CASE UNCHANGED m_stopped
      BY <3>2
    <3> QED
      BY <3>1, <3>2 DEF Works, Runs, RunHandler, EndARequest, EndRpc, ExitThread,
         RespondFromPool, HandlerTells
  <2> QED
    BY <2>1, <2>2 DEF GateAlone
<1>2. ASSUME NEW c \in Clients, Runs(w, c) PROVE Rests
  <2>1. \A d \in Clients : Counted(d)' <=> Counted(d)
    BY <1>1, <1>2 DEF Runs, RunHandler, Counted, InPool, ShapeOK, BackEndShape
  <2>2. UNCHANGED m_active_rpc_count
    BY <1>2 DEF Runs, RunHandler
  <2> QED
    BY <2>1, <2>2 DEF Rests, CountedConns
<1>3. CASE EndARequest(w)
  <2>1. /\ UncountRpc /\ UNCHANGED <<posted, job>>
        /\ thread[w] = "dispatching" /\ thread' = [thread EXCEPT ![w] = "ended"]
    BY <1>3 DEF EndARequest
  <2>2. PICK c \in Clients : c = job[w]
    BY <2>1 DEF ConnInv, JobOK
  <2>3. Holds(w, c) /\ RequestOK(c)
    BY <2>1, <2>2 DEF Holds, ConnInv, ConnOK
  <2>4. current # c /\ c \notin posted /\ \A v \in Workers : Holds(v, c) => v = w
    BY <2>3, ReferencedHeld DEF RequestOK
  <2>5. Counted(c) /\ \A d \in Clients : Counted(d)' <=> Counted(d) /\ d # c
    BY <1>1, <2>1, <2>2, <2>4 DEF Counted, InPool, Holds, ShapeOK, BackEndShape
  <2>6. Completes(c)
    BY <2>1, <2>5 DEF Completes, CountedConns
  <2> QED
    BY <1>1, <2>6 DEF Passes
<1>4. CASE EndRpc(w) \/ FinishHandler(w) \/ ExitThread(w) \/ RespondFromPool(w)
  <2>1. /\ UNCHANGED <<posted, m_active_rpc_count>>
        /\ thread[w] # "dispatching"
        /\ \E to \in ThreadStages \ {"dispatching"} : thread' = [thread EXCEPT ![w] = to]
        /\ \A v \in Workers \ {w} : job'[v] = job[v]
    BY <1>4 DEF EndRpc, FinishHandler, ExitThread, RespondFromPool, HandlerTells,
       ThreadStages, ShapeOK, BackEndShape
  <2>2. \A v \in Workers, d \in Clients :
          (thread'[v] = "dispatching" /\ job'[v] = d) <=> (thread[v] = "dispatching" /\ job[v] = d)
    BY <2>1 DEF ShapeOK, BackEndShape
  <2>3. Rests
    BY <1>1, <2>1, <2>2, RestsWhenStill
  <2> QED
    BY <1>1, <2>3 DEF Passes
<1> QED
  BY <1>1, <1>2, <1>3, <1>4 DEF Works, Passes

\* disconnect_from_backend leaves the gate alone, or throws out of a shutdown.
LEMMA DisconnectPasses ==
  ASSUME NEW p, Enter(p) \/ GoesOn(p) \/ SlotReturnsAtOnce(p)
  PROVE  Rests /\ (GateAlone \/ (p # Main /\ Throws(p)))
<1> USE DEF gate_vars, client_vars, pool_vars, driver_vars, backend_vars, stop_vars, loop_vars
<1>1. UNCHANGED <<m_active_rpc_count, posted, thread, job, loop, current>>
  BY DEF Enter, GoesOn, SlotReturnsAtOnce, PostShutdown, Wake, Stopped, TimedOut, Leave,
     SignalDisconnect
<1>2. Rests
  BY <1>1, RestsWhenStill
<1>3. CASE TimedOut(p) /\ p # Main
  BY <1>2, <1>3 DEF TimedOut, Throws
<1>4. CASE Enter(p) \/ SlotReturnsAtOnce(p) \/ PostShutdown(p) \/ Wake(p) \/ Stopped(p)
  <2>1. UNCHANGED <<owner, m_shutdown_state, m_accepting_requests, sd, torn, m_work, m_stopped>>
    BY <1>4 DEF Enter, SlotReturnsAtOnce, PostShutdown, Wake, Stopped
  <2> QED
    BY <1>2, <2>1 DEF GateAlone
<1>5. CASE Leave(p) \/ (TimedOut(p) /\ p = Main)
  <2>1. UNCHANGED <<owner, m_shutdown_state, m_accepting_requests, sd, torn, m_work, m_stopped>>
    BY <1>5 DEF Leave, TimedOut, SignalDisconnect
  <2> QED
    BY <1>2, <2>1 DEF GateAlone
<1> QED
  BY <1>3, <1>4, <1>5 DEF GoesOn

\* Every step moves requests and leaves the gate alone, or it is start(), a step
\* of shutdown() or the exception that ends one.
LEMMA KindsOfStep ==
  ASSUME ShapeOK, ConnInv, [Next]_vars
  PROVE  \/ GateAlone /\ Passes
         \/ (Start \/ StartAccepting) /\ Rests
         \/ \E s \in Stoppers : (Shutdown(s) \/ Throws(s)) /\ Rests
<1> USE DEF gate_vars, client_vars, pool_vars, driver_vars, backend_vars, stop_vars, loop_vars,
        conn_vars
<1>1. CASE LoopStep
  BY <1>1, LoopPasses
<1>2. ASSUME NEW w \in Workers, Works(w) \/ \E c \in Clients : Runs(w, c)
      PROVE  GateAlone /\ Passes
  BY <1>2, WorkerPasses
<1>3. CASE \/ Environment \/ UNCHANGED vars
           \/ Construct \/ Constructed \/ StartFrontEnd \/ DestroyFrontEnd
           \/ \E s \in Stoppers : SlotFindsNull(s)
  <2>1. /\ GateAlone /\ UNCHANGED <<m_active_rpc_count, posted, thread, job, current>>
        /\ loop' = "started" <=> loop = "started"
    BY <1>3 DEF Environment, OpCompletes, AcceptCompletes, vars, Construct, Constructed,
       StartFrontEnd, DestroyFrontEnd, SlotFindsNull, RegisterInvokerManager, GateAlone,
       ConnInv, LoopOK
  <2>2. Rests
    BY <2>1, RestsWhenStill
  <2> QED
    BY <2>1, <2>2 DEF Passes
<1>4. CASE (Start \/ StartAccepting) /\ UNCHANGED <<stop_vars, loop_vars, conn_vars>>
  <2>1. /\ UNCHANGED <<m_active_rpc_count, posted, job, loop, current>>
        /\ \A w \in Workers : thread'[w] = "dispatching" <=> thread[w] = "dispatching"
    BY <1>4 DEF Start, StartAccepting, ConnInv, JobOK
  <2>2. Rests
    BY <2>1, RestsWhenStill
  <2> QED
    BY <1>4, <2>2
<1>5. ASSUME NEW s \in Stoppers, Shutdown(s) /\ UNCHANGED <<stop_vars, loop_vars, conn_vars>>
      PROVE  Shutdown(s) /\ Rests
  <2>1. UNCHANGED <<m_active_rpc_count, posted, thread, job, loop, current>>
    BY <1>5 DEF Shutdown, CheckAndInitiateShutdown, ShutdownAlreadyInitiated, StopAccepting,
       PollRpcCount, DisconectManagers, ManagersNotified, ManagerCount, AssertNoClients,
       WorkReset, JoinAll, Teardown, TeardownFails
  <2> QED
    BY <1>5, <2>1, RestsWhenStill
<1>6. CASE Enter(Main) \/ GoesOn(Main)
  BY <1>6, DisconnectPasses DEF Passes
<1>7. ASSUME NEW s \in Stoppers, Enter(s) \/ SlotReturnsAtOnce(s) \/ GoesOn(s)
      PROVE  Rests /\ (GateAlone \/ Throws(s))
  BY <1>7, DisconnectPasses
<1> QED
  BY <1>1, <1>2, <1>3, <1>4, <1>5, <1>6, <1>7 DEF Next, Owners, Stopper, Passes

\* The counter counts the requests in flight.
LEMMA NextCounts ==
  ASSUME ShapeOK, ConnInv, CountOK, [Next]_vars
  PROVE  CountOK'
<1>1. Passes
  BY KindsOfStep DEF Passes
<1>2. CASE Rests
  BY <1>2 DEF Rests, CountOK
<1>3. ASSUME NEW c \in Clients, Admits(c) PROVE CountOK'
  <2>1. Cardinality(CountedConns \cup {c}) = Cardinality(CountedConns) + 1
    BY <1>3, CountedFinite, FS_AddElement DEF Admits
  <2> QED
    BY <1>3, <2>1 DEF Admits, CountRpc, CountOK
<1>4. ASSUME NEW c \in Clients, Completes(c) PROVE CountOK'
  <2>1. Cardinality(CountedConns \ {c}) = Cardinality(CountedConns) - 1
    BY <1>4, CountedFinite, FS_RemoveElement DEF Completes
  <2> QED
    BY <1>4, <2>1 DEF Completes, UncountRpc, CountOK
<1> QED
  BY <1>1, <1>2, <1>3, <1>4 DEF Passes

-----------------------------------------------------------------------------
(***************************************************************************)
(* The invariant, and what follows from it at once.                        *)
(***************************************************************************)

\* TcpInv holds of every state of the front end, whatever peers, the owner and
\* any number of stoppers do: the queue, the sockets, the event loop and the
\* pool agree about each connection, and the counter of the back end counts
\* the connections whose requests it has let in.
THEOREM TcpInvariant == Spec => []TcpInv
<1>1. Init => TcpInv
  <2> SUFFICES ASSUME Init PROVE TcpInv
    OBVIOUS
  <2>1. BackEndShape
    <3> USE DEF Init, BackEndInit
    <3>1. torn \in 0..NumServices
      BY BackEndAssumption
    <3>2. m_rpc_active \in [Clients -> BOOLEAN]
      OBVIOUS
    <3>3. /\ thread \in [Workers -> ThreadStages]
          /\ job \in [Workers -> Clients \cup {Nobody}]
          /\ sd \in [Stoppers -> StopperStages]
      BY DEF ThreadStages, StopperStages
    <3> QED
      BY <3>1, <3>2, <3>3 DEF BackEndShape, ShutdownStates
  <2>2. FrontShape
    <3> USE DEF Init
    <3>1. handlers \in Seq(Handlers)
      OBVIOUS
    <3>2. /\ io_state \in [Clients -> IoStates]
          /\ op \in [Clients -> {"none", "header", "body", "write"}]
      BY DEF IoStates
    <3>3. /\ msg_sz \in [Clients -> RequestSizes \cup {0}]
          /\ buf_size \in [Clients -> RequestSizes \cup ResponseSizes \cup {InitialSize}]
      OBVIOUS
    <3> QED
      BY <3>1, <3>2, <3>3 DEF FrontShape
  <2>3. \A c \in Clients : ~Referenced(c) /\ ~Counted(c) /\ current # c
    BY BackEndAssumption DEF Init, BackEndInit, Referenced, Counted, InPool
  <2>4. \A c \in Clients : \A h : Once(handlers, c) /\ ~In(handlers, c) /\ ~Has(handlers, c, h)
    BY DEF Init, Once, In, Has
  <2>5. \A c \in Clients : ConnOK(c)
    BY <2>3, <2>4, ReferencedHeld
    DEF Init, ConnOK, QueueOK, SocketOK, RequestOK, LifeOK
  <2>6. LoopOK /\ JobOK /\ LiveOK
    BY DEF Init, BackEndInit, LoopOK, JobOK, LiveOK
  <2>7. CountOK
    <3>1. CountedConns = {}
      BY <2>3 DEF CountedConns
    <3> QED
      BY <3>1, FS_EmptySet DEF Init, BackEndInit, CountOK
  <2> QED
    BY <2>1, <2>2, <2>5, <2>6, <2>7 DEF TcpInv, ShapeOK, ConnInv
<1>2. TcpInv /\ [Next]_vars => TcpInv'
  <2> SUFFICES ASSUME TcpInv, [Next]_vars PROVE TcpInv'
    OBVIOUS
  <2>1. ShapeOK /\ ConnInv /\ CountOK
    BY DEF TcpInv
  <2>2. ShapeOK' /\ ConnInv' /\ CountOK'
    BY <2>1, NextShape, NextConn, NextCounts
  <2> QED
    BY <2>2 DEF TcpInv
<1> QED
  BY <1>1, <1>2, PTL DEF Spec

\* Every variable of the front end and of its back end keeps its type; among
\* others, the counter of requests never goes below zero, and every connection in
\* m_connections, or held by a handler of its header, is connected.
THEOREM TcpTyped == Spec => []TcpTypeOK
<1>1. TcpInv => TcpTypeOK
  <2> SUFFICES ASSUME TcpInv PROVE TcpTypeOK
    OBVIOUS
  <2>1. BackEndShape /\ FrontShape /\ LiveOK /\ m_active_rpc_count \in Nat
    BY CountedFinite DEF TcpInv, ShapeOK, ConnInv, CountOK
  <2>2. BackEndTypeOK
    BY <2>1 DEF BackEndShape, BackEndTypeOK
  <2> QED
    BY <2>1, <2>2 DEF FrontShape, LiveOK, TcpTypeOK
<1> QED
  BY <1>1, TcpInvariant, PTL

\* A set of which all members are equal has at most one.
LEMMA AtMostOne ==
  ASSUME NEW S, \A x, y \in S : x = y
  PROVE  Cardinality(S) <= 1
<1>1. CASE S = {}
  BY <1>1, FS_EmptySet
<1>2. CASE S # {}
  <2>1. PICK x \in S : TRUE
    BY <1>2
  <2>2. S = {x}
    BY <2>1
  <2> QED
    BY <2>2, FS_Singleton
<1> QED
  BY <1>1, <1>2

\* A connection never has two things under way at once (an operation on its
\* socket, the completion of one in the queue, its request in the event loop or
\* in the pool), and its io_state always names the one it has, for any number of
\* connections, pool threads and stoppers.
THEOREM ActivitiesExclusive == Spec => []OneActivity
<1>1. TcpInv => OneActivity
  <2> SUFFICES ASSUME TcpInv, NEW c \in m_connections
               PROVE
                 LET doing == (IF op[c] = "none" THEN {} ELSE {<<"op", OpState[op[c]]>>})
                         \cup {<<i, OpState[handlers[i].h]>> : i \in Completions(c)}
                         \cup (IF current = c THEN {<<"loop", "DISPATCHED">>} ELSE {})
                         \cup (IF Referenced(c) THEN {<<"pool", "DISPATCHED">>} ELSE {})
                 IN  /\ Cardinality(doing) <= 1
                     /\ \A d \in doing : d[2] = io_state[c]
    BY DEF OneActivity
  <2> DEFINE ops == IF op[c] = "none" THEN {} ELSE {<<"op", OpState[op[c]]>>}
             dones == {<<i, OpState[handlers[i].h]>> : i \in Completions(c)}
             looping == IF current = c THEN {<<"loop", "DISPATCHED">>} ELSE {}
             pooled == IF Referenced(c) THEN {<<"pool", "DISPATCHED">>} ELSE {}
             doing == ops \cup dones \cup looping \cup pooled
  <2>1. c \in Clients /\ ConnOK(c) /\ handlers \in Seq(Handlers)
    BY DEF TcpInv, ShapeOK, FrontShape, ConnInv
  <2>2. ASSUME NEW i \in Completions(c)
        PROVE  /\ In(handlers, c) /\ OpState[handlers[i].h] = io_state[c]
               /\ \A j \in Completions(c) : i = j
    <3>1. i \in DOMAIN handlers /\ handlers[i].c = c /\ In(handlers, c)
      BY DEF Completions, In
    <3>2. handlers[i] \in Handlers
      BY <2>1, <3>1
    <3>3. handlers[i].h \in HandlerKinds
      BY <3>2 DEF Handlers, HandlerKinds
    <3>4. Has(handlers, c, handlers[i].h)
      BY <3>1 DEF Has
    <3>5. OpState[handlers[i].h] = io_state[c]
      BY <2>1, <3>3, <3>4 DEF ConnOK, QueueOK
    <3> QED
      BY <2>1, <3>1, <3>5 DEF Completions, ConnOK, QueueOK, Once
  <2>3. \A d \in ops : d[2] = io_state[c] /\ op[c] # "none"
    BY <2>1 DEF ConnOK, SocketOK
  <2>4. \A d \in dones : d[2] = io_state[c] /\ In(handlers, c)
    BY <2>2
  <2>5. \A d, e \in dones : d = e
    BY <2>2
  <2>6. \A d \in looping : d[2] = io_state[c] /\ current = c
    BY <2>1 DEF ConnOK, RequestOK
  <2>7. \A d \in pooled : d[2] = io_state[c] /\ Referenced(c)
    BY <2>1 DEF ConnOK, RequestOK
  <2>8. (\A d, e \in ops : d = e) /\ (\A d, e \in looping : d = e) /\ (\A d, e \in pooled : d = e)
    OBVIOUS
  <2>9. /\ op[c] # "none" => ~In(handlers, c) /\ current # c /\ ~Referenced(c)
        /\ In(handlers, c) => current # c /\ ~Referenced(c)
        /\ current = c => ~Referenced(c)
    BY <2>1 DEF ConnOK, QueueOK, SocketOK, RequestOK
  <2> HIDE DEF ops, dones, looping, pooled
  <2>10. \A d, e \in doing : d = e
    BY <2>3, <2>4, <2>5, <2>6, <2>7, <2>8, <2>9
  <2>11. \A d \in doing : d[2] = io_state[c]
    BY <2>3, <2>4, <2>6, <2>7
  <2>12. Cardinality(doing) <= 1
    BY <2>10, AtMostOne
  <2> QED
    BY <2>11, <2>12 DEF ops, dones, looping, pooled
<1> QED
  BY <1>1, TcpInvariant, PTL

-----------------------------------------------------------------------------
(***************************************************************************)
(* The drain.                                                              *)
(***************************************************************************)

Undriven == {"out", "returned"}

\* The stages of a stopper that has closed the gate, and those of one that has
\* found no request in flight.
ClosedStages == {"draining", "drained", "notifying", "counting", "asserting",
                 "releasing", "joining", "tearing", "done", "threw"}
DrainedStages == ClosedStages \ {"draining"}

\* At most one stopper drives the shutdown, and none that of an active back end.
DriverInv ==
  /\ m_shutdown_state = "ACTIVE" => \A s \in Stoppers : sd[s] \in Undriven
  /\ \A s, t \in Stoppers : sd[s] \notin Undriven /\ sd[t] \notin Undriven => s = t

\* m_shutdown_state says how far the driver has come.
StateOfStage ==
  \A s \in Stoppers :
    /\ sd[s] = "initiated" => m_shutdown_state = "INITIATED"
    /\ sd[s] = "draining" => m_shutdown_state = "WAITING_RPC"
    /\ sd[s] \in DrainedStages => m_shutdown_state = "WAITING_MANAGERS"

\* Callers do not start a back end that shuts down.
NoLateStart == "start" \notin LateOps

StartedInTime == owner = "sealed" => m_shutdown_state = "ACTIVE"

StaysClosed == \A s \in Stoppers : sd[s] \in ClosedStages => ~m_accepting_requests

StaysDrained == \A s \in Stoppers : sd[s] \in DrainedStages => m_active_rpc_count = 0

\* Nothing the requests need is taken away before the drain.
NothingTaken ==
  torn # 0 \/ m_stopped \/ ~m_work => \E s \in Stoppers : sd[s] \in DrainedStages

DrainInv ==
  /\ DriverInv /\ StateOfStage
  /\ StartedInTime /\ StaysClosed /\ StaysDrained /\ NothingTaken

\* A request passes an open gate only, and one that is counted out was counted.
LEMMA RequestsDrain ==
  ASSUME TcpInv, DrainInv, GateAlone, Passes
  PROVE  DrainInv'
<1>1. StaysDrained'
  <2>1. ASSUME NEW s \in Stoppers, sd'[s] \in DrainedStages PROVE m_active_rpc_count' = 0
    <3>1. m_active_rpc_count = 0 /\ ~m_accepting_requests
      BY <2>1 DEF DrainInv, StaysDrained, StaysClosed, GateAlone, DrainedStages
    <3>2. CountedConns = {}
      BY <3>1, CountedFinite, FS_EmptySet DEF TcpInv, CountOK
    <3>3. Rests
      BY <3>1, <3>2 DEF Passes, Admits, Completes, GateOpen
    <3> QED
      BY <3>1, <3>3 DEF Rests
  <2> QED
    BY <2>1 DEF StaysDrained
<1>2. DriverInv' /\ StateOfStage' /\ StartedInTime' /\ StaysClosed'
  BY DEF DrainInv, GateAlone, DriverInv, StateOfStage, StartedInTime, StaysClosed
<1>3. NothingTaken'
  BY DEF DrainInv, GateAlone, NothingTaken
<1> QED
  BY <1>1, <1>2, <1>3 DEF DrainInv

\* start() opens the gate of an active back end only.
LEMMA StartDrains ==
  ASSUME NoLateStart, DrainInv, Start \/ StartAccepting
  PROVE  DrainInv'
BY DEF Start, StartAccepting, NoLateStart, May, DrainInv, DriverInv, StateOfStage, Undriven,
   StartedInTime, StaysClosed, StaysDrained, NothingTaken, ClosedStages, DrainedStages,
   gate_vars, client_vars, pool_vars

\* A stopper closes the gate, polls the count and only then takes things away.
LEMMA ShutdownDrains ==
  ASSUME NoLateStart, ShapeOK, DrainInv, NEW s \in Stoppers, Shutdown(s) \/ Throws(s)
  PROVE  DrainInv'
<1> USE DEF NoLateStart, DriverInv, StateOfStage, Undriven, DrainInv, StartedInTime,
        StaysClosed, StaysDrained, NothingTaken, ClosedStages, DrainedStages,
        Advance, ShapeOK, BackEndShape, gate_vars, pool_vars
<1>1. CASE CheckAndInitiateShutdown(s)
  BY <1>1 DEF CheckAndInitiateShutdown, InitiatesShutdown
<1>2. CASE ShutdownAlreadyInitiated(s)
  BY <1>2 DEF ShutdownAlreadyInitiated, InitiatesShutdown
<1>3. CASE StopAccepting(s)
  BY <1>3 DEF StopAccepting, CloseGate
<1>4. CASE PollRpcCount(s)
  BY <1>4 DEF PollRpcCount, RpcsDrained
<1>5. CASE DisconectManagers(s)
  BY <1>5 DEF DisconectManagers
<1>6. CASE ManagersNotified(s)
  BY <1>6 DEF ManagersNotified
<1>7. CASE ManagerCount(s)
  BY <1>7 DEF ManagerCount
<1>8. CASE AssertNoClients(s)
  BY <1>8 DEF AssertNoClients
<1>9. CASE WorkReset(s)
  BY <1>9 DEF WorkReset
<1>10. CASE JoinAll(s)
  BY <1>10 DEF JoinAll
<1>11. CASE Teardown(s)
  BY <1>11 DEF Teardown
<1>12. CASE TeardownFails(s)
  BY <1>12 DEF TeardownFails
<1>13. CASE Throws(s)
  BY <1>13 DEF Throws
<1> QED
  BY <1>1, <1>2, <1>3, <1>4, <1>5, <1>6, <1>7, <1>8, <1>9, <1>10, <1>11, <1>12, <1>13
  DEF Shutdown

\* Once the driver of a shutdown has found no request in flight, none is let in
\* any more, and only then are the pool and the services taken away, with or
\* without the exception that may end it.
THEOREM DrainInvariant ==
  ASSUME NoLateStart
  PROVE  Spec => []DrainInv
<1>1. Init => DrainInv
  BY DEF Init, BackEndInit, DrainInv, DriverInv, StateOfStage, Undriven, StartedInTime,
     StaysClosed, StaysDrained, NothingTaken, ClosedStages, DrainedStages
<1>2. TcpInv /\ DrainInv /\ [Next]_vars => DrainInv'
  BY KindsOfStep, RequestsDrain, StartDrains, ShutdownDrains DEF TcpInv
<1> QED
  BY <1>1, <1>2, TcpInvariant, PTL DEF Spec

\* As long as the front end exists, a connection with an operation, a completion
\* or a request under way is neither erased nor destroyed (the completion of a
\* header after the shutdown handler excepted), and a request that the back end
\* has let in finds the services and the pool, for any number of connections,
\* pool threads and stoppers and whatever peers do, if nobody starts a back end
\* that shuts down.
THEOREM ConnectionsOutliveUse ==
  ASSUME NoLateStart
  PROVE  Spec => []UsedConnectionsLive
<1>1. TcpInv /\ DrainInv => UsedConnectionsLive
  <2> SUFFICES ASSUME TcpInv, DrainInv, NEW c \in Clients
               PROVE  /\ front # "gone" /\ InUse(c) =>
                           c \in m_connections /\ c \in m_connected_clients
                      /\ Counted(c) => torn = 0 /\ ~m_stopped
    BY DEF UsedConnectionsLive
  <2>1. ConnOK(c) /\ LiveOK /\ handlers \in Seq(Handlers)
    BY DEF TcpInv, ConnInv, ShapeOK, FrontShape
  <2>2. ASSUME front # "gone", InUse(c) PROVE c \in m_connections /\ c \in m_connected_clients
    <3>1. ASSUME NEW i \in Completions(c), handlers[i].h = "header" => ~m_shutdown_initiated
          PROVE  c \in m_connections
      <4>1. i \in DOMAIN handlers /\ handlers[i].c = c
        BY DEF Completions
      <4>2. handlers[i] \in Handlers
        BY <2>1, <4>1
      <4>3. handlers[i].h \in HandlerKinds
        BY <4>2 DEF Handlers, HandlerKinds
      <4>4. Has(handlers, c, handlers[i].h)
        BY <4>1 DEF Has
      <4>5. handlers[i].h \in {"header", "body", "write"}
        BY <2>1, <4>3, <4>4 DEF ConnOK, QueueOK
      <4> QED
        BY <2>1, <3>1, <4>4, <4>5 DEF ConnOK, LifeOK
    <3>2. CASE op[c] # "none" \/ current = c \/ Referenced(c)
      BY <2>1, <2>2, <3>2 DEF ConnOK, SocketOK, RequestOK, LiveOK
    <3> QED
      BY <2>1, <2>2, <3>1, <3>2 DEF InUse, LiveOK
  <2>3. ASSUME Counted(c) PROVE torn = 0 /\ ~m_stopped
    <3>1. c \in CountedConns
      BY <2>3 DEF CountedConns
    <3>2. m_active_rpc_count # 0
      BY <3>1, CountedFinite, FS_EmptySet DEF TcpInv, CountOK
    <3> QED
      BY <3>2 DEF DrainInv, StaysDrained, NothingTaken
  <2> QED
    BY <2>2, <2>3
<1> QED
  BY <1>1, TcpInvariant, DrainInvariant, PTL

-----------------------------------------------------------------------------
(***************************************************************************)
(* The front end and its back end implement RpcGate.                       *)
(***************************************************************************)

\* The phase that the stage of the driver stands for.
PhaseOfStage ==
  /\ m_shutdown_state = "ACTIVE" => GatePhase = "serving"
  /\ \A s \in Stoppers :
       /\ sd[s] \in {"initiated", "draining"} => GatePhase = "draining"
       /\ sd[s] \in DrainedStages \ {"tearing", "done", "threw"} => GatePhase = "drained"
       /\ sd[s] \in {"tearing", "done", "threw"} => GatePhase = "closed"

\* The abstract phase follows the driver ...
LEMMA Phases == DrainInv => PhaseOfStage
BY DEF DrainInv, DriverInv, Undriven, StateOfStage, PhaseOfStage, GatePhase,
   ClosedStages, DrainedStages

\* ... after a step too.
LEMMA PhasesNext == DrainInv' => PhaseOfStage'
BY DEF DrainInv, DriverInv, Undriven, StateOfStage, PhaseOfStage, GatePhase,
   ClosedStages, DrainedStages

\* Steps outside start() and shutdown() admit and complete requests, no more.
LEMMA RequestsPassGate ==
  ASSUME GateAlone, Passes
  PROVE  [Gate!GateNext]_(Gate!gate)
<1>1. UNCHANGED <<GatePhase, m_accepting_requests>>
  BY DEF GatePhase, GateAlone
<1>2. CASE \E c \in Clients : Admits(c) \/ Completes(c)
  BY <1>1, <1>2 DEF Admits, Completes, GateOpen, CountedConns, Gate!GateNext, Gate!Admit,
     Gate!Complete
<1>3. CASE Rests
  BY <1>1, <1>3 DEF Rests, CountedConns, Gate!gate
<1> QED
  BY <1>2, <1>3 DEF Passes

\* start() opens the gate while it serves.
LEMMA StartOpensGate ==
  ASSUME ShapeOK, DrainInv, Rests, Start \/ StartAccepting
  PROVE  [Gate!GateNext]_(Gate!gate)
<1> USE DEF gate_vars, client_vars, pool_vars, Rests, CountedConns
<1>1. UNCHANGED GatePhase
  BY DEF Start, StartAccepting, GatePhase
<1>2. CASE Start
  BY <1>1, <1>2 DEF Start, Gate!gate
<1>3. CASE StartAccepting
  <2>1. m_accepting_requests' = TRUE /\ GatePhase = "serving" /\ m_accepting_requests \in BOOLEAN
    BY <1>3, Phases DEF StartAccepting, DrainInv, StartedInTime, PhaseOfStage, ShapeOK, BackEndShape
  <2> QED
    BY <1>1, <2>1 DEF Gate!gate, Gate!GateNext, Gate!Toggle
<1> QED
  BY <1>2, <1>3

\* The driver of the shutdown begins to drain, shuts the gate, finds it drained
\* and closes it, in this order, or closes it early with an exception.
LEMMA ShutdownClosesGate ==
  ASSUME TcpInv, DrainInv, DrainInv', Rests, NEW s \in Stoppers, Shutdown(s) \/ Throws(s)
  PROVE  [Gate!GateNext]_(Gate!gate)
<1>1. PhaseOfStage /\ PhaseOfStage' /\ sd \in [Stoppers -> StopperStages]
  BY Phases, PhasesNext DEF TcpInv, ShapeOK, BackEndShape
<1> USE DEF gate_vars, client_vars, pool_vars, Advance
<1>2. {c \in Clients : Counted(c)}' = {c \in Clients : Counted(c)}
  BY DEF Rests, CountedConns
<1>3. CASE CheckAndInitiateShutdown(s)
  <2>1. GatePhase = "serving" /\ GatePhase' = "draining" /\ UNCHANGED m_accepting_requests
    BY <1>1, <1>3 DEF CheckAndInitiateShutdown, InitiatesShutdown, PhaseOfStage
  <2> QED
    BY <1>2, <2>1 DEF Gate!GateNext, Gate!BeginDraining
<1>4. CASE ShutdownAlreadyInitiated(s)
  <2>1. UNCHANGED <<GatePhase, m_accepting_requests>>
    BY <1>1, <1>4 DEF ShutdownAlreadyInitiated, GatePhase
  <2> QED
    BY <1>2, <2>1 DEF Gate!gate
<1>5. CASE StopAccepting(s)
  <2>1. UNCHANGED GatePhase /\ m_accepting_requests' = FALSE
    BY <1>1, <1>5 DEF StopAccepting, CloseGate, PhaseOfStage
  <2> QED
    BY <1>2, <2>1 DEF Gate!GateNext, Gate!Shut
<1>6. CASE PollRpcCount(s)
  <2>1. GatePhase = "draining" /\ GatePhase' = "drained" /\ UNCHANGED m_accepting_requests
    BY <1>1, <1>6 DEF PollRpcCount, PhaseOfStage, ClosedStages, DrainedStages
  <2>2. ~m_accepting_requests
    BY <1>6 DEF PollRpcCount, DrainInv, StaysClosed, ClosedStages
  <2>3. {c \in Clients : Counted(c)} = {}
    BY <1>6, CountedFinite, FS_EmptySet DEF PollRpcCount, RpcsDrained, TcpInv, CountOK, CountedConns
  <2> QED
    BY <1>2, <2>1, <2>2, <2>3 DEF Gate!GateNext, Gate!Drained
<1>7. CASE \/ DisconectManagers(s) \/ ManagersNotified(s) \/ ManagerCount(s)
           \/ AssertNoClients(s) \/ WorkReset(s) \/ Teardown(s) \/ TeardownFails(s)
  <2>1. UNCHANGED <<m_accepting_requests, m_shutdown_state>>
    BY <1>7 DEF DisconectManagers, ManagersNotified, ManagerCount, AssertNoClients,
       WorkReset, Teardown, TeardownFails
  <2>2. UNCHANGED GatePhase
    BY <1>1, <1>7 DEF DisconectManagers, ManagersNotified, ManagerCount, AssertNoClients,
       WorkReset, Teardown, TeardownFails, PhaseOfStage, ClosedStages, DrainedStages
  <2> QED
    BY <1>2, <2>1, <2>2 DEF Gate!gate
<1>8. CASE JoinAll(s) \/ Throws(s)
  <2>1. GatePhase = "drained" /\ GatePhase' = "closed" /\ UNCHANGED m_accepting_requests
    BY <1>1, <1>8 DEF JoinAll, Throws, PhaseOfStage, ClosedStages, DrainedStages
  <2> QED
    BY <1>2, <2>1 DEF Gate!GateNext, Gate!Close
<1> QED
  BY <1>3, <1>4, <1>5, <1>6, <1>7, <1>8 DEF Shutdown

\* Under a TCP front end, and with a shutdown that an exception of the front end
\* may cut short, the back end still implements the abstract gate: a shutdown
\* passes its drain only when nothing is in flight and nothing can be let in any
\* more, for any number of connections, pool threads and stoppers.
THEOREM TcpGateRefined ==
  ASSUME NoLateStart
  PROVE  Spec => TcpImplementsGate
<1>1. Init => Gate!GateInit
  BY BackEndAssumption DEF Init, BackEndInit, Gate!GateInit, GatePhase, Counted, InPool
<1>2. TcpInv /\ DrainInv /\ DrainInv' /\ [Next]_vars => [Gate!GateNext]_(Gate!gate)
  BY KindsOfStep, RequestsPassGate, StartOpensGate, ShutdownClosesGate DEF TcpInv
<1> QED
  BY <1>1, <1>2, TcpInvariant, DrainInvariant, PTL DEF Spec, TcpImplementsGate, Gate!GateSpec
=============================================================================
