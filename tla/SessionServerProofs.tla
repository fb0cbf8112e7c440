------------------------ MODULE SessionServerProofs -------------------------
(***************************************************************************)
(* Theorems about Server, for any number of sockets, of calls of Close and *)
(* Abort, and any sizes of the pools; and about Session, for every window, *)
(* sequence and epoch width, rekey limit and grace.  The two parts share   *)
(* no state.                                                               *)
(*                                                                         *)
(* Session comes second.  TypeOK is inductive.  SendInv describes what the *)
(* sender has encrypted so far, ReceiveInv what the receiver has accepted  *)
(* and what its two windows remember of it; together with TypeOK they are  *)
(* inductive, and the safety properties of Session follow from them.       *)
(***************************************************************************)
EXTENDS Server, Session, FiniteSetTheorems, TLAPS

Labels ==
  {"new", "accepted", "handshake", "slot", "admission", "register", "start", "await",
   "unregister", "disconnect", "release", "cleanup", "finish", "exited"}

SockType ==
  [ pc : Labels, open : BOOLEAN,
    runtime : {"none", "made", "running", "aborted", "closing", "done"},
    watcher : {"none", "watch", "exited"}, admitted : BOOLEAN, disconnected : Nat ]

SrvType ==
  [ listener : {"unset", "open", "closed"}, inShutdown : BOOLEAN, handshakes : Int,
    connSlots : Int, handshakeConns : SUBSET Sockets, conns : SUBSET Sockets, wg : Int ]

StopType ==
  [ at : {"idle", "listener", "sweep", "wait", "returned"}, listener : BOOLEAN,
    sockets : SUBSET Sockets, conns : SUBSET Sockets ]

(* Serve has a socket in hand between Accept and registerHandshake only. *)
ServeType ==
  { r \in [at : {"idle", "accept", "register", "delay", "returned"}, holds : SUBSET Sockets] :
      /\ r.at # "register" => r.holds = {}
      /\ \A c, d \in r.holds : c = d }

Types ==
  /\ serve \in ServeType /\ srv \in SrvType
  /\ sock \in [Sockets -> SockType] /\ stop \in [Stopping -> StopType]

-----------------------------------------------------------------------------
(* One socket: what its worker has made of runtime and hooks at each point of
   handleConn, and which of the two maps and of Serve has it.               *)
Handed == {"start", "await", "unregister"}
Over == {"release", "cleanup", "finish", "exited"}

SocketInv(s, pending, active, held) ==
  /\ s.pc \in {"new", "accepted", "handshake", "slot"} =>
       s.runtime = "none" /\ s.watcher = "none" /\ ~s.admitted
  /\ s.pc \in {"admission", "register"} => s.runtime = "made" /\ s.watcher = "none"
  /\ s.pc \in {"unregister", "disconnect", "release"} => s.runtime = "done"
  /\ s.pc \in Over => s.runtime \in {"none", "done"}
  /\ s.runtime \in {"done", "aborted"} => ~s.open
  /\ s.pc = "admission" => ~s.admitted
  /\ s.pc \in Handed \cup {"register", "disconnect"} => s.admitted
  /\ s.admitted => s.runtime # "none"
  /\ s.disconnected = IF s.admitted /\ s.pc \in Over THEN 1 ELSE 0
  /\ pending => s.pc \in {"handshake", "slot", "admission", "register", "disconnect",
                          "release", "cleanup"}
  /\ s.pc \in {"handshake", "slot", "admission", "register"} => pending
  /\ s.pc = "cleanup" /\ s.runtime = "none" => pending
  /\ active <=> s.pc \in Handed
  /\ held => s.pc = "accepted"
  /\ s.open => s.pc \in Live \/ held

SocketsOk ==
  \A c \in Sockets :
    SocketInv(sock[c], c \in srv.handshakeConns, c \in srv.conns, c \in serve.holds)

(* The pools and the wait group count sockets. *)
InHandshake == {c \in Sockets : sock[c].pc = "handshake" \/ c \in serve.holds}
InSlot == {c \in Sockets : sock[c].pc \in HoldsSlot}
Working == {c \in Sockets : sock[c].pc \in Live \cup {"finish"}}

Counts ==
  /\ IsFiniteSet(InHandshake) /\ IsFiniteSet(InSlot) /\ IsFiniteSet(Working)
  /\ srv.handshakes = Cardinality(InHandshake) /\ srv.handshakes <= MaxConcurrentHandshakes
  /\ srv.connSlots = Cardinality(InSlot) /\ srv.connSlots <= MaxActiveConnections
  /\ srv.wg = Cardinality(Working)

(* What a stop has still to close: every socket that a worker keeps open is in
   its snapshot, and only runtimes that were handed over are in that of conns. *)
Exposed(s) == s.pc \in Live /\ s.open /\ s.runtime # "closing"

SnapshotInv(k) ==
  /\ stop[k].at # "idle" =>
       /\ srv.inShutdown
       /\ \A c \in Sockets : Exposed(sock[c]) => c \in stop[k].sockets \cup stop[k].conns
  /\ \A c \in stop[k].conns : sock[c].admitted /\ sock[c].pc # "register"
  /\ stop[k].at \in {"wait", "returned"} => stop[k].sockets = {} /\ stop[k].conns = {}
  /\ stop[k].at = "returned" /\ k \in Closers => srv.wg = 0

Snapshots == \A k \in Stopping : SnapshotInv(k)

Core == Types /\ SocketsOk /\ Counts
IInv == Core /\ Snapshots

-----------------------------------------------------------------------------
LEMMA InitInv == Init => IInv
<1> SUFFICES ASSUME Init PROVE IInv
  BY Zenon
<1> USE DEF Init
<1>1. Types
  BY DEF Types, ServeType, SrvType, SockType, Labels, StopType, Stopping
<1>2. SocketsOk
  BY Zenon DEF SocketsOk, SocketInv, Handed, Over, Live, HoldsSlot
<1>3. InHandshake = {} /\ InSlot = {} /\ Working = {}
  BY Zenon DEF InHandshake, InSlot, Working, Live, HoldsSlot
<1>4. Counts
  BY <1>3, FS_EmptySet, ServerAssumption DEF Counts
<1>5. Snapshots
  BY Zenon DEF Snapshots, SnapshotInv, Stopping
<1>q. QED
  BY <1>1, <1>2, <1>4, <1>5, Zenon DEF IInv, Core

(* A set that gains or loses one element. *)
Bit(b) == IF b THEN 1 ELSE 0

LEMMA Recount ==
  ASSUME NEW S, NEW T, NEW c, IsFiniteSet(S), T \ {c} = S \ {c}
  PROVE  /\ IsFiniteSet(T) /\ Cardinality(S) \in Nat /\ Cardinality(T) \in Nat
         /\ Cardinality(T) = Cardinality(S) + Bit(c \in T) - Bit(c \in S)
<1>1. /\ IsFiniteSet(S \ {c}) /\ Cardinality(S) \in Nat
      /\ Cardinality(S \ {c}) = IF c \in S THEN Cardinality(S) - 1 ELSE Cardinality(S)
  BY FS_RemoveElement, FS_CardinalityType, Zenon
<1>2. IsFiniteSet(T \ {c})
  BY <1>1, Zenon
<1>3. CASE c \in T
  <2>1. T = (T \ {c}) \cup {c} /\ c \notin T \ {c}
    BY <1>3, Zenon
  <2>2. IsFiniteSet(T) /\ Cardinality(T) = Cardinality(T \ {c}) + 1
    BY <1>2, <2>1, FS_AddElement, Zenon
  <2>3. Cardinality(T) = Cardinality(S \ {c}) + 1
    BY <2>2, Zenon
  <2>4. Cardinality(T) \in Nat
    BY <2>2, FS_CardinalityType, Zenon
  <2>q. QED BY <1>1, <1>3, <2>2, <2>3, <2>4 DEF Bit
<1>4. CASE c \notin T
  <2>1. T = T \ {c}
    BY <1>4, Zenon
  <2>2. IsFiniteSet(T) /\ Cardinality(T) = Cardinality(S \ {c})
    BY <1>1, <2>1, Zenon
  <2>3. Cardinality(T) \in Nat
    BY <2>2, FS_CardinalityType, Zenon
  <2>q. QED BY <1>1, <1>4, <2>2, <2>3 DEF Bit
<1>q. QED
  BY <1>3, <1>4, Zenon

(* A step that changes one socket and counts it. *)
Recounted(c, s) ==
  /\ srv'.handshakes = srv.handshakes + Bit(s.pc = "handshake" \/ c \in serve'.holds)
                                      - Bit(sock[c].pc = "handshake" \/ c \in serve.holds)
  /\ srv'.handshakes > srv.handshakes => srv.handshakes < MaxConcurrentHandshakes
  /\ srv'.connSlots = srv.connSlots + Bit(s.pc \in HoldsSlot) - Bit(sock[c].pc \in HoldsSlot)
  /\ srv'.connSlots > srv.connSlots => srv.connSlots < MaxActiveConnections
  /\ srv'.wg = srv.wg + Bit(s.pc \in Live \cup {"finish"})
                      - Bit(sock[c].pc \in Live \cup {"finish"})

Moves(c, s) ==
  /\ sock' = [sock EXCEPT ![c] = s]
  /\ serve' \in ServeType /\ serve'.holds \ {c} = serve.holds \ {c}
  /\ srv' \in SrvType /\ srv'.inShutdown = srv.inShutdown
  /\ srv'.handshakeConns \ {c} = srv.handshakeConns \ {c}
  /\ srv'.conns \ {c} = srv.conns \ {c}
  /\ SocketInv(s, c \in srv'.handshakeConns, c \in srv'.conns, c \in serve'.holds)
  /\ Recounted(c, s)

LEMMA MovesOthers ==
  ASSUME Types, NEW c \in Sockets, NEW s \in SockType, Moves(c, s)
  PROVE  /\ sock' \in [Sockets -> SockType] /\ sock'[c] = s
         /\ \A d \in Sockets \ {c} : sock'[d] = sock[d]
BY Zenon DEF Types, Moves

LEMMA MoveCounts ==
  ASSUME Types, Counts, NEW c \in Sockets, NEW s \in SockType, Moves(c, s)
  PROVE  Counts' /\ srv'.wg \in Nat
<1>1. sock'[c] = s /\ \A d \in Sockets \ {c} : sock'[d] = sock[d]
  BY MovesOthers, Zenon
<1>2. serve'.holds \ {c} = serve.holds \ {c}
  BY Zenon DEF Moves
<1>3. InHandshake' \ {c} = InHandshake \ {c}
  BY <1>1, <1>2, Zenon DEF InHandshake
<1>4. InSlot' \ {c} = InSlot \ {c}
  BY <1>1 DEF InSlot
<1>5. Working' \ {c} = Working \ {c}
  BY <1>1, Zenon DEF Working
<1>6. /\ c \in InHandshake <=> (sock[c].pc = "handshake" \/ c \in serve.holds)
      /\ c \in InHandshake' <=> (s.pc = "handshake" \/ c \in serve'.holds)
      /\ c \in InSlot <=> sock[c].pc \in HoldsSlot
      /\ c \in InSlot' <=> s.pc \in HoldsSlot
      /\ c \in Working <=> sock[c].pc \in Live \cup {"finish"}
      /\ c \in Working' <=> s.pc \in Live \cup {"finish"}
  BY <1>1, Zenon DEF InHandshake, InSlot, Working
<1>7. /\ IsFiniteSet(InHandshake') /\ Cardinality(InHandshake) \in Nat
      /\ Cardinality(InHandshake') \in Nat
      /\ Cardinality(InHandshake') =
           Cardinality(InHandshake) + Bit(c \in InHandshake') - Bit(c \in InHandshake)
  BY <1>3, Recount, Zenon DEF Counts
<1>8. /\ IsFiniteSet(InSlot') /\ Cardinality(InSlot) \in Nat /\ Cardinality(InSlot') \in Nat
      /\ Cardinality(InSlot') = Cardinality(InSlot) + Bit(c \in InSlot') - Bit(c \in InSlot)
  BY <1>4, Recount, Zenon DEF Counts
<1>9. /\ IsFiniteSet(Working') /\ Cardinality(Working) \in Nat /\ Cardinality(Working') \in Nat
      /\ Cardinality(Working') =
           Cardinality(Working) + Bit(c \in Working') - Bit(c \in Working)
  BY <1>5, Recount, Zenon DEF Counts
<1>10. /\ srv'.handshakes = Cardinality(InHandshake')
       /\ srv'.handshakes <= MaxConcurrentHandshakes
  BY <1>6, <1>7, ServerAssumption DEF Moves, Recounted, Counts, Bit
<1>11. srv'.connSlots = Cardinality(InSlot') /\ srv'.connSlots <= MaxActiveConnections
  BY <1>6, <1>8, ServerAssumption DEF Moves, Recounted, Counts, Bit
<1>12. srv'.wg = Cardinality(Working')
  BY <1>6, <1>9, Zenon DEF Moves, Recounted, Counts, Bit
<1>q. QED
  BY <1>7, <1>8, <1>9, <1>10, <1>11, <1>12, Zenon DEF Counts

LEMMA MoveCore ==
  ASSUME Core, NEW c \in Sockets, NEW s \in SockType, Moves(c, s),
         stop' \in [Stopping -> StopType]
  PROVE  Core'
<1>1. /\ sock' \in [Sockets -> SockType] /\ sock'[c] = s
      /\ \A d \in Sockets \ {c} : sock'[d] = sock[d]
  BY MovesOthers, Zenon DEF Core
<1>2. Types'
  BY <1>1, Zenon DEF Types, Moves, Stopping
<1>3. SocketsOk'
  <2>1. ASSUME NEW d \in Sockets, d # c
        PROVE  SocketInv(sock[d], d \in srv.handshakeConns, d \in srv.conns, d \in serve.holds)'
    <3>1. /\ d \in srv'.handshakeConns <=> d \in srv.handshakeConns
          /\ d \in srv'.conns <=> d \in srv.conns
          /\ d \in serve'.holds <=> d \in serve.holds
      BY <2>1, Zenon DEF Moves
    <3>2. sock'[d] = sock[d]
      BY <1>1, <2>1, Zenon
    <3>3. SocketInv(sock[d], d \in srv.handshakeConns, d \in srv.conns, d \in serve.holds)
      BY Zenon DEF Core, SocketsOk
    <3>q. QED BY <3>1, <3>2, <3>3, Zenon DEF SocketInv
  <2>2. SocketInv(sock[c], c \in srv.handshakeConns, c \in srv.conns, c \in serve.holds)'
    BY <1>1, Zenon DEF Moves
  <2>q. QED BY <2>1, <2>2, Zenon DEF SocketsOk
<1>4. Counts'
  BY MoveCounts, Zenon DEF Core
<1>q. QED
  BY <1>2, <1>3, <1>4, Zenon DEF Core

(* The same for a step that leaves the stops alone: it exposes nothing. *)
LEMMA MoveInv ==
  ASSUME IInv, NEW c \in Sockets, NEW s \in SockType, Moves(c, s), UNCHANGED stop,
         srv.inShutdown /\ Exposed(s) => Exposed(sock[c]),
         srv.inShutdown => srv'.wg <= srv.wg,
         sock[c].admitted /\ sock[c].pc # "register" => s.admitted /\ s.pc # "register"
  PROVE  IInv'
<1>1. Core'
  BY MoveCore, Zenon DEF IInv, Core, Types
<1>2. /\ sock'[c] = s /\ \A d \in Sockets \ {c} : sock'[d] = sock[d]
      /\ srv'.inShutdown = srv.inShutdown /\ srv'.wg \in Nat
  BY MovesOthers, MoveCounts, Zenon DEF IInv, Core, Moves
<1>3. ASSUME NEW k \in Stopping PROVE SnapshotInv(k)'
  <2>1. SnapshotInv(k) /\ stop'[k] = stop[k] /\ stop[k] \in StopType
    BY Zenon DEF IInv, Core, Types, Snapshots
  <2>2. \A d \in stop[k].conns : sock'[d].admitted /\ sock'[d].pc # "register"
    BY <1>2, <2>1 DEF SnapshotInv, StopType
  <2>3. stop[k].at # "idle" =>
          /\ srv'.inShutdown
          /\ \A d \in Sockets : Exposed(sock'[d]) => d \in stop[k].sockets \cup stop[k].conns
    BY <1>2, <2>1, Zenon DEF SnapshotInv
  <2>4. stop[k].at = "returned" /\ k \in Closers => srv'.wg = 0
    BY <1>2, <2>1, <2>3 DEF SnapshotInv
  <2>q. QED BY <2>1, <2>2, <2>3, <2>4, Zenon DEF SnapshotInv, Exposed
<1>q. QED
  BY <1>1, <1>3, Zenon DEF IInv, Snapshots, Stopping

-----------------------------------------------------------------------------
(* The steps. *)
LEMMA Facts ==
  ASSUME IInv, NEW c \in Sockets
  PROVE  /\ sock[c] \in SockType /\ srv \in SrvType /\ serve \in ServeType
         /\ SocketInv(sock[c], c \in srv.handshakeConns, c \in srv.conns, c \in serve.holds)
BY Zenon DEF IInv, Core, Types, SocketsOk

(* Steps of one socket that neither the maps nor the pools notice. *)
LEMMA QuietMove ==
  ASSUME IInv, NEW c \in Sockets, NEW s \in SockType,
         sock' = [sock EXCEPT ![c] = s], UNCHANGED <<srv, serve, stop>>,
         SocketInv(s, c \in srv.handshakeConns, c \in srv.conns, c \in serve.holds),
         s.pc = "handshake" <=> sock[c].pc = "handshake",
         s.pc \in HoldsSlot <=> sock[c].pc \in HoldsSlot,
         s.pc \in Live \cup {"finish"} <=> sock[c].pc \in Live \cup {"finish"},
         srv.inShutdown /\ Exposed(s) => Exposed(sock[c]),
         sock[c].admitted /\ sock[c].pc # "register" => s.admitted /\ s.pc # "register"
  PROVE  IInv'
<1>1. srv \in SrvType /\ serve \in ServeType
  BY Facts, Zenon
<1>2. srv.handshakes \in Int /\ srv.connSlots \in Int /\ srv.wg \in Int
  BY <1>1, Zenon DEF SrvType
<1>3. Recounted(c, s)
  BY <1>2 DEF Recounted, Bit
<1>4. Moves(c, s)
  BY <1>1, <1>3, Zenon DEF Moves
<1>q. QED
  BY <1>2, <1>4, MoveInv

LEMMA ClosedIs ==
  ASSUME NEW s \in SockType
  PROVE  /\ Closed(s) \in SockType /\ Aborted(s) \in SockType
         /\ Closed(s).pc = s.pc /\ Closed(s).watcher = s.watcher
         /\ Closed(s).admitted = s.admitted /\ Closed(s).disconnected = s.disconnected
         /\ Aborted(s).pc = s.pc /\ Aborted(s).watcher = s.watcher
         /\ Aborted(s).admitted = s.admitted /\ Aborted(s).disconnected = s.disconnected
         /\ Closed(s).open => s.open
         /\ Aborted(s).open => s.open
         /\ s.runtime \in {"made", "aborted"} => Closed(s).runtime = "done" /\ ~Closed(s).open
         /\ s.runtime = "running" => Closed(s).runtime = "closing"
         /\ s.runtime \in {"none", "closing", "done"} => Closed(s) = s
         /\ s.runtime = "made" => Aborted(s).runtime = "aborted" /\ ~Aborted(s).open
         /\ s.runtime = "running" => Aborted(s).runtime = "closing"
         /\ s.runtime \in {"none", "aborted", "closing", "done"} => Aborted(s) = s
BY Zenon DEF SockType, Closed, Aborted

LEMMA AdmissionInv ==
  ASSUME IInv, NEW c \in Sockets, Admission(c), UNCHANGED <<serve, stop>>
  PROVE  IInv'
<1>1. /\ sock[c] \in SockType /\ sock[c].pc = "admission" /\ UNCHANGED srv
      /\ SocketInv(sock[c], c \in srv.handshakeConns, c \in srv.conns, c \in serve.holds)
  BY Facts, Zenon DEF Admission
<1>2. sock[c].runtime = "made" /\ ~sock[c].admitted
  BY <1>1, Zenon DEF SocketInv
<1>3. CASE Goto(c, [sock[c] EXCEPT !.admitted = TRUE], "register")
  <2>1. PICK s : s = [[sock[c] EXCEPT !.admitted = TRUE] EXCEPT !.pc = "register"]
    BY Zenon
  <2>2. /\ s \in SockType /\ s.pc = "register" /\ s.admitted = TRUE /\ s.open = sock[c].open
        /\ s.runtime = sock[c].runtime /\ s.watcher = sock[c].watcher
        /\ s.disconnected = sock[c].disconnected
    BY <1>1, <2>1, Zenon DEF SockType, Labels
  <2>3. SocketInv(s, c \in srv.handshakeConns, c \in srv.conns, c \in serve.holds)
    BY <1>1, <2>2, Zenon DEF SocketInv, Handed, Over, Live, HoldsSlot
  <2>4. sock' = [sock EXCEPT ![c] = s]
    BY <1>3, <2>1, Zenon DEF Goto
  <2>q. QED
    BY <1>1, <1>2, <2>2, <2>3, <2>4, QuietMove, Zenon DEF Live, HoldsSlot, Exposed
<1>4. CASE Goto(c, Closed(sock[c]), "release")
  <2>1. PICK s : s = [Closed(sock[c]) EXCEPT !.pc = "release"]
    BY Zenon
  <2>2. /\ s \in SockType /\ s.pc = "release" /\ s.admitted = sock[c].admitted /\ ~s.open
        /\ s.runtime = "done" /\ s.disconnected = sock[c].disconnected
    BY <1>1, <1>2, <2>1, ClosedIs DEF SockType, Labels
  <2>3. SocketInv(s, c \in srv.handshakeConns, c \in srv.conns, c \in serve.holds)
    BY <1>1, <2>2, Zenon DEF SocketInv, Handed, Over, Live, HoldsSlot
  <2>4. sock' = [sock EXCEPT ![c] = s]
    BY <1>4, <2>1, Zenon DEF Goto
  <2>q. QED
    BY <1>1, <1>2, <2>2, <2>3, <2>4, QuietMove, Zenon DEF Live, HoldsSlot, Exposed
<1>q. QED
  BY <1>3, <1>4, Zenon DEF Admission

LEMMA StartConnInv ==
  ASSUME IInv, NEW c \in Sockets, StartConn(c), UNCHANGED <<serve, stop>>
  PROVE  IInv'
<1>1. /\ sock[c] \in SockType /\ sock[c].pc = "start" /\ UNCHANGED srv
      /\ SocketInv(sock[c], c \in srv.handshakeConns, c \in srv.conns, c \in serve.holds)
  BY Facts, Zenon DEF StartConn
<1>2. PICK r : r = CASE sock[c].runtime = "made" -> "running"
                     [] sock[c].runtime = "aborted" -> "closing"
                     [] OTHER -> sock[c].runtime
  BY Zenon
<1>3. /\ r \in {"none", "running", "closing", "done"}
      /\ r = "none" => sock[c].runtime = "none"
      /\ r = "done" => sock[c].runtime = "done"
      /\ sock[c].runtime = "closing" => r = "closing"
  BY <1>1, <1>2, Zenon DEF SockType
<1>4. PICK s : s = [[sock[c] EXCEPT !.runtime = r] EXCEPT !.pc = "await"]
  BY Zenon
<1>5. /\ s \in SockType /\ s.pc = "await" /\ s.admitted = sock[c].admitted
      /\ s.open = sock[c].open /\ s.runtime = r /\ s.watcher = sock[c].watcher
      /\ s.disconnected = sock[c].disconnected
  BY <1>1, <1>3, <1>4, Zenon DEF SockType, Labels
<1>6. SocketInv(s, c \in srv.handshakeConns, c \in srv.conns, c \in serve.holds)
  BY <1>1, <1>3, <1>5, Zenon DEF SocketInv, Handed, Over, Live, HoldsSlot
<1>7. sock' = [sock EXCEPT ![c] = s]
  BY <1>2, <1>4, Zenon DEF StartConn, Goto
<1>q. QED
  BY <1>1, <1>3, <1>5, <1>6, <1>7, QuietMove, Zenon DEF Live, HoldsSlot, Exposed

LEMMA AwaitDoneInv ==
  ASSUME IInv, NEW c \in Sockets, AwaitDone(c), UNCHANGED <<serve, stop>>
  PROVE  IInv'
<1>1. /\ sock[c] \in SockType /\ sock[c].pc = "await" /\ sock[c].runtime = "done"
      /\ SocketInv(sock[c], c \in srv.handshakeConns, c \in srv.conns, c \in serve.holds)
      /\ UNCHANGED srv
  BY Facts, Zenon DEF AwaitDone
<1>2. PICK s : s = [sock[c] EXCEPT !.pc = "unregister"]
  BY Zenon
<1>3. /\ s \in SockType /\ s.pc = "unregister" /\ s.admitted = sock[c].admitted
      /\ s.open = sock[c].open /\ s.runtime = "done" /\ s.watcher = sock[c].watcher
      /\ s.disconnected = sock[c].disconnected
  BY <1>1, <1>2, Zenon DEF SockType, Labels
<1>4. SocketInv(s, c \in srv.handshakeConns, c \in srv.conns, c \in serve.holds)
  BY <1>1, <1>3, Zenon DEF SocketInv, Handed, Over, Live, HoldsSlot
<1>5. sock' = [sock EXCEPT ![c] = s]
  BY <1>2, Zenon DEF AwaitDone, Goto
<1>q. QED
  BY <1>1, <1>3, <1>4, <1>5, QuietMove, Zenon DEF Live, HoldsSlot, Exposed

LEMMA OnDisconnectInv ==
  ASSUME IInv, NEW c \in Sockets, OnDisconnect(c), UNCHANGED <<serve, stop>>
  PROVE  IInv'
<1>1. /\ sock[c] \in SockType /\ sock[c].pc = "disconnect" /\ UNCHANGED srv
      /\ SocketInv(sock[c], c \in srv.handshakeConns, c \in srv.conns, c \in serve.holds)
  BY Facts, Zenon DEF OnDisconnect
<1>2. sock[c].disconnected = 0 /\ sock[c].admitted /\ sock[c].runtime = "done"
  BY <1>1, Zenon DEF SocketInv, Handed, Over
<1>n. sock[c].disconnected + 1 = 1 /\ 1 \in Nat
  BY <1>2
<1>3. PICK s : s = [[sock[c] EXCEPT !.disconnected = 1] EXCEPT !.pc = "release"]
  BY Zenon
<1>4. /\ s \in SockType /\ s.pc = "release" /\ s.admitted = sock[c].admitted
      /\ s.open = sock[c].open /\ s.runtime = "done" /\ s.watcher = sock[c].watcher
      /\ s.disconnected = 1
  BY <1>1, <1>2, <1>n, <1>3, Zenon DEF SockType, Labels
<1>5. SocketInv(s, c \in srv.handshakeConns, c \in srv.conns, c \in serve.holds)
  BY <1>1, <1>2, <1>4, Zenon DEF SocketInv, Handed, Over, Live, HoldsSlot
<1>6. sock' = [sock EXCEPT ![c] = s]
  BY <1>n, <1>3, Zenon DEF OnDisconnect, Goto
<1>q. QED
  BY <1>1, <1>2, <1>4, <1>5, <1>6, QuietMove, Zenon DEF Live, HoldsSlot, Exposed

(* The runtime ends by itself, or the watcher closes it. *)
LEMMA RuntimeInv ==
  ASSUME IInv, NEW c \in Sockets, ConnFails(c) \/ ConnDone(c)
  PROVE  IInv'
<1>1. /\ sock[c] \in SockType /\ UNCHANGED <<srv, serve, stop>>
      /\ SocketInv(sock[c], c \in srv.handshakeConns, c \in srv.conns, c \in serve.holds)
  BY Facts, Zenon DEF ConnFails, ConnDone
<1>2. CASE ConnFails(c)
  <2>1. PICK s : s = [sock[c] EXCEPT !.runtime = "closing"]
    BY ZenonT(40)
  <2>2. /\ s \in SockType /\ s.pc = sock[c].pc /\ s.admitted = sock[c].admitted
        /\ s.open = sock[c].open /\ s.runtime = "closing" /\ s.watcher = sock[c].watcher
        /\ s.disconnected = sock[c].disconnected /\ sock[c].runtime = "running"
    BY <1>1, <1>2, <2>1, Zenon DEF SockType, ConnFails
  <2>3. SocketInv(s, c \in srv.handshakeConns, c \in srv.conns, c \in serve.holds)
    BY <1>1, <2>2, Zenon DEF SocketInv
  <2>4. sock' = [sock EXCEPT ![c] = s]
    BY <1>2, <2>1, Zenon DEF ConnFails
  <2>q. QED
    BY <1>1, <2>2, <2>3, <2>4, QuietMove, Zenon DEF Exposed
<1>3. CASE ConnDone(c)
  <2>1. PICK s : s = [sock[c] EXCEPT !.runtime = "done", !.open = FALSE]
    BY Zenon
  <2>2. /\ s \in SockType /\ s.pc = sock[c].pc /\ s.admitted = sock[c].admitted
        /\ ~s.open /\ s.runtime = "done" /\ s.watcher = sock[c].watcher
        /\ s.disconnected = sock[c].disconnected /\ sock[c].runtime = "closing"
    BY <1>1, <1>3, <2>1, Zenon DEF SockType, ConnDone
  <2>3. SocketInv(s, c \in srv.handshakeConns, c \in srv.conns, c \in serve.holds)
    BY <1>1, <2>2, Zenon DEF SocketInv
  <2>4. sock' = [sock EXCEPT ![c] = s]
    BY <1>1, <1>3, <2>1, Zenon DEF ConnDone, IInv, Core, Types
  <2>q. QED
    BY <1>1, <2>2, <2>3, <2>4, QuietMove, Zenon DEF Exposed
<1>q. QED
  BY <1>2, <1>3, Zenon

LEMMA WatchInv ==
  ASSUME IInv, NEW c \in Sockets, Watch(c)
  PROVE  IInv'
<1>1. /\ sock[c] \in SockType /\ UNCHANGED <<srv, serve, stop>> /\ sock[c].watcher = "watch"
      /\ SocketInv(sock[c], c \in srv.handshakeConns, c \in srv.conns, c \in serve.holds)
  BY Facts, Zenon DEF Watch
<1>2. PICK t \in {sock[c], Closed(sock[c])} :
        sock' = [sock EXCEPT ![c] = [t EXCEPT !.watcher = "exited"]]
  BY Zenon DEF Watch
<1>3. /\ t \in SockType /\ t.pc = sock[c].pc /\ t.admitted = sock[c].admitted
      /\ t.disconnected = sock[c].disconnected /\ (t.open => sock[c].open)
      /\ \/ t.runtime = sock[c].runtime /\ t.open = sock[c].open
         \/ sock[c].runtime \in {"made", "aborted"} /\ t.runtime = "done" /\ ~t.open
         \/ sock[c].runtime = "running" /\ t.runtime = "closing"
  <2>1. sock[c].runtime \in {"none", "made", "running", "aborted", "closing", "done"}
    BY <1>1, Zenon DEF SockType
  <2>q. QED BY <1>1, <1>2, <2>1, ClosedIs
<1>4. PICK s : s = [t EXCEPT !.watcher = "exited"]
  BY Zenon
<1>5. /\ s \in SockType /\ s.pc = t.pc /\ s.admitted = t.admitted /\ s.open = t.open
      /\ s.runtime = t.runtime /\ s.watcher = "exited" /\ s.disconnected = t.disconnected
  BY <1>3, <1>4, Zenon DEF SockType
<1>6. SocketInv(s, c \in srv.handshakeConns, c \in srv.conns, c \in serve.holds)
  BY <1>1, <1>3, <1>5, ZenonT(40) DEF SocketInv
<1>7. Exposed(s) => Exposed(sock[c])
  BY <1>3, <1>5, Zenon DEF Exposed
<1>8. sock' = [sock EXCEPT ![c] = s]
  BY <1>2, <1>4, Zenon
<1>q. QED
  BY <1>1, <1>3, <1>5, <1>6, <1>7, <1>8, QuietMove, ZenonT(40)

(* The steps that count: each changes one pool, map or the wait group. *)
LEMMA SrvFields ==
  ASSUME srv \in SrvType
  PROVE  /\ srv.handshakes \in Int /\ srv.connSlots \in Int /\ srv.wg \in Int
         /\ srv.handshakeConns \subseteq Sockets /\ srv.conns \subseteq Sockets
BY Zenon DEF SrvType

LEMMA HandshakeInv ==
  ASSUME IInv, NEW c \in Sockets, Handshake(c), UNCHANGED <<serve, stop>>
  PROVE  IInv'
<1>1. /\ sock[c] \in SockType /\ sock[c].pc = "handshake"
      /\ srv \in SrvType /\ serve \in ServeType
      /\ SocketInv(sock[c], c \in srv.handshakeConns, c \in srv.conns, c \in serve.holds)
  BY Facts, Zenon DEF Handshake
<1>2. PICK label \in {"slot", "cleanup"} : sock' = [sock EXCEPT ![c] = [sock[c] EXCEPT !.pc = label]]
  BY Zenon DEF Handshake, Goto
<1>3. PICK s : s = [sock[c] EXCEPT !.pc = label]
  BY ZenonT(40)
<1>4. /\ s \in SockType /\ s.pc = label /\ s.admitted = sock[c].admitted
      /\ s.open = sock[c].open /\ s.runtime = sock[c].runtime /\ s.watcher = sock[c].watcher
      /\ s.disconnected = sock[c].disconnected
  BY <1>1, <1>3, Zenon DEF SockType, Labels
<1>5. /\ srv' \in SrvType /\ srv'.handshakes = srv.handshakes - 1 /\ srv'.wg = srv.wg
      /\ srv'.connSlots = srv.connSlots /\ srv'.handshakeConns = srv.handshakeConns
      /\ srv'.conns = srv.conns /\ srv'.inShutdown = srv.inShutdown
  BY <1>1 DEF Handshake, SrvType
<1>6. SocketInv(s, c \in srv'.handshakeConns, c \in srv'.conns, c \in serve'.holds)
  BY <1>1, <1>4, <1>5, Zenon DEF SocketInv, Handed, Over, Live, HoldsSlot
<1>7. Recounted(c, s)
  <2>1. c \notin serve.holds
    BY <1>1, Zenon DEF SocketInv
  <2>q. QED BY <1>1, <1>4, <1>5, <2>1, SrvFields, SMTT(40) DEF Recounted, Bit, Live, HoldsSlot
<1>8. Moves(c, s)
  BY <1>1, <1>2, <1>3, <1>5, <1>6, <1>7, Zenon DEF Moves
<1>9. srv'.wg <= srv.wg
  BY <1>1, <1>5, SrvFields
<1>q. QED
  BY <1>1, <1>4, <1>8, <1>9, MoveInv, Zenon DEF Exposed, Live, SocketInv

LEMMA AcquireSlotInv ==
  ASSUME IInv, NEW c \in Sockets, AcquireSlot(c), UNCHANGED <<serve, stop>>
  PROVE  IInv'
<1>1. /\ sock[c] \in SockType /\ sock[c].pc = "slot"
      /\ srv \in SrvType /\ serve \in ServeType
      /\ SocketInv(sock[c], c \in srv.handshakeConns, c \in srv.conns, c \in serve.holds)
  BY Facts, Zenon DEF AcquireSlot
<1>2. CASE srv.connSlots < MaxActiveConnections
  <2>1. PICK s : s = [[sock[c] EXCEPT !.runtime = "made"] EXCEPT !.pc = "admission"]
    BY Zenon
  <2>2. /\ s \in SockType /\ s.pc = "admission" /\ s.admitted = sock[c].admitted
        /\ s.open = sock[c].open /\ s.runtime = "made" /\ s.watcher = sock[c].watcher
        /\ s.disconnected = sock[c].disconnected
    BY <1>1, <2>1, Zenon DEF SockType, Labels
  <2>3. /\ srv' \in SrvType /\ srv'.connSlots = srv.connSlots + 1 /\ srv'.wg = srv.wg
        /\ srv'.handshakes = srv.handshakes /\ srv'.handshakeConns = srv.handshakeConns
        /\ srv'.conns = srv.conns /\ srv'.inShutdown = srv.inShutdown
    BY <1>1, <1>2 DEF AcquireSlot, SrvType
  <2>4. SocketInv(s, c \in srv'.handshakeConns, c \in srv'.conns, c \in serve'.holds)
    BY <1>1, <2>2, <2>3, Zenon DEF SocketInv, Handed, Over, Live, HoldsSlot
  <2>5. Recounted(c, s)
    BY <1>1, <1>2, <2>2, <2>3, SrvFields DEF Recounted, Bit, Live, HoldsSlot
  <2>6. sock' = [sock EXCEPT ![c] = s]
    BY <1>2, <2>1, Zenon DEF AcquireSlot, Goto
  <2>7. Moves(c, s)
    BY <1>1, <2>3, <2>4, <2>5, <2>6, Zenon DEF Moves
  <2>8. srv'.wg <= srv.wg
    BY <1>1, <2>3, SrvFields, SMTT(40)
  <2>q. QED
    BY <1>1, <2>2, <2>7, <2>8, MoveInv, Zenon DEF Exposed, Live, SocketInv
<1>3. CASE ~(srv.connSlots < MaxActiveConnections)
  <2>1. PICK s : s = [sock[c] EXCEPT !.pc = "cleanup"]
    BY Zenon
  <2>2. /\ s \in SockType /\ s.pc = "cleanup" /\ s.admitted = sock[c].admitted
        /\ s.open = sock[c].open /\ s.runtime = sock[c].runtime /\ s.watcher = sock[c].watcher
        /\ s.disconnected = sock[c].disconnected
    BY <1>1, <2>1, Zenon DEF SockType, Labels
  <2>3. SocketInv(s, c \in srv.handshakeConns, c \in srv.conns, c \in serve.holds)
    BY <1>1, <2>2, Zenon DEF SocketInv, Handed, Over, Live, HoldsSlot
  <2>4. sock' = [sock EXCEPT ![c] = s] /\ UNCHANGED srv
    BY <1>3, <2>1, Zenon DEF AcquireSlot, Goto
  <2>q. QED
    BY <1>1, <2>2, <2>3, <2>4, QuietMove, Zenon DEF Live, HoldsSlot, Exposed
<1>q. QED
  BY <1>2, <1>3, Zenon

LEMMA RegisterConnInv ==
  ASSUME IInv, NEW c \in Sockets, RegisterConn(c), UNCHANGED <<serve, stop>>
  PROVE  IInv'
<1>1. /\ sock[c] \in SockType /\ sock[c].pc = "register"
      /\ srv \in SrvType /\ serve \in ServeType
      /\ SocketInv(sock[c], c \in srv.handshakeConns, c \in srv.conns, c \in serve.holds)
  BY Facts, Zenon DEF RegisterConn
<1>2. CASE srv.inShutdown
  <2>0. sock[c].runtime = "made"
    BY <1>1, Zenon DEF SocketInv
  <2>1. PICK s : s = [Closed(sock[c]) EXCEPT !.pc = "disconnect"]
    BY Zenon
  <2>2. /\ s \in SockType /\ s.pc = "disconnect" /\ s.admitted = sock[c].admitted
        /\ ~s.open /\ s.runtime = "done" /\ s.disconnected = sock[c].disconnected
    BY <1>1, <2>0, <2>1, ClosedIs DEF SockType, Labels
  <2>3. SocketInv(s, c \in srv.handshakeConns, c \in srv.conns, c \in serve.holds)
    BY <1>1, <2>2, Zenon DEF SocketInv, Handed, Over, Live, HoldsSlot
  <2>4. sock' = [sock EXCEPT ![c] = s] /\ UNCHANGED srv
    BY <1>2, <2>1, Zenon DEF RegisterConn, Goto
  <2>q. QED
    BY <1>1, <2>2, <2>3, <2>4, QuietMove, Zenon DEF Live, HoldsSlot, Exposed
<1>3. CASE ~srv.inShutdown
  <2>1. PICK s : s = [[sock[c] EXCEPT !.watcher = "watch"] EXCEPT !.pc = "start"]
    BY Zenon
  <2>2. /\ s \in SockType /\ s.pc = "start" /\ s.admitted = sock[c].admitted
        /\ s.open = sock[c].open /\ s.runtime = sock[c].runtime
        /\ s.disconnected = sock[c].disconnected
    BY <1>1, <2>1, Zenon DEF SockType, Labels
  <2>3. /\ srv' \in SrvType /\ srv'.connSlots = srv.connSlots /\ srv'.wg = srv.wg
        /\ srv'.handshakes = srv.handshakes /\ srv'.inShutdown = srv.inShutdown
        /\ srv'.handshakeConns = srv.handshakeConns \ {c} /\ srv'.conns = srv.conns \cup {c}
    <3>1. srv' = [srv EXCEPT !.conns = srv.conns \cup {c},
                             !.handshakeConns = srv.handshakeConns \ {c}]
      BY <1>3, Zenon DEF RegisterConn
    <3>2. srv.conns \cup {c} \in SUBSET Sockets /\ srv.handshakeConns \ {c} \in SUBSET Sockets
      BY <1>1, SrvFields, Zenon
    <3>q. QED BY <1>1, <3>1, <3>2, Zenon DEF SrvType
  <2>4. SocketInv(s, c \in srv'.handshakeConns, c \in srv'.conns, c \in serve'.holds)
    BY <1>1, <2>2, <2>3, Zenon DEF SocketInv, Handed, Over, Live, HoldsSlot
  <2>5. Recounted(c, s)
    <3>1. s.pc \in HoldsSlot /\ sock[c].pc \in HoldsSlot /\ s.pc # "handshake"
      BY <1>1, <2>2, Zenon DEF HoldsSlot
    <3>2. s.pc \in Live /\ sock[c].pc \in Live /\ serve' = serve
      BY <3>1, Zenon DEF Live
    <3>q. QED BY <1>1, <2>3, <3>1, <3>2, SrvFields, SMTT(40) DEF Recounted, Bit
  <2>6. sock' = [sock EXCEPT ![c] = s]
    BY <1>3, <2>1, Zenon DEF RegisterConn, Goto
  <2>7. Moves(c, s)
    BY <1>1, <2>3, <2>4, <2>5, <2>6, Zenon DEF Moves
  <2>q. QED
    BY <1>1, <1>3, <2>2, <2>7, MoveInv, Zenon
<1>q. QED
  BY <1>2, <1>3, Zenon

LEMMA UnregisterConnInv ==
  ASSUME IInv, NEW c \in Sockets, UnregisterConn(c), UNCHANGED <<serve, stop>>
  PROVE  IInv'
<1>1. /\ sock[c] \in SockType /\ sock[c].pc = "unregister"
      /\ srv \in SrvType /\ serve \in ServeType
      /\ SocketInv(sock[c], c \in srv.handshakeConns, c \in srv.conns, c \in serve.holds)
  BY Facts, Zenon DEF UnregisterConn
<1>2. PICK s : s = [sock[c] EXCEPT !.pc = "disconnect"]
  BY ZenonT(40)
<1>3. /\ s \in SockType /\ s.pc = "disconnect" /\ s.admitted = sock[c].admitted
      /\ s.open = sock[c].open /\ s.runtime = sock[c].runtime /\ s.watcher = sock[c].watcher
      /\ s.disconnected = sock[c].disconnected
  BY <1>1, <1>2, Zenon DEF SockType, Labels
<1>4. /\ srv' \in SrvType /\ srv'.handshakes = srv.handshakes /\ srv'.wg = srv.wg
      /\ srv'.connSlots = srv.connSlots /\ srv'.handshakeConns = srv.handshakeConns
      /\ srv'.conns = srv.conns \ {c} /\ srv'.inShutdown = srv.inShutdown
  <2>1. srv' = [srv EXCEPT !.conns = srv.conns \ {c}] /\ srv.conns \ {c} \in SUBSET Sockets
    BY <1>1, SrvFields, Zenon DEF UnregisterConn
  <2>q. QED BY <1>1, <2>1, Zenon DEF SrvType
<1>5. SocketInv(s, c \in srv'.handshakeConns, c \in srv'.conns, c \in serve'.holds)
  BY <1>1, <1>3, <1>4, Zenon DEF SocketInv, Handed, Over, Live, HoldsSlot
<1>6. Recounted(c, s)
  BY <1>1, <1>3, <1>4, SrvFields DEF Recounted, Bit, Live, HoldsSlot
<1>7. sock' = [sock EXCEPT ![c] = s]
  BY <1>2, Zenon DEF UnregisterConn, Goto
<1>8. Moves(c, s)
  BY <1>1, <1>4, <1>5, <1>6, <1>7, Zenon DEF Moves
<1>9. srv'.wg <= srv.wg
  BY <1>1, <1>4, SrvFields, SMTT(40)
<1>q. QED
  BY <1>1, <1>3, <1>8, <1>9, MoveInv, Zenon DEF Exposed, Live, HoldsSlot

LEMMA ReleaseSlotInv ==
  ASSUME IInv, NEW c \in Sockets, ReleaseSlot(c), UNCHANGED <<serve, stop>>
  PROVE  IInv'
<1>1. /\ sock[c] \in SockType /\ sock[c].pc = "release"
      /\ srv \in SrvType /\ serve \in ServeType
      /\ SocketInv(sock[c], c \in srv.handshakeConns, c \in srv.conns, c \in serve.holds)
  BY Facts, Zenon DEF ReleaseSlot
<1>2. PICK s : s = [sock[c] EXCEPT !.pc = "cleanup"]
  BY Zenon
<1>3. /\ s \in SockType /\ s.pc = "cleanup" /\ s.admitted = sock[c].admitted
      /\ s.open = sock[c].open /\ s.runtime = sock[c].runtime /\ s.watcher = sock[c].watcher
      /\ s.disconnected = sock[c].disconnected
  BY <1>1, <1>2, Zenon DEF SockType, Labels
<1>4. /\ srv' \in SrvType /\ srv'.handshakes = srv.handshakes /\ srv'.wg = srv.wg
      /\ srv'.connSlots = srv.connSlots - 1 /\ srv'.handshakeConns = srv.handshakeConns
      /\ srv'.conns = srv.conns /\ srv'.inShutdown = srv.inShutdown
  BY <1>1 DEF ReleaseSlot, SrvType
<1>5. SocketInv(s, c \in srv'.handshakeConns, c \in srv'.conns, c \in serve'.holds)
  BY <1>1, <1>3, <1>4, Zenon DEF SocketInv, Handed, Over, Live, HoldsSlot
<1>6. Recounted(c, s)
  BY <1>1, <1>3, <1>4, SrvFields DEF Recounted, Bit, Live, HoldsSlot
<1>7. sock' = [sock EXCEPT ![c] = s]
  BY <1>2, Zenon DEF ReleaseSlot, Goto
<1>8. Moves(c, s)
  BY <1>1, <1>4, <1>5, <1>6, <1>7, Zenon DEF Moves
<1>9. srv'.wg <= srv.wg
  BY <1>1, <1>4, SrvFields
<1>q. QED
  BY <1>1, <1>3, <1>8, <1>9, MoveInv, Zenon DEF Exposed, Live, HoldsSlot

LEMMA CleanupInv ==
  ASSUME IInv, NEW c \in Sockets, Cleanup(c), UNCHANGED <<serve, stop>>
  PROVE  IInv'
<1>1. /\ sock[c] \in SockType /\ sock[c].pc = "cleanup"
      /\ srv \in SrvType /\ serve \in ServeType
      /\ SocketInv(sock[c], c \in srv.handshakeConns, c \in srv.conns, c \in serve.holds)
  BY Facts, Zenon DEF Cleanup
<1>2. PICK s : s = [[sock[c] EXCEPT !.open = FALSE] EXCEPT !.pc = "finish"]
  BY Zenon
<1>3. /\ s \in SockType /\ s.pc = "finish" /\ s.admitted = sock[c].admitted
      /\ ~s.open /\ s.runtime = sock[c].runtime /\ s.watcher = sock[c].watcher
      /\ s.disconnected = sock[c].disconnected
  BY <1>1, <1>2, Zenon DEF SockType, Labels
<1>4. /\ srv' \in SrvType /\ srv'.handshakes = srv.handshakes /\ srv'.wg = srv.wg
      /\ srv'.connSlots = srv.connSlots /\ srv'.handshakeConns = srv.handshakeConns \ {c}
      /\ srv'.conns = srv.conns /\ srv'.inShutdown = srv.inShutdown
  <2>1. /\ srv' = [srv EXCEPT !.handshakeConns = srv.handshakeConns \ {c}]
        /\ srv.handshakeConns \ {c} \in SUBSET Sockets
    BY <1>1, SrvFields, Zenon DEF Cleanup
  <2>q. QED BY <1>1, <2>1, Zenon DEF SrvType
<1>5. SocketInv(s, c \in srv'.handshakeConns, c \in srv'.conns, c \in serve'.holds)
  BY <1>1, <1>3, <1>4, Zenon DEF SocketInv, Handed, Over, Live, HoldsSlot
<1>6. Recounted(c, s)
  BY <1>1, <1>3, <1>4, SrvFields DEF Recounted, Bit, Live, HoldsSlot
<1>7. sock' = [sock EXCEPT ![c] = s]
  BY <1>2, Zenon DEF Cleanup, Goto
<1>8. Moves(c, s)
  BY <1>1, <1>4, <1>5, <1>6, <1>7, Zenon DEF Moves
<1>9. srv'.wg <= srv.wg
  BY <1>1, <1>4, SrvFields
<1>q. QED
  BY <1>1, <1>3, <1>8, <1>9, MoveInv, Zenon DEF Exposed

LEMMA FinishInv ==
  ASSUME IInv, NEW c \in Sockets, Finish(c), UNCHANGED <<serve, stop>>
  PROVE  IInv'
<1>1. /\ sock[c] \in SockType /\ sock[c].pc = "finish"
      /\ srv \in SrvType /\ serve \in ServeType
      /\ SocketInv(sock[c], c \in srv.handshakeConns, c \in srv.conns, c \in serve.holds)
  BY Facts, Zenon DEF Finish
<1>2. PICK s : s = [sock[c] EXCEPT !.pc = "exited"]
  BY Zenon
<1>3. /\ s \in SockType /\ s.pc = "exited" /\ s.admitted = sock[c].admitted
      /\ s.open = sock[c].open /\ s.runtime = sock[c].runtime /\ s.watcher = sock[c].watcher
      /\ s.disconnected = sock[c].disconnected
  BY <1>1, <1>2, Zenon DEF SockType, Labels
<1>4. /\ srv' \in SrvType /\ srv'.handshakes = srv.handshakes /\ srv'.wg = srv.wg - 1
      /\ srv'.connSlots = srv.connSlots /\ srv'.handshakeConns = srv.handshakeConns
      /\ srv'.conns = srv.conns /\ srv'.inShutdown = srv.inShutdown
  BY <1>1 DEF Finish, SrvType
<1>5. SocketInv(s, c \in srv'.handshakeConns, c \in srv'.conns, c \in serve'.holds)
  BY <1>1, <1>3, <1>4, Zenon DEF SocketInv, Handed, Over, Live, HoldsSlot
<1>6. Recounted(c, s)
  BY <1>1, <1>3, <1>4, SrvFields DEF Recounted, Bit, Live, HoldsSlot
<1>7. sock' = [sock EXCEPT ![c] = s]
  BY <1>2, Zenon DEF Finish, Goto
<1>8. Moves(c, s)
  BY <1>1, <1>4, <1>5, <1>6, <1>7, Zenon DEF Moves
<1>9. srv'.wg <= srv.wg
  BY <1>1, <1>4, SrvFields
<1>q. QED
  BY <1>1, <1>3, <1>8, <1>9, MoveInv, Zenon DEF Exposed, Live, HoldsSlot

LEMMA AcceptInv ==
  ASSUME IInv, NEW c \in Sockets, Accept(c)
  PROVE  IInv'
<1>1. /\ sock[c] \in SockType /\ sock[c].pc = "new"
      /\ srv \in SrvType /\ serve \in ServeType /\ serve.at = "accept"
      /\ SocketInv(sock[c], c \in srv.handshakeConns, c \in srv.conns, c \in serve.holds)
  BY Facts, Zenon DEF Accept
<1>2. serve.holds = {} /\ UNCHANGED stop
  BY <1>1, Zenon DEF ServeType, Accept
<1>3. PICK free \in BOOLEAN : free <=> srv.handshakes < MaxConcurrentHandshakes
  <2>1. CASE srv.handshakes < MaxConcurrentHandshakes
    BY <2>1, Zenon
  <2>2. CASE ~(srv.handshakes < MaxConcurrentHandshakes)
    BY <2>2, Zenon
  <2>q. QED BY <2>1, <2>2, Zenon
<1>4. PICK s : s = [sock[c] EXCEPT !.pc = "accepted", !.open = free]
  BY Zenon
<1>5. /\ s \in SockType /\ s.pc = "accepted" /\ s.admitted = sock[c].admitted
      /\ s.open = free /\ s.runtime = sock[c].runtime /\ s.watcher = sock[c].watcher
      /\ s.disconnected = sock[c].disconnected
  BY <1>1, <1>4, Zenon DEF SockType, Labels
<1>6. /\ srv' \in SrvType /\ srv'.wg = srv.wg
      /\ srv'.handshakes = IF free THEN srv.handshakes + 1 ELSE srv.handshakes
      /\ srv'.connSlots = srv.connSlots /\ srv'.handshakeConns = srv.handshakeConns
      /\ srv'.conns = srv.conns /\ srv'.inShutdown = srv.inShutdown
  <2>1. srv' = [srv EXCEPT !.handshakes = IF free THEN srv.handshakes + 1 ELSE srv.handshakes]
    BY <1>3, Zenon DEF Accept
  <2>2. (IF free THEN srv.handshakes + 1 ELSE srv.handshakes) \in Int
    BY <1>1, SrvFields
  <2>q. QED BY <1>1, <2>1, <2>2, Zenon DEF SrvType
<1>7. serve' \in ServeType /\ serve'.holds = IF free THEN {c} ELSE {}
  <2>1. CASE free
    BY <1>3, <2>1, Zenon DEF Accept, ServeType
  <2>2. CASE ~free
    BY <1>1, <1>2, <1>3, <2>2, Zenon DEF Accept
  <2>q. QED BY <2>1, <2>2, Zenon
<1>8. SocketInv(s, c \in srv'.handshakeConns, c \in srv'.conns, c \in serve'.holds)
  BY <1>1, <1>5, <1>6, <1>7, Zenon DEF SocketInv, Handed, Over, Live, HoldsSlot
<1>9. Recounted(c, s)
  <2>1. /\ s.pc \notin HoldsSlot /\ sock[c].pc \notin HoldsSlot
        /\ s.pc \notin Live \cup {"finish"} /\ sock[c].pc \notin Live \cup {"finish"}
    BY <1>1, <1>5, Zenon DEF Live, HoldsSlot
  <2>2. /\ Bit(s.pc \in HoldsSlot) = 0 /\ Bit(sock[c].pc \in HoldsSlot) = 0
        /\ Bit(s.pc \in Live \cup {"finish"}) = 0
        /\ Bit(sock[c].pc \in Live \cup {"finish"}) = 0
    BY <2>1, Zenon DEF Bit
  <2>3. /\ Bit(sock[c].pc = "handshake" \/ c \in serve.holds) = 0
        /\ Bit(s.pc = "handshake" \/ c \in serve'.holds) = IF free THEN 1 ELSE 0
    BY <1>1, <1>2, <1>5, <1>7, Zenon DEF Bit
  <2>q. QED BY <1>1, <1>3, <1>6, <2>2, <2>3, SrvFields, SMTT(40) DEF Recounted
<1>10. sock' = [sock EXCEPT ![c] = s]
  <2>1. free = (srv.handshakes < MaxConcurrentHandshakes)
    BY <1>1, <1>3, SrvFields, ServerAssumption, SMT
  <2>2. sock' = [sock EXCEPT ![c].pc = "accepted",
                             ![c].open = (srv.handshakes < MaxConcurrentHandshakes)]
    BY Zenon DEF Accept
  <2>3. sock' = [sock EXCEPT ![c].pc = "accepted", ![c].open = free]
    BY <2>1, <2>2, Zenon
  <2>q. QED BY <1>4, <2>3, ZenonT(40)
<1>11. Moves(c, s)
  BY <1>2, <1>6, <1>7, <1>8, <1>9, <1>10, Zenon DEF Moves
<1>12. srv'.wg <= srv.wg
  BY <1>1, <1>6, SrvFields
<1>q. QED
  BY <1>1, <1>2, <1>5, <1>11, <1>12, MoveInv, Zenon DEF Exposed, Live, HoldsSlot

LEMMA RegisterHandshakeInv ==
  ASSUME IInv, NEW c \in Sockets, RegisterHandshake(c)
  PROVE  IInv'
<1>1. /\ sock[c] \in SockType
      /\ srv \in SrvType /\ serve \in ServeType /\ c \in serve.holds
      /\ SocketInv(sock[c], c \in srv.handshakeConns, c \in srv.conns, c \in serve.holds)
  BY Facts, Zenon DEF RegisterHandshake
<1>2. serve.holds = {c} /\ UNCHANGED stop /\ sock[c].pc = "accepted"
  BY <1>1 DEF ServeType, RegisterHandshake, SocketInv
<1>3. serve' \in ServeType /\ serve'.holds = {}
  BY Zenon DEF RegisterHandshake, ServeType
<1>4. CASE srv.inShutdown
  <2>1. PICK s : s = [sock[c] EXCEPT !.open = FALSE]
    BY Zenon
  <2>2. /\ s \in SockType /\ s.pc = "accepted" /\ s.admitted = sock[c].admitted
        /\ ~s.open /\ s.runtime = sock[c].runtime /\ s.watcher = sock[c].watcher
        /\ s.disconnected = sock[c].disconnected
    BY <1>1, <1>2, <2>1, Zenon DEF SockType
  <2>3. /\ srv' \in SrvType /\ srv'.handshakes = srv.handshakes - 1 /\ srv'.wg = srv.wg
        /\ srv'.connSlots = srv.connSlots /\ srv'.handshakeConns = srv.handshakeConns
        /\ srv'.conns = srv.conns /\ srv'.inShutdown = srv.inShutdown
    <3>1. srv' = [srv EXCEPT !.handshakes = srv.handshakes - 1] /\ srv.handshakes - 1 \in Int
      BY <1>1, <1>4, SrvFields, SMTT(40) DEF RegisterHandshake
    <3>q. QED BY <1>1, <3>1, Zenon DEF SrvType
  <2>4. SocketInv(s, c \in srv'.handshakeConns, c \in srv'.conns, c \in serve'.holds)
    BY <1>1, <1>2, <1>3, <2>2, <2>3, Zenon DEF SocketInv, Handed, Over, Live, HoldsSlot
  <2>5. Recounted(c, s)
    BY <1>1, <1>2, <1>3, <2>2, <2>3, SrvFields DEF Recounted, Bit, Live, HoldsSlot
  <2>6. sock' = [sock EXCEPT ![c] = s]
    BY <1>4, <2>1, Zenon DEF RegisterHandshake
  <2>7. Moves(c, s)
    BY <1>2, <1>3, <2>3, <2>4, <2>5, <2>6, Zenon DEF Moves
  <2>8. srv'.wg <= srv.wg
    BY <1>1, <2>3, SrvFields
  <2>q. QED
    BY <1>2, <2>2, <2>7, <2>8, MoveInv, Zenon DEF Exposed
<1>5. CASE ~srv.inShutdown
  <2>1. PICK s : s = [sock[c] EXCEPT !.pc = "handshake"]
    BY Zenon
  <2>2. /\ s \in SockType /\ s.pc = "handshake" /\ s.admitted = sock[c].admitted
        /\ s.open = sock[c].open /\ s.runtime = sock[c].runtime /\ s.watcher = sock[c].watcher
        /\ s.disconnected = sock[c].disconnected
    BY <1>1, <2>1, Zenon DEF SockType, Labels
  <2>3. /\ srv' \in SrvType /\ srv'.handshakes = srv.handshakes /\ srv'.wg = srv.wg + 1
        /\ srv'.connSlots = srv.connSlots
        /\ srv'.handshakeConns = srv.handshakeConns \cup {c}
        /\ srv'.conns = srv.conns /\ srv'.inShutdown = srv.inShutdown
    <3>1. srv' = [srv EXCEPT !.handshakeConns = srv.handshakeConns \cup {c}, !.wg = srv.wg + 1]
      BY <1>5, Zenon DEF RegisterHandshake
    <3>2. srv.handshakeConns \cup {c} \in SUBSET Sockets /\ srv.wg + 1 \in Int
      BY <1>1, SrvFields, SMTT(40)
    <3>q. QED BY <1>1, <3>1, <3>2, Zenon DEF SrvType
  <2>4. SocketInv(s, c \in srv'.handshakeConns, c \in srv'.conns, c \in serve'.holds)
    BY <1>1, <1>2, <1>3, <2>2, <2>3, Zenon DEF SocketInv, Handed, Over, Live, HoldsSlot
  <2>5. Recounted(c, s)
    BY <1>1, <1>2, <1>3, <2>2, <2>3, SrvFields DEF Recounted, Bit, Live, HoldsSlot
  <2>6. sock' = [sock EXCEPT ![c] = s]
    BY <1>5, <2>1, Zenon DEF RegisterHandshake
  <2>7. Moves(c, s)
    BY <1>2, <1>3, <2>3, <2>4, <2>5, <2>6, Zenon DEF Moves
  <2>q. QED
    BY <1>2, <1>5, <2>2, <2>7, MoveInv, Zenon
<1>q. QED
  BY <1>4, <1>5, Zenon

-----------------------------------------------------------------------------
(* Steps of Serve and of the stops that leave every socket alone. *)
Still ==
  /\ UNCHANGED sock
  /\ serve' \in ServeType /\ serve'.holds = serve.holds
  /\ srv' \in SrvType /\ srv'.handshakes = srv.handshakes
  /\ srv'.connSlots = srv.connSlots /\ srv'.wg = srv.wg
  /\ srv'.handshakeConns = srv.handshakeConns /\ srv'.conns = srv.conns
  /\ stop' \in [Stopping -> StopType]

LEMMA StillCore ==
  ASSUME IInv, Still
  PROVE  Core'
<1>1. Types'
  BY Zenon DEF Still, Types, IInv, Core, Stopping
<1>2. SocketsOk'
  BY Zenon DEF Still, SocketsOk, IInv, Core
<1>3. InHandshake' = InHandshake /\ InSlot' = InSlot /\ Working' = Working
  BY Zenon DEF Still, InHandshake, InSlot, Working
<1>4. Counts'
  BY <1>3, Zenon DEF Still, Counts, IInv, Core
<1>q. QED
  BY <1>1, <1>2, <1>4, Zenon DEF Core

LEMMA ServeInv ==
  ASSUME IInv, ServeBegin \/ AcceptFails \/ AcceptDelay
  PROVE  IInv'
<1>1. serve \in ServeType /\ srv \in SrvType /\ stop \in [Stopping -> StopType]
  BY Zenon DEF IInv, Core, Types
<1>2. serve.holds = {} /\ UNCHANGED <<sock, stop>>
  BY <1>1, Zenon DEF ServeType, ServeBegin, AcceptFails, AcceptDelay
<1>3. PICK label \in {"accept", "returned", "delay"} : serve' = [serve EXCEPT !.at = label]
  BY Zenon DEF ServeBegin, AcceptFails, AcceptDelay
<1>4. serve' \in ServeType /\ serve'.holds = serve.holds
  BY <1>1, <1>2, <1>3, Zenon DEF ServeType
<1>5. srv' = srv \/ srv' = [srv EXCEPT !.listener = "open"]
  BY Zenon DEF ServeBegin, AcceptFails, AcceptDelay
<1>6. /\ srv' \in SrvType /\ srv'.handshakes = srv.handshakes
      /\ srv'.connSlots = srv.connSlots /\ srv'.wg = srv.wg
      /\ srv'.handshakeConns = srv.handshakeConns /\ srv'.conns = srv.conns
      /\ srv'.inShutdown = srv.inShutdown
  BY <1>1, <1>5, Zenon DEF SrvType
<1>7. Core'
  BY <1>1, <1>2, <1>4, <1>6, StillCore, Zenon DEF Still
<1>8. Snapshots'
  BY <1>2, <1>6, Zenon DEF IInv, Snapshots, SnapshotInv, Exposed, Stopping
<1>q. QED
  BY <1>7, <1>8, Zenon DEF IInv

LEMMA BeginShutdownInv ==
  ASSUME IInv, NEW k \in Stopping, BeginShutdown(k)
  PROVE  IInv'
<1>1. /\ serve \in ServeType /\ srv \in SrvType /\ stop \in [Stopping -> StopType]
      /\ sock \in [Sockets -> SockType]
  BY Zenon DEF IInv, Core, Types
<1>2. PICK r : r = [at |-> "listener", listener |-> srv.listener # "unset",
                    sockets |-> srv.handshakeConns, conns |-> srv.conns]
  BY Zenon
<1>3. /\ r \in StopType /\ r.at = "listener"
      /\ r.sockets = srv.handshakeConns /\ r.conns = srv.conns
  BY <1>1, <1>2, SrvFields, Zenon DEF StopType
<1>4. /\ stop' = [stop EXCEPT ![k] = r] /\ UNCHANGED <<serve, sock>>
      /\ srv' = [srv EXCEPT !.inShutdown = TRUE]
  BY <1>2, Zenon DEF BeginShutdown
<1>5. /\ srv' \in SrvType /\ srv'.handshakes = srv.handshakes
      /\ srv'.connSlots = srv.connSlots /\ srv'.wg = srv.wg
      /\ srv'.handshakeConns = srv.handshakeConns /\ srv'.conns = srv.conns
      /\ srv'.inShutdown
  BY <1>1, <1>4, Zenon DEF SrvType
<1>6. /\ stop' \in [Stopping -> StopType] /\ stop'[k] = r
      /\ \A j \in Stopping \ {k} : stop'[j] = stop[j]
  BY <1>1, <1>3, <1>4, Zenon
<1>7. Core'
  BY <1>1, <1>4, <1>5, <1>6, StillCore, Zenon DEF Still
<1>8. SnapshotInv(k)'
  <2>1. ASSUME NEW c \in Sockets, Exposed(sock[c])
        PROVE  c \in srv.handshakeConns \cup srv.conns
    BY <2>1, Facts, Zenon DEF Exposed, SocketInv, Handed, Over, Live, HoldsSlot, SockType
  <2>2. ASSUME NEW c \in srv.conns
        PROVE  sock[c].admitted /\ sock[c].pc # "register"
    BY <1>1, SrvFields, Facts, Zenon DEF SocketInv, Handed
  <2>q. QED BY <1>3, <1>4, <1>5, <1>6, <2>1, <2>2, Zenon DEF SnapshotInv, Exposed
<1>9. ASSUME NEW j \in Stopping, j # k PROVE SnapshotInv(j)'
  BY <1>4, <1>5, <1>6, <1>9, Zenon DEF IInv, Snapshots, SnapshotInv, Exposed
<1>q. QED
  BY <1>7, <1>8, <1>9, Zenon DEF IInv, Snapshots, Stopping

LEMMA CloseListenerInv ==
  ASSUME IInv, NEW k \in Stopping, CloseListener(k)
  PROVE  IInv'
<1>1. /\ serve \in ServeType /\ srv \in SrvType /\ stop \in [Stopping -> StopType]
  BY Zenon DEF IInv, Core, Types
<1>2. PICK r : r = [stop[k] EXCEPT !.at = "sweep"]
  BY Zenon
<1>3. /\ r \in StopType /\ r.at = "sweep" /\ stop[k].at = "listener"
      /\ r.sockets = stop[k].sockets /\ r.conns = stop[k].conns
  BY <1>1, <1>2, Zenon DEF StopType, CloseListener
<1>4. stop' = [stop EXCEPT ![k] = r] /\ UNCHANGED <<serve, sock>>
  BY <1>2, Zenon DEF CloseListener
<1>5. /\ srv' \in SrvType /\ srv'.handshakes = srv.handshakes
      /\ srv'.connSlots = srv.connSlots /\ srv'.wg = srv.wg
      /\ srv'.handshakeConns = srv.handshakeConns /\ srv'.conns = srv.conns
      /\ srv'.inShutdown = srv.inShutdown
  <2>1. PICK l \in {"unset", "open", "closed"} : srv' = [srv EXCEPT !.listener = l]
    BY <1>1, Zenon DEF CloseListener, SrvType
  <2>q. QED BY <1>1, <2>1, Zenon DEF SrvType
<1>6. /\ stop' \in [Stopping -> StopType] /\ stop'[k] = r
      /\ \A j \in Stopping \ {k} : stop'[j] = stop[j]
  BY <1>1, <1>3, <1>4, Zenon
<1>7. Core'
  BY <1>1, <1>4, <1>5, <1>6, StillCore, Zenon DEF Still
<1>8. SnapshotInv(k)'
  BY <1>3, <1>4, <1>5, <1>6, SMTT(40) DEF IInv, Snapshots, SnapshotInv, Exposed
<1>9. ASSUME NEW j \in Stopping, j # k PROVE SnapshotInv(j)'
  BY <1>4, <1>5, <1>6, <1>9, Zenon DEF IInv, Snapshots, SnapshotInv, Exposed
<1>q. QED
  BY <1>7, <1>8, <1>9, Zenon DEF IInv, Snapshots, Stopping

LEMMA WaitInv ==
  ASSUME IInv, NEW k \in Stopping, Wait(k)
  PROVE  IInv'
<1>1. /\ serve \in ServeType /\ srv \in SrvType /\ stop \in [Stopping -> StopType]
  BY Zenon DEF IInv, Core, Types
<1>2. PICK r : r = [stop[k] EXCEPT !.at = "returned"]
  BY ZenonT(40)
<1>3. /\ r \in StopType /\ r.at = "returned" /\ stop[k].at = "wait" /\ srv.wg = 0
      /\ r.sockets = stop[k].sockets /\ r.conns = stop[k].conns
  BY <1>1, <1>2, Zenon DEF StopType, Wait
<1>4. stop' = [stop EXCEPT ![k] = r] /\ UNCHANGED <<serve, sock, srv>>
  BY <1>2, Zenon DEF Wait
<1>5. /\ stop' \in [Stopping -> StopType] /\ stop'[k] = r
      /\ \A j \in Stopping \ {k} : stop'[j] = stop[j]
  BY <1>1, <1>3, <1>4, Zenon
<1>6. Core'
  BY <1>1, <1>4, <1>5, StillCore, Zenon DEF Still
<1>7. SnapshotInv(k)'
  BY <1>3, <1>4, <1>5, Zenon DEF IInv, Snapshots, SnapshotInv, Exposed
<1>8. ASSUME NEW j \in Stopping, j # k PROVE SnapshotInv(j)'
  BY <1>4, <1>5, <1>8, Zenon DEF IInv, Snapshots, SnapshotInv, Exposed
<1>q. QED
  BY <1>6, <1>7, <1>8, Zenon DEF IInv, Snapshots, Stopping

(* A stop closes the socket c of its snapshot, which is then no longer exposed. *)
LEMMA SweepMove ==
  ASSUME IInv, NEW k \in Stopping, NEW c \in Sockets, NEW s \in SockType, NEW r \in StopType,
         sock' = [sock EXCEPT ![c] = s], stop' = [stop EXCEPT ![k] = r],
         UNCHANGED <<serve, srv>>, s.pc = sock[c].pc, s.admitted = sock[c].admitted,
         SocketInv(s, c \in srv.handshakeConns, c \in srv.conns, c \in serve.holds),
         ~Exposed(s), stop[k].at = "sweep", r.at = "sweep", r.conns \subseteq stop[k].conns,
         stop[k].sockets \cup stop[k].conns \subseteq r.sockets \cup r.conns \cup {c}
  PROVE  IInv'
<1>1. /\ srv \in SrvType /\ serve \in ServeType
      /\ stop \in [Stopping -> StopType] /\ sock \in [Sockets -> SockType]
  BY Zenon DEF IInv, Core, Types
<1>2. Recounted(c, s)
  BY <1>1, SrvFields, SMTT(40) DEF Recounted, Bit
<1>3. Moves(c, s)
  BY <1>1, <1>2, Zenon DEF Moves
<1>4. /\ stop' \in [Stopping -> StopType] /\ stop'[k] = r
      /\ \A j \in Stopping \ {k} : stop'[j] = stop[j]
  BY <1>1, Zenon
<1>5. Core'
  BY <1>3, <1>4, MoveCore, Zenon DEF IInv
<1>6. sock'[c] = s /\ \A d \in Sockets \ {c} : sock'[d] = sock[d]
  BY <1>1, Zenon
<1>7. ASSUME NEW d \in Sockets
      PROVE  /\ Exposed(sock'[d]) => Exposed(sock[d]) /\ d # c
             /\ sock'[d].admitted = sock[d].admitted /\ sock'[d].pc = sock[d].pc
  BY <1>6, Zenon
<1>8. SnapshotInv(k)'
  <2>1. SnapshotInv(k) /\ stop[k] \in StopType
    BY <1>1, Zenon DEF IInv, Snapshots
  <2>2. ASSUME NEW d \in Sockets, Exposed(sock'[d]) PROVE d \in r.sockets \cup r.conns
    BY <1>7, <2>1, <2>2, Zenon DEF SnapshotInv
  <2>3. ASSUME NEW d \in r.conns PROVE sock'[d].admitted /\ sock'[d].pc # "register"
    BY <1>7, <2>1, SMTT(40) DEF SnapshotInv, StopType
  <2>q. QED BY <1>4, <2>1, <2>2, <2>3, Zenon DEF SnapshotInv, Exposed
<1>9. ASSUME NEW j \in Stopping, j # k PROVE SnapshotInv(j)'
  <2>1. SnapshotInv(j) /\ stop'[j] = stop[j] /\ stop[j] \in StopType
    BY <1>1, <1>4, <1>9, Zenon DEF IInv, Snapshots
  <2>2. ASSUME NEW d \in stop[j].conns PROVE sock'[d].admitted /\ sock'[d].pc # "register"
    BY <1>7, <2>1 DEF SnapshotInv, StopType
  <2>3. ASSUME stop[j].at # "idle", NEW d \in Sockets, Exposed(sock'[d])
        PROVE  d \in stop[j].sockets \cup stop[j].conns
    BY <1>7, <2>1, <2>3, Zenon DEF SnapshotInv
  <2>q. QED BY <2>1, <2>2, <2>3, Zenon DEF SnapshotInv, Exposed
<1>q. QED
  BY <1>5, <1>8, <1>9, Zenon DEF IInv, Snapshots, Stopping

LEMMA SweepInv ==
  ASSUME IInv, NEW k \in Stopping, Sweep(k)
  PROVE  IInv'
<1>1. /\ srv \in SrvType /\ serve \in ServeType
      /\ stop \in [Stopping -> StopType] /\ sock \in [Sockets -> SockType]
      /\ stop[k] \in StopType /\ SnapshotInv(k) /\ stop[k].at = "sweep"
      /\ UNCHANGED <<serve, srv>>
  BY Zenon DEF IInv, Core, Types, Snapshots, Sweep
<1>2. stop[k].sockets \subseteq Sockets /\ stop[k].conns \subseteq Sockets
  BY <1>1, Zenon DEF StopType
<1>3. ASSUME NEW c \in stop[k].sockets,
             stop' = [stop EXCEPT ![k].sockets = @ \ {c}],
             sock' = [sock EXCEPT ![c].open = FALSE]
      PROVE  IInv'
  <2>1. c \in Sockets
    BY <1>2, Zenon
  <2>2. PICK s : s = [sock[c] EXCEPT !.open = FALSE]
    BY Zenon
  <2>3. PICK r : r = [stop[k] EXCEPT !.sockets = stop[k].sockets \ {c}]
    BY Zenon
  <2>4. /\ s \in SockType /\ s.pc = sock[c].pc /\ s.admitted = sock[c].admitted
        /\ ~s.open /\ s.runtime = sock[c].runtime /\ s.watcher = sock[c].watcher
        /\ s.disconnected = sock[c].disconnected
    BY <1>1, <2>1, <2>2, ZenonT(40) DEF SockType
  <2>5. /\ r \in StopType /\ r.at = "sweep" /\ r.conns = stop[k].conns
        /\ r.sockets = stop[k].sockets \ {c}
    BY <1>1, <2>3, Zenon DEF StopType
  <2>6. sock' = [sock EXCEPT ![c] = s] /\ stop' = [stop EXCEPT ![k] = r]
    BY <1>3, <2>2, <2>3, Zenon
  <2>7. SocketInv(s, c \in srv.handshakeConns, c \in srv.conns, c \in serve.holds)
    BY <2>1, <2>4, Facts, SMTT(40) DEF SocketInv
  <2>q. QED
    BY <1>1, <2>1, <2>4, <2>5, <2>6, <2>7, SweepMove, Zenon DEF Exposed
<1>4. ASSUME NEW c \in stop[k].conns,
             stop' = [stop EXCEPT ![k].conns = @ \ {c}],
             sock' = [sock EXCEPT ![c] = IF k \in Closers THEN Closed(@) ELSE Aborted(@)]
      PROVE  IInv'
  <2>1. /\ c \in Sockets /\ sock[c] \in SockType
        /\ SocketInv(sock[c], c \in srv.handshakeConns, c \in srv.conns, c \in serve.holds)
    BY <1>2, Facts, Zenon
  <2>2. PICK s : s = IF k \in Closers THEN Closed(sock[c]) ELSE Aborted(sock[c])
    BY Zenon
  <2>3. PICK r : r = [stop[k] EXCEPT !.conns = stop[k].conns \ {c}]
    BY ZenonT(40)
  <2>4. sock[c].admitted /\ sock[c].pc \notin {"register", "admission"} /\ sock[c].runtime # "none"
    BY <1>1, <2>1, Zenon DEF SnapshotInv, SocketInv
  <2>5. /\ s \in SockType /\ s.pc = sock[c].pc /\ s.admitted = sock[c].admitted
        /\ s.watcher = sock[c].watcher /\ s.disconnected = sock[c].disconnected
        /\ s.open => sock[c].open
        /\ sock[c].runtime \in {"made", "running", "aborted", "closing", "done"}
        /\ s.runtime \in {"done", "aborted", "closing"}
        /\ s.runtime \in {"done", "aborted"} => ~s.open
        /\ sock[c].runtime = "done" => s.runtime = "done"
    BY <2>1, <2>2, <2>4, ClosedIs, ZenonT(40) DEF SockType, SocketInv
  <2>6. /\ r \in StopType /\ r.at = "sweep" /\ r.conns = stop[k].conns \ {c}
        /\ r.sockets = stop[k].sockets
    BY <1>1, <2>3, Zenon DEF StopType
  <2>7. sock' = [sock EXCEPT ![c] = s] /\ stop' = [stop EXCEPT ![k] = r]
    BY <1>4, <2>2, <2>3, Zenon
  <2>8. SocketInv(s, c \in srv.handshakeConns, c \in srv.conns, c \in serve.holds)
    BY <2>1, <2>4, <2>5, Zenon DEF SocketInv, Over
  <2>q. QED
    BY <1>1, <2>1, <2>5, <2>6, <2>7, <2>8, SweepMove, Zenon DEF Exposed
<1>5. ASSUME stop[k].sockets = {}, stop[k].conns = {},
             stop' = [stop EXCEPT ![k].at = IF k \in Closers THEN "wait" ELSE "returned"],
             UNCHANGED sock
      PROVE  IInv'
  <2>1. PICK r : r = [stop[k] EXCEPT !.at = IF k \in Closers THEN "wait" ELSE "returned"]
    BY Zenon
  <2>2. /\ r \in StopType /\ r.at = IF k \in Closers THEN "wait" ELSE "returned"
        /\ r.sockets = stop[k].sockets /\ r.conns = stop[k].conns
    BY <1>1, <2>1, Zenon DEF StopType
  <2>3. /\ stop' \in [Stopping -> StopType] /\ stop'[k] = r
        /\ \A j \in Stopping \ {k} : stop'[j] = stop[j]
    BY <1>1, <1>5, <2>1, <2>2, Zenon
  <2>4. Core'
    BY <1>1, <1>5, <2>3, StillCore, Zenon DEF Still
  <2>5. SnapshotInv(k)'
    BY <1>1, <1>5, <2>2, <2>3, SMTT(40) DEF SnapshotInv, Exposed
  <2>6. ASSUME NEW j \in Stopping, j # k PROVE SnapshotInv(j)'
    BY <1>1, <1>5, <2>3, <2>6, SMTT(40) DEF IInv, Snapshots, SnapshotInv, Exposed
  <2>q. QED BY <2>4, <2>5, <2>6, Zenon DEF IInv, Snapshots, Stopping
<1>q. QED
  BY <1>3, <1>4, <1>5, Zenon DEF Sweep

-----------------------------------------------------------------------------
LEMMA NextInv == IInv /\ [Next]_vars => IInv'
<1> SUFFICES ASSUME IInv, [Next]_vars PROVE IInv'
  BY Zenon
<1>1. ASSUME UNCHANGED vars PROVE IInv'
  <2>1. serve' = serve /\ srv' = srv /\ sock' = sock /\ stop' = stop
    BY <1>1, Zenon DEF vars
  <2>2. Core'
    BY <2>1, StillCore, Zenon DEF Still, IInv, Core, Types
  <2>3. Snapshots'
    BY <2>1, Zenon DEF IInv, Snapshots, SnapshotInv, Exposed, Stopping
  <2>q. QED BY <2>2, <2>3, Zenon DEF IInv
<1>2. ASSUME NEW c \in Sockets, handleConn(c) PROVE IInv'
  <2>1. UNCHANGED <<serve, stop>>
    BY <1>2, Zenon DEF handleConn
  <2>q. QED
    BY <1>2, <2>1, HandshakeInv, AcquireSlotInv, AdmissionInv, RegisterConnInv, StartConnInv,
       AwaitDoneInv, UnregisterConnInv, OnDisconnectInv, ReleaseSlotInv, CleanupInv, FinishInv, Zenon
       DEF handleConn
<1>3. ASSUME NEW c \in Sockets,
             Accept(c) \/ RegisterHandshake(c) \/ ConnFails(c) \/ ConnDone(c) \/ Watch(c)
      PROVE  IInv'
  BY <1>3, AcceptInv, RegisterHandshakeInv, RuntimeInv, WatchInv, Zenon
<1>4. ASSUME NEW k \in Stopping,
             BeginShutdown(k) \/ CloseListener(k) \/ Sweep(k) \/ Wait(k)
      PROVE  IInv'
  BY <1>4, BeginShutdownInv, CloseListenerInv, SweepInv, WaitInv, Zenon
<1>5. ASSUME ServeBegin \/ AcceptFails \/ AcceptDelay PROVE IInv'
  BY <1>5, ServeInv, Zenon
<1>6. ASSUME Finished PROVE IInv'
  BY <1>1, <1>6, Zenon DEF Finished
<1>q. QED
  BY <1>1, <1>2, <1>3, <1>4, <1>5, <1>6, Zenon DEF Next

(* The inductive invariant of the server: what each point of handleConn says of
   its socket, that pools and wait group count workers, and that every stop still
   has in its snapshot what it has not reached. *)
THEOREM Inductive == Spec => []IInv
<1>1. Init => IInv
  BY InitInv, Zenon
<1>2. IInv /\ [Next]_vars => IInv'
  BY NextInv, Zenon
<1>q. QED
  BY <1>1, <1>2, PTL DEF Spec

LEMMA SlotsHold == IInv => SlotsConserved
<1> SUFFICES ASSUME IInv PROVE SlotsConserved
  BY Zenon
<1>1. serve \in ServeType /\ srv \in SrvType /\ Counts
  BY Zenon DEF IInv, Core, Types
<1>2. InHandshake = {c \in Sockets : sock[c].pc = "handshake"} \cup serve.holds
  BY <1>1, Zenon DEF InHandshake, ServeType
<1>3. srv.handshakeConns \cap srv.conns = {}
  <2> SUFFICES ASSUME NEW c \in srv.handshakeConns, c \in srv.conns PROVE FALSE
    BY Zenon
  <2>q. QED BY <1>1, SrvFields, Facts, Zenon DEF SocketInv, Handed
<1>4. ASSUME NEW c \in Sockets, sock[c].pc \in Live,
             sock[c].open \/ sock[c].runtime \in {"made", "running"}
      PROVE  c \in srv.handshakeConns \cup srv.conns
  BY <1>4, Facts, Zenon DEF SocketInv, SockType, Handed, Over, Live, HoldsSlot
<1>q. QED
  BY <1>1, <1>2, <1>3, <1>4, Zenon DEF SlotsConserved, Counts, InSlot

(* With any number of sockets and any pools, the used slots of both pools are those
   of the sockets at a point of Serve or handleConn that holds one, neither pool is
   overfilled, and a socket in work is in exactly one of handshakeConns and conns. *)
THEOREM SlotsAlwaysConserved == Spec => []SlotsConserved
<1>1. Spec => []IInv
  BY Inductive, Zenon
<1>q. QED
  BY <1>1, SlotsHold, PTL

LEMMA CloseHolds == IInv => NothingEscapesClose
<1> SUFFICES ASSUME IInv, NEW k \in Closers
             PROVE  /\ stop[k].at = "wait" =>
                         \A c \in Sockets :
                           sock[c].pc \in Live => ~sock[c].open \/ sock[c].runtime = "closing"
                    /\ stop[k].at = "returned" =>
                         /\ srv.connSlots = 0 /\ srv.conns = {} /\ srv.handshakeConns = {}
                         /\ srv.wg = 0
                         /\ \A c \in Sockets : sock[c].open => c \in serve.holds
  BY Zenon DEF NothingEscapesClose
<1>1. k \in Stopping /\ SnapshotInv(k) /\ Counts /\ srv \in SrvType
  BY Zenon DEF Stopping, IInv, Core, Types, Snapshots
<1>2. ASSUME stop[k].at = "wait", NEW c \in Sockets, sock[c].pc \in Live
      PROVE  ~sock[c].open \/ sock[c].runtime = "closing"
  BY <1>1, <1>2, Zenon DEF SnapshotInv, Exposed
<1>3. ASSUME stop[k].at = "returned"
      PROVE  /\ srv.connSlots = 0 /\ srv.conns = {} /\ srv.handshakeConns = {}
             /\ srv.wg = 0
             /\ \A c \in Sockets : sock[c].open => c \in serve.holds
  <2>1. srv.wg = 0
    BY <1>1, <1>3, Zenon DEF SnapshotInv
  <2>2. Working = {}
    BY <1>1, <2>1, FS_EmptySet, Zenon DEF Counts
  <2>3. \A c \in Sockets : sock[c].pc \notin Live
    BY <2>2, Zenon DEF Working
  <2>4. InSlot = {}
    BY <2>3, Zenon DEF InSlot, Live
  <2>5. srv.connSlots = 0
    BY <1>1, <2>4, FS_EmptySet, Zenon DEF Counts
  <2>6. srv.conns = {} /\ srv.handshakeConns = {}
    BY <1>1, <2>3, SrvFields, Facts, Zenon DEF SocketInv, Handed, Live, HoldsSlot
  <2>7. \A c \in Sockets : sock[c].open => c \in serve.holds
    BY <2>3, Facts, Zenon DEF SocketInv
  <2>q. QED BY <2>1, <2>5, <2>6, <2>7, Zenon
<1>q. QED
  BY <1>2, <1>3, Zenon

(* Whatever the order of accepts, handoffs and stops: a Close that waits has reached
   every socket of a worker, and after it has returned there is no worker, no slot and
   no entry of a map, and only Serve can have a socket in hand, which it drops. *)
THEOREM NothingEverEscapesClose == Spec => []NothingEscapesClose
<1>1. Spec => []IInv
  BY Inductive, Zenon
<1>q. QED
  BY <1>1, CloseHolds, PTL

LEMMA DisconnectHolds == IInv => DisconnectOnce
<1> SUFFICES ASSUME IInv, NEW c \in Sockets
             PROVE  /\ sock[c].disconnected <= (IF sock[c].admitted THEN 1 ELSE 0)
                    /\ sock[c].disconnected > 0 => sock[c].runtime = "done" /\ c \notin srv.conns
                    /\ sock[c].pc = "exited" /\ sock[c].admitted => sock[c].disconnected = 1
  BY Zenon DEF DisconnectOnce
<1>q. QED
  BY Facts DEF SocketInv, Handed, Over

(* Every way out of handleConn runs OnDisconnect exactly once for an admitted
   connection, after its runtime is done and it has left conns, and never for one
   that was rejected or not admitted. *)
THEOREM DisconnectsOnce == Spec => []DisconnectOnce
<1>1. Spec => []IInv
  BY Inductive, Zenon
<1>q. QED
  BY <1>1, DisconnectHolds, PTL

-----------------------------------------------------------------------------
(* Grace leaves the retained key, its window and its budgets well typed.   *)
LEMMA GraceType ==
  ASSUME NEW key \in Keys, NEW window \in WindowType,
         NEW remaining \in 0 .. GraceFrames, NEW left \in 0 .. GracePeriod,
         Grace(key, window, remaining, left)
  PROVE  /\ previousReceive' \in Keys \cup {NoKey}
         /\ previousReplay' \in WindowType
         /\ graceRemaining' \in 0 .. GraceFrames
         /\ graceLeft' \in 0 .. GracePeriod
<1>1. EmptyWindow \in WindowType
  BY SessionAssumption DEF EmptyWindow, WindowType
<1>. QED
  BY <1>1, SessionAssumption DEF Grace

(* Committing a sequence to a well-typed window leaves it well typed.      *)
LEMMA CommittedType ==
  ASSUME NEW w \in WindowType, NEW s \in 1 .. MaxSequence
  PROVE  Committed(w, s) \in WindowType
BY SessionAssumption DEF Committed, WindowType

(* A frame of a well-typed set has the fields its type promises.           *)
LEMMA FrameFields ==
  ASSUME NEW f \in FrameType
  PROVE  /\ f.key \in Keys
         /\ f.sequence \in 1 .. MaxSequence
         /\ f.type \in {"Data", "RekeyInit"}
         /\ f.type = "RekeyInit" => f.payload \in RekeyType
BY Zenon DEF FrameType

(* Every variable of both halves of a session keeps its type: in           *)
(* particular sequences and epochs never leave their width, because        *)
(* exhaustion stops the sender instead of wrapping.                        *)
THEOREM TypeCorrect == SessionSpec => []TypeOK
<1>. USE SessionAssumption
<1>1. SessionInit => TypeOK
  <2>1. EmptyWindow \in WindowType
    BY DEF EmptyWindow, WindowType
  <2>2. 1 \in Keys /\ 1 \in Epochs
    BY DEF Keys, Epochs, NoKey
  <2>. HAVE SessionInit
  <2>3. /\ pendingRekey \in [epoch : Epochs, key : Keys, frame : FrameType] \cup {NoRekey}
        /\ previousReceive \in Keys \cup {NoKey}
        /\ sendClosed \in BOOLEAN /\ receiveClosed \in BOOLEAN
    BY Zenon DEF SessionInit
  <2>. QED
    BY <2>1, <2>2, <2>3 DEF SessionInit, TypeOK
<1>2. TypeOK /\ [SessionNext]_sessionVars => TypeOK'
  <2>. SUFFICES ASSUME TypeOK, [SessionNext]_sessionVars
                PROVE  TypeOK'
    BY Zenon
  <2>1. ASSUME NEW payload \in Payloads, Send(payload)
        PROVE  TypeOK'
    <3>1. Frame(sendKey, nextSequence, "Data", payload) \in FrameType
      BY <2>1 DEF Send, encrypt, TypeOK, Frame, FrameType
    <3>. QED
      BY <2>1, <3>1 DEF Send, encrypt, TypeOK, receiver
  <2>2. CASE StartRekey
    <3>. DEFINE init == Frame(sendKey, nextSequence, "RekeyInit",
                              RekeyInit(sendKey, sendEpoch + 1))
    <3>1. sendEpoch + 1 \in Epochs /\ sendKey + 1 \in Keys
      BY <2>2 DEF StartRekey, TypeOK, Epochs, Keys, NoKey
    <3>2. RekeyInit(sendKey, sendEpoch + 1) \in RekeyType
      BY <3>1, Zenon DEF RekeyInit, RekeyType, ComputeKeyConfirm, TypeOK
    <3>3. init \in FrameType
      BY <2>2, <3>2 DEF StartRekey, encrypt, TypeOK, Frame, FrameType
    <3>4. pendingRekey' \in [epoch : Epochs, key : Keys, frame : FrameType]
      BY <2>2, <3>1, <3>3, Zenon DEF StartRekey, deriveNextTrafficKey
    <3>. QED
      BY <2>2, <3>3, <3>4 DEF StartRekey, encrypt, TypeOK, receiver
  <2>3. ASSUME NEW frame \in frames, MarkRekeySent(frame)
        PROVE  TypeOK'
    <3>1. pendingRekey \in [epoch : Epochs, key : Keys, frame : FrameType]
      BY <2>3 DEF MarkRekeySent, RekeyPending, NoRekey, TypeOK
    <3>. QED
      BY <2>3, <3>1 DEF MarkRekeySent, TypeOK, receiver
  <2>4. CASE CloseSender
    BY <2>4, Zenon DEF CloseSender, TypeOK, receiver
  <2>5. CASE TickSender
    BY <2>5 DEF TickSender, TypeOK, receiver
  <2>6. ASSUME NEW frame \in frames, ReceiveRekey(frame)
        PROVE  TypeOK'
    <3>1. /\ frame.sequence \in 1 .. MaxSequence
          /\ frame.payload \in RekeyType
      BY <2>6, FrameFields, Zenon DEF ReceiveRekey, TypeOK
    <3>2. Committed(replay, frame.sequence) \in WindowType
      BY <3>1, CommittedType, Zenon DEF TypeOK
    <3>3. /\ previousReceive' \in Keys \cup {NoKey}
          /\ previousReplay' \in WindowType
          /\ graceRemaining' \in 0 .. GraceFrames
          /\ graceLeft' \in 0 .. GracePeriod
      <4>1. /\ receiveKey \in Keys
            /\ GraceFrames \in 0 .. GraceFrames
            /\ GracePeriod \in 0 .. GracePeriod
        BY DEF TypeOK
      <4>2. Grace(receiveKey, Committed(replay, frame.sequence),
                  GraceFrames, GracePeriod)
        BY <2>6, Zenon DEF ReceiveRekey
      <4>. QED
        BY <3>2, <4>1, <4>2, GraceType, Zenon
    <3>4. /\ receiveKey' \in Keys
          /\ receiveEpoch' \in Epochs
      BY <2>6, <3>1 DEF ReceiveRekey, TypeOK, Keys, NoKey, RekeyType,
                       deriveNextTrafficKey
    <3>5. replay' \in WindowType
      BY <2>6 DEF ReceiveRekey, EmptyWindow, WindowType
    <3>. QED
      BY <2>6, <3>3, <3>4, <3>5, Zenon DEF ReceiveRekey, TypeOK, sender
  <2>7. ASSUME NEW frame \in frames, ReceiveCurrent(frame)
        PROVE  TypeOK'
    <3>1. frame.sequence \in 1 .. MaxSequence
      BY FrameFields, Zenon DEF TypeOK
    <3>2. replay' \in WindowType
      BY <2>7, <3>1, CommittedType, Zenon DEF ReceiveCurrent, TypeOK
    <3>3. /\ previousReceive' \in Keys \cup {NoKey}
          /\ previousReplay' \in WindowType
          /\ graceRemaining' \in 0 .. GraceFrames
          /\ graceLeft' \in 0 .. GracePeriod
      <4>1. CASE previousReceive = NoKey
        BY <2>7, <4>1, Zenon DEF ReceiveCurrent, TypeOK
      <4>2. CASE previousReceive # NoKey
        <5>. DEFINE left == IF graceRemaining > 0 THEN graceRemaining - 1 ELSE 0
        <5>1. /\ previousReceive \in Keys /\ previousReplay \in WindowType
              /\ left \in 0 .. GraceFrames /\ graceLeft \in 0 .. GracePeriod
          BY <4>2 DEF TypeOK
        <5>2. Grace(previousReceive, previousReplay, left, graceLeft)
          BY <2>7, <4>2, Zenon DEF ReceiveCurrent
        <5>. HIDE DEF left
        <5>. QED
          BY <5>1, <5>2, GraceType, Zenon
      <4>. QED
        BY <4>1, <4>2, Zenon
    <3>. QED
      BY <2>7, <3>2, <3>3, Zenon DEF ReceiveCurrent, TypeOK, sender
  <2>8. ASSUME NEW frame \in frames, ReceivePrevious(frame)
        PROVE  TypeOK'
    <3>1. previousReplay' \in WindowType
      BY <2>8, FrameFields, CommittedType, Zenon DEF ReceivePrevious, TypeOK
    <3>. QED
      BY <2>8, <3>1, Zenon DEF ReceivePrevious, TypeOK, sender
  <2>9. ASSUME NEW frame \in frames, ReceiveRefused(frame)
        PROVE  TypeOK'
    BY <2>9, Zenon DEF ReceiveRefused, TypeOK, sessionVars, sender, receiver
  <2>10. CASE CloseReceiver
    BY <2>10, Zenon DEF CloseReceiver, TypeOK, sender
  <2>11. CASE TickReceiver
    BY <2>11 DEF TickReceiver, TypeOK, sender
  <2>12. CASE UNCHANGED sessionVars
    BY <2>12, Zenon DEF TypeOK, sessionVars, sender, receiver
  <2>. QED
    BY <2>1, <2>2, <2>3, <2>4, <2>5, <2>6, <2>7, <2>8, <2>9, <2>10, <2>11,
       <2>12, Zenon DEF SessionNext, Receive
<1>. QED
  BY <1>1, <1>2, PTL DEF SessionSpec
-----------------------------------------------------------------------------
IsRekeyInit(f) == f.type = "RekeyInit"

(* What the sender has encrypted: nothing beyond its key and next sequence,*)
(* one RekeyInit for every epoch it has left, at the end of that epoch, and*)
(* one at the end of the current epoch exactly while a rekey is pending.   *)
SendInv ==
  /\ sendKey = sendEpoch
  /\ \A f \in frames : f.key <= sendKey
  /\ \A f \in frames : f.key = sendKey /\ nextSequence # 0 => f.sequence < nextSequence
  /\ \A f, g \in frames : SameNonce(f, g) => f = g
  /\ \A f \in frames : IsRekeyInit(f) =>
       /\ f.payload = RekeyInit(f.key, f.key + 1)
       /\ f.key = sendKey => RekeyPending
  /\ \A k \in 1 .. sendKey - 1 : \E init \in frames : IsRekeyInit(init) /\ init.key = k
  /\ \A init, f \in frames :
       IsRekeyInit(init) /\ f.key = init.key => f.sequence <= init.sequence
  /\ RekeyPending =>
       /\ pendingRekey.epoch = sendEpoch + 1
       /\ pendingRekey.key = sendKey + 1
       /\ pendingRekey.frame \in frames
       /\ IsRekeyInit(pendingRekey.frame)
       /\ pendingRekey.frame.key = sendKey

(* A frame of the current key and next sequence is after every other.      *)
LEMMA EncryptFresh ==
  ASSUME TypeOK, SendInv, nextSequence # 0, ~RekeyPending,
         NEW f \in frames
  PROVE  /\ f.key \in Keys /\ f.sequence \in 1 .. MaxSequence
         /\ f.key <= sendKey
         /\ f.key = sendKey => f.sequence < nextSequence /\ ~IsRekeyInit(f)
<1>1. f \in FrameType
  BY Zenon DEF TypeOK
<1>. QED
  BY <1>1, FrameFields, Zenon DEF SendInv

(* The sender's invariant is inductive.                                    *)
LEMMA SendInvInductive ==
  /\ SessionInit => SendInv
  /\ TypeOK /\ SendInv /\ [SessionNext]_sessionVars => SendInv'
<1>. USE SessionAssumption
<1>1. SessionInit => SendInv
  BY DEF SessionInit, SendInv, RekeyPending, NoRekey
<1>2. ASSUME TypeOK, SendInv, [SessionNext]_sessionVars
      PROVE  SendInv'
  <2>1. ASSUME NEW payload \in Payloads, Send(payload)
        PROVE  SendInv'
    <3>. DEFINE new == Frame(sendKey, nextSequence, "Data", payload)
    <3>1. /\ frames' = frames \cup {new}
          /\ nextSequence # 0 /\ ~RekeyPending
          /\ nextSequence' = IF nextSequence = MaxSequence THEN 0 ELSE nextSequence + 1
          /\ UNCHANGED <<sendKey, sendEpoch, pendingRekey>>
      BY <2>1, Zenon DEF Send, encrypt
    <3>2. /\ new.key = sendKey /\ new.sequence = nextSequence
          /\ ~IsRekeyInit(new)
      BY Zenon DEF Frame, IsRekeyInit
    <3>3. sendKey \in Keys /\ nextSequence \in 0 .. MaxSequence
      BY <1>2, Zenon DEF TypeOK
    <3>4. \A f \in frames :
            /\ f.key \in Keys /\ f.sequence \in 1 .. MaxSequence
            /\ f.key <= sendKey
            /\ f.key = sendKey => f.sequence < nextSequence /\ ~IsRekeyInit(f)
      BY <1>2, <3>1, EncryptFresh, Zenon
    <3>. HIDE DEF new
    <3>5. \A f, g \in frames' : SameNonce(f, g) => f = g
      BY <1>2, <3>1, <3>2, <3>3, <3>4 DEF SendInv, SameNonce
    <3>6. \A f \in frames' :
            /\ f.key <= sendKey
            /\ f.key = sendKey /\ nextSequence' # 0 => f.sequence < nextSequence'
      <4>. TAKE f \in frames'
      <4>1. CASE f \in frames
        <5>1. f.key = sendKey => f.sequence < nextSequence
          BY <3>4, <4>1, Zenon
        <5>. QED
          BY <3>1, <3>3, <3>4, <4>1, <5>1
      <4>2. CASE f = new
        BY <3>1, <3>2, <3>3, <4>2 DEF Keys
      <4>. QED
        BY <3>1, <4>1, <4>2, Zenon
    <3>7. \A init, f \in frames' :
            IsRekeyInit(init) /\ f.key = init.key => f.sequence <= init.sequence
      BY <1>2, <3>1, <3>2, <3>4 DEF SendInv
    <3>8. \A f \in frames' : IsRekeyInit(f) =>
            /\ f.payload = RekeyInit(f.key, f.key + 1)
            /\ f.key = sendKey => RekeyPending
      BY <1>2, <3>1, <3>2, Zenon DEF SendInv
    <3>9. \A k \in 1 .. sendKey - 1 :
            \E init \in frames' : IsRekeyInit(init) /\ init.key = k
      BY <1>2, <3>1, Zenon DEF SendInv
    <3>. QED
      BY <1>2, <3>1, <3>5, <3>6, <3>7, <3>8, <3>9, Zenon DEF SendInv, RekeyPending
  <2>2. CASE StartRekey
    <3>. DEFINE new == Frame(sendKey, nextSequence, "RekeyInit",
                             RekeyInit(sendKey, sendEpoch + 1))
    <3>1. /\ frames' = frames \cup {new}
          /\ nextSequence # 0 /\ ~RekeyPending
          /\ nextSequence' = IF nextSequence = MaxSequence THEN 0 ELSE nextSequence + 1
          /\ UNCHANGED <<sendKey, sendEpoch>>
          /\ pendingRekey' = [epoch |-> sendEpoch + 1, key |-> sendKey + 1, frame |-> new]
      BY <2>2, Zenon DEF StartRekey, encrypt, deriveNextTrafficKey
    <3>2. /\ new.key = sendKey /\ new.sequence = nextSequence
          /\ IsRekeyInit(new)
          /\ new.payload = RekeyInit(new.key, new.key + 1)
      BY <1>2, Zenon DEF Frame, IsRekeyInit, SendInv
    <3>3. sendKey \in Keys /\ nextSequence \in 0 .. MaxSequence /\ sendEpoch \in Epochs
      BY <1>2, Zenon DEF TypeOK
    <3>4. \A f \in frames :
            /\ f.key \in Keys /\ f.sequence \in 1 .. MaxSequence
            /\ f.key <= sendKey
            /\ f.key = sendKey => f.sequence < nextSequence /\ ~IsRekeyInit(f)
      BY <1>2, <3>1, EncryptFresh, Zenon
    <3>. HIDE DEF new
    <3>5. \A f, g \in frames' : SameNonce(f, g) => f = g
      BY <1>2, <3>1, <3>2, <3>3, <3>4 DEF SendInv, SameNonce
    <3>6. \A f \in frames' :
            /\ f.key <= sendKey
            /\ f.key = sendKey /\ nextSequence' # 0 => f.sequence < nextSequence'
      <4>. TAKE f \in frames'
      <4>1. CASE f \in frames
        <5>1. f.key = sendKey => f.sequence < nextSequence
          BY <3>4, <4>1, Zenon
        <5>. QED
          BY <3>1, <3>3, <3>4, <4>1, <5>1
      <4>2. CASE f = new
        BY <3>1, <3>2, <3>3, <4>2 DEF Keys
      <4>. QED
        BY <3>1, <4>1, <4>2, Zenon
    <3>7. \A init, f \in frames' :
            IsRekeyInit(init) /\ f.key = init.key => f.sequence <= init.sequence
      <4>. TAKE init, f \in frames'
      <4>. HAVE IsRekeyInit(init) /\ f.key = init.key
      <4>1. CASE init \in frames /\ f \in frames
        BY <1>2, <4>1, Zenon DEF SendInv
      <4>2. CASE init = new /\ f \in frames
        BY <3>2, <3>3, <3>4, <4>2
      <4>3. CASE init \in frames /\ f = new
        BY <3>2, <3>4, <4>3, Zenon
      <4>4. CASE init = new /\ f = new
        BY <3>2, <3>3, <4>4
      <4>. QED
        BY <3>1, <4>1, <4>2, <4>3, <4>4, Zenon
    <3>8. RekeyPending'
      BY <3>1, <3>3 DEF RekeyPending, Epochs
    <3>9. \A f \in frames' : IsRekeyInit(f) => f.payload = RekeyInit(f.key, f.key + 1)
      BY <1>2, <3>1, <3>2, Zenon DEF SendInv
    <3>10. \A k \in 1 .. sendKey - 1 :
             \E init \in frames' : IsRekeyInit(init) /\ init.key = k
      BY <1>2, <3>1, Zenon DEF SendInv
    <3>11. /\ pendingRekey'.epoch = sendEpoch + 1
           /\ pendingRekey'.key = sendKey + 1
           /\ pendingRekey'.frame = new
      BY <3>1, Zenon
    <3>. QED
      BY <1>2, <3>1, <3>2, <3>5, <3>6, <3>7, <3>8, <3>9, <3>10, <3>11 DEF SendInv
  <2>3. ASSUME NEW frame \in frames, MarkRekeySent(frame)
        PROVE  SendInv'
    <3>1. /\ UNCHANGED frames
          /\ RekeyPending /\ pendingRekey.frame \in frames
          /\ sendKey' = sendKey + 1
          /\ sendEpoch' = sendEpoch + 1
          /\ pendingRekey' = NoRekey
          /\ IsRekeyInit(pendingRekey.frame) /\ pendingRekey.frame.key = sendKey
      BY <1>2, <2>3, Zenon DEF MarkRekeySent, SendInv
    <3>2. ~RekeyPending'
      BY <3>1, Zenon DEF RekeyPending, NoRekey
    <3>3. \A f \in frames : f.key \in Keys /\ f.key <= sendKey
      BY <1>2, FrameFields, Zenon DEF TypeOK, SendInv
    <3>4. sendKey \in Keys
      BY <1>2, Zenon DEF TypeOK
    <3>5. \A k \in 1 .. sendKey : \E init \in frames : IsRekeyInit(init) /\ init.key = k
      <4>1. \A k \in 1 .. sendKey : k = sendKey \/ k \in 1 .. sendKey - 1
        BY <3>4 DEF Keys
      <4>. QED
        BY <1>2, <3>1, <4>1, Zenon DEF SendInv
    <3>6. \A f \in frames : f.key <= sendKey' /\ f.key # sendKey'
      BY <3>1, <3>3, <3>4 DEF Keys
    <3>7. 1 .. sendKey' - 1 = 1 .. sendKey
      BY <3>1, <3>4 DEF Keys
    <3>. QED
      BY <1>2, <3>1, <3>2, <3>5, <3>6, <3>7, Zenon DEF SendInv
  <2>4. ASSUME UNCHANGED <<sendKey, sendEpoch, nextSequence, pendingRekey, frames>>
        PROVE  SendInv'
    BY <1>2, <2>4, Zenon DEF SendInv, RekeyPending
  <2>. QED
    BY <1>2, <2>1, <2>2, <2>3, <2>4, Zenon
       DEF SessionNext, Receive, ReceiveRekey, ReceiveCurrent, ReceivePrevious,
           ReceiveRefused, CloseSender, TickSender, CloseReceiver, TickReceiver,
           sessionVars, sender
<1>. QED
  BY <1>1, <1>2, Zenon

(* No nonce is ever used twice: for every sequence and epoch width, every  *)
(* rekey limit, and any interleaving of sends, rekeys and receives.        *)
THEOREM NonceSafety == SessionSpec => []NonceNeverReused
<1>1. TypeOK /\ SendInv => NonceNeverReused
  <2>. SUFFICES ASSUME TypeOK, SendInv PROVE NonceNeverReused
    BY Zenon
  <2>1. \A f \in frames : f.key \in Keys /\ f.sequence \in 1 .. MaxSequence
    BY FrameFields, Zenon DEF TypeOK
  <2>2. sendKey \in Keys /\ nextSequence \in 0 .. MaxSequence
    BY Zenon DEF TypeOK
  <2>. QED
    BY <2>1, <2>2, SessionAssumption DEF SendInv, NonceNeverReused, Keys
<1>. QED
  BY <1>1, TypeCorrect, SendInvInductive, PTL DEF SessionSpec

(* What the receiver has accepted: the RekeyInit of every epoch it has     *)
(* left and none of its current one; the current window remembers exactly  *)
(* the frames of the current key, the previous one all of the previous key.*)
ReceiveInv ==
  /\ receiveKey = receiveEpoch
  /\ receiveKey <= IF RekeyPending THEN sendKey + 1 ELSE sendKey
  /\ previousReceive # NoKey => previousReceive = receiveKey - 1
  /\ \A f \in accepted : f.key <= receiveKey
  /\ \A f \in accepted : f.key = receiveKey => ~IsRekeyInit(f)
  /\ \A k \in 1 .. receiveKey - 1 : \E init \in accepted : IsRekeyInit(init) /\ init.key = k
  /\ \A f \in accepted : f.key = receiveKey => f.sequence \in replay.seen
  /\ \A s \in replay.seen : \E f \in accepted : f.key = receiveKey /\ f.sequence = s
  /\ replay.highest \in replay.seen \cup {0}
  /\ previousReceive # NoKey =>
       \A f \in accepted : f.key = previousReceive => f.sequence \in previousReplay.seen

(* A frame accepted under the current key is numbered above zero and not   *)
(* yet in the window; a RekeyInit names the next epoch.                    *)
LEMMA RekeyVerdict ==
  ASSUME TypeOK, SendInv, NEW f \in frames, IsRekeyInit(f), Verdict(f) = "nil"
  PROVE  /\ f.key = receiveKey
         /\ f.payload.epoch = receiveEpoch + 1
<1>1. f.key = receiveKey /\ prepareRekey(f.payload) = "nil"
  BY Zenon DEF Verdict, IsRekeyInit
<1>. QED
  BY <1>1, Zenon DEF prepareRekey

(* A receive key at most one ahead of the sender's key stays so when the   *)
(* sender's key grows.                                                     *)
LEMMA OneAhead ==
  \A r, s, t \in Nat : r <= s + 1 /\ s <= t => r <= t + 1
OBVIOUS

(* The receiver's invariant is inductive, relative to the sender's.        *)
LEMMA ReceiveInvInductive ==
  /\ SessionInit => ReceiveInv
  /\ TypeOK /\ SendInv /\ ReceiveInv /\ [SessionNext]_sessionVars => ReceiveInv'
<1>. USE SessionAssumption
<1>1. SessionInit => ReceiveInv
  BY DEF SessionInit, ReceiveInv, RekeyPending, NoRekey, EmptyWindow, NoKey
<1>2. ASSUME TypeOK, SendInv, ReceiveInv, [SessionNext]_sessionVars
      PROVE  ReceiveInv'
  <2>. USE <1>2
  <2>1. /\ receiveKey \in Nat /\ receiveKey > 0 /\ sendKey \in Nat
        /\ \A f \in frames : f.key \in Nat /\ f.key > 0 /\ f.sequence \in 1 .. MaxSequence
        /\ accepted \subseteq frames
    BY FrameFields DEF TypeOK, Keys, NoKey
  <2>2. ASSUME UNCHANGED receiver,
               sendKey <= sendKey',
               \/ RekeyPending' <=> RekeyPending
               \/ RekeyPending'
               \/ sendKey' = sendKey + 1,
               sendKey' \in Nat
        PROVE  ReceiveInv'
    <3>0. receiveKey <= IF RekeyPending THEN sendKey + 1 ELSE sendKey
      BY Zenon DEF ReceiveInv
    <3>t. receiveKey \in Nat /\ sendKey \in Nat /\ sendKey' \in Nat /\ sendKey <= sendKey'
      BY <2>1, <2>2, Zenon
    <3>a. ~RekeyPending => receiveKey <= sendKey
      BY <3>0, Zenon
    <3>b. receiveKey <= sendKey + 1
      <4>1. CASE RekeyPending
        BY <3>0, <4>1, Zenon
      <4>2. CASE ~RekeyPending
        BY <3>a, <3>t, <4>2
      <4>. QED
        BY <4>1, <4>2, Zenon
    <3>c. receiveKey <= sendKey' + 1
      BY <3>b, <3>t, OneAhead, Zenon
    <3>d. ~RekeyPending' => receiveKey <= sendKey'
      <4>1. CASE sendKey' = sendKey + 1
        BY <3>b, <4>1, Zenon
      <4>2. CASE ~RekeyPending
        BY <3>a, <3>t, <4>2
      <4>. QED
        BY <2>2, <4>1, <4>2, Zenon
    <3>1. receiveKey <= IF RekeyPending' THEN sendKey' + 1 ELSE sendKey'
      BY <3>c, <3>d, Zenon
    <3>. QED
      BY <2>2, <3>1, Zenon DEF ReceiveInv, receiver
  <2>3. ASSUME NEW payload \in Payloads, Send(payload)
        PROVE  ReceiveInv'
    BY <2>1, <2>2, <2>3 DEF Send, RekeyPending
  <2>4. CASE StartRekey
    <3>1. RekeyPending'
      BY <2>4 DEF StartRekey, RekeyPending, TypeOK, Epochs
    <3>. QED
      BY <2>1, <2>2, <2>4, <3>1 DEF StartRekey
  <2>5. ASSUME NEW frame \in frames, MarkRekeySent(frame)
        PROVE  ReceiveInv'
    <3>1. sendKey' = sendKey + 1 /\ UNCHANGED receiver
      BY <2>5, Zenon DEF MarkRekeySent, SendInv
    <3>. QED
      BY <2>1, <2>2, <3>1
  <2>6. CASE CloseSender \/ TickSender
    BY <2>1, <2>2, <2>6 DEF CloseSender, TickSender, RekeyPending
  <2>7. ASSUME NEW frame \in frames, ReceiveRekey(frame)
        PROVE  ReceiveInv'
    <3>1. /\ frame.key = receiveKey
          /\ frame.payload.epoch = receiveEpoch + 1
          /\ IsRekeyInit(frame)
      BY <2>7, RekeyVerdict, Zenon DEF ReceiveRekey, IsRekeyInit
    <3>2. /\ receiveKey' = receiveKey + 1
          /\ receiveEpoch' = receiveEpoch + 1
          /\ replay' = EmptyWindow
          /\ accepted' = accepted \cup {frame}
          /\ UNCHANGED <<sendKey, pendingRekey>>
      BY <2>7, <3>1, Zenon DEF ReceiveRekey, deriveNextTrafficKey, sender
    <3>3. \/ previousReceive' = NoKey
          \/ /\ previousReceive' = receiveKey
             /\ previousReplay' = Committed(replay, frame.sequence)
      BY <2>7, Zenon DEF ReceiveRekey, Grace
    <3>4. receiveKey + 1 <= IF RekeyPending THEN sendKey + 1 ELSE sendKey
      BY <2>1, <3>1 DEF SendInv
    <3>5. RekeyPending' <=> RekeyPending
      BY <3>2, Zenon DEF RekeyPending
    <3>6. \A f \in accepted' : f.key < receiveKey'
      BY <2>1, <3>1, <3>2 DEF ReceiveInv
    <3>7. \A k \in 1 .. receiveKey' - 1 :
            \E init \in accepted' : IsRekeyInit(init) /\ init.key = k
      <4>1. \A k \in 1 .. receiveKey' - 1 : k = receiveKey \/ k \in 1 .. receiveKey - 1
        BY <2>1, <3>2
      <4>. QED
        BY <3>1, <3>2, <4>1, Zenon DEF ReceiveInv
    <3>8. previousReceive' # NoKey =>
            \A f \in accepted' : f.key = previousReceive' => f.sequence \in previousReplay'.seen
      BY <3>1, <3>2, <3>3 DEF ReceiveInv, Committed
    <3>9. replay'.seen = {} /\ replay'.highest = 0
      BY <3>2, Zenon DEF EmptyWindow
    <3>10. \A f \in accepted' : f.key <= receiveKey' /\ f.key # receiveKey'
      BY <2>1, <3>1, <3>2, <3>6
    <3>11. previousReceive' # NoKey => previousReceive' = receiveKey' - 1
      BY <2>1, <3>2, <3>3, SMTT(40)
    <3>. QED
      BY <2>1, <3>2, <3>4, <3>5, <3>7, <3>8, <3>9, <3>10, <3>11, Zenon DEF ReceiveInv
  <2>8. ASSUME NEW frame \in frames, ReceiveCurrent(frame)
        PROVE  ReceiveInv'
    <3>1. /\ frame.key = receiveKey
          /\ ~IsRekeyInit(frame)
          /\ replay' = Committed(replay, frame.sequence)
          /\ accepted' = accepted \cup {frame}
          /\ UNCHANGED <<sendKey, pendingRekey, receiveKey, receiveEpoch>>
      BY <2>8, Zenon DEF ReceiveCurrent, sender, IsRekeyInit
    <3>2. \/ previousReceive' = NoKey
          \/ UNCHANGED <<previousReceive, previousReplay>>
      BY <2>8, Zenon DEF ReceiveCurrent, Grace
    <3>3. RekeyPending' <=> RekeyPending
      BY <3>1, Zenon DEF RekeyPending
    <3>4. /\ replay'.seen = replay.seen \cup {frame.sequence}
          /\ replay'.highest \in {replay.highest, frame.sequence}
      BY <3>1, Zenon DEF Committed
    <3>5. previousReceive' # NoKey =>
            /\ previousReceive' = receiveKey - 1
            /\ \A f \in accepted' : f.key = previousReceive' => f.sequence \in previousReplay'.seen
      BY <2>1, <3>1, <3>2 DEF ReceiveInv
    <3>. QED
      BY <2>1, <3>1, <3>3, <3>4, <3>5 DEF ReceiveInv
  <2>9. ASSUME NEW frame \in frames, ReceivePrevious(frame)
        PROVE  ReceiveInv'
    <3>1. /\ frame.key = previousReceive /\ previousReceive # NoKey
          /\ frame.key # receiveKey
          /\ previousReplay' = Committed(previousReplay, frame.sequence)
          /\ accepted' = accepted \cup {frame}
          /\ UNCHANGED <<sendKey, pendingRekey, receiveKey, receiveEpoch, replay,
                         previousReceive>>
      BY <2>9, Zenon DEF ReceivePrevious, Verdict, previousAvailable, sender
    <3>2. RekeyPending' <=> RekeyPending
      BY <3>1, Zenon DEF RekeyPending
    <3>3. previousReplay'.seen = previousReplay.seen \cup {frame.sequence}
      BY <3>1, Zenon DEF Committed
    <3>4. frame.key <= receiveKey
      BY <2>1, <3>1 DEF ReceiveInv
    <3>. QED
      BY <2>1, <3>1, <3>2, <3>3, <3>4, Zenon DEF ReceiveInv
  <2>10. ASSUME UNCHANGED <<receiveKey, receiveEpoch, replay, previousReceive,
                            previousReplay, accepted, sender>>
         PROVE  ReceiveInv'
    BY <2>10, Zenon DEF ReceiveInv, RekeyPending, sender
  <2>. QED
    BY <2>3, <2>4, <2>5, <2>6, <2>7, <2>8, <2>9, <2>10, Zenon
       DEF SessionNext, Receive, ReceiveRefused, CloseReceiver, TickReceiver, sessionVars, receiver
<1>. QED
  BY <1>1, <1>2, Zenon

(* The three invariants together hold in every reachable state.            *)
LEMMA SessionInvariant == SessionSpec => [](TypeOK /\ SendInv /\ ReceiveInv)
BY TypeCorrect, SendInvInductive, ReceiveInvInductive, PTL DEF SessionSpec

(* Frames, keys and sequences are natural numbers, whatever was accepted.  *)
LEMMA FrameNumbers ==
  ASSUME TypeOK
  PROVE  /\ \A f \in frames : f.key \in Nat /\ f.key > 0 /\ f.sequence \in 1 .. MaxSequence
         /\ accepted \subseteq frames
         /\ receiveKey \in Nat /\ sendKey \in Nat
         /\ receiveKey > 0 /\ sendKey > 0
BY FrameFields DEF TypeOK, Keys, NoKey

(* No frame of a new epoch is out before the RekeyInit of the epoch before *)
(* it, and none of the old epoch after it, whatever the limits.            *)
THEOREM RekeyOrder == SessionSpec => []RekeyInitEndsEpoch
<1>1. TypeOK /\ SendInv => RekeyInitEndsEpoch
  <2>. SUFFICES ASSUME TypeOK, SendInv PROVE RekeyInitEndsEpoch
    BY Zenon
  <2>1. \A f \in frames : f.key > 1 =>
          \E init \in frames : IsRekeyInit(init) /\ init.key = f.key - 1
    <3>. SUFFICES ASSUME NEW f \in frames, f.key > 1
                  PROVE  \E init \in frames : IsRekeyInit(init) /\ init.key = f.key - 1
      BY Zenon
    <3>1. f.key - 1 \in 1 .. sendKey - 1
      BY FrameNumbers DEF SendInv
    <3>. QED
      BY <3>1, Zenon DEF SendInv
  <2>. QED
    BY <2>1, Zenon DEF SendInv, RekeyInitEndsEpoch, IsRekeyInit
<1>. QED
  BY <1>1, SessionInvariant, PTL

(* The two peers agree on the epoch up to the one rekey that is under way. *)
THEOREM Agreement == SessionSpec => []EpochAgreement
<1>1. TypeOK /\ SendInv /\ ReceiveInv => EpochAgreement
  BY DEF SendInv, ReceiveInv, EpochAgreement
<1>. QED
  BY <1>1, SessionInvariant, PTL

(* Every frame is accepted at most once: duplicates and late copies are    *)
(* refused across rekeys and grace expiry, for every window size.          *)
THEOREM AtMostOnce == SessionSpec => []AcceptedOnce
<1>1. TypeOK /\ SendInv /\ ReceiveInv => AcceptedOnce
  <2>. SUFFICES ASSUME TypeOK, SendInv, ReceiveInv, NEW f \in accepted
                PROVE  Verdict(f) # "nil"
    BY Zenon DEF AcceptedOnce
  <2>1. CASE f.key = receiveKey
    BY <2>1, Zenon DEF ReceiveInv, Verdict, Acceptable
  <2>2. CASE f.key # receiveKey
    BY <2>2, Zenon DEF ReceiveInv, Verdict, Acceptable, previousAvailable
  <2>. QED
    BY <2>1, <2>2, Zenon
<1>. QED
  BY <1>1, SessionInvariant, PTL

(* In-order delivery is never refused, through any number of rekeys.       *)
THEOREM InOrder == SessionSpec => []InOrderAccepted
<1>1. TypeOK /\ SendInv /\ ReceiveInv => InOrderAccepted
  <2>. SUFFICES ASSUME TypeOK, SendInv, ReceiveInv, NEW f \in frames,
                       accepted = {g \in frames : Before(g, f)}
                PROVE  Verdict(f) = "nil"
    BY Zenon DEF InOrderAccepted
  <2>1. f.key = receiveKey
    <3>1. ~(receiveKey > f.key)
      <4>. SUFFICES ASSUME receiveKey > f.key PROVE FALSE
        BY Zenon
      <4>1. f.key \in 1 .. receiveKey - 1
        BY FrameNumbers
      <4>2. PICK init \in accepted : IsRekeyInit(init) /\ init.key = f.key
        BY <4>1, Zenon DEF ReceiveInv
      <4>3. init \in frames /\ init.sequence < f.sequence
        BY <4>2, FrameNumbers DEF Before
      <4>4. f.sequence <= init.sequence
        BY <4>2, <4>3, Zenon DEF SendInv
      <4>. QED
        BY <4>3, <4>4, FrameNumbers
    <3>2. ~(receiveKey < f.key)
      <4>. SUFFICES ASSUME receiveKey < f.key PROVE FALSE
        BY Zenon
      <4>1. receiveKey \in 1 .. sendKey - 1
        BY FrameNumbers DEF SendInv
      <4>2. PICK init \in frames : IsRekeyInit(init) /\ init.key = receiveKey
        BY <4>1, Zenon DEF SendInv
      <4>3. init \in accepted
        BY <4>2, Zenon DEF Before
      <4>. QED
        BY <4>2, <4>3, Zenon DEF ReceiveInv
    <3>. QED
      BY <3>1, <3>2, FrameNumbers
  <2>2. Acceptable(replay, f.sequence)
    <3>1. \A s \in replay.seen : s \in Nat /\ s < f.sequence
      BY <2>1, FrameNumbers DEF ReceiveInv, Before
    <3>2. replay.highest \in Nat /\ replay.highest < f.sequence
      BY <3>1, FrameNumbers DEF ReceiveInv
    <3>. QED
      BY <3>1, <3>2, FrameNumbers, WindowSizeAssumption, SessionAssumption DEF Acceptable
  <2>3. IsRekeyInit(f) => prepareRekey(f.payload) = "nil"
    <3>. HAVE IsRekeyInit(f)
    <3>1. /\ f.payload.epoch = receiveEpoch + 1
          /\ f.payload.confirm = ComputeKeyConfirm(receiveKey, receiveEpoch + 1)
      <4>1. f.payload = RekeyInit(receiveKey, receiveEpoch + 1)
        BY <2>1, SMTT(40) DEF SendInv, ReceiveInv
      <4>. QED
        BY <4>1 DEF RekeyInit
    <3>2. f.payload.epoch \in Epochs
      BY FrameFields, Zenon DEF TypeOK, IsRekeyInit, RekeyType
    <3>3. receiveEpoch # MaxEpoch
      BY <3>1, <3>2, SessionAssumption DEF Epochs, TypeOK
    <3>. QED
      BY <3>1, <3>3, Zenon DEF prepareRekey
  <2>. QED
    BY <2>1, <2>2, <2>3, Zenon DEF Verdict, IsRekeyInit
<1>. QED
  BY <1>1, SessionInvariant, PTL

(* A previous key whose grace is over cannot be revived before the next    *)
(* rekey, by any receive, tick or close.                                   *)
THEOREM GraceEnds == SessionSpec => NoRevival
<1>1. TypeOK /\ [SessionNext]_sessionVars =>
        [~previousAvailable /\ receiveKey' = receiveKey => ~previousAvailable']_sessionVars
  <2>. SUFFICES ASSUME TypeOK, SessionNext, ~previousAvailable, receiveKey' = receiveKey
                PROVE  ~previousAvailable'
    BY Zenon
  <2>1. /\ graceRemaining \in Nat /\ graceLeft \in Nat /\ receiveKey \in Nat
    BY SessionAssumption DEF TypeOK, Keys
  <2>2. ASSUME UNCHANGED <<previousReceive, graceRemaining, graceLeft>>
        PROVE  ~previousAvailable'
    BY <2>2, Zenon DEF previousAvailable
  <2>3. ASSUME NEW frame \in frames, ReceiveRekey(frame)
        PROVE  FALSE
    BY <2>1, <2>3 DEF ReceiveRekey, deriveNextTrafficKey
  <2>4. ASSUME NEW frame \in frames, ReceiveCurrent(frame)
        PROVE  ~previousAvailable'
    BY <2>1, <2>4, SessionAssumption, Zenon DEF ReceiveCurrent, Grace, previousAvailable
  <2>5. CASE TickReceiver
    BY <2>1, <2>5, Zenon DEF TickReceiver, previousAvailable
  <2>. QED
    BY <2>2, <2>3, <2>4, <2>5
       DEF SessionNext, Receive, Send, StartRekey, MarkRekeySent, CloseSender, TickSender,
           ReceivePrevious, ReceiveRefused, CloseReceiver, sessionVars, receiver
<1>. QED
  BY <1>1, TypeCorrect, PTL DEF SessionSpec, NoRevival

(* Between rekeys the next sequence is one more than the frames sent in the*)
(* epoch, and those stay within the limit.                                 *)
HeadroomInv ==
  RekeyFrameLimit \in 1 .. MaxSequence - 1 /\ ~RekeyPending =>
    /\ nextSequence = sentInEpoch + 1
    /\ sentInEpoch <= RekeyFrameLimit

(* A frame limit below the last sequence number keeps the sequence counter *)
(* from running out, however many epochs a session lives.                  *)
THEOREM NeverOutOfSequences == SessionSpec => []SequenceHeadroom
<1>. USE SessionAssumption
<1>1. SessionInit => HeadroomInv
  BY SMTT(40) DEF SessionInit, HeadroomInv
<1>2. TypeOK /\ HeadroomInv /\ [SessionNext]_sessionVars => HeadroomInv'
  <2>. SUFFICES ASSUME TypeOK, HeadroomInv, [SessionNext]_sessionVars,
                       RekeyFrameLimit \in 1 .. MaxSequence - 1
                PROVE  HeadroomInv'
    BY Zenon DEF HeadroomInv
  <2>1. nextSequence \in Nat /\ sentInEpoch \in Nat
    BY DEF TypeOK
  <2>2. ASSUME NEW payload \in Payloads, Send(payload)
        PROVE  HeadroomInv'
    BY <2>1, <2>2 DEF Send, encrypt, rekeyDue, HeadroomInv, RekeyPending
  <2>3. CASE StartRekey
    BY <2>3 DEF StartRekey, HeadroomInv, RekeyPending, TypeOK, Epochs
  <2>4. ASSUME NEW frame \in frames, MarkRekeySent(frame)
        PROVE  HeadroomInv'
    BY <2>4 DEF MarkRekeySent, HeadroomInv
  <2>5. ASSUME UNCHANGED <<nextSequence, sentInEpoch, pendingRekey>>
        PROVE  HeadroomInv'
    BY <2>5, Zenon DEF HeadroomInv, RekeyPending
  <2>. QED
    BY <2>2, <2>3, <2>4, <2>5, Zenon
       DEF SessionNext, Receive, ReceiveRekey, ReceiveCurrent, ReceivePrevious,
           ReceiveRefused, CloseSender, TickSender, CloseReceiver, TickReceiver,
           sessionVars, sender
<1>3. TypeOK /\ HeadroomInv => SequenceHeadroom
  BY DEF HeadroomInv, SequenceHeadroom, TypeOK
<1>. QED
  BY <1>1, <1>2, <1>3, TypeCorrect, PTL DEF SessionSpec

AcceptedNow == {f \in accepted : f.key = receiveKey}

(* The accepted frames are finitely many, and the grace is spent by those  *)
(* of the current key.                                                     *)
GraceInv == IsFiniteSet(accepted) /\ GraceBudget

(* The previous key lives for exactly GraceFrames frames of the new epoch. *)
THEOREM GraceCounts == SessionSpec => []GraceBudget
<1>. USE SessionAssumption
<1>1. SessionInit => GraceInv
  BY FS_EmptySet, Zenon DEF SessionInit, GraceInv, GraceBudget
<1>2. TypeOK /\ SendInv /\ ReceiveInv /\ GraceInv /\ [SessionNext]_sessionVars => GraceInv'
  <2>. SUFFICES ASSUME TypeOK, SendInv, ReceiveInv, GraceInv, [SessionNext]_sessionVars
                PROVE  GraceInv'
    BY Zenon
  <2>1. /\ IsFiniteSet(accepted) /\ IsFiniteSet(AcceptedNow)
        /\ Cardinality(AcceptedNow) \in Nat
        /\ graceRemaining \in Nat
    BY FS_Subset, FS_CardinalityType DEF GraceInv, AcceptedNow, TypeOK
  <2>2. ASSUME NEW frame, accepted' = accepted \cup {frame}
        PROVE  IsFiniteSet(accepted')
    BY <2>1, <2>2, FS_AddElement, Zenon
  <2>3. ASSUME NEW frame \in frames, ReceiveRekey(frame)
        PROVE  GraceInv'
    <3>1. /\ frame.key = receiveKey
          /\ receiveKey' = receiveKey + 1
          /\ accepted' = accepted \cup {frame}
      BY <2>3, RekeyVerdict, Zenon DEF ReceiveRekey, IsRekeyInit, deriveNextTrafficKey
    <3>2. AcceptedNow' = {}
      BY <3>1, FrameNumbers DEF AcceptedNow, ReceiveInv
    <3>3. previousReceive' # NoKey => graceRemaining' = GraceFrames
      BY <2>3, Zenon DEF ReceiveRekey, Grace
    <3>4. Cardinality(AcceptedNow') = 0
      BY <3>2, FS_EmptySet, Zenon
    <3>5. GraceBudget'
      BY <3>3, <3>4 DEF GraceBudget, AcceptedNow
    <3>. QED
      BY <2>2, <3>1, <3>5, Zenon DEF GraceInv
  <2>4. ASSUME NEW frame \in frames, ReceiveCurrent(frame)
        PROVE  GraceInv'
    <3>1. /\ accepted' = accepted \cup {frame} /\ UNCHANGED receiveKey
          /\ frame.key = receiveKey
          /\ frame \notin accepted
      BY <2>4, Zenon DEF ReceiveCurrent, Verdict, Acceptable, ReceiveInv
    <3>2. AcceptedNow' = AcceptedNow \cup {frame} /\ frame \notin AcceptedNow
      BY <3>1, Zenon DEF AcceptedNow
    <3>3. Cardinality(AcceptedNow') = Cardinality(AcceptedNow) + 1
      BY <2>1, <3>2, FS_AddElement, Zenon
    <3>4. previousReceive' # NoKey =>
            previousReceive # NoKey /\ graceRemaining' = graceRemaining - 1
      BY <2>1, <2>4, Zenon DEF ReceiveCurrent, Grace
    <3>5. GraceBudget'
      BY <2>1, <3>3, <3>4 DEF GraceInv, GraceBudget, AcceptedNow
    <3>. QED
      BY <2>2, <3>1, <3>5, Zenon DEF GraceInv
  <2>5. ASSUME NEW frame \in frames, ReceivePrevious(frame)
        PROVE  GraceInv'
    <3>1. /\ accepted' = accepted \cup {frame} /\ frame.key # receiveKey
          /\ UNCHANGED <<receiveKey, previousReceive, graceRemaining>>
      BY <2>5, Zenon DEF ReceivePrevious
    <3>2. AcceptedNow' = AcceptedNow
      BY <3>1, Zenon DEF AcceptedNow
    <3>. QED
      BY <2>2, <3>1, <3>2, Zenon DEF GraceInv, GraceBudget, AcceptedNow
  <2>6. ASSUME UNCHANGED <<accepted, receiveKey, previousReceive, graceRemaining>>
        PROVE  GraceInv'
    BY <2>6, Zenon DEF GraceInv, GraceBudget
  <2>. QED
    BY <2>3, <2>4, <2>5, <2>6
       DEF SessionNext, Receive, Send, StartRekey, MarkRekeySent, CloseSender, TickSender,
           ReceiveRefused, CloseReceiver, TickReceiver, sessionVars, receiver
<1>3. GraceInv => GraceBudget
  BY Zenon DEF GraceInv
<1>. QED
  BY <1>1, <1>2, <1>3, SessionInvariant, PTL DEF SessionSpec
=============================================================================
