------------------------------- MODULE Server -------------------------------
(***************************************************************************)
(* The server: its accept loop (server.go Serve), one worker per accepted  *)
(* socket (server_runtime.go handleConn), the goroutine that closes a      *)
(* handed-off connection at shutdown, and calls of Close and Abort.        *)
(*                                                                         *)
(* A step is a section under s.mu, a channel operation, or a call that     *)
(* ends.  The handshake, the admission hook and the peer decide what they  *)
(* like.  The connection runtime is what Connection shows of it: once      *)
(* "closing" it comes to "done" by itself, and a Close or abort before     *)
(* Start keeps it from running.                                            *)
(***************************************************************************)
EXTENDS Integers, FiniteSets

CONSTANTS
  Sockets,                 \* bound: connections the listener accepts
  Closers, Aborters,       \* goroutines that call Close, or Abort, once
  MaxConcurrentHandshakes, MaxActiveConnections

ASSUME ServerAssumption ==
  /\ MaxConcurrentHandshakes \in Nat \ {0}
  /\ MaxActiveConnections \in Nat \ {0}

VARIABLES
  serve, \* Serve: control point and the socket it has in hand
  srv,   \* the Server: maps, pools, flags, wait group
  sock,  \* of every socket: its worker, Connection, watcher and history
  stop   \* of every Close and Abort: control point, what is left to close

vars == <<serve, srv, sock, stop>>

Init ==
  /\ serve = [at |-> "idle", holds |-> {}]
  /\ srv = [listener |-> "unset", inShutdown |-> FALSE, handshakes |-> 0,
            connSlots |-> 0, handshakeConns |-> {}, conns |-> {}, wg |-> 0]
  /\ sock = [c \in Sockets |->
              [pc |-> "new", open |-> FALSE, runtime |-> "none", watcher |-> "none",
               admitted |-> FALSE, disconnected |-> 0]]
  /\ stop = [k \in Closers \cup Aborters |->
              [at |-> "idle", listener |-> FALSE, sockets |-> {}, conns |-> {}]]
-----------------------------------------------------------------------------
(* Serve.                                                                  *)

ServeBegin ==
  /\ serve.at = "idle"
  /\ IF srv.inShutdown
     THEN serve' = [serve EXCEPT !.at = "returned"] /\ UNCHANGED srv
     ELSE /\ serve' = [serve EXCEPT !.at = "accept"]
          /\ srv' = [srv EXCEPT !.listener = "open"]
  /\ UNCHANGED <<sock, stop>>

(* A socket is accepted, and closed again when no handshake slot is free.  *)
Accept(c) ==
  /\ serve.at = "accept" /\ srv.listener = "open" /\ sock[c].pc = "new"
  /\ LET free == srv.handshakes < MaxConcurrentHandshakes
     IN  /\ sock' = [sock EXCEPT ![c].pc = "accepted", ![c].open = free]
         /\ srv' = [srv EXCEPT !.handshakes = IF free THEN @ + 1 ELSE @]
         /\ serve' = IF free THEN [at |-> "register", holds |-> {c}] ELSE serve
  /\ UNCHANGED stop

(* Mutants: the slot of a dropped socket is kept; the shutdown is ignored. *)
RegisterHandshakeLeaks(c) ==
  /\ serve.at = "register" /\ c \in serve.holds
  /\ serve' = [at |-> "accept", holds |-> {}]
  /\ IF srv.inShutdown
     THEN sock' = [sock EXCEPT ![c].open = FALSE] /\ UNCHANGED srv
     ELSE /\ srv' = [srv EXCEPT !.handshakeConns = @ \cup {c}, !.wg = @ + 1]
          /\ sock' = [sock EXCEPT ![c].pc = "handshake"]
  /\ UNCHANGED stop

RegisterHandshakeLate(c) ==
  /\ serve.at = "register" /\ c \in serve.holds
  /\ serve' = [at |-> "accept", holds |-> {}]
  /\ srv' = [srv EXCEPT !.handshakeConns = @ \cup {c}, !.wg = @ + 1]
  /\ sock' = [sock EXCEPT ![c].pc = "handshake"]
  /\ UNCHANGED stop

(* registerHandshake reserves the worker under s.mu, or Serve drops the    *)
(* socket and its slot.                                                    *)
RegisterHandshake(c) ==
  /\ serve.at = "register" /\ c \in serve.holds
  /\ serve' = [at |-> "accept", holds |-> {}]
  /\ IF srv.inShutdown
     THEN /\ srv' = [srv EXCEPT !.handshakes = @ - 1]
          /\ sock' = [sock EXCEPT ![c].open = FALSE]
     ELSE /\ srv' = [srv EXCEPT !.handshakeConns = @ \cup {c}, !.wg = @ + 1]
          /\ sock' = [sock EXCEPT ![c].pc = "handshake"]
  /\ UNCHANGED stop

(* Mutant: every error counts as temporary.                                *)
AcceptFailsForever ==
  /\ serve.at = "accept"
  /\ serve' = [serve EXCEPT !.at = "delay"]
  /\ UNCHANGED <<srv, sock, stop>>

(* Accept fails: for a while, for good, or because of the shutdown.        *)
AcceptFails ==
  /\ serve.at = "accept"
  /\ \/ srv.listener = "open" /\ ~srv.inShutdown /\ serve' = [serve EXCEPT !.at = "delay"]
     \/ serve' = [serve EXCEPT !.at = "returned"]
  /\ UNCHANGED <<srv, sock, stop>>

AcceptDelay ==
  /\ serve.at = "delay"
  /\ \/ serve' = [serve EXCEPT !.at = "accept"]
     \/ srv.inShutdown /\ serve' = [serve EXCEPT !.at = "returned"]
  /\ UNCHANGED <<srv, sock, stop>>
-----------------------------------------------------------------------------
(* What conn.Close and conn.abort do to a socket and its runtime.          *)
Closed(s) ==
  CASE s.runtime \in {"made", "aborted"} -> [s EXCEPT !.runtime = "done", !.open = FALSE]
    [] s.runtime = "running" -> [s EXCEPT !.runtime = "closing"]
    [] OTHER -> s

Aborted(s) ==
  CASE s.runtime = "made" -> [s EXCEPT !.runtime = "aborted", !.open = FALSE]
    [] s.runtime = "running" -> [s EXCEPT !.runtime = "closing"]
    [] OTHER -> s

(* handleConn.  Its deferred calls are the labels from "unregister" on.    *)

Goto(c, s, label) == sock' = [sock EXCEPT ![c] = [s EXCEPT !.pc = label]]

(* performHandshake returns and the handshake slot is released.            *)
Handshake(c) ==
  /\ sock[c].pc = "handshake"
  /\ srv' = [srv EXCEPT !.handshakes = @ - 1]
  /\ \/ sock[c].open /\ Goto(c, sock[c], "slot")
     \/ Goto(c, sock[c], "cleanup")

AcquireSlot(c) ==
  /\ sock[c].pc = "slot"
  /\ IF srv.connSlots < MaxActiveConnections
     THEN /\ srv' = [srv EXCEPT !.connSlots = @ + 1]
          /\ Goto(c, [sock[c] EXCEPT !.runtime = "made"], "admission")
     ELSE Goto(c, sock[c], "cleanup") /\ UNCHANGED srv

(* The admission hook accepts, or it rejects or panics.                    *)
Admission(c) ==
  /\ sock[c].pc = "admission"
  /\ \/ Goto(c, [sock[c] EXCEPT !.admitted = TRUE], "register")
     \/ Goto(c, Closed(sock[c]), "release")
  /\ UNCHANGED srv

(* Mutant: the hook is missed when the handoff is refused.                 *)
RegisterConnSilent(c) ==
  /\ sock[c].pc = "register"
  /\ IF srv.inShutdown
     THEN Goto(c, Closed(sock[c]), "release") /\ UNCHANGED srv
     ELSE /\ srv' = [srv EXCEPT !.conns = @ \cup {c}, !.handshakeConns = @ \ {c}]
          /\ Goto(c, [sock[c] EXCEPT !.watcher = "watch"], "start")

(* registerConn hands the socket over to its runtime, under s.mu.          *)
RegisterConn(c) ==
  /\ sock[c].pc = "register"
  /\ IF srv.inShutdown
     THEN Goto(c, Closed(sock[c]), "disconnect") /\ UNCHANGED srv
     ELSE /\ srv' = [srv EXCEPT !.conns = @ \cup {c}, !.handshakeConns = @ \ {c}]
          /\ Goto(c, [sock[c] EXCEPT !.watcher = "watch"], "start")

(* conn.Start has no effect on a runtime that was closed before.           *)
StartConn(c) ==
  /\ sock[c].pc = "start"
  /\ Goto(c, [sock[c] EXCEPT !.runtime = CASE @ = "made" -> "running"
                                           [] @ = "aborted" -> "closing"
                                           [] OTHER -> @], "await")
  /\ UNCHANGED srv

AwaitDone(c) ==
  /\ sock[c].pc = "await" /\ sock[c].runtime = "done"
  /\ Goto(c, sock[c], "unregister")
  /\ UNCHANGED srv

UnregisterConn(c) ==
  /\ sock[c].pc = "unregister"
  /\ srv' = [srv EXCEPT !.conns = @ \ {c}]
  /\ Goto(c, sock[c], "disconnect")

OnDisconnect(c) ==
  /\ sock[c].pc = "disconnect"
  /\ Goto(c, [sock[c] EXCEPT !.disconnected = @ + 1], "release")
  /\ UNCHANGED srv

ReleaseSlot(c) ==
  /\ sock[c].pc = "release"
  /\ srv' = [srv EXCEPT !.connSlots = @ - 1]
  /\ Goto(c, sock[c], "cleanup")

(* transport.Close and unregisterHandshake, then wg.Done.                  *)
Cleanup(c) ==
  /\ sock[c].pc = "cleanup"
  /\ srv' = [srv EXCEPT !.handshakeConns = @ \ {c}]
  /\ Goto(c, [sock[c] EXCEPT !.open = FALSE], "finish")

Finish(c) ==
  /\ sock[c].pc = "finish"
  /\ srv' = [srv EXCEPT !.wg = @ - 1]
  /\ Goto(c, sock[c], "exited")

handleConn(c) ==
  /\ \/ Handshake(c) \/ AcquireSlot(c) \/ Admission(c) \/ RegisterConn(c)
     \/ StartConn(c) \/ AwaitDone(c) \/ UnregisterConn(c) \/ OnDisconnect(c)
     \/ ReleaseSlot(c) \/ Cleanup(c) \/ Finish(c)
  /\ UNCHANGED <<serve, stop>>

(* The peer or a failure ends a runtime; its shutdown closes the transport *)
(* and then Done.                                                          *)
ConnFails(c) ==
  /\ sock[c].runtime = "running"
  /\ sock' = [sock EXCEPT ![c].runtime = "closing"]
  /\ UNCHANGED <<serve, srv, stop>>

ConnDone(c) ==
  /\ sock[c].runtime = "closing"
  /\ sock' = [sock EXCEPT ![c].runtime = "done", ![c].open = FALSE]
  /\ UNCHANGED <<serve, srv, stop>>

(* The goroutine started at the handoff waits for s.closed or connCtx.     *)
Watch(c) ==
  /\ sock[c].watcher = "watch"
  /\ \/ /\ srv.inShutdown
        /\ sock' = [sock EXCEPT ![c] = [Closed(@) EXCEPT !.watcher = "exited"]]
     \/ /\ sock[c].pc \in {"unregister", "disconnect", "release", "cleanup",
                           "finish", "exited"}
        /\ sock' = [sock EXCEPT ![c].watcher = "exited"]
  /\ UNCHANGED <<serve, srv, stop>>
-----------------------------------------------------------------------------
(* Close and Abort: beginShutdown takes a snapshot, whose parts are closed *)
(* one by one.  Then Abort returns, and Close waits for the workers.       *)

BeginShutdown(k) ==
  /\ stop[k].at = "idle"
  /\ srv' = [srv EXCEPT !.inShutdown = TRUE]
  /\ stop' = [stop EXCEPT ![k] = [at |-> "listener", listener |-> srv.listener # "unset",
                                  sockets |-> srv.handshakeConns, conns |-> srv.conns]]
  /\ UNCHANGED <<serve, sock>>

CloseListener(k) ==
  /\ stop[k].at = "listener"
  /\ srv' = [srv EXCEPT !.listener = IF stop[k].listener THEN "closed" ELSE @]
  /\ stop' = [stop EXCEPT ![k].at = "sweep"]
  /\ UNCHANGED <<serve, sock>>

Sweep(k) ==
  /\ stop[k].at = "sweep"
  /\ \/ \E c \in stop[k].sockets :
          /\ stop' = [stop EXCEPT ![k].sockets = @ \ {c}]
          /\ sock' = [sock EXCEPT ![c].open = FALSE]
     \/ \E c \in stop[k].conns :
          /\ stop[k].sockets = {}
          /\ stop' = [stop EXCEPT ![k].conns = @ \ {c}]
          /\ sock' = [sock EXCEPT ![c] = IF k \in Closers THEN Closed(@) ELSE Aborted(@)]
     \/ /\ stop[k].sockets = {} /\ stop[k].conns = {}
        /\ stop' = [stop EXCEPT ![k].at = IF k \in Closers THEN "wait" ELSE "returned"]
        /\ UNCHANGED sock
  /\ UNCHANGED <<serve, srv>>

Wait(k) ==
  /\ stop[k].at = "wait" /\ srv.wg = 0
  /\ stop' = [stop EXCEPT ![k].at = "returned"]
  /\ UNCHANGED <<serve, srv, sock>>
-----------------------------------------------------------------------------
Stopping == Closers \cup Aborters

(* Nothing is left to do after a shutdown.                                 *)
Finished ==
  /\ serve.at = "returned"
  /\ \A k \in Stopping : stop[k].at = "returned"
  /\ \A c \in Sockets : /\ sock[c].pc \in {"new", "accepted", "exited"}
                        /\ sock[c].watcher # "watch"
  /\ UNCHANGED vars

Next ==
  \/ ServeBegin \/ AcceptFails \/ AcceptDelay
  \/ \E c \in Sockets : \/ Accept(c) \/ RegisterHandshake(c) \/ handleConn(c)
                        \/ ConnFails(c) \/ ConnDone(c) \/ Watch(c)
  \/ \E k \in Stopping : BeginShutdown(k) \/ CloseListener(k) \/ Sweep(k) \/ Wait(k)
  \/ Finished

Spec == Init /\ [][Next]_vars

(* The server's goroutines go on while they can: the handshake by its      *)
(* timeout, the hooks because they return, the runtime as Connection       *)
(* shows.  Nobody has to connect, to fail or to call Close.                *)
Fairness ==
  /\ WF_vars(srv.listener = "closed" /\ AcceptFails) /\ WF_vars(AcceptDelay)
  /\ \A c \in Sockets : /\ WF_vars(RegisterHandshake(c)) /\ WF_vars(handleConn(c))
                        /\ WF_vars(ConnDone(c)) /\ WF_vars(Watch(c))
  /\ \A k \in Stopping : WF_vars(CloseListener(k) \/ Sweep(k) \/ Wait(k))

FairSpec == Spec /\ Fairness
-----------------------------------------------------------------------------
HoldsSlot == {"admission", "register", "start", "await", "unregister",
              "disconnect", "release"}
Live == {"handshake", "slot", "cleanup"} \cup HoldsSlot

(* No slot leaks and none is released twice: the used slots are those of   *)
(* the sockets at a point that holds one, on every way out of handleConn,  *)
(* and no pool is overfilled.  A socket the server works on is owned by    *)
(* exactly one of the maps until its runtime is done: "a handoff cannot    *)
(* double-count or lose a socket between the two maps" (server_stats.go).  *)
SlotsConserved ==
  /\ srv.handshakes <= MaxConcurrentHandshakes /\ srv.connSlots <= MaxActiveConnections
  /\ srv.handshakes = Cardinality({c \in Sockets : sock[c].pc = "handshake"} \cup serve.holds)
  /\ srv.connSlots = Cardinality({c \in Sockets : sock[c].pc \in HoldsSlot})
  /\ srv.handshakeConns \cap srv.conns = {}
  /\ \A c \in Sockets :
       sock[c].pc \in Live /\ (sock[c].open \/ sock[c].runtime \in {"made", "running"}) =>
         c \in srv.handshakeConns \cup srv.conns

(* A Close that waits has reached everything it waits for: no worker still *)
(* has an open socket, unless its runtime is on the way to its end.  When  *)
(* it has returned no worker, socket or slot is left, nor can one come:    *)
(* the wait group was not at zero too early.                               *)
NothingEscapesClose ==
  \A k \in Closers :
    /\ stop[k].at = "wait" =>
         \A c \in Sockets :
           sock[c].pc \in Live => ~sock[c].open \/ sock[c].runtime = "closing"
    /\ stop[k].at = "returned" =>
         /\ srv.connSlots = 0 /\ srv.conns = {} /\ srv.handshakeConns = {} /\ srv.wg = 0
         /\ \A c \in Sockets : sock[c].open => c \in serve.holds

(* "OnDisconnect runs exactly once after an admitted connection            *)
(* terminates" (server_config.go), and never for one that was rejected.    *)
DisconnectOnce ==
  \A c \in Sockets :
    /\ sock[c].disconnected <= (IF sock[c].admitted THEN 1 ELSE 0)
    /\ sock[c].disconnected > 0 => sock[c].runtime = "done" /\ c \notin srv.conns
    /\ sock[c].pc = "exited" /\ sock[c].admitted => sock[c].disconnected = 1

(* A call of Close returns, whatever the workers were doing (server.go     *)
(* Close waits for the wait group), and Serve returns once Close or Abort  *)
(* has closed the listener.                                                *)
StopsReturn ==
  /\ \A k \in Closers : stop[k].at = "listener" ~> stop[k].at = "returned"
  /\ srv.listener = "closed" ~> serve.at = "returned"
=============================================================================
