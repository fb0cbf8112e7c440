----------------------------- MODULE Establish -----------------------------
(***************************************************************************)
(* Establishing a connection: DialContext and DialAndStartContext of the   *)
(* client, performHandshake of the server, each around a Handshake object  *)
(* and over a TCP connection.  A step is what a routine does up to and     *)
(* including its next transport call.  A transport call fails when its     *)
(* context has ended or the connection is broken, and may still succeed    *)
(* after either, because it may have begun before (what it promises is     *)
(* Transport.tla's).                                                       *)
(*                                                                         *)
(* The other end of a socket is our routine, or a stranger that sends any  *)
(* flight it has seen on a wire, or junk.  Handshake objects that no       *)
(* routine owns are called directly and in any order.                      *)
(***************************************************************************)
EXTENDS Handshake, FiniteSets

CONSTANTS
  Casts,      \* configurations: participants and what each one's peer is
  Starters,   \* clients that use DialAndStartContext
  Allowed,    \* AllowedClients; empty allows every client
  Stranger, Direct,
  MaxForeign  \* bound: frames a stranger sends

(* A ClientConfig without the server's key is refused (client_config.go). *)
ASSUME CastsAssumption ==
  \A cast \in Casts :
    /\ DOMAIN cast \subseteq Handshakes
    /\ \A x \in DOMAIN cast \cap Initiators : cast[x] # Direct => Expected[x] # NoKey

VARIABLES
  peer,     \* the configuration of this behaviour: [participants -> peers]
  pc,
  inbox,    \* frames on their way to each routine
  wire,     \* flights that were written to a socket
  ended,    \* routines whose establishment context has ended
  stopped,  \* clients whose runtime context has ended
  reset,    \* sockets the network has broken
  socket,   \* "none", "open" or how many times it was closed
  ret,      \* what the routine returned
  foreign   \* frames sent by strangers

evars == <<peer, pc, inbox, wire, ended, stopped, reset, socket, ret, foreign>>
vars == <<hvars, evars>>

Routines == {x \in DOMAIN peer : peer[x] # Direct}
Clients == Routines \cap Initiators
Workers == Routines \cap Responders

Init ==
  /\ HandshakeInit
  /\ peer \in Casts
  /\ pc = [x \in Routines |-> IF x \in Initiators THEN "call" ELSE "read1"]
  /\ inbox = [x \in Routines |-> <<>>]
  /\ wire = {} /\ ended = {} /\ stopped = {} /\ reset = {} /\ foreign = 0
  /\ socket = [x \in Routines |-> IF x \in Initiators THEN "none" ELSE "open"]
  /\ ret = [x \in Routines |-> "none"]

-----------------------------------------------------------------------------
(* The environment. *)

(* Cancellation by the caller or HandshakeTimeout. *)
EndContext(x) ==
  /\ pc[x] # "returned" /\ x \notin ended
  /\ ended' = ended \cup {x}
  /\ UNCHANGED <<hvars, peer, pc, inbox, wire, stopped, reset, socket, ret, foreign>>

EndRuntime(c) ==
  /\ c \in Starters /\ c \notin stopped /\ pc[c] # "returned"
  /\ stopped' = stopped \cup {c}
  /\ UNCHANGED <<hvars, peer, pc, inbox, wire, ended, reset, socket, ret, foreign>>

Reset(x) ==
  /\ socket[x] = "open" /\ x \notin reset /\ pc[x] # "returned"
  /\ reset' = reset \cup {x}
  /\ UNCHANGED <<hvars, peer, pc, inbox, wire, ended, stopped, socket, ret, foreign>>

(* A frame as validateHandshakeFrame sees it: its type, whether session ID and
   sequence number are zero and the lengths right, and the flight it carries. *)
Frame(type, zero, f) == [type |-> type, zero |-> zero, flight |-> f]
FrameOf(f) == Frame(IF f.kind = "init" THEN "init" ELSE "response", TRUE, f)
ForeignFrames ==
  {FrameOf(f) : f \in wire \cup JunkFlights}
  \cup {Frame("data", TRUE, f) : f \in JunkFlights}
  \cup {[FrameOf(f) EXCEPT !.zero = FALSE] : f \in wire}

StrangerSends(x) ==
  /\ peer[x] = Stranger /\ socket[x] = "open" /\ inbox[x] = <<>>
  /\ foreign < MaxForeign /\ foreign' = foreign + 1
  /\ \E frame \in ForeignFrames : inbox' = [inbox EXCEPT ![x] = <<frame>>]
  /\ UNCHANGED <<hvars, peer, pc, wire, ended, stopped, reset, socket, ret>>

-----------------------------------------------------------------------------
(* The transport and the frame checks. *)

Broken(x) == x \in reset \/ (peer[x] \in Routines /\ socket[peer[x]] = "closed")
(* Mutant: a transport call does not watch its context. *)
CallIgnoresContext(x) == Broken(x)

CallFails(x) == x \in ended \/ Broken(x)

(* Flights written to x's socket reach its peer in order. *)
Delivers(x, f) ==
  /\ wire' = wire \cup {f}
  /\ inbox' = IF peer[x] \in Routines
              THEN [inbox EXCEPT ![peer[x]] = Append(@, FrameOf(f))] ELSE inbox

validateHandshakeFrame(frame, type) == frame.type = type /\ frame.zero

(* The routine goes on at p, or returns r; Close on the way counts. *)
Goto(x, p) == pc' = [pc EXCEPT ![x] = p] /\ UNCHANGED <<socket, ret>>
Returns(x, r, sock) ==
  /\ pc' = [pc EXCEPT ![x] = "returned"]
  /\ ret' = [ret EXCEPT ![x] = r]
  /\ socket' = [socket EXCEPT ![x] = sock]
Closed(x) ==
  CASE socket[x] = "open" -> "closed"
    [] socket[x] = "closed" -> "closed twice"
    [] OTHER -> socket[x]

(* fail of establishClient, with the deferred Close of dialContext; the server
   passes the error on and closes the transport in handleConn. *)
Fails(x) ==
  Returns(x, IF x \in Initiators /\ x \in ended THEN "context" ELSE "error", Closed(x))

(* WriteFlight and WriteFrame, then p. *)
WriteThen(x, p) ==
  \/ /\ Write(x) /\ step'[x] # "failed"
     /\ \E f \in flights' : f = WriteMessage(x) /\ Delivers(x, f)
     /\ Goto(x, p)
  \/ /\ Write(x) /\ step'[x] # "failed" /\ CallFails(x)
     /\ Fails(x) /\ UNCHANGED <<wire, inbox>>
  \/ /\ (Write(x) /\ step'[x] = "failed") \/ WriteFails(x)
     /\ Fails(x) /\ UNCHANGED <<wire, inbox>>

(* ReadFrame, validateHandshakeFrame and ReadFlight, then p. *)
ReadThen(x, type, p) ==
  /\ \/ /\ inbox[x] # <<>>
        /\ LET frame == Head(inbox[x]) IN
           /\ inbox' = [inbox EXCEPT ![x] = Tail(@)]
           /\ IF validateHandshakeFrame(frame, type)
              THEN /\ ReadFlight(x, frame.flight)
                   /\ IF step'[x] = "failed" THEN Fails(x) ELSE Goto(x, p)
              ELSE Fails(x) /\ UNCHANGED hvars
     \/ CallFails(x) /\ Fails(x) /\ UNCHANGED <<hvars, inbox>>
  /\ UNCHANGED wire

-----------------------------------------------------------------------------
(* The client: DialAndStartContext around dialContext around establishClient. *)

Call(c) ==
  /\ pc[c] = "call"
  /\ IF c \in stopped \/ c \in ended THEN Returns(c, "context", socket[c]) ELSE Goto(c, "dial")
  /\ UNCHANGED <<hvars, inbox, wire>>

DialSucceeds(c) ==
  /\ pc[c] = "dial"
  /\ pc' = [pc EXCEPT ![c] = "write1"]
  /\ socket' = [socket EXCEPT ![c] = "open"]
  /\ UNCHANGED <<hvars, inbox, wire, ret>>

(* With or without a socket to close. *)
DialFails(c) ==
  /\ pc[c] = "dial"
  /\ \E sock \in {"none", "closed"} :
        Returns(c, IF c \in ended THEN "context" ELSE "error", sock)
  /\ UNCHANGED <<hvars, inbox, wire>>

(* Mutant: ownership is given up before the last look at the context. *)
CheckUnowned(c) ==
  /\ pc[c] = "check"
  /\ IF c \in ended THEN Returns(c, "context", socket[c])
     ELSE IF c \in Starters THEN Goto(c, "start")
     ELSE Returns(c, "conn", socket[c])
  /\ UNCHANGED <<hvars, inbox, wire>>

(* After the session was made: the last look at the establishment context. *)
Check(c) ==
  /\ pc[c] = "check"
  /\ IF c \in ended THEN Returns(c, "context", Closed(c))
     ELSE IF c \in Starters THEN Goto(c, "start")
     ELSE Returns(c, "conn", socket[c])
  /\ UNCHANGED <<hvars, inbox, wire>>

(* DialAndStartContext with the stopped connection in hand. *)
Start(c) ==
  /\ pc[c] = "start"
  /\ IF c \in stopped THEN Returns(c, "context", Closed(c)) ELSE Returns(c, "conn", socket[c])
  /\ UNCHANGED <<hvars, inbox, wire>>

ClientStep(c) ==
  /\ \/ Call(c) \/ DialSucceeds(c) \/ DialFails(c) \/ Check(c) \/ Start(c)
     \/ pc[c] = "write1" /\ WriteThen(c, "read2")
     \/ pc[c] = "read2" /\ ReadThen(c, "response", "write3")
     \/ pc[c] = "write3" /\ WriteThen(c, "check")
  /\ UNCHANGED <<peer, ended, stopped, reset, foreign>>

-----------------------------------------------------------------------------
(* The server's worker: performHandshake, up to the session. *)

(* Mutant: the list is looked at, the key is not. *)
isAnyoneAllowed(w) == Allowed = {} \/ result[w].peer # NoKey

isClientAllowed(w) == Allowed = {} \/ result[w].peer \in Allowed

Admit(w) ==
  /\ pc[w] = "allow"
  /\ IF isClientAllowed(w) THEN Returns(w, "session", socket[w]) ELSE Fails(w)
  /\ UNCHANGED <<hvars, inbox, wire>>

WorkerStep(w) ==
  /\ \/ pc[w] = "read1" /\ ReadThen(w, "init", "write2")
     \/ pc[w] = "write2" /\ WriteThen(w, "read3")
     \/ pc[w] = "read3" /\ ReadThen(w, "response", "allow")
     \/ Admit(w)
  /\ UNCHANGED <<peer, ended, stopped, reset, foreign>>

DirectCall(h) ==
  /\ \/ WriteFlight(h)
     \/ \E f \in flights \cup JunkFlights : ReadFlight(h, f)
  /\ UNCHANGED evars

Terminated ==
  /\ Routines # {} /\ \A x \in Routines : pc[x] = "returned"
  /\ UNCHANGED vars

Step(x) == IF x \in Initiators THEN ClientStep(x) ELSE WorkerStep(x)

Next ==
  \/ \E c \in Clients : ClientStep(c) \/ EndRuntime(c)
  \/ \E w \in Workers : WorkerStep(w)
  \/ \E x \in Routines : EndContext(x) \/ Reset(x) \/ StrangerSends(x)
  \/ \E h \in DOMAIN peer \ Routines : DirectCall(h)
  \/ Terminated

(* A routine goes on when it needs nobody, and returns from a transport call
   or a dial when its context has ended; the timeout ends it. *)
Goes(x) == /\ x \in Routines
           /\ x \in ended \/ pc[x] \in {"call", "check", "start", "allow"}
           /\ Step(x)
Fairness == \A x \in Handshakes : WF_vars(Goes(x)) /\ WF_vars(x \in Routines /\ EndContext(x))

Spec == Init /\ [][Next]_vars /\ Fairness

-----------------------------------------------------------------------------
(* "Failure closes the acquired socket exactly once and returns no connection
   or metadata" (client.go:19-20); the caller of a successful dial owns an
   open one.  A success has the pinned peer, has written the whole final
   flight, and a cancellation is reported as such and only then.           *)
DialOutcome ==
  \A c \in Clients : pc[c] = "returned" =>
    /\ ret[c] = "conn" =>
         /\ socket[c] = "open" /\ step[c] = "complete"
         /\ result[c].peer = Expected[c]
         /\ \E f \in wire : f.kind = "finish" /\ f.under[1] = c
    /\ ret[c] # "conn" => socket[c] \in {"none", "closed"}
    /\ ret[c] = "context" => c \in ended \cup stopped
    /\ ret[c] = "error" => c \notin ended

(* A session of the server is that of one client that has authenticated this
   server and has written its final flight, whatever strangers repeat; a worker
   that returns without one has closed its socket.                          *)
SessionOutcome ==
  \A w \in Workers : pc[w] = "returned" =>
    IF ret[w] = "session"
    THEN /\ socket[w] = "open"
         /\ Allowed # {} => result[w].peer \in Allowed
         /\ \E f \in wire :
              /\ f.kind = "finish" /\ f.under \o f.adds = result[w].sessionID
              /\ result[f.under[1]].peer = Static[w]
    ELSE socket[w] = "closed"

(* Every dial and every worker returns, with peers and networks that never
   answer: the timeout ends it (HandshakeTimeout "covering dial and all
   flights", client.go:17-18).                                             *)
EstablishmentEnds == \A x \in Handshakes : <>(x \in Routines => pc[x] = "returned")
=============================================================================
