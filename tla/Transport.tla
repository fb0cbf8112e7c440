----------------------------- MODULE Transport -----------------------------
(***************************************************************************)
(* TCPTransport (tcp.go): the read and the write lane of one connection,   *)
(* the goroutine that turns the cancellation of a call's context into a    *)
(* passed deadline of the socket, and the frames on the two byte streams.  *)
(*                                                                         *)
(* Bytes come in units: HeaderUnits for the header of a frame, then its    *)
(* body.  A unit may or may not arrive (or be taken by the socket) at any  *)
(* time, so that a call can be stopped inside a frame or inside a header.  *)
(* The socket is external: it refuses I/O once it is closed or once the    *)
(* deadline has passed, and may break at any time.                         *)
(***************************************************************************)
EXTENDS Integers, Sequences

CONSTANTS
  Readers, Writers,  \* calls of ReadFrame and of WriteFrame, each with its context
  CallSets,          \* sets of calls that are made on one transport
  HeaderUnits,       \* units of a header
  BodySizes,         \* units of the body of a frame
  MaxFrames          \* bound: frames the peer sends

ASSUME TransportAssumption ==
  /\ Readers \cap Writers = {}
  /\ CallSets \subseteq SUBSET (Readers \cup Writers)
  /\ HeaderUnits \in Nat \ {0}
  /\ BodySizes \subseteq Nat
  /\ MaxFrames \in Nat

VARIABLES
  call,      \* control point, units wanted and transferred, result of each call
  canceled,  \* calls whose context is done
  watcher,   \* the goroutine of watchContext of each call
  lane,      \* the channels read and write: the calls whose token is in them
  deadline,  \* has the read, the write deadline of the socket passed
  closed,    \* is the socket closed
  peer,      \* frames of the peer so far: body size, and is the header accepted
  position,  \* the next unit to read: its frame and its place in it
  outbound   \* units written to the socket

vars == <<call, canceled, watcher, lane, deadline, closed, peer, position, outbound>>

Calls == Readers \cup Writers
Frames == [body : BodySizes, valid : BOOLEAN]
Lanes == {"read", "write"}
Lane(c) == IF c \in Readers THEN "read" ELSE "write"

Init ==
  /\ \E made \in CallSets :
       call = [c \in Calls |-> [at |-> IF c \in made THEN "idle" ELSE "unused",
                                want |-> 0, units |-> <<>>, result |-> "none"]]
  /\ canceled = {}
  /\ watcher = [c \in Calls |-> "none"]
  /\ lane = [l \in Lanes |-> {}]
  /\ deadline = [l \in Lanes |-> FALSE]
  /\ closed = FALSE
  /\ peer = <<>>
  /\ position = [frame |-> 1, part |-> 0]
  /\ outbound = <<>>

Goto(c, at) == call' = [call EXCEPT ![c].at = at]
Leave(c, at, result) == call' = [call EXCEPT ![c].at = at, ![c].result = result]
-----------------------------------------------------------------------------
(* Entering: a writer encodes its frame before it waits for the lane, and  *)
(* acquireLane looks at the context before it waits.                       *)

Enter(c) ==
  /\ call[c].at = "idle"
  /\ IF c \in canceled
     THEN Leave(c, "returned", "canceled")
     ELSE \E body \in IF c \in Readers THEN {0} ELSE BodySizes :
            call' = [call EXCEPT ![c].at = "acquire", ![c].want = HeaderUnits + body]
  /\ UNCHANGED <<canceled, watcher, lane, deadline, closed, peer, position, outbound>>

MarshalRefused(c) ==
  /\ call[c].at = "idle" /\ c \in Writers
  /\ Leave(c, "returned", "invalid")
  /\ UNCHANGED <<canceled, watcher, lane, deadline, closed, peer, position, outbound>>

(* Mutant: the lane is a channel of capacity 2.                            *)
AcquireShared(c) ==
  /\ call[c].at = "acquire"
  /\ lane' = [lane EXCEPT ![Lane(c)] = @ \cup {c}]
  /\ Goto(c, "watch")
  /\ UNCHANGED <<canceled, watcher, deadline, closed, peer, position, outbound>>

AcquireLane(c) ==
  /\ call[c].at = "acquire"
  /\ lane[Lane(c)] = {}
  /\ lane' = [lane EXCEPT ![Lane(c)] = {c}]
  /\ Goto(c, "watch")
  /\ UNCHANGED <<canceled, watcher, deadline, closed, peer, position, outbound>>

AcquireCanceled(c) ==
  /\ call[c].at = "acquire" /\ c \in canceled
  /\ Leave(c, "returned", "canceled")
  /\ UNCHANGED <<canceled, watcher, lane, deadline, closed, peer, position, outbound>>

(* A context that is done by now is noticed before there is a watcher:     *)
(* only the lane is given back.                                            *)
WatchContext(c) ==
  /\ call[c].at = "watch"
  /\ IF c \in canceled
     THEN Leave(c, "release", "canceled") /\ UNCHANGED watcher
     ELSE /\ Goto(c, IF c \in Readers THEN "header" ELSE "body")
          /\ watcher' = [watcher EXCEPT ![c] = "select"]
  /\ UNCHANGED <<canceled, lane, deadline, closed, peer, position, outbound>>
-----------------------------------------------------------------------------
(* Input and output.                                                       *)

Transferring(c) ==
  /\ call[c].at \in {"header", "body"}
  /\ Len(call[c].units) < call[c].want

(* External: the socket serves a call.                                     *)
Serves(c) == Transferring(c) /\ ~closed /\ ~deadline[Lane(c)]

(* A frame is whatever the peer sends; it is chosen with its first unit.   *)
ReadUnit(c) ==
  /\ c \in Readers /\ Serves(c)
  /\ IF position.part > 0 THEN UNCHANGED peer
     ELSE /\ Len(peer) < MaxFrames
          /\ \E frame \in Frames : peer' = Append(peer, frame)
  /\ call' = [call EXCEPT ![c].units = Append(@, position)]
  /\ position' = IF position.part + 1 < HeaderUnits + peer'[position.frame].body
                 THEN [position EXCEPT !.part = @ + 1]
                 ELSE [frame |-> position.frame + 1, part |-> 0]
  /\ UNCHANGED <<canceled, watcher, lane, deadline, closed, outbound>>

(* Header.UnmarshalBinary and the size checks: the header of a frame says  *)
(* what the peer wrote; units from anywhere else may say anything.         *)
Parses(units) ==
  LET f == units[1].frame
  IN  IF units = [k \in 1 .. HeaderUnits |-> [frame |-> f, part |-> k - 1]]
      THEN {peer[f]}
      ELSE Frames

(* The decoding of the whole frame after the body repeats these checks on  *)
(* the same header and cannot fail.                                        *)
ParseHeader(c) ==
  /\ call[c].at = "header" /\ ~Transferring(c)
  /\ \E header \in Parses(call[c].units) :
       IF header.valid
       THEN call' = [call EXCEPT ![c].at = "body", ![c].want = HeaderUnits + header.body]
       ELSE Leave(c, "stop", "malformed")
  /\ UNCHANGED <<canceled, watcher, lane, deadline, closed, peer, position, outbound>>

WriteUnit(c) ==
  /\ c \in Writers /\ Serves(c)
  /\ LET unit == [frame |-> c, part |-> Len(call[c].units)]
     IN  /\ call' = [call EXCEPT ![c].units = Append(@, unit)]
         /\ outbound' = Append(outbound, unit)
  /\ UNCHANGED <<canceled, watcher, lane, deadline, closed, peer, position>>

Complete(c) ==
  /\ call[c].at = "body" /\ ~Transferring(c)
  /\ Leave(c, "stop", "nil")
  /\ UNCHANGED <<canceled, watcher, lane, deadline, closed, peer, position, outbound>>

transportError(c, err) == IF c \in canceled THEN "canceled" ELSE err

(* The socket refuses: it is closed or its deadline has passed.            *)
Interrupted(c) ==
  /\ Transferring(c)
  /\ \/ closed /\ Leave(c, "stop", transportError(c, "closed"))
     \/ ~closed /\ deadline[Lane(c)] /\ Leave(c, "stop", transportError(c, "timeout"))
  /\ UNCHANGED <<canceled, watcher, lane, deadline, closed, peer, position, outbound>>

(* External: the stream ends or breaks, or a write makes no progress.      *)
Broken(c) ==
  /\ Serves(c)
  /\ \/ Leave(c, "stop", transportError(c, "io"))
     \/ c \in Writers /\ Leave(c, "stop", "short")
  /\ UNCHANGED <<canceled, watcher, lane, deadline, closed, peer, position, outbound>>
-----------------------------------------------------------------------------
(* The deferred calls: stop, which joins the watcher and clears the        *)
(* deadline, then the release of the lane.                                 *)

Stop(c) ==
  /\ call[c].at = "stop"
  /\ Goto(c, "joining")
  /\ UNCHANGED <<canceled, watcher, lane, deadline, closed, peer, position, outbound>>

(* Mutant: the deadline is cleared without waiting for the watcher.        *)
JoinUnwaited(c) ==
  /\ call[c].at = "joining"
  /\ deadline' = [deadline EXCEPT ![Lane(c)] = FALSE]
  /\ Goto(c, "release")
  /\ UNCHANGED <<canceled, watcher, lane, closed, peer, position, outbound>>

Join(c) ==
  /\ call[c].at = "joining" /\ watcher[c] = "exited"
  /\ deadline' = [deadline EXCEPT ![Lane(c)] = FALSE]
  /\ Goto(c, "release")
  /\ UNCHANGED <<canceled, watcher, lane, closed, peer, position, outbound>>

Release(c) ==
  /\ call[c].at = "release"
  /\ lane' = [lane EXCEPT ![Lane(c)] = {}]
  /\ Goto(c, "returned")
  /\ UNCHANGED <<canceled, watcher, deadline, closed, peer, position, outbound>>
-----------------------------------------------------------------------------
(* The watcher: its select takes any ready case; the deadline is set in a  *)
(* step of its own.                                                        *)

WatcherCanceled(c) ==
  /\ watcher[c] = "select" /\ c \in canceled
  /\ watcher' = [watcher EXCEPT ![c] = "expire"]
  /\ UNCHANGED <<call, canceled, lane, deadline, closed, peer, position, outbound>>

(* Mutant: the deadlines of the two lanes are mixed up.                    *)
WatcherExpiresOther(c) ==
  /\ watcher[c] = "expire"
  /\ deadline' = [l \in Lanes |-> deadline[l] \/ l # Lane(c)]
  /\ watcher' = [watcher EXCEPT ![c] = "exited"]
  /\ UNCHANGED <<call, canceled, lane, closed, peer, position, outbound>>

WatcherExpires(c) ==
  /\ watcher[c] = "expire"
  /\ deadline' = [deadline EXCEPT ![Lane(c)] = TRUE]
  /\ watcher' = [watcher EXCEPT ![c] = "exited"]
  /\ UNCHANGED <<call, canceled, lane, closed, peer, position, outbound>>

WatcherDone(c) ==
  /\ watcher[c] = "select" /\ call[c].at = "joining"
  /\ watcher' = [watcher EXCEPT ![c] = "exited"]
  /\ UNCHANGED <<call, canceled, lane, deadline, closed, peer, position, outbound>>
-----------------------------------------------------------------------------
(* External: a context may end at any time.                                *)
Cancel(c) ==
  /\ c \notin canceled /\ call[c].at # "unused"
  /\ canceled' = canceled \cup {c}
  /\ UNCHANGED <<call, watcher, lane, deadline, closed, peer, position, outbound>>

(* A second Close only answers ErrTransportClosed.                         *)
Close ==
  /\ closed' = TRUE
  /\ UNCHANGED <<call, canceled, watcher, lane, deadline, peer, position, outbound>>

Caller(c) ==
  \/ AcquireLane(c) \/ AcquireCanceled(c) \/ WatchContext(c)
  \/ ParseHeader(c) \/ Complete(c) \/ Interrupted(c)
  \/ Stop(c) \/ Join(c) \/ Release(c)

Watcher(c) == WatcherCanceled(c) \/ WatcherExpires(c) \/ WatcherDone(c)

Next ==
  \/ \E c \in Calls :
       \/ Enter(c) \/ MarshalRefused(c) \/ Caller(c) \/ Watcher(c)
       \/ ReadUnit(c) \/ WriteUnit(c) \/ Broken(c) \/ Cancel(c)
  \/ Close

Spec == Init /\ [][Next]_vars

(* Goroutines run; nothing is assumed of the peer, the socket's buffers or *)
(* the contexts.                                                           *)
FairSpec == Spec /\ \A c \in Calls : WF_vars(Caller(c)) /\ WF_vars(Watcher(c))
-----------------------------------------------------------------------------
Units == [frame : Nat \cup Writers, part : Nat]

Points == {"unused", "idle", "acquire", "watch", "header", "body", "stop", "joining",
           "release", "returned"}
Results == {"none", "nil", "invalid", "malformed", "canceled", "closed", "timeout",
            "io", "short"}
CallType == [at : Points, want : Nat, units : Seq(Units), result : Results]

(* The type invariant.                                                     *)
TypeOK ==
  /\ call \in [Calls -> CallType]
  /\ canceled \subseteq Calls
  /\ watcher \in [Calls -> {"none", "select", "expire", "exited"}]
  /\ lane \in [Lanes -> SUBSET Calls]
  /\ deadline \in [Lanes -> BOOLEAN]
  /\ closed \in BOOLEAN
  /\ peer \in Seq(Frames)
  /\ position \in [frame : Nat, part : Nat]
  /\ outbound \in Seq(Units)

(* No call fails with the timeout that another call's cancellation caused: *)
(* the timeout is only ever seen by a call whose own context is done, and  *)
(* then reported as that (tcp.go watchContext: "Otherwise it can poison    *)
(* the next serialized operation").                                        *)
NeverPoisoned == \A c \in Calls : call[c].result # "timeout"

(* c ended in the middle of a frame, or with a frame it refused.           *)
Tore(c) ==
  call[c].at \in {"stop", "joining", "release", "returned"}
    /\ call[c].units # <<>> /\ call[c].result # "nil"

(* Frames stay whole although they carry no length prefix.  A successful   *)
(* write has put all of its frame on the stream and nothing came between   *)
(* (WriteFrame).  A successful read has one whole frame of the peer,       *)
(* unless an earlier read was stopped inside one (ReadFrame).              *)
FramesWhole ==
  /\ \A c \in Writers :
       LET own == {i \in DOMAIN outbound : outbound[i].frame = c}
       IN  /\ \A i, k \in own : i .. k \subseteq own
           /\ call[c].result = "nil" => \A p \in 0 .. call[c].want - 1 :
                                          \E i \in own : outbound[i].part = p
  /\ (\A c \in Readers : ~Tore(c)) =>
       \A c \in Readers : call[c].result = "nil" =>
         \E f \in DOMAIN peer :
           call[c].units = [k \in 1 .. HeaderUnits + peer[f].body |->
                              [frame |-> f, part |-> k - 1]]

(* A call whose context is done returns, whether it waits for its lane or  *)
(* for the socket, and so does every call once the transport is closed.    *)
CallsReturn ==
  \A c \in Calls :
    (call[c].at \notin {"idle", "unused"} /\ (c \in canceled \/ closed)) ~> (call[c].at = "returned")
=============================================================================
