----------------------------- MODULE Keepalive -----------------------------
(***************************************************************************)
(* maintenanceLoop of connection_keepalive.go with its timers, and what it *)
(* shares with the reader: the expected ping and its acknowledgement under *)
(* pingMu, and the coalesced wakeups `activity' and `pong'.                *)
(*                                                                         *)
(* A timer is Off, or the number of ticks until it fires; at 0 its channel *)
(* has a value that nobody has received.  Goroutines may be late by any    *)
(* number of ticks.  A select takes any of its ready cases.                *)
(***************************************************************************)
EXTENDS Config

CONSTANTS
  Givens,      \* settings that a client, a server or a caller comes with
  MaxNonce,    \* math.MaxUint64, the last nonce
  MaxRefusals  \* bound: pings the full control queue refuses

ASSUME KeepaliveAssumption ==
  /\ Givens \subseteq Settings
  /\ MaxNonce \in Nat \ {0} /\ MaxRefusals \in Nat

VARIABLES
  timer,       \* idle, keepalive and pong timers
  loop,        \* configuration, control point and outstanding ping of the loop
  ping,        \* pingNonce, pingExpected, pingAcknowledged
  wake,        \* the channels activity and pong, each of capacity 1
  peer,        \* nonces the peer may still answer, the last of them; is it there
  refusals,    \* how many pings were refused
  history      \* last acknowledged nonce, ticks since ping and since activity

vars == <<timer, loop, ping, wake, peer, refusals, history>>

Off == -1
Armed(duration) == IF duration > 0 THEN duration ELSE Off
Running == loop.at # "ended"

IdleTimeout == loop.config.idle
KeepaliveInterval == loop.config.interval
KeepaliveTimeout == loop.config.timeout

(* The settings of a runtime: DialContext and the server normalise what they
   are given, a caller of NewConnection does not. *)
Normalized ==
  { normalizeClientConfig(c) : c \in Givens } \cup { NewServer(c) : c \in Givens }
Timers(c) == [idle |-> c.idle, interval |-> c.interval, timeout |-> c.timeout]
ConnectionConfigs ==
  { Timers(NewConnection(r.config)) : r \in { n \in Normalized : n.ok } }
  \cup { Timers(NewConnection(c)) : c \in Givens }

Init ==
  /\ \E c \in ConnectionConfigs :
       /\ loop = [at |-> "select", outstanding |-> 0, cause |-> "nil", config |-> c]
       /\ timer = [idle |-> Armed(c.idle), keepalive |-> Armed(c.interval), pong |-> Off]
  /\ ping = [nonce |-> 0, expected |-> 0, acknowledged |-> FALSE]
  /\ wake = [activity |-> FALSE, pong |-> FALSE]
  /\ peer = [pings |-> {}, last |-> 0, alive |-> TRUE]
  /\ refusals = 0
  /\ history = [acknowledged |-> 0, sincePing |-> 0, sinceActivity |-> 0]

Capped(n, bound) == IF n < bound THEN n + 1 ELSE n

Tick ==
  /\ Running
  /\ \E t \in DOMAIN timer : timer[t] > 0
  /\ timer' = [t \in DOMAIN timer |-> IF timer[t] > 0 THEN timer[t] - 1 ELSE timer[t]]
  /\ history' = [history EXCEPT !.sincePing = Capped(@, KeepaliveTimeout),
                                !.sinceActivity = Capped(@, IdleTimeout)]
  /\ UNCHANGED <<loop, ping, wake, peer, refusals>>
-----------------------------------------------------------------------------
(* The cases of the loop's select.                                         *)

resetTimer(t, duration) == [timer EXCEPT ![t] = duration]

Activity ==
  /\ loop.at = "select" /\ wake.activity
  /\ wake' = [wake EXCEPT !.activity = FALSE]
  /\ timer' = resetTimer("idle", Armed(IdleTimeout))
  /\ UNCHANGED <<loop, ping, peer, refusals, history>>

(* consumePingAcknowledgement was true: the ping is settled and the        *)
(* interval starts again.                                                  *)
Settled ==
  /\ ping' = [ping EXCEPT !.acknowledged = FALSE]
  /\ loop' = [loop EXCEPT !.outstanding = 0]
  /\ timer' = [timer EXCEPT !.pong = Off, !.keepalive = KeepaliveInterval]

(* The pong channel only says that it is worth looking.                    *)
PongWakeup ==
  /\ loop.at = "select" /\ wake.pong
  /\ wake' = [wake EXCEPT !.pong = FALSE]
  /\ IF loop.outstanding # 0 /\ ping.acknowledged THEN Settled
     ELSE UNCHANGED <<ping, loop, timer>>
  /\ UNCHANGED <<peer, refusals, history>>

(* Zero is reserved across rollover.                                       *)
NextNonce == IF ping.nonce = MaxNonce THEN 1 ELSE ping.nonce + 1

(* beginPing publishes the expectation before the ping is enqueued.        *)
BeginPing ==
  /\ loop.at = "select" /\ timer.keepalive = 0 /\ loop.outstanding = 0
  /\ ping' = [nonce |-> NextNonce, expected |-> NextNonce, acknowledged |-> FALSE]
  /\ loop' = [loop EXCEPT !.at = "enqueue", !.outstanding = NextNonce]
  /\ timer' = resetTimer("keepalive", Off)
  /\ history' = [history EXCEPT !.acknowledged = 0]
  /\ UNCHANGED <<wake, peer, refusals>>

(* The ping reaches the control queue, and from then on the peer.  Of the  *)
(* earlier pings the peer may still answer the last one.                   *)
EnqueuePing ==
  /\ loop.at = "enqueue"
  /\ loop' = [loop EXCEPT !.at = "enqueued"]
  /\ peer' = [peer EXCEPT !.pings = (@ \cap {peer.last}) \cup {loop.outstanding},
                          !.last = loop.outstanding]
  /\ UNCHANGED <<timer, ping, wake, refusals, history>>

(* enqueueControl returns: the pong timer is started, or the ping is given *)
(* up until the next interval.                                             *)
PingEnqueued ==
  /\ loop.at = "enqueued"
  /\ timer' = resetTimer("pong", KeepaliveTimeout)
  /\ loop' = [loop EXCEPT !.at = "select"]
  /\ history' = [history EXCEPT !.sincePing = 0]
  /\ UNCHANGED <<ping, wake, peer, refusals>>

(* Mutant: the keepalive timer is not started again.                       *)
PingRefusedForGood ==
  /\ loop.at = "enqueue" /\ refusals < MaxRefusals
  /\ refusals' = refusals + 1
  /\ ping' = [ping EXCEPT !.expected = 0, !.acknowledged = FALSE]
  /\ loop' = [loop EXCEPT !.at = "select", !.outstanding = 0]
  /\ UNCHANGED <<timer, wake, peer, history>>

PingRefused ==
  /\ loop.at = "enqueue" /\ refusals < MaxRefusals
  /\ refusals' = refusals + 1
  /\ ping' = [ping EXCEPT !.expected = 0, !.acknowledged = FALSE]
  /\ loop' = [loop EXCEPT !.at = "select", !.outstanding = 0]
  /\ timer' = resetTimer("keepalive", KeepaliveInterval)
  /\ UNCHANGED <<wake, peer, history>>

(* The loop returns; shutdown clears the expected ping.                    *)
End(cause) ==
  /\ loop' = [loop EXCEPT !.at = "ended", !.cause = cause]
  /\ ping' = [ping EXCEPT !.expected = 0, !.acknowledged = FALSE]
  /\ UNCHANGED timer

(* Mutant: the timer beats an acknowledgement.                             *)
PongDeadlineUnchecked ==
  /\ loop.at = "select" /\ timer.pong = 0
  /\ End("keepalive timeout")
  /\ UNCHANGED <<wake, peer, refusals, history>>

(* The deadline looks for an acknowledgement that was recorded before.     *)
PongDeadline ==
  /\ loop.at = "select" /\ timer.pong = 0
  /\ IF ping.acknowledged THEN Settled
     ELSE End("keepalive timeout")
  /\ UNCHANGED <<wake, peer, refusals, history>>

IdleDeadline ==
  /\ loop.at = "select" /\ timer.idle = 0
  /\ End("idle timeout")
  /\ UNCHANGED <<wake, peer, refusals, history>>
-----------------------------------------------------------------------------
(* The reader: noteActivity for every message, and acknowledgePing for the *)
(* response the loop expects.  The history does not count activity that    *)
(* comes when the idle timer has fired.                                    *)

SinceActivity == IF timer.idle = 0 THEN history.sinceActivity ELSE 0

NoteActivity ==
  /\ wake' = [wake EXCEPT !.activity = TRUE]
  /\ history' = [history EXCEPT !.sinceActivity = SinceActivity]

ReceiveMessage ==
  /\ Running /\ peer.alive
  /\ NoteActivity
  /\ UNCHANGED <<timer, loop, ping, peer, refusals>>

(* Mutant: any response acknowledges the expected ping.                    *)
ReceiveAnyPong(nonce) ==
  /\ Running /\ peer.alive
  /\ IF ping.expected # 0
     THEN /\ ping' = [ping EXCEPT !.expected = 0, !.acknowledged = TRUE]
          /\ wake' = [activity |-> TRUE, pong |-> TRUE]
          /\ history' = [history EXCEPT !.acknowledged = nonce,
                                        !.sinceActivity = SinceActivity]
     ELSE NoteActivity /\ UNCHANGED ping
  /\ UNCHANGED <<timer, loop, peer, refusals>>

ReceivePong(nonce) ==
  /\ Running /\ peer.alive
  /\ IF ping.expected # 0 /\ nonce = ping.expected
     THEN /\ ping' = [ping EXCEPT !.expected = 0, !.acknowledged = TRUE]
          /\ wake' = [activity |-> TRUE, pong |-> TRUE]
          /\ history' = [history EXCEPT !.acknowledged = nonce,
                                        !.sinceActivity = SinceActivity]
     ELSE NoteActivity /\ UNCHANGED ping
  /\ UNCHANGED <<timer, loop, peer, refusals>>

(* The peer falls silent for good.                                         *)
PeerDies ==
  /\ Running /\ peer.alive
  /\ peer' = [peer EXCEPT !.alive = FALSE]
  /\ UNCHANGED <<timer, loop, ping, wake, refusals, history>>

(* The connection ends for another reason: ctx.Done, and clearPing.        *)
Cancel ==
  /\ loop.at = "select"
  /\ End("context")
  /\ UNCHANGED <<wake, peer, refusals, history>>

Ended == loop.at = "ended" /\ UNCHANGED vars
-----------------------------------------------------------------------------
MaintenanceLoop ==
  \/ Activity \/ PongWakeup \/ BeginPing \/ EnqueuePing \/ PingEnqueued
  \/ PingRefused \/ PongDeadline \/ IdleDeadline

Next ==
  \/ Tick \/ MaintenanceLoop
  \/ ReceiveMessage \/ (\E nonce \in peer.pings : ReceivePong(nonce))
  \/ PeerDies \/ Cancel \/ Ended

Spec == Init /\ [][Next]_vars

(* Time passes and the loop runs; the peer owes nothing.                   *)
FairSpec == Spec /\ WF_vars(Tick) /\ WF_vars(MaintenanceLoop)
-----------------------------------------------------------------------------
(* The connection is not ended for a ping whose acknowledgement the reader *)
(* had recorded: "A ready timer must not beat an acknowledgement already   *)
(* recorded by the reader" (connection_keepalive.go maintenanceLoop); and  *)
(* a ping has its whole KeepaliveTimeout, which is positive whatever the   *)
(* settings were, and whatever earlier pings left behind.                  *)
TimeoutJustified ==
  loop.cause = "keepalive timeout" =>
    /\ history.acknowledged # loop.outstanding
    /\ history.sincePing >= KeepaliveTimeout /\ KeepaliveTimeout > 0

(* Only a response to the outstanding ping acknowledges it, whatever older *)
(* responses and wakeups are on their way, and while a ping is outstanding *)
(* its deadline is set and its nonce is not zero, the mark of no ping,     *)
(* across the rollover of the counter too.                                 *)
AcknowledgementMatches ==
  /\ peer.pings \subseteq 1 .. MaxNonce
  /\ loop.at \in {"enqueue", "enqueued"} => loop.outstanding # 0
  /\ ping.expected # 0 => ping.expected = loop.outstanding
  /\ ping.acknowledged => history.acknowledged = loop.outstanding
  /\ loop.at = "select" => (loop.outstanding # 0 <=> timer.pong # Off)

(* A peer that falls silent is noticed: some timer ends the connection.    *)
SilenceNoticed ==
  (~peer.alive /\ KeepaliveInterval > 0) ~> loop.at = "ended"

(* "ErrIdleTimeout indicates that inbound activity did not occur before    *)
(* the idle timeout" (connection.go): no message came in the idle timeout  *)
(* before the idle timer fired.                                            *)
IdleMeansSilent ==
  loop.cause = "idle timeout" => history.sinceActivity >= IdleTimeout
=============================================================================
