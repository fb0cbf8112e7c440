------------------------------ MODULE Config -------------------------------
(***************************************************************************)
(* What DialContext, NewServer and NewConnection make of the settings they *)
(* are given: normalizeClientConfig (client_config.go), NewServer          *)
(* (server_config.go) and NewConnection (connection.go).  Durations are    *)
(* signed integers that wrap around.  Keys, the server pin, the cipher     *)
(* suite, WriteTimeout and HandlerShutdownTimeout are only checked for     *)
(* being valid, so they are the field `valid'; so are the limits of a      *)
(* server's pools.                                                         *)
(***************************************************************************)
EXTENDS Integers

CONSTANTS
  MaxDuration,             \* math.MaxInt64
  DefaultHandshakeTimeout  \* 10 seconds

ASSUME DurationAssumption ==
  /\ MaxDuration \in Nat
  /\ DefaultHandshakeTimeout \in 1 .. MaxDuration

Durations == -(MaxDuration + 1) .. MaxDuration

Settings ==
  [ valid : BOOLEAN, handshake : Durations, read : Durations, idle : Durations,
    interval : Durations, timeout : Durations, outbound : Durations, handler : Durations ]

(* Sum and difference of two durations. *)
Wrapped(n) ==
  IF n > MaxDuration THEN n - 2 * (MaxDuration + 1)
  ELSE IF n < -(MaxDuration + 1) THEN n + 2 * (MaxDuration + 1) ELSE n

Accepted(c) == [ok |-> TRUE, config |-> c]
Rejected == [ok |-> FALSE]

(* The timeout, and whether twice the interval can be represented. *)
representable(interval) == interval <= MaxDuration \div 2
defaultKeepaliveTimeout(interval) ==
  IF representable(interval) THEN Wrapped(2 * interval) ELSE MaxDuration

WithKeepaliveTimeout(c) ==
  IF c.interval > 0 /\ c.timeout = 0
  THEN [c EXCEPT !.timeout = defaultKeepaliveTimeout(c.interval)] ELSE c

WithHandshakeTimeout(c) ==
  IF c.handshake = 0 THEN [c EXCEPT !.handshake = DefaultHandshakeTimeout] ELSE c

Negative(c) ==
  \/ c.handshake < 0 \/ c.read < 0 \/ c.idle < 0 \/ c.interval < 0 \/ c.timeout < 0
  \/ c.outbound < 0 \/ c.handler < 0

Unrepresentable(c) == c.interval > 0 /\ c.timeout = 0 /\ ~ representable(c.interval)

Longer(a, b) == IF a > b THEN a ELSE b
Window(c) == Longer(c.idle, Wrapped(c.interval + c.timeout))

normalizeClientConfig(given) ==
  LET c == WithKeepaliveTimeout(WithHandshakeTimeout(given)) IN
  IF \/ ~ given.valid \/ Negative(given) \/ Unrepresentable(given)
     \/ c.timeout > Wrapped(MaxDuration - c.interval)
     \/ (c.read > 0 /\ c.read < Window(c))
  THEN Rejected ELSE Accepted(c)

Queue(n) == IF n = 0 THEN 16 ELSE n

NewServer(given) ==
  LET c == WithKeepaliveTimeout(given) IN
  IF \/ ~ given.valid \/ Negative(given) \/ Unrepresentable(given)
     \/ (c.interval > 0 /\ c.timeout > Wrapped(MaxDuration - c.interval))
     \/ (c.read > 0 /\ Window(c) > 0 /\ c.read < Window(c))
  THEN Rejected
  ELSE Accepted([WithHandshakeTimeout(c) EXCEPT !.outbound = Queue(@), !.handler = Queue(@)])

(* The runtime's own defaults, for callers that come with any settings. *)
NewConnection(c) ==
  LET queue(n) == IF n <= 0 THEN 16 ELSE n IN
  [ c EXCEPT !.outbound = queue(@), !.handler = queue(@),
             !.timeout = IF c.interval > 0 /\ @ <= 0
                         THEN defaultKeepaliveTimeout(c.interval) ELSE @ ]
=============================================================================
