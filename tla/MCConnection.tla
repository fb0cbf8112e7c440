---------------------------- MODULE MCConnection ----------------------------
(* Instances of Connection for TLC.                                        *)
EXTENDS Connection, TLC

CONSTANTS p1, p2, p3, c1

NoProducers == {}
NoMode == [p \in {} |-> "Send"]

TwoWaiters == {p1, p2}
TwoModes == [p \in TwoWaiters |-> IF p = p1 THEN "SendAndWait" ELSE "SendContext"]

AllProducers == {p1, p2, p3}
AllModes == (p1 :> "SendAndWait") @@ (p2 :> "SendContext") @@ (p3 :> "Send")

Case(bounded, callers, inbound, pings, events) ==
  [ bounded |-> bounded, callers |-> callers, inbound |-> inbound, pings |-> pings,
    events |-> events ]

Lifecycle == {Case(FALSE, {c1}, 1, 1,
                   {"start_cancel", "abort", "idle", "keepalive_timeout", "io", "timer"})}
Sending == {Case(FALSE, AllProducers \cup {c1}, 0, 0, {"caller_cancel", "timer"})}
ClosePing == {Case(FALSE, {c1}, 1, 0, {})}

(* A peer that sends twice, with handlers of both kinds and no caller; one that
   sends once while a keepalive ping is out; callers with a peer that is silent. *)
Progress == {Case(b, {}, 2, 0, {"handler_error", "abort"}) : b \in BOOLEAN}
              \cup {Case(FALSE, {}, 1, 1, {"handler_error", "abort"}),
                    Case(FALSE, TwoWaiters \cup {c1}, 0, 0, {"timer"})}
=============================================================================
