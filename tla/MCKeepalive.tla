---------------------------- MODULE MCKeepalive ----------------------------
(* Instances of Keepalive for TLC.                                         *)
EXTENDS Keepalive

Given(idle, interval, timeout) ==
  [ valid |-> TRUE, handshake |-> 0, read |-> 6, idle |-> idle,
    interval |-> interval, timeout |-> timeout, outbound |-> 0, handler |-> 0 ]

(* A timeout of its own, a default one, the default for one that only
   NewConnection takes, and one that cannot be represented. *)
MCGivens ==
  { Given(i, k[1], k[2]) : i \in {0, 3}, k \in {<<2, 3>>, <<1, 0>>, <<2, -1>>} }
  \cup {Given(0, MaxDuration, 0)}

MCIdleGivens == {Given(2, 0, 0)}
=============================================================================
