----------------------------- MODULE Handshake -----------------------------
(***************************************************************************)
(* The three-flight Noise XX exchange of handshake.go, for any number of   *)
(* Handshake objects.  A flight that was emitted may reach any object, any *)
(* number of times and in any order: the object itself is all that keeps   *)
(* two exchanges apart.                                                    *)
(*                                                                         *)
(* Noise is symbolic.  The transcript is the sequence of public keys mixed *)
(* in so far (e_i, e_r, s_r, s_i); it stands for the hash and for the      *)
(* chaining key, and an encrypted part opens only under the transcript it  *)
(* was sealed under.  An ephemeral key is fresh, so it is named by the     *)
(* object that made it.                                                    *)
(***************************************************************************)
EXTENDS Integers, Sequences

CONSTANTS
  Initiators, Responders,  \* Handshake objects of either role
  Static,                  \* their static public keys
  Expected,                \* expectedPeer: a key, or NoKey for any peer
  NoKey,
  Junk                     \* bytes of the right length that nobody emitted

Handshakes == Initiators \cup Responders

ASSUME RolesAssumption == Initiators \cap Responders = {}

VARIABLES
  step,        \* what the object does next
  transcript,  \* what its Noise state has mixed in
  result,      \* the HandshakeResult, or NoResult
  flights      \* every flight emitted so far

hvars == <<step, transcript, result, flights>>

NoResult == [sessionID |-> <<>>]

Final == {"complete", "failed"}

Flight(kind, under, adds) == [kind |-> kind, under |-> under, adds |-> adds]

(* Flights nobody emitted, one for each length ReadFlight takes. *)
JunkFlights ==
  { Flight("init", <<>>, <<Junk>>),
    Flight("response", <<Junk>>, <<Junk, Junk>>),
    Flight("finish", <<Junk>>, <<Junk>>) }

HandshakeInit ==
  /\ step = [h \in Handshakes |-> IF h \in Initiators THEN "write1" ELSE "read1"]
  /\ transcript = [h \in Handshakes |-> <<>>]
  /\ result = [h \in Handshakes |-> NoResult]
  /\ flights = {}

-----------------------------------------------------------------------------
(* WriteMessage of the Noise library: the flight of h's step. *)
WriteMessage(h) ==
  CASE step[h] = "write1" -> Flight("init", <<>>, <<h>>)
    [] step[h] = "write2" -> Flight("response", transcript[h], <<h, Static[h]>>)
    [] step[h] = "write3" -> Flight("finish", transcript[h], <<Static[h]>>)

(* What ReadFlight decodes at each step, and ReadMessage of the library.  The
   first flight is not encrypted. *)
ReadMessage(h, f) ==
  \/ step[h] = "read1" /\ f.kind = "init"
  \/ step[h] = "read2" /\ f.kind = "response" /\ f.under = transcript[h]
  \/ step[h] = "read3" /\ f.kind = "finish" /\ f.under = transcript[h]

PeerStatic(h, binding) == IF h \in Initiators THEN binding[3] ELSE binding[4]

(* The two cipher states come in the order initiator's, responder's. *)
First(binding) == <<"i2r", binding>>
Second(binding) == <<"r2i", binding>>

(* Mutant: both roles send with the first key. *)
ResultUnswapped(h, binding) ==
  [ sessionID |-> binding, peer |-> PeerStatic(h, binding),
    send |-> First(binding), receive |-> Second(binding) ]

Result(h, binding) ==
  [ sessionID |-> binding,
    peer      |-> PeerStatic(h, binding),
    send      |-> IF h \in Initiators THEN First(binding) ELSE Second(binding),
    receive   |-> IF h \in Initiators THEN Second(binding) ELSE First(binding) ]

PeerExpected(h, binding) == Expected[h] \in {NoKey, PeerStatic(h, binding)}

(* h.state = nil is the empty transcript. *)
Fail(h) ==
  /\ step' = [step EXCEPT ![h] = "failed"]
  /\ transcript' = [transcript EXCEPT ![h] = <<>>]
  /\ result' = [result EXCEPT ![h] = NoResult]

Complete(h, binding) ==
  /\ step' = [step EXCEPT ![h] = "complete"]
  /\ transcript' = [transcript EXCEPT ![h] = <<>>]
  /\ result' = [result EXCEPT ![h] = Result(h, binding)]

Advance(h, next, adds) ==
  /\ step' = [step EXCEPT ![h] = next]
  /\ transcript' = [transcript EXCEPT ![h] = @ \o adds]
  /\ UNCHANGED result

After == [write1 |-> "read2", read1 |-> "write2", write2 |-> "read3", read2 |-> "write3"]

-----------------------------------------------------------------------------
(* Mutant: the final flight is released, then the peer is compared. *)
WriteUnpinned(h) ==
  LET f == WriteMessage(h) IN
  /\ step[h] \in {"write1", "write2", "write3"}
  /\ flights' = flights \cup {f}
  /\ IF step[h] # "write3" THEN Advance(h, After[step[h]], f.adds)
     ELSE IF PeerExpected(h, transcript[h] \o f.adds) THEN Complete(h, transcript[h] \o f.adds)
     ELSE Fail(h)

(* WriteFlight with a Noise library that succeeds. *)
Write(h) ==
  LET f == WriteMessage(h) IN
  \/ /\ step[h] \in {"write1", "write2"}
     /\ Advance(h, After[step[h]], f.adds)
     /\ flights' = flights \cup {f}
  \/ /\ step[h] = "write3"
     /\ PeerExpected(h, transcript[h] \o f.adds)
     /\ Complete(h, transcript[h] \o f.adds)
     /\ flights' = flights \cup {f}
  \/ /\ step[h] = "write3"
     /\ ~ PeerExpected(h, transcript[h] \o f.adds)
     /\ Fail(h) /\ UNCHANGED flights

(* The library fails: no randomness, or a degenerate Diffie-Hellman result. *)
WriteFails(h) ==
  /\ step[h] \in {"write1", "write2", "write3"}
  /\ Fail(h) /\ UNCHANGED flights

(* Out of turn, or after the end: ErrHandshake and nothing else. *)
WriteRefused(h) ==
  /\ step[h] \notin {"write1", "write2", "write3"}
  /\ UNCHANGED hvars

WriteFlight(h) == Write(h) \/ WriteFails(h) \/ WriteRefused(h)

Read(h, f) ==
  \/ /\ step[h] \in {"read1", "read2"} /\ ReadMessage(h, f)
     /\ Advance(h, After[step[h]], f.adds)
  \/ /\ step[h] = "read3" /\ ReadMessage(h, f)
     /\ PeerExpected(h, transcript[h] \o f.adds)
     /\ Complete(h, transcript[h] \o f.adds)
  \/ /\ step[h] = "read3" /\ ReadMessage(h, f)
     /\ ~ PeerExpected(h, transcript[h] \o f.adds)
     /\ Fail(h)

ReadFails(h, f) ==
  /\ step[h] \in {"read1", "read2", "read3"} /\ ~ ReadMessage(h, f)
  /\ Fail(h)

(* Mutant: a call out of turn fails the handshake. *)
ReadOutOfTurnFails(h) ==
  /\ step[h] \notin {"read1", "read2", "read3"}
  /\ Fail(h)

ReadRefused(h) ==
  /\ step[h] \notin {"read1", "read2", "read3"}
  /\ UNCHANGED <<step, transcript, result>>

ReadFlight(h, f) ==
  /\ Read(h, f) \/ ReadFails(h, f) \/ ReadRefused(h)
  /\ UNCHANGED flights

HandshakeNext ==
  \E h \in Handshakes :
     \/ WriteFlight(h)
     \/ \E f \in flights \cup JunkFlights : ReadFlight(h, f)

HandshakeSpec == HandshakeInit /\ [][HandshakeNext]_hvars

-----------------------------------------------------------------------------
(* A responder that completed (complete, handshake.go:198) agrees with an
   initiator that completed: same session ID, the keys of the two directions
   exchanged, each with the other's static key.  And a session ID belongs to
   one exchange: no two objects of one role complete with the same, whatever
   flights were repeated to them (transcriptSessionID, handshake.go:223).   *)
Agreement ==
  /\ \A r \in Responders : step[r] = "complete" =>
       \E i \in Initiators :
         /\ step[i] = "complete"
         /\ result[i] = [ sessionID |-> result[r].sessionID, peer |-> Static[r],
                          send |-> result[r].receive, receive |-> result[r].send ]
         /\ result[r].peer = Static[i]
  /\ \A Role \in {Initiators, Responders} : \A g, h \in Role :
       /\ step[g] = "complete" /\ step[h] = "complete"
       /\ result[g].sessionID = result[h].sessionID
       => g = h

(* The pin is checked before the final flight, which carries the initiator's
   identity, is released (client.go:110: "checks the pin before releasing the
   final flight").  The flight names its initiator by the ephemeral key.    *)
PinBeforeFinish ==
  \A f \in flights : f.kind = "finish" => Expected[f.under[1]] \in {NoKey, f.under[3]}

(* What has ended stays as it ended: neither a repeated flight nor a call out
   of turn revives a failed handshake or takes a result away.               *)
EndIsFinal ==
  [][\A h \in Handshakes : step[h] \in Final =>
       step'[h] = step[h] /\ result'[h] = result[h]]_hvars
=============================================================================
