-------------------------- MODULE TransportProofs --------------------------
(***************************************************************************)
(* Proofs about Transport: whatever calls share a transport, each lane has *)
(* one owner, and a cancelled call leaves nothing behind that makes        *)
(* another one fail.                                                       *)
(***************************************************************************)
EXTENDS Transport, SequenceTheorems, TLAPS

Owning == {"watch", "header", "body", "stop", "joining", "release"}
Watched == {"header", "body", "stop", "joining"}

(* The token of a lane belongs to one call, which is past acquireLane and  *)
(* has not run its deferred release.                                       *)
LaneInv ==
  /\ \A c \in Calls : call[c].at \in Owning <=> c \in lane[Lane(c)]
  /\ \A l \in Lanes : \A c, d \in lane[l] : c = d /\ Lane(c) = l

(* A watcher lives no longer than its call holds the lane, acts only on a  *)
(* context that is done, and its deadline is gone before the release.      *)
WatchInv ==
  /\ \A c \in Calls : watcher[c] \in {"select", "expire"} => call[c].at \in Watched
  /\ \A c \in Calls : watcher[c] = "expire" => c \in canceled
  /\ \A l \in Lanes : deadline[l] =>
       \E c \in lane[l] : c \in canceled /\ call[c].at \in Watched

(* What a reader has read comes from frames the peer has begun, and a      *)
(* header is parsed only when all of it is there.                          *)
StreamInv ==
  /\ position.part > 0 => position.frame \in DOMAIN peer /\ position.frame = Len(peer)
  /\ position.part = 0 => position.frame = Len(peer) + 1
  /\ \A c \in Readers : \A k \in DOMAIN call[c].units :
       call[c].units[k].frame \in DOMAIN peer
  /\ \A c \in Calls : call[c].at = "header" =>
       c \in Readers /\ call[c].want = HeaderUnits
  /\ \A c \in Readers : call[c].at = "acquire" \/ call[c].at = "watch" =>
       call[c].want = HeaderUnits

IInv == TypeOK /\ LaneInv /\ WatchInv /\ StreamInv /\ NeverPoisoned

(* The invariant holds of a new transport (NewTCPTransport).               *)
LEMMA InitEstablishes == Init => IInv
  <1> SUFFICES ASSUME Init PROVE IInv
    BY Zenon
  <1>1. TypeOK
    <2>1. <<>> \in Seq(Units) /\ <<>> \in Seq(Frames)
      OBVIOUS
    <2>2. call \in [Calls -> CallType]
      BY <2>1 DEF Init, CallType, Points, Results
    <2>. QED  BY <2>1, <2>2, Zenon DEF Init, TypeOK, Lanes
  <1>2. \A c \in Calls : /\ call[c].at \in {"idle", "unused"} /\ call[c].units = <<>>
                         /\ call[c].result = "none"
    BY DEF Init
  <1>3. \A c \in Calls : Lane(c) \in Lanes
    BY Zenon DEF Lane, Lanes
  <1>4. LaneInv /\ WatchInv
    BY <1>2, <1>3, Zenon DEF Init, LaneInv, WatchInv, Owning, Watched
  <1>5. StreamInv
    <2>1. position.part = 0 /\ position.frame = 1 /\ Len(peer) = 0
      BY Zenon DEF Init
    <2>2. Readers \subseteq Calls
      BY Zenon DEF Calls
    <2>3. \A c \in Readers : DOMAIN call[c].units = {}
      BY <1>2, <2>2
    <2>. QED  BY <1>2, <2>1, <2>2, <2>3 DEF StreamInv
  <1>6. NeverPoisoned
    BY <1>2, Zenon DEF NeverPoisoned
  <1>. QED  BY <1>1, <1>4, <1>5, <1>6, Zenon DEF IInv
-----------------------------------------------------------------------------
(* A step of one call, field by field; the other calls stay as they are.   *)
Becomes(c, at, want, units, result) ==
  /\ call' \in [Calls -> CallType]
  /\ \A d \in Calls : d # c => call'[d] = call[d]
  /\ call'[c].at = at /\ call'[c].want = want
  /\ call'[c].units = units /\ call'[c].result = result

(* A call goes on (Goto).                                                  *)
LEMMA GotoStep ==
  ASSUME call \in [Calls -> CallType], NEW c \in Calls, NEW at \in Points, Goto(c, at)
  PROVE  Becomes(c, at, call[c].want, call[c].units, call[c].result)
  BY Zenon DEF Goto, CallType, Becomes

(* A call has its result (Leave).                                          *)
LEMMA LeaveStep ==
  ASSUME call \in [Calls -> CallType], NEW c \in Calls, NEW at \in Points,
         NEW result \in Results, Leave(c, at, result)
  PROVE  Becomes(c, at, call[c].want, call[c].units, result)
  BY Zenon DEF Leave, CallType, Becomes

(* A call learns how many units it has to transfer (Enter, ParseHeader).   *)
LEMMA WantStep ==
  ASSUME call \in [Calls -> CallType], NEW c \in Calls, NEW at \in Points,
         NEW want \in Nat, call' = [call EXCEPT ![c].at = at, ![c].want = want]
  PROVE  Becomes(c, at, want, call[c].units, call[c].result)
  BY Zenon DEF CallType, Becomes

(* A call transfers a unit (ReadUnit, WriteUnit).                          *)
LEMMA UnitStep ==
  ASSUME call \in [Calls -> CallType], NEW c \in Calls, NEW unit \in Units,
         call' = [call EXCEPT ![c].units = Append(@, unit)]
  PROVE  Becomes(c, call[c].at, call[c].want, Append(call[c].units, unit), call[c].result)
  <1>1. call[c] \in CallType
    BY Zenon
  <1>2. Append(call[c].units, unit) \in Seq(Units)
    BY <1>1 DEF CallType
  <1>. QED  BY <1>1, <1>2, Zenon DEF CallType, Becomes

(* A call at its I/O that finds its deadline passed is itself the one that *)
(* was cancelled, for it is the only owner of the lane.                    *)
LEMMA SoleOwner ==
  ASSUME LaneInv, WatchInv, NEW c \in Calls, call[c].at \in {"header", "body"},
         deadline[Lane(c)]
  PROVE  c \in canceled
  <1>1. Lane(c) \in Lanes /\ c \in lane[Lane(c)]
    BY Zenon DEF Lane, Lanes, LaneInv, Owning
  <1>. QED  BY <1>1 DEF LaneInv, WatchInv

(* A parsed header is that of a frame.                                     *)
LEMMA ParsesFrames ==
  ASSUME TypeOK, StreamInv, NEW c \in Calls, ParseHeader(c)
  PROVE  Parses(call[c].units) \subseteq Frames
  <1>1. c \in Readers /\ call[c].want = HeaderUnits /\ call[c].units \in Seq(Units)
    BY Zenon DEF ParseHeader, StreamInv, TypeOK, CallType
  <1>2. Len(call[c].units) >= HeaderUnits
    BY <1>1, TransportAssumption DEF ParseHeader, Transferring
  <1>3. 1 \in DOMAIN call[c].units
    BY <1>1, <1>2, TransportAssumption
  <1>4. peer[call[c].units[1].frame] \in Frames
    BY <1>1, <1>3 DEF StreamInv, TypeOK
  <1>. QED  BY <1>4, Zenon DEF Parses, Frames

(* Steps that keep the lanes.                                              *)
LEMMA LaneKept ==
  ASSUME TypeOK, LaneInv, NEW c \in Calls,
         \A d \in Calls : d # c => call'[d] = call[d],
         call[c].at \in Owning <=> call'[c].at \in Owning, lane' = lane
  PROVE  LaneInv'
  BY Zenon DEF LaneInv

(* Steps that keep the watchers and the deadlines.                         *)
LEMMA WatchKept ==
  ASSUME TypeOK, WatchInv, NEW c \in Calls,
         \A d \in Calls : d # c => call'[d] = call[d],
         call[c].at \in Watched => call'[c].at \in Watched,
         UNCHANGED <<lane, watcher, deadline, canceled>>
  PROVE  WatchInv'
  <1>1. \A d \in Calls : call[d].at \in Watched => call'[d].at \in Watched
    BY Zenon
  <1>2. \A l \in Lanes : lane[l] \subseteq Calls
    BY Zenon DEF TypeOK
  <1>. QED  BY <1>1, <1>2, Zenon DEF WatchInv

(* Steps that keep the stream of the peer.                                 *)
LEMMA StreamKept ==
  ASSUME StreamInv, NEW c \in Calls,
         \A d \in Calls : d # c => call'[d] = call[d],
         call'[c].units = call[c].units,
         call'[c].at = "header" => c \in Readers /\ call'[c].want = HeaderUnits,
         c \in Readers /\ call'[c].at \in {"acquire", "watch"} => call'[c].want = HeaderUnits,
         UNCHANGED <<peer, position>>
  PROVE  StreamInv'
  <1>1. Readers \subseteq Calls
    BY Zenon DEF Calls
  <1>2. \A d \in Calls : call'[d].units = call[d].units
    BY Zenon
  <1>. QED  BY <1>1, <1>2 DEF StreamInv

(* Steps that do not end in a timeout.                                     *)
LEMMA NotPoisoned ==
  ASSUME NeverPoisoned, NEW c \in Calls,
         \A d \in Calls : d # c => call'[d] = call[d],
         call'[c].result = call[c].result \/ call'[c].result # "timeout"
  PROVE  NeverPoisoned'
  BY Zenon DEF NeverPoisoned

(* Every step keeps the invariant.                                         *)
LEMMA StepPreserves ==
  ASSUME IInv, [Next]_vars
  PROVE  IInv'
  <1>1. ASSUME NEW c \in Calls, Enter(c) PROVE IInv'
    <2>1. \/ Becomes(c, "returned", call[c].want, call[c].units, "canceled")
          \/ \E want \in Nat :
               /\ Becomes(c, "acquire", want, call[c].units, call[c].result)
               /\ c \in Readers => want = HeaderUnits
      <3>. USE DEF IInv, TypeOK
      <3>1. CASE c \in canceled
        BY <3>1, LeaveStep, <1>1, Zenon DEF Enter, Points, Results
      <3>2. CASE c \notin canceled
        <4>1. PICK body \in IF c \in Readers THEN {0} ELSE BodySizes :
                call' = [call EXCEPT ![c].at = "acquire", ![c].want = HeaderUnits + body]
          BY <3>2, <1>1, Zenon DEF Enter
        <4>2. HeaderUnits + body \in Nat /\ (c \in Readers => HeaderUnits + body = HeaderUnits)
          BY TransportAssumption
        <4>. QED  BY <4>1, <4>2, WantStep, Zenon DEF Points
      <3>. QED  BY <3>1, <3>2, Zenon
    <2>2. TypeOK'
      BY <2>1, <1>1, Zenon DEF Enter, Becomes, IInv, TypeOK
    <2>3. LaneInv'
      BY <2>1, <1>1, LaneKept, Zenon DEF Enter, Becomes, Owning, IInv
    <2>4. WatchInv'
      BY <2>1, <1>1, WatchKept, Zenon DEF Enter, Becomes, Watched, IInv
    <2>5. StreamInv'
      BY <2>1, <1>1, StreamKept, Zenon DEF Enter, Becomes, IInv, StreamInv
    <2>6. NeverPoisoned'
      BY <2>1, NotPoisoned, Zenon DEF Becomes, IInv
    <2>. QED  BY <2>2, <2>3, <2>4, <2>5, <2>6, Zenon DEF IInv
  <1>2. ASSUME NEW c \in Calls, MarshalRefused(c) PROVE IInv'
    <2>1. Becomes(c, "returned", call[c].want, call[c].units, "invalid")
      BY LeaveStep, <1>2, Zenon DEF MarshalRefused, IInv, TypeOK, Points, Results
    <2>2. TypeOK'
      BY <2>1, <1>2, Zenon DEF MarshalRefused, Becomes, IInv, TypeOK
    <2>3. LaneInv'
      BY <2>1, <1>2, LaneKept, Zenon DEF MarshalRefused, Becomes, Owning, IInv
    <2>4. WatchInv'
      BY <2>1, <1>2, WatchKept, Zenon DEF MarshalRefused, Becomes, Watched, IInv
    <2>5. StreamInv'
      BY <2>1, <1>2, StreamKept, Zenon DEF MarshalRefused, Becomes, IInv, StreamInv
    <2>6. NeverPoisoned'
      BY <2>1, NotPoisoned, Zenon DEF Becomes, IInv
    <2>. QED  BY <2>2, <2>3, <2>4, <2>5, <2>6, Zenon DEF IInv
  <1>3. ASSUME NEW c \in Calls, AcquireLane(c) PROVE IInv'
    <2>1. Becomes(c, "watch", call[c].want, call[c].units, call[c].result)
      BY GotoStep, <1>3, Zenon DEF AcquireLane, IInv, TypeOK, Points, Results
    <2>2. TypeOK'
      BY <2>1, <1>3, Zenon DEF AcquireLane, Becomes, IInv, TypeOK
    <2>3. LaneInv'
      <3>1. \A l \in Lanes : lane'[l] = IF l = Lane(c) THEN {c} ELSE lane[l]
        BY <1>3, Zenon DEF AcquireLane, IInv, TypeOK
      <3>2. \A d \in Calls : Lane(d) \in Lanes
        BY Zenon DEF Lane, Lanes
      <3>3. \A d \in Calls : d # c => (call'[d].at \in Owning <=> d \in lane'[Lane(d)])
        BY <2>1, <3>1, <3>2, <1>3 DEF AcquireLane, Becomes, LaneInv, IInv
      <3>4. call'[c].at \in Owning /\ c \in lane'[Lane(c)]
        BY <2>1, <3>1, <3>2, Zenon DEF Becomes, Owning
      <3>. QED  BY <3>1, <3>3, <3>4 DEF LaneInv, IInv
    <2>4. WatchInv'
      <3>1. \A l \in Lanes : lane[l] \subseteq lane'[l] /\ lane[l] \subseteq Calls
        BY <1>3, Zenon DEF AcquireLane, IInv, TypeOK
      <3>2. \A d \in Calls : call[d].at \in Watched => call'[d].at \in Watched
        BY <2>1, <1>3, Zenon DEF AcquireLane, Becomes, Watched
      <3>. QED  BY <3>1, <3>2, <1>3, Zenon DEF AcquireLane, WatchInv, IInv
    <2>5. StreamInv'
      BY <2>1, <1>3, StreamKept, Zenon DEF AcquireLane, Becomes, IInv, StreamInv
    <2>6. NeverPoisoned'
      BY <2>1, NotPoisoned, Zenon DEF Becomes, IInv
    <2>. QED  BY <2>2, <2>3, <2>4, <2>5, <2>6, Zenon DEF IInv
  <1>4. ASSUME NEW c \in Calls, AcquireCanceled(c) PROVE IInv'
    <2>1. Becomes(c, "returned", call[c].want, call[c].units, "canceled")
      BY LeaveStep, <1>4, Zenon DEF AcquireCanceled, IInv, TypeOK, Points, Results
    <2>2. TypeOK'
      BY <2>1, <1>4, Zenon DEF AcquireCanceled, Becomes, IInv, TypeOK
    <2>3. LaneInv'
      BY <2>1, <1>4, LaneKept, Zenon DEF AcquireCanceled, Becomes, Owning, IInv
    <2>4. WatchInv'
      BY <2>1, <1>4, WatchKept, Zenon DEF AcquireCanceled, Becomes, Watched, IInv
    <2>5. StreamInv'
      BY <2>1, <1>4, StreamKept, Zenon DEF AcquireCanceled, Becomes, IInv, StreamInv
    <2>6. NeverPoisoned'
      BY <2>1, NotPoisoned, ZenonT(40) DEF Becomes, IInv
    <2>. QED  BY <2>2, <2>3, <2>4, <2>5, <2>6, Zenon DEF IInv
  <1>5. ASSUME NEW c \in Calls, WatchContext(c) PROVE IInv'
    <2>1. \/ /\ Becomes(c, "release", call[c].want, call[c].units, "canceled")
             /\ UNCHANGED watcher
          \/ \E at \in {"header", "body"} :
               /\ Becomes(c, at, call[c].want, call[c].units, call[c].result)
               /\ at = "header" => c \in Readers
               /\ watcher' = [watcher EXCEPT ![c] = "select"]
      BY GotoStep, LeaveStep, <1>5, Zenon DEF WatchContext, IInv, TypeOK, Points, Results
    <2>2. TypeOK'
      BY <2>1, <1>5 DEF WatchContext, Becomes, IInv, TypeOK
    <2>3. LaneInv'
      BY <2>1, <1>5, LaneKept, Zenon DEF WatchContext, Becomes, Owning, IInv
    <2>4. WatchInv'
      <3>1. \A d \in Calls : call[d].at \in Watched => call'[d].at \in Watched
        BY <2>1, <1>5, Zenon DEF WatchContext, Becomes, Watched
      <3>2. \A d \in Calls : d # c => watcher'[d] = watcher[d]
        BY <2>1, Zenon DEF IInv, TypeOK
      <3>3. watcher'[c] \in {"select", "expire"} => watcher'[c] = "select" /\ call'[c].at \in Watched
        BY <2>1, <1>5, Zenon DEF WatchContext, Becomes, Watched, WatchInv, IInv, TypeOK
      <3>4. \A l \in Lanes : lane[l] \subseteq Calls
        BY Zenon DEF IInv, TypeOK
      <3>. QED  BY <3>1, <3>2, <3>3, <3>4, <1>5, Zenon DEF WatchContext, WatchInv, IInv
    <2>5. StreamInv'
      BY <2>1, <1>5, StreamKept DEF WatchContext, Becomes, IInv, StreamInv
    <2>6. NeverPoisoned'
      BY <2>1, NotPoisoned, Zenon DEF Becomes, IInv
    <2>. QED  BY <2>2, <2>3, <2>4, <2>5, <2>6, Zenon DEF IInv
  <1>6. ASSUME NEW c \in Calls, ReadUnit(c) PROVE IInv'
    <2>0. position \in Units /\ position \in [frame : Nat, part : Nat]
      BY Zenon DEF IInv, TypeOK, Units
    <2>1. Becomes(c, call[c].at, call[c].want, Append(call[c].units, position), call[c].result)
      BY <2>0, UnitStep, <1>6, Zenon DEF ReadUnit, IInv, TypeOK
    <2>7. /\ peer' \in Seq(Frames) /\ DOMAIN peer \subseteq DOMAIN peer'
          /\ position.frame \in DOMAIN peer'
          /\ position.frame = Len(peer')
      <3>1. CASE position.part > 0
        BY <3>1, <1>6, Zenon DEF ReadUnit, IInv, TypeOK, StreamInv
      <3>2. CASE position.part = 0
        <4>1. PICK frame \in Frames : peer' = Append(peer, frame)
          BY <3>2, <1>6 DEF ReadUnit
        <4>2. peer \in Seq(Frames) /\ position.frame = Len(peer) + 1
          BY <3>2, Zenon DEF IInv, TypeOK, StreamInv
        <4>. QED  BY <4>1, <4>2
      <3>. QED  BY <2>0, <3>1, <3>2
    <2>8. /\ position' \in [frame : Nat, part : Nat]
          /\ position'.part > 0 => position'.frame \in DOMAIN peer'
          /\ position'.frame = Len(peer') + (IF position'.part = 0 THEN 1 ELSE 0)
      BY <2>0, <2>7, <1>6 DEF ReadUnit
    <2>2. TypeOK'
      BY <2>1, <2>7, <2>8, <1>6, Zenon DEF ReadUnit, Becomes, IInv, TypeOK
    <2>3. LaneInv'
      BY <2>1, <1>6, LaneKept, Zenon DEF ReadUnit, Becomes, Owning, IInv
    <2>4. WatchInv'
      BY <2>1, <1>6, WatchKept, Zenon DEF ReadUnit, Becomes, Watched, IInv
    <2>5. StreamInv'
      <3>1. Readers \subseteq Calls
        BY Zenon DEF Calls
      <3>2. \A d \in Readers : \A k \in DOMAIN call'[d].units :
              call'[d].units[k].frame \in DOMAIN peer'
        <4>1. call[c].units \in Seq(Units)
          BY Zenon DEF IInv, TypeOK, CallType
        <4>2. \A k \in DOMAIN Append(call[c].units, position) :
                Append(call[c].units, position)[k].frame \in DOMAIN peer'
          <5>1. \A k \in DOMAIN call[c].units : call[c].units[k].frame \in DOMAIN peer'
            BY <2>7, <1>6, Zenon DEF ReadUnit, IInv, StreamInv
          <5>2. position.frame \in DOMAIN peer'
            BY <2>7, Zenon
          <5>. QED  BY <2>0, <4>1, <5>1, <5>2
        <4>. QED  BY <2>1, <2>7, <3>1, <4>2, Zenon DEF Becomes, IInv, StreamInv
      <3>. QED  BY <2>1, <2>8, <3>1, <3>2, SMTT(40) DEF Becomes, IInv, StreamInv
    <2>6. NeverPoisoned'
      BY <2>1, NotPoisoned, Zenon DEF Becomes, IInv
    <2>. QED  BY <2>2, <2>3, <2>4, <2>5, <2>6, Zenon DEF IInv
  <1>7. ASSUME NEW c \in Calls, ParseHeader(c) PROVE IInv'
    <2>1. \/ Becomes(c, "stop", call[c].want, call[c].units, "malformed")
          \/ \E want \in Nat : Becomes(c, "body", want, call[c].units, call[c].result)
      <3>1. PICK header \in Parses(call[c].units) :
              IF header.valid
              THEN call' = [call EXCEPT ![c].at = "body", ![c].want = HeaderUnits + header.body]
              ELSE Leave(c, "stop", "malformed")
        BY <1>7, Zenon DEF ParseHeader
      <3>2. header \in Frames
        BY <1>7, ParsesFrames, Zenon DEF IInv
      <3>3. HeaderUnits + header.body \in Nat
        <4>1. header.body \in BodySizes
          BY <3>2, Zenon DEF Frames
        <4>2. \A body \in BodySizes : HeaderUnits + body \in Nat
          BY TransportAssumption
        <4>. QED  BY <4>1, <4>2, Zenon
      <3>. QED  BY <3>1, <3>3, WantStep, LeaveStep, Zenon DEF IInv, TypeOK, Points, Results
    <2>2. TypeOK'
      BY <2>1, <1>7, Zenon DEF ParseHeader, Becomes, IInv, TypeOK
    <2>3. LaneInv'
      BY <2>1, <1>7, LaneKept, Zenon DEF ParseHeader, Becomes, Owning, IInv
    <2>4. WatchInv'
      BY <2>1, <1>7, WatchKept, Zenon DEF ParseHeader, Becomes, Watched, IInv
    <2>5. StreamInv'
      BY <2>1, <1>7, StreamKept, Zenon DEF ParseHeader, Becomes, IInv, StreamInv
    <2>6. NeverPoisoned'
      BY <2>1, NotPoisoned, Zenon DEF Becomes, IInv
    <2>. QED  BY <2>2, <2>3, <2>4, <2>5, <2>6, Zenon DEF IInv
  <1>8. ASSUME NEW c \in Calls, WriteUnit(c) PROVE IInv'
    <2>0. PICK unit \in Units : /\ call' = [call EXCEPT ![c].units = Append(@, unit)]
                                /\ outbound' = Append(outbound, unit)
      <3>1. Len(call[c].units) \in Nat /\ c \in Writers
        BY <1>8 DEF WriteUnit, IInv, TypeOK, CallType
      <3>2. [frame |-> c, part |-> Len(call[c].units)] \in Units
        BY <3>1, Zenon DEF Units
      <3>. QED  BY <3>2, <1>8, Zenon DEF WriteUnit
    <2>1. Becomes(c, call[c].at, call[c].want, Append(call[c].units, unit), call[c].result)
      BY <2>0, UnitStep, Zenon DEF IInv, TypeOK
    <2>2. TypeOK'
      <3>1. outbound' \in Seq(Units)
        BY <2>0 DEF IInv, TypeOK
      <3>. QED  BY <2>1, <3>1, <1>8, Zenon DEF WriteUnit, Becomes, IInv, TypeOK
    <2>3. LaneInv'
      BY <2>1, <1>8, LaneKept, Zenon DEF WriteUnit, Becomes, Owning, IInv
    <2>4. WatchInv'
      BY <2>1, <1>8, WatchKept, Zenon DEF WriteUnit, Becomes, Watched, IInv
    <2>5. StreamInv'
      <3>1. Readers \subseteq Calls /\ c \notin Readers
        BY <1>8, TransportAssumption, Zenon DEF WriteUnit, Calls
      <3>. QED  BY <2>1, <3>1, <1>8 DEF WriteUnit, Becomes, IInv, StreamInv
    <2>6. NeverPoisoned'
      BY <2>1, NotPoisoned, Zenon DEF Becomes, IInv
    <2>. QED  BY <2>2, <2>3, <2>4, <2>5, <2>6, Zenon DEF IInv
  <1>9. ASSUME NEW c \in Calls, Complete(c) PROVE IInv'
    <2>1. Becomes(c, "stop", call[c].want, call[c].units, "nil")
      BY LeaveStep, <1>9, Zenon DEF Complete, IInv, TypeOK, Points, Results
    <2>2. TypeOK'
      BY <2>1, <1>9, Zenon DEF Complete, Becomes, IInv, TypeOK
    <2>3. LaneInv'
      BY <2>1, <1>9, LaneKept, Zenon DEF Complete, Becomes, Owning, IInv
    <2>4. WatchInv'
      BY <2>1, <1>9, WatchKept, Zenon DEF Complete, Becomes, Watched, IInv
    <2>5. StreamInv'
      BY <2>1, <1>9, StreamKept, Zenon DEF Complete, Becomes, IInv, StreamInv
    <2>6. NeverPoisoned'
      BY <2>1, NotPoisoned, Zenon DEF Becomes, IInv
    <2>. QED  BY <2>2, <2>3, <2>4, <2>5, <2>6, Zenon DEF IInv
  <1>10. ASSUME NEW c \in Calls, Interrupted(c) PROVE IInv'
    <2>1. \E result \in Results \ {"timeout"} :
            Becomes(c, "stop", call[c].want, call[c].units, result)
      <3>1. closed \/ c \in canceled
        BY <1>10, SoleOwner, Zenon DEF Interrupted, Transferring, IInv
      <3>2. \E result \in Results \ {"timeout"} : Leave(c, "stop", result)
        BY <3>1, <1>10, Zenon DEF Interrupted, transportError, Results
      <3>. QED  BY <3>2, LeaveStep, Zenon DEF IInv, TypeOK, Points
    <2>2. TypeOK'
      BY <2>1, <1>10, Zenon DEF Interrupted, Becomes, IInv, TypeOK
    <2>3. LaneInv'
      BY <2>1, <1>10, LaneKept, Zenon DEF Interrupted, Becomes, Owning, IInv, Transferring
    <2>4. WatchInv'
      BY <2>1, <1>10, WatchKept, Zenon DEF Interrupted, Becomes, Watched, IInv, Transferring
    <2>5. StreamInv'
      BY <2>1, <1>10, StreamKept, Zenon DEF Interrupted, Becomes, IInv, StreamInv, Transferring
    <2>6. NeverPoisoned'
      BY <2>1, NotPoisoned, Zenon DEF Becomes, IInv
    <2>. QED  BY <2>2, <2>3, <2>4, <2>5, <2>6, Zenon DEF IInv
  <1>11. ASSUME NEW c \in Calls, Broken(c) PROVE IInv'
    <2>1. \E result \in Results \ {"timeout"} :
            Becomes(c, "stop", call[c].want, call[c].units, result)
      <3>1. \E result \in Results \ {"timeout"} : Leave(c, "stop", result)
        BY <1>11, Zenon DEF Broken, transportError, Results
      <3>. QED  BY <3>1, LeaveStep, Zenon DEF IInv, TypeOK, Points
    <2>2. TypeOK'
      BY <2>1, <1>11, Zenon DEF Broken, Becomes, IInv, TypeOK
    <2>3. LaneInv'
      BY <2>1, <1>11, LaneKept, Zenon DEF Broken, Becomes, Owning, IInv, Serves, Transferring
    <2>4. WatchInv'
      BY <2>1, <1>11, WatchKept, Zenon DEF Broken, Becomes, Watched, IInv, Serves, Transferring
    <2>5. StreamInv'
      BY <2>1, <1>11, StreamKept, Zenon DEF Broken, Becomes, IInv, StreamInv, Serves, Transferring
    <2>6. NeverPoisoned'
      BY <2>1, NotPoisoned, Zenon DEF Becomes, IInv
    <2>. QED  BY <2>2, <2>3, <2>4, <2>5, <2>6, Zenon DEF IInv
  <1>12. ASSUME NEW c \in Calls, Stop(c) PROVE IInv'
    <2>1. Becomes(c, "joining", call[c].want, call[c].units, call[c].result)
      BY GotoStep, <1>12, Zenon DEF Stop, IInv, TypeOK, Points, Results
    <2>2. TypeOK'
      BY <2>1, <1>12, Zenon DEF Stop, Becomes, IInv, TypeOK
    <2>3. LaneInv'
      BY <2>1, <1>12, LaneKept, Zenon DEF Stop, Becomes, Owning, IInv
    <2>4. WatchInv'
      BY <2>1, <1>12, WatchKept, Zenon DEF Stop, Becomes, Watched, IInv
    <2>5. StreamInv'
      BY <2>1, <1>12, StreamKept, Zenon DEF Stop, Becomes, IInv, StreamInv
    <2>6. NeverPoisoned'
      BY <2>1, NotPoisoned, Zenon DEF Becomes, IInv
    <2>. QED  BY <2>2, <2>3, <2>4, <2>5, <2>6, Zenon DEF IInv
  <1>13. ASSUME NEW c \in Calls, Join(c) PROVE IInv'
    <2>1. Becomes(c, "release", call[c].want, call[c].units, call[c].result)
      BY GotoStep, <1>13, Zenon DEF Join, IInv, TypeOK, Points, Results
    <2>2. TypeOK'
      BY <2>1, <1>13, Zenon DEF Join, Becomes, IInv, TypeOK
    <2>3. LaneInv'
      BY <2>1, <1>13, LaneKept, Zenon DEF Join, Becomes, Owning, IInv
    <2>4. WatchInv'
      <3>1. \A l \in Lanes : deadline'[l] => deadline[l] /\ l # Lane(c)
        BY <1>13, Zenon DEF Join, IInv, TypeOK
      <3>2. \A l \in Lanes : l # Lane(c) => c \notin lane[l] /\ lane[l] \subseteq Calls
        BY Zenon DEF IInv, LaneInv, TypeOK
      <3>3. \A d \in Calls : d # c => call'[d] = call[d]
        BY <2>1, Zenon DEF Becomes
      <3>. QED  BY <3>1, <3>2, <3>3, <1>13 DEF Join, WatchInv, IInv
    <2>5. StreamInv'
      BY <2>1, <1>13, StreamKept, Zenon DEF Join, Becomes, IInv, StreamInv
    <2>6. NeverPoisoned'
      BY <2>1, NotPoisoned, Zenon DEF Becomes, IInv
    <2>. QED  BY <2>2, <2>3, <2>4, <2>5, <2>6, Zenon DEF IInv
  <1>14. ASSUME NEW c \in Calls, Release(c) PROVE IInv'
    <2>1. Becomes(c, "returned", call[c].want, call[c].units, call[c].result)
      BY GotoStep, <1>14, Zenon DEF Release, IInv, TypeOK, Points, Results
    <2>2. TypeOK'
      BY <2>1, <1>14, Zenon DEF Release, Becomes, IInv, TypeOK
    <2>3. LaneInv'
      <3>1. \A l \in Lanes : lane'[l] = IF l = Lane(c) THEN {} ELSE lane[l]
        BY <1>14, Zenon DEF Release, IInv, TypeOK
      <3>2. \A d \in Calls : Lane(d) \in Lanes
        BY Zenon DEF Lane, Lanes
      <3>3. lane[Lane(c)] = {c}
        BY <3>2, <1>14 DEF Release, Owning, LaneInv, IInv
      <3>4. \A d \in Calls : d # c => (call'[d].at \in Owning <=> d \in lane'[Lane(d)])
        BY <2>1, <3>1, <3>2, <3>3 DEF Becomes, LaneInv, IInv
      <3>5. call'[c].at \notin Owning /\ c \notin lane'[Lane(c)]
        BY <2>1, <3>1, <3>2, Zenon DEF Becomes, Owning
      <3>. QED  BY <3>1, <3>4, <3>5, Zenon DEF LaneInv, IInv
    <2>4. WatchInv'
      <3>1. \A l \in Lanes : lane'[l] = IF l = Lane(c) THEN {} ELSE lane[l]
        BY <1>14, Zenon DEF Release, IInv, TypeOK
      <3>2. Lane(c) \in Lanes /\ call[c].at \notin Watched /\ c \in lane[Lane(c)]
        BY <1>14, Zenon DEF Release, Lane, Lanes, Watched, Owning, LaneInv, IInv
      <3>3. ~deadline[Lane(c)]
        BY <3>2, Zenon DEF WatchInv, LaneInv, IInv
      <3>4. \A l \in Lanes : l # Lane(c) => c \notin lane[l] /\ lane[l] \subseteq Calls
        BY Zenon DEF IInv, LaneInv, TypeOK
      <3>5. \A d \in Calls : d # c => call'[d] = call[d]
        BY <2>1, Zenon DEF Becomes
      <3>. QED  BY <3>1, <3>2, <3>3, <3>4, <3>5, <1>14 DEF Release, WatchInv, IInv
    <2>5. StreamInv'
      BY <2>1, <1>14, StreamKept, Zenon DEF Release, Becomes, IInv, StreamInv
    <2>6. NeverPoisoned'
      BY <2>1, NotPoisoned, Zenon DEF Becomes, IInv
    <2>. QED  BY <2>2, <2>3, <2>4, <2>5, <2>6, Zenon DEF IInv
  <1>15. ASSUME NEW c \in Calls, WatcherCanceled(c) PROVE IInv'
    <2>1. TypeOK'
      BY <1>15, Zenon DEF WatcherCanceled, IInv, TypeOK
    <2>2. LaneInv' /\ NeverPoisoned'
      BY <1>15, Zenon DEF WatcherCanceled, IInv, LaneInv, NeverPoisoned
    <2>3. StreamInv'
      BY <1>15, Zenon DEF WatcherCanceled, IInv, StreamInv
    <2>4. WatchInv'
      BY <1>15, Zenon DEF WatcherCanceled, IInv, TypeOK, WatchInv
    <2>. QED  BY <2>1, <2>2, <2>3, <2>4, Zenon DEF IInv
  <1>16. ASSUME NEW c \in Calls, WatcherExpires(c) PROVE IInv'
    <2>1. TypeOK'
      BY <1>16, Zenon DEF WatcherExpires, IInv, TypeOK
    <2>2. LaneInv' /\ NeverPoisoned'
      BY <1>16, Zenon DEF WatcherExpires, IInv, LaneInv, NeverPoisoned
    <2>3. StreamInv'
      BY <1>16, Zenon DEF WatcherExpires, IInv, StreamInv
    <2>4. WatchInv'
      <3>1. c \in canceled /\ call[c].at \in Watched /\ Lane(c) \in Lanes
        BY <1>16, Zenon DEF WatcherExpires, IInv, WatchInv, Lane, Lanes
      <3>2. c \in lane[Lane(c)]
        BY <3>1, Zenon DEF Watched, Owning, IInv, LaneInv
      <3>. QED  BY <3>1, <3>2, <1>16, Zenon DEF WatcherExpires, IInv, TypeOK, WatchInv
    <2>. QED  BY <2>1, <2>2, <2>3, <2>4, Zenon DEF IInv
  <1>17. ASSUME NEW c \in Calls, WatcherDone(c) PROVE IInv'
    <2>1. TypeOK'
      BY <1>17, Zenon DEF WatcherDone, IInv, TypeOK
    <2>2. LaneInv' /\ NeverPoisoned'
      BY <1>17, Zenon DEF WatcherDone, IInv, LaneInv, NeverPoisoned
    <2>3. StreamInv'
      BY <1>17, Zenon DEF WatcherDone, IInv, StreamInv
    <2>4. WatchInv'
      BY <1>17, Zenon DEF WatcherDone, IInv, TypeOK, WatchInv
    <2>. QED  BY <2>1, <2>2, <2>3, <2>4, Zenon DEF IInv
  <1>18. ASSUME NEW c \in Calls, Cancel(c) PROVE IInv'
    <2>1. TypeOK'
      BY <1>18, Zenon DEF Cancel, IInv, TypeOK
    <2>2. LaneInv' /\ NeverPoisoned'
      BY <1>18, Zenon DEF Cancel, IInv, LaneInv, NeverPoisoned
    <2>3. StreamInv'
      BY <1>18, Zenon DEF Cancel, IInv, StreamInv
    <2>4. WatchInv'
      BY <1>18, Zenon DEF Cancel, IInv, TypeOK, WatchInv
    <2>. QED  BY <2>1, <2>2, <2>3, <2>4, Zenon DEF IInv
  <1>19. CASE Close
    BY <1>19, Zenon DEF Close, IInv, TypeOK, LaneInv, WatchInv, StreamInv, NeverPoisoned
  <1>20. CASE UNCHANGED vars
    BY <1>20, Zenon DEF vars, IInv, TypeOK, LaneInv, WatchInv, StreamInv, NeverPoisoned
  <1>. QED
    BY <1>1, <1>2, <1>3, <1>4, <1>5, <1>6, <1>7, <1>8, <1>9, <1>10, <1>11, <1>12, <1>13,
       <1>14, <1>15, <1>16, <1>17, <1>18, <1>19, <1>20, Zenon DEF Next, Caller, Watcher

(* No call of ReadFrame or WriteFrame fails with a timeout that another    *)
(* call's cancellation left on the socket, for any number of calls.        *)
THEOREM NoPoisoning == Spec => []NeverPoisoned
  <1>. QED  BY InitEstablishes, StepPreserves, PTL DEF Spec, IInv

-----------------------------------------------------------------------------
(* Frames stay whole.                                                      *)

Early == {"unused", "idle", "acquire", "watch"}
Late == {"stop", "joining", "release", "returned"}

(* The first n units of frame f.                                           *)
FrameUnits(f, n) == [k \in 1 .. n |-> [frame |-> f, part |-> k - 1]]

(* Nothing is transferred before the context is watched, and only a call   *)
(* that has ended has succeeded.                                           *)
PointInv ==
  \A c \in Calls : /\ call[c].at \in Early => call[c].units = <<>>
                   /\ call[c].at \notin Late => call[c].result # "nil"

Own(c) == {i \in DOMAIN outbound : outbound[i].frame = c}

(* The units of a writer are one block of the stream, which is the last    *)
(* one as long as it writes.                                               *)
WriterInv ==
  \A c \in Writers :
    /\ call[c].at \in Early => Own(c) = {}
    /\ \A i, k \in Own(c) : i .. k \subseteq Own(c)
    /\ call[c].at = "body" /\ Own(c) # {} => Len(outbound) \in Own(c)
    /\ \A p \in 0 .. Len(call[c].units) - 1 : \E i \in Own(c) : outbound[i].part = p
    /\ call[c].result = "nil" => Len(call[c].units) >= call[c].want

Whole(c) ==
  \E f \in DOMAIN peer : call[c].units = FrameUnits(f, HeaderUnits + peer[f].body)

(* A reader that reads has nothing, the beginning of the frame the stream  *)
(* is in, or a whole frame.                                                *)
Reading(c) ==
  \/ call[c].units = <<>> /\ call[c].at = "header" /\ position.part = 0
  \/ /\ position.part > 0
     /\ call[c].units = FrameUnits(position.frame, position.part)
     /\ IF call[c].at = "header" THEN position.part <= HeaderUnits
        ELSE call[c].want = HeaderUnits + peer[position.frame].body
  \/ position.part = 0 /\ Len(call[c].units) = call[c].want /\ Whole(c)

NoTear == \A c \in Readers : ~Tore(c)

(* As long as no reader was stopped inside a frame, the stream is inside   *)
(* one only while a reader reads it.                                       *)
ReaderInv ==
  /\ position.part > 0 => position.part < HeaderUnits + peer[position.frame].body
  /\ NoTear =>
       /\ position.part > 0 => \E c \in Readers : call[c].at \in {"header", "body"}
       /\ \A c \in Readers : call[c].at \in {"header", "body"} => Reading(c)
       /\ \A c \in Readers : call[c].result = "nil" => Whole(c)

WholeInv == PointInv /\ WriterInv /\ ReaderInv

(* The steps of a call that transfer nothing, by what they mean for the    *)
(* frames: it goes on before its I/O, gives up before it, begins it, has   *)
(* parsed a header, fails, succeeds, or leaves.                            *)
Quietly(c, at, want, result) ==
  /\ Becomes(c, at, want, call[c].units, result)
  /\ UNCHANGED <<peer, position, outbound>>
  /\ \/ call[c].at \in Early /\ at \in Early /\ result = call[c].result
     \/ call[c].at \in Early /\ at \in Late /\ result # "nil"
     \/ /\ call[c].at = "watch" /\ result = call[c].result
        /\ at = IF c \in Readers THEN "header" ELSE "body"
     \/ /\ c \in Readers /\ call[c].at = "header" /\ at = "body"
        /\ ~Transferring(c) /\ result = call[c].result
        /\ \E header \in Parses(call[c].units) : want = HeaderUnits + header.body
     \/ call[c].at \in {"header", "body"} /\ at = "stop" /\ result # "nil"
     \/ /\ call[c].at = "body" /\ at = "stop" /\ result = "nil"
        /\ ~Transferring(c) /\ want = call[c].want
     \/ /\ call[c].at \in Late /\ at \in Late
        /\ want = call[c].want /\ result = call[c].result

(* Every step is one of these, transfers a unit, or changes none of this.  *)
LEMMA StepKinds ==
  ASSUME IInv, [Next]_vars
  PROVE  \/ \E c \in Calls, at \in Points, want \in Nat, result \in Results :
              Quietly(c, at, want, result)
         \/ \E c \in Calls : ReadUnit(c) \/ WriteUnit(c)
         \/ UNCHANGED <<call, peer, position, outbound>>
<1>. USE DEF IInv, TypeOK
<1>0. \A c \in Calls : call[c] \in CallType /\ call[c].want \in Nat /\ call[c].result \in Results
  BY Zenon DEF CallType
<1>1. ASSUME NEW c \in Calls, Enter(c)
      PROVE  \E at \in Points, want \in Nat, result \in Results : Quietly(c, at, want, result)
  <2>1. CASE c \in canceled
    <3>1. Becomes(c, "returned", call[c].want, call[c].units, "canceled")
      BY <2>1, <1>1, LeaveStep, Zenon DEF Enter, Points, Results
    <3>2. Quietly(c, "returned", call[c].want, "canceled")
      BY <3>1, <1>1, Zenon DEF Enter, Quietly, Early, Late
    <3>. QED  BY <1>0, <3>2, Zenon DEF Points, Results
  <2>2. CASE c \notin canceled
    <3>1. PICK body \in IF c \in Readers THEN {0} ELSE BodySizes :
            call' = [call EXCEPT ![c].at = "acquire", ![c].want = HeaderUnits + body]
      BY <2>2, <1>1, Zenon DEF Enter
    <3>2. HeaderUnits + body \in Nat
      BY TransportAssumption, SMTT(40)
    <3>3. Becomes(c, "acquire", HeaderUnits + body, call[c].units, call[c].result)
      BY <3>1, <3>2, WantStep, Zenon DEF Points
    <3>4. Quietly(c, "acquire", HeaderUnits + body, call[c].result)
      BY <3>3, <1>1, Zenon DEF Enter, Quietly, Early, Late
    <3>. QED  BY <1>0, <3>2, <3>4, Zenon DEF Points
  <2>. QED  BY <2>1, <2>2, Zenon
<1>2. ASSUME NEW c \in Calls, MarshalRefused(c)
      PROVE  \E at \in Points, want \in Nat, result \in Results : Quietly(c, at, want, result)
  <2>1. Becomes(c, "returned", call[c].want, call[c].units, "invalid")
    BY LeaveStep, <1>2, Zenon DEF MarshalRefused, Points, Results
  <2>2. Quietly(c, "returned", call[c].want, "invalid")
    BY <2>1, <1>2, Zenon DEF MarshalRefused, Quietly, Early, Late
  <2>. QED  BY <1>0, <2>2, Zenon DEF Points, Results
<1>3. ASSUME NEW c \in Calls, AcquireLane(c)
      PROVE  \E at \in Points, want \in Nat, result \in Results : Quietly(c, at, want, result)
  <2>1. Becomes(c, "watch", call[c].want, call[c].units, call[c].result)
    BY GotoStep, <1>3, Zenon DEF AcquireLane, Points
  <2>2. Quietly(c, "watch", call[c].want, call[c].result)
    BY <2>1, <1>3, Zenon DEF AcquireLane, Quietly, Early, Late
  <2>. QED  BY <1>0, <2>2, Zenon DEF Points
<1>4. ASSUME NEW c \in Calls, AcquireCanceled(c)
      PROVE  \E at \in Points, want \in Nat, result \in Results : Quietly(c, at, want, result)
  <2>1. Becomes(c, "returned", call[c].want, call[c].units, "canceled")
    BY LeaveStep, <1>4, Zenon DEF AcquireCanceled, Points, Results
  <2>2. Quietly(c, "returned", call[c].want, "canceled")
    BY <2>1, <1>4, Zenon DEF AcquireCanceled, Quietly, Early, Late
  <2>. QED  BY <1>0, <2>2, Zenon DEF Points, Results
<1>5. ASSUME NEW c \in Calls, WatchContext(c)
      PROVE  \E at \in Points, want \in Nat, result \in Results : Quietly(c, at, want, result)
  <2>1. CASE c \in canceled
    <3>1. Becomes(c, "release", call[c].want, call[c].units, "canceled")
      BY <2>1, <1>5, LeaveStep, Zenon DEF WatchContext, Points, Results
    <3>2. Quietly(c, "release", call[c].want, "canceled")
      BY <3>1, <1>5, Zenon DEF WatchContext, Quietly, Early, Late
    <3>. QED  BY <1>0, <3>2, Zenon DEF Points, Results
  <2>2. CASE c \notin canceled
    <3>1. PICK at : at = IF c \in Readers THEN "header" ELSE "body"
      BY Zenon
    <3>2. at \in Points /\ Goto(c, at)
      BY <2>2, <3>1, <1>5, Zenon DEF WatchContext, Points
    <3>3. Becomes(c, at, call[c].want, call[c].units, call[c].result)
      BY <3>2, GotoStep, Zenon
    <3>4. Quietly(c, at, call[c].want, call[c].result)
      BY <3>1, <3>3, <1>5, Zenon DEF WatchContext, Quietly
    <3>. QED  BY <1>0, <3>2, <3>4, Zenon
  <2>. QED  BY <2>1, <2>2, Zenon
<1>6. ASSUME NEW c \in Calls, ParseHeader(c)
      PROVE  \E at \in Points, want \in Nat, result \in Results : Quietly(c, at, want, result)
  <2>1. PICK header \in Parses(call[c].units) :
          IF header.valid
          THEN call' = [call EXCEPT ![c].at = "body", ![c].want = HeaderUnits + header.body]
          ELSE Leave(c, "stop", "malformed")
    BY <1>6, Zenon DEF ParseHeader
  <2>2. CASE header.valid
    <3>1. header.body \in BodySizes
      BY <1>6, ParsesFrames, Zenon DEF Frames
    <3>2. HeaderUnits + header.body \in Nat
      <4>1. \A body \in BodySizes : HeaderUnits + body \in Nat
        BY TransportAssumption
      <4>. QED  BY <3>1, <4>1, Zenon
    <3>3. Becomes(c, "body", HeaderUnits + header.body, call[c].units, call[c].result)
      BY <2>1, <2>2, <3>2, WantStep, Zenon DEF Points
    <3>4. c \in Readers /\ call[c].at = "header" /\ ~Transferring(c)
      BY <1>6, Zenon DEF ParseHeader, StreamInv
    <3>5. UNCHANGED <<peer, position, outbound>>
      BY <1>6, Zenon DEF ParseHeader
    <3>6. \E h \in Parses(call[c].units) : HeaderUnits + header.body = HeaderUnits + h.body
      BY Zenon
    <3>7. Quietly(c, "body", HeaderUnits + header.body, call[c].result)
      BY <3>3, <3>4, <3>5, <3>6, Zenon DEF Quietly
    <3>. QED  BY <1>0, <3>2, <3>7, Zenon DEF Points
  <2>3. CASE ~header.valid
    <3>1. Becomes(c, "stop", call[c].want, call[c].units, "malformed")
      BY <2>1, <2>3, LeaveStep, Zenon DEF Points, Results
    <3>2. Quietly(c, "stop", call[c].want, "malformed")
      BY <3>1, <1>6, Zenon DEF ParseHeader, Quietly
    <3>. QED  BY <1>0, <3>2, Zenon DEF Points, Results
  <2>. QED  BY <2>2, <2>3, Zenon
<1>7. ASSUME NEW c \in Calls, Complete(c)
      PROVE  \E at \in Points, want \in Nat, result \in Results : Quietly(c, at, want, result)
  <2>1. Becomes(c, "stop", call[c].want, call[c].units, "nil")
    BY LeaveStep, <1>7, Zenon DEF Complete, Points, Results
  <2>2. Quietly(c, "stop", call[c].want, "nil")
    BY <2>1, <1>7, Zenon DEF Complete, Quietly
  <2>. QED  BY <1>0, <2>2, Zenon DEF Points, Results
<1>8. ASSUME NEW c \in Calls, Interrupted(c) \/ Broken(c)
      PROVE  \E at \in Points, want \in Nat, result \in Results : Quietly(c, at, want, result)
  <2>1. PICK result \in Results \ {"nil"} : Leave(c, "stop", result)
    BY <1>8, Zenon DEF Interrupted, Broken, transportError, Results
  <2>2. Becomes(c, "stop", call[c].want, call[c].units, result)
    BY LeaveStep, <2>1, Zenon DEF Points
  <2>3. call[c].at \in {"header", "body"} /\ UNCHANGED <<peer, position, outbound>>
    BY <1>8, Zenon DEF Interrupted, Broken, Serves, Transferring
  <2>4. Quietly(c, "stop", call[c].want, result)
    BY <2>1, <2>2, <2>3, Zenon DEF Quietly
  <2>. QED  BY <1>0, <2>4, Zenon DEF Points
<1>9. ASSUME NEW c \in Calls, Stop(c) \/ Join(c) \/ Release(c)
      PROVE  \E at \in Points, want \in Nat, result \in Results : Quietly(c, at, want, result)
  <2>1. PICK at \in Late : Goto(c, at)
    BY <1>9, Zenon DEF Stop, Join, Release, Late
  <2>2. Becomes(c, at, call[c].want, call[c].units, call[c].result)
    BY GotoStep, <2>1, Zenon DEF Points, Late
  <2>3. call[c].at \in Late /\ UNCHANGED <<peer, position, outbound>>
    BY <1>9, Zenon DEF Stop, Join, Release, Late
  <2>4. Quietly(c, at, call[c].want, call[c].result)
    BY <2>1, <2>2, <2>3, Zenon DEF Quietly
  <2>. QED  BY <1>0, <2>1, <2>4 DEF Points, Late
<1>10. ASSUME NEW c \in Calls, Watcher(c) \/ Cancel(c)
       PROVE  UNCHANGED <<call, peer, position, outbound>>
  BY <1>10, Zenon DEF Watcher, WatcherCanceled, WatcherExpires, WatcherDone, Cancel
<1>11. Close \/ UNCHANGED vars => UNCHANGED <<call, peer, position, outbound>>
  BY Zenon DEF Close, vars
<1>. QED
  BY <1>1, <1>2, <1>3, <1>4, <1>5, <1>6, <1>7, <1>8, <1>9, <1>10, <1>11, Zenon DEF Next, Caller

(* The invariant holds of a new transport.                                 *)
LEMMA WholeInit ==
  ASSUME Init
  PROVE  WholeInv
<1>1. \A c \in Calls : /\ call[c].at \in {"idle", "unused"} /\ call[c].units = <<>>
                       /\ call[c].result = "none"
  BY DEF Init
<1>2. Readers \subseteq Calls /\ Writers \subseteq Calls
  BY Zenon DEF Calls
<1>3. PointInv
  BY <1>1, Zenon DEF PointInv
<1>4. \A c \in Writers : Own(c) = {}
  BY DEF Init, Own
<1>5. \A c \in Writers : Len(call[c].units) = 0
  BY <1>1, <1>2
<1>6. WriterInv
  BY <1>1, <1>2, <1>4, <1>5 DEF WriterInv
<1>7. position.part = 0
  BY Zenon DEF Init
<1>8. ReaderInv
  BY <1>1, <1>2, <1>7 DEF ReaderInv
<1>. QED  BY <1>3, <1>6, <1>8, Zenon DEF WholeInv

(* Steps that transfer nothing: the points of the calls.                   *)
LEMMA QuietPoints ==
  ASSUME PointInv, NEW c \in Calls, NEW at, NEW want, NEW result,
         Quietly(c, at, want, result)
  PROVE  PointInv'
<1>1. \A d \in Calls : d # c => call'[d] = call[d]
  BY Zenon DEF Quietly, Becomes
<1>2. call'[c].at = at /\ call'[c].units = call[c].units /\ call'[c].result = result
  BY Zenon DEF Quietly, Becomes
<1>3. at \in Early => call[c].at \in Early
  BY Zenon DEF Quietly, Early, Late
<1>4. at \notin Late => result = call[c].result /\ call[c].at \notin Late
  BY Zenon DEF Quietly, Early, Late
<1>. QED  BY <1>1, <1>2, <1>3, <1>4, Zenon DEF PointInv

(* Such a step leaves the blocks of the writers alone.                     *)
LEMMA QuietWriters ==
  ASSUME TypeOK, PointInv, WriterInv, NEW c \in Calls,
         NEW at, NEW want, NEW result, Quietly(c, at, want, result)
  PROVE  WriterInv'
<1>1. \A d \in Calls : d # c => call'[d] = call[d]
  BY Zenon DEF Quietly, Becomes
<1>2. /\ call'[c].at = at /\ call'[c].want = want
      /\ call'[c].units = call[c].units /\ call'[c].result = result
  BY Zenon DEF Quietly, Becomes
<1>3. outbound' = outbound /\ \A d \in Writers : Own(d)' = Own(d)
  BY Zenon DEF Quietly, Own
<1>4. Writers \subseteq Calls /\ \A d \in Writers : d \notin Readers
  BY TransportAssumption, Zenon DEF Calls
<1>5. SUFFICES ASSUME NEW d \in Writers
               PROVE  /\ call'[d].at \in Early => Own(d) = {}
                      /\ \A i, k \in Own(d) : i .. k \subseteq Own(d)
                      /\ call'[d].at = "body" /\ Own(d) # {} => Len(outbound) \in Own(d)
                      /\ \A p \in 0 .. Len(call'[d].units) - 1 :
                           \E i \in Own(d) : outbound[i].part = p
                      /\ call'[d].result = "nil" => Len(call'[d].units) >= call'[d].want
  BY <1>3 DEF WriterInv
<1>6. /\ call[d].at \in Early => Own(d) = {}
      /\ \A i, k \in Own(d) : i .. k \subseteq Own(d)
      /\ call[d].at = "body" /\ Own(d) # {} => Len(outbound) \in Own(d)
      /\ \A p \in 0 .. Len(call[d].units) - 1 : \E i \in Own(d) : outbound[i].part = p
      /\ call[d].result = "nil" => Len(call[d].units) >= call[d].want
  BY Zenon DEF WriterInv
<1>7. CASE d # c
  BY <1>1, <1>4, <1>6, <1>7, Zenon
<1>8. CASE d = c
  <2>1. at \in Early => call[c].at \in Early
    BY Zenon DEF Quietly, Early, Late
  <2>2. at = "body" => call[c].at \in Early
    BY <1>4, <1>8, Zenon DEF Quietly, Early, Late
  <2>3. result = "nil" => Len(call[c].units) >= want
    <3>1. call[c] \in CallType
      BY Zenon DEF TypeOK
    <3>2. Len(call[c].units) \in Nat /\ call[c].want \in Nat
      BY <3>1 DEF CallType
    <3>3. CASE call[c].at \notin Late
      <4>1. call[c].result # "nil"
        BY <3>3, Zenon DEF PointInv
      <4>2. result = "nil" => want = call[c].want /\ call[c].at = "body" /\ ~Transferring(c)
        BY <3>3, <4>1, Zenon DEF Quietly
      <4>. QED  BY <3>2, <4>2 DEF Transferring
    <3>4. CASE call[c].at \in Late
      <4>1. want = call[c].want /\ result = call[c].result
        BY <3>4, Zenon DEF Quietly, Early, Late
      <4>. QED  BY <1>6, <1>8, <4>1, Zenon
    <3>. QED  BY <3>3, <3>4, Zenon
  <2>. QED  BY <1>2, <1>6, <1>8, <2>1, <2>2, <2>3, Zenon
<1>. QED  BY <1>7, <1>8, Zenon

(* A torn frame stays torn.                                                *)
LEMMA TearsStay ==
  ASSUME NEW c \in Calls, NEW at, NEW want, NEW result, Quietly(c, at, want, result),
         NoTear'
  PROVE  NoTear
<1>1. \A d \in Calls : d # c => call'[d] = call[d]
  BY Zenon DEF Quietly, Becomes
<1>2. call'[c].at = at /\ call'[c].units = call[c].units /\ call'[c].result = result
  BY Zenon DEF Quietly, Becomes
<1>3. call[c].at \in Late => at \in Late /\ result = call[c].result
  BY Zenon DEF Quietly, Early, Late
<1>4. ASSUME NEW d \in Readers, Tore(d)
      PROVE  FALSE
  <2>1. d \in Calls
    BY Zenon DEF Calls
  <2>2. Tore(d)'
    BY <1>1, <1>2, <1>3, <1>4, <2>1, Zenon DEF Tore, Late
  <2>. QED  BY <2>2, Zenon DEF NoTear
<1>. QED  BY <1>4, Zenon DEF NoTear

(* Two readers do not read at one time.                                    *)
LEMMA OneReader ==
  ASSUME TypeOK, LaneInv, NEW c \in Readers, NEW d \in Readers,
         call[c].at \in Owning, call[d].at \in Owning
  PROVE  c = d
<1>1. c \in Calls /\ d \in Calls /\ Lane(c) = "read" /\ Lane(d) = "read" /\ "read" \in Lanes
  BY Zenon DEF Calls, Lane, Lanes
<1>2. c \in lane["read"] /\ d \in lane["read"]
  BY <1>1, Zenon DEF LaneInv
<1>. QED  BY <1>1, <1>2, Zenon DEF LaneInv

(* The length of the beginning of a frame, and one more unit of it.        *)
LEMMA FrameUnitsLen ==
  ASSUME NEW f \in Nat, NEW n \in Nat
  PROVE  /\ FrameUnits(f, n) \in Seq([frame : Nat, part : Nat])
         /\ Len(FrameUnits(f, n)) = n
         /\ FrameUnits(f, n + 1) = Append(FrameUnits(f, n), [frame |-> f, part |-> n])
<1>1. \A k \in 1 .. n : [frame |-> f, part |-> k - 1] \in [frame : Nat, part : Nat]
  OBVIOUS
<1>2. FrameUnits(f, n) \in [1 .. n -> [frame : Nat, part : Nat]]
  BY <1>1, Zenon DEF FrameUnits
<1>3. FrameUnits(f, n) \in Seq([frame : Nat, part : Nat]) /\ Len(FrameUnits(f, n)) = n
  <2>1. FrameUnits(f, n) \in Seq([frame : Nat, part : Nat])
    <3>1. PICK S, g : S = [frame : Nat, part : Nat] /\ g = FrameUnits(f, n)
      BY Zenon
    <3>2. g \in [1 .. n -> S]
      BY <1>2, <3>1, Zenon
    <3>3. g \in UNION {[1 .. m -> S] : m \in Nat}
      BY <3>2, Zenon
    <3>4. g \in Seq(S)
      BY <3>3, SeqDef, Zenon
    <3>. QED  BY <3>1, <3>4, Zenon
  <2>2. DOMAIN FrameUnits(f, n) = 1 .. n
    BY Zenon DEF FrameUnits
  <2>. QED  BY <2>1, <2>2, LenProperties
<1>4. FrameUnits(f, n + 1) = Append(FrameUnits(f, n), [frame |-> f, part |-> n])
  <2>1. PICK s, u, t : /\ s = FrameUnits(f, n)
                       /\ u = [frame |-> f, part |-> n]
                       /\ t = FrameUnits(f, n + 1)
    BY Zenon
  <2>2. s \in Seq([frame : Nat, part : Nat]) /\ Len(s) = n /\ u \in [frame : Nat, part : Nat]
    BY <1>3, <2>1, Zenon
  <2>3. /\ Append(s, u) \in [1 .. n + 1 -> [frame : Nat, part : Nat]]
        /\ \A k \in 1 .. n : Append(s, u)[k] = s[k]
        /\ Append(s, u)[n + 1] = u
    <3>1. PICK S : S = [frame : Nat, part : Nat]
      BY Zenon
    <3>2. s \in Seq(S) /\ u \in S
      BY <2>2, <3>1, Zenon
    <3>3. /\ Append(s, u) \in Seq(S)
          /\ Len(Append(s, u)) = n + 1
          /\ \A k \in 1 .. n : Append(s, u)[k] = s[k]
          /\ Append(s, u)[n + 1] = u
      BY <2>2, <3>2, AppendProperties
    <3>4. Append(s, u) \in [1 .. n + 1 -> S]
      BY <3>3, LenProperties, Zenon
    <3>. QED  BY <3>1, <3>3, <3>4, Zenon
  <2>4. \A k \in 1 .. n : s[k] = [frame |-> f, part |-> k - 1]
    BY <2>1, Zenon DEF FrameUnits
  <2>5. DOMAIN t = 1 .. n + 1 /\ t = [k \in 1 .. n + 1 |-> t[k]]
    BY <2>1, Zenon DEF FrameUnits
  <2>6. ASSUME NEW k \in 1 .. n + 1
        PROVE  t[k] = Append(s, u)[k]
    <3>1. t[k] = [frame |-> f, part |-> k - 1]
      BY <2>1, Zenon DEF FrameUnits
    <3>2. CASE k \in 1 .. n
      BY <2>3, <2>4, <3>1, <3>2, Zenon
    <3>3. CASE k = n + 1
      <4>1. k - 1 = n
        BY <3>3
      <4>. QED  BY <2>1, <2>3, <3>1, <3>3, <4>1, Zenon
    <3>4. k \in 1 .. n \/ k = n + 1
      OBVIOUS
    <3>. QED  BY <3>2, <3>3, <3>4, Zenon
  <2>7. t = Append(s, u)
    BY <2>3, <2>5, <2>6, Zenon
  <2>. QED  BY <2>1, <2>7, Zenon
<1>. QED  BY <1>3, <1>4, Zenon

(* What the header of a whole frame, or of its beginning, says.            *)
LEMMA HeaderSays ==
  ASSUME NEW f \in Nat, NEW units, units = FrameUnits(f, HeaderUnits)
  PROVE  Parses(units) = {peer[f]}
<1>1. HeaderUnits \in Nat \ {0}
  BY TransportAssumption, Zenon
<1>2. units[1] = [frame |-> f, part |-> 0]
  BY <1>1 DEF FrameUnits
<1>3. units[1].frame = f
  BY <1>2, SMTT(40)
<1>. QED  BY <1>3, Zenon DEF Parses, FrameUnits

(* Such a step ends a read only between two frames or with a tear.         *)
LEMMA QuietReaders ==
  ASSUME IInv, PointInv, ReaderInv, NEW c \in Calls,
         NEW at, NEW want, NEW result, Quietly(c, at, want, result)
  PROVE  ReaderInv'
<1>0. HeaderUnits \in Nat \ {0} /\ Readers \subseteq Calls
  BY TransportAssumption, Zenon DEF Calls
<1>1. \A d \in Calls : d # c => call'[d] = call[d]
  BY Zenon DEF Quietly, Becomes
<1>2. /\ call'[c].at = at /\ call'[c].want = want
      /\ call'[c].units = call[c].units /\ call'[c].result = result
  BY Zenon DEF Quietly, Becomes
<1>3. peer' = peer /\ position' = position
  BY ZenonT(40) DEF Quietly
<1>4. SUFFICES ASSUME NoTear'
               PROVE  /\ position.part > 0 =>
                           \E d \in Readers : call'[d].at \in {"header", "body"}
                      /\ \A d \in Readers : call'[d].at \in {"header", "body"} => Reading(d)'
                      /\ \A d \in Readers : call'[d].result = "nil" => Whole(d)'
  BY <1>3, Zenon DEF ReaderInv
<1>5. NoTear
  BY <1>4, TearsStay, Zenon
<1>6. /\ position.part > 0 => \E d \in Readers : call[d].at \in {"header", "body"}
      /\ \A d \in Readers : call[d].at \in {"header", "body"} => Reading(d)
      /\ \A d \in Readers : call[d].result = "nil" => Whole(d)
  BY <1>5, Zenon DEF ReaderInv
<1>7. \A d \in Readers : Whole(d)' <=> Whole(d)
  BY <1>0, <1>1, <1>2, <1>3, Zenon DEF Whole
<1>8. \A d \in Readers : d # c => (Reading(d)' <=> Reading(d))
  BY <1>0, <1>1, <1>3, <1>7, Zenon DEF Reading
<1>9. CASE c \notin Readers
  BY <1>0, <1>1, <1>6, <1>7, <1>8, <1>9, ZenonT(40)
<1>10. ASSUME c \in Readers,
              at \in {"header", "body"} => Reading(c)',
              result = "nil" => Whole(c),
              call[c].at \in {"header", "body"} /\ at \notin {"header", "body"} => ~(position.part > 0)
       PROVE  /\ position.part > 0 =>
                   \E d \in Readers : call'[d].at \in {"header", "body"}
              /\ \A d \in Readers : call'[d].at \in {"header", "body"} => Reading(d)'
              /\ \A d \in Readers : call'[d].result = "nil" => Whole(d)'
  <2>1. ASSUME position.part > 0
        PROVE  \E d \in Readers : call'[d].at \in {"header", "body"}
    <3>1. PICK d \in Readers : call[d].at \in {"header", "body"}
      BY <1>6, <2>1, Zenon
    <3>2. CASE d = c
      BY <1>2, <1>10, <2>1, <3>1, <3>2, Zenon
    <3>3. CASE d # c
      BY <1>0, <1>1, <3>1, <3>3, Zenon
    <3>. QED  BY <3>2, <3>3, Zenon
  <2>2. ASSUME NEW d \in Readers, call'[d].at \in {"header", "body"}
        PROVE  Reading(d)'
    <3>1. CASE d = c
      BY <1>2, <1>10, <2>2, <3>1, Zenon
    <3>2. CASE d # c
      BY <1>0, <1>1, <1>6, <1>8, <2>2, <3>2, Zenon
    <3>. QED  BY <3>1, <3>2, Zenon
  <2>3. ASSUME NEW d \in Readers, call'[d].result = "nil"
        PROVE  Whole(d)'
    <3>1. CASE d = c
      BY <1>2, <1>7, <1>10, <2>3, <3>1, Zenon
    <3>2. CASE d # c
      BY <1>0, <1>1, <1>6, <1>7, <2>3, <3>2, Zenon
    <3>. QED  BY <3>1, <3>2, Zenon
  <2>. QED  BY <2>1, <2>2, <2>3, ZenonT(40)
<1>11. position.part \in Nat /\ position.frame \in Nat /\ call[c] \in CallType
  BY Zenon DEF IInv, TypeOK
<1>12. call[c].units \in Seq(Units) /\ call[c].want \in Nat /\ Len(call[c].units) \in Nat
  BY <1>11 DEF CallType
<1>u. Len(FrameUnits(position.frame, position.part)) = position.part
  BY <1>11, FrameUnitsLen, Zenon
<1>13. CASE c \in Readers /\ call[c].at \in Early /\ at \in Early \cup Late
  <2>1. at \notin {"header", "body"} /\ call[c].at \notin {"header", "body"}
    BY <1>13, Zenon DEF Early, Late
  <2>2. result # "nil"
    <3>1. result = call[c].result \/ result # "nil"
      BY <1>13, Zenon DEF Quietly, Early, Late
    <3>. QED  BY <1>13, <3>1, Zenon DEF PointInv, Early, Late
  <2>. QED  BY <1>10, <1>13, <2>1, <2>2, Zenon
<1>14. CASE c \in Readers /\ call[c].at = "watch" /\ at = "header"
  <2>1. call[c].units = <<>> /\ call[c].result # "nil" /\ result = call[c].result
    BY <1>14, Zenon DEF PointInv, Early, Late, Quietly
  <2>2. position.part = 0
    <3>1. SUFFICES ASSUME position.part > 0 PROVE FALSE
      BY <1>11
    <3>2. PICK d \in Readers : call[d].at \in {"header", "body"}
      BY <1>6, <3>1, Zenon
    <3>3. c = d
      BY <1>14, <3>2, OneReader, Zenon DEF IInv, Owning
    <3>. QED  BY <1>14, <3>2, <3>3, Zenon
  <2>3. Reading(c)'
    BY <1>2, <1>3, <1>14, <2>1, <2>2, Zenon DEF Reading
  <2>. QED  BY <1>10, <1>14, <2>1, <2>3, Zenon
<1>15. CASE /\ c \in Readers /\ call[c].at = "header" /\ at = "body"
            /\ ~Transferring(c) /\ result = call[c].result
            /\ \E header \in Parses(call[c].units) : want = HeaderUnits + header.body
  <2>1. Reading(c) /\ call[c].want = HeaderUnits /\ result # "nil"
    BY <1>6, <1>15, Zenon DEF IInv, StreamInv, PointInv, Late
  <2>2. Len(call[c].units) >= HeaderUnits
    BY <1>0, <1>12, <1>15, <2>1 DEF Transferring
  <2>3. call[c].units # <<>>
    BY <1>0, <2>2, SMTT(40)
  <2>4. CASE /\ position.part > 0
             /\ call[c].units = FrameUnits(position.frame, position.part)
             /\ position.part <= HeaderUnits
    <3>1. Len(call[c].units) = position.part
      BY <1>u, <2>4, Zenon
    <3>2. position.part = HeaderUnits
      BY <1>0, <1>11, <2>2, <2>4, <3>1
    <3>3. Parses(call[c].units) = {peer[position.frame]}
      BY <1>11, <2>4, <3>2, HeaderSays, Zenon
    <3>4. want = HeaderUnits + peer[position.frame].body
      BY <1>15, <3>3, Zenon
    <3>5. Reading(c)'
      BY <1>2, <1>3, <1>15, <2>4, <3>4, Zenon DEF Reading
    <3>. QED  BY <1>10, <1>15, <2>1, <3>5, Zenon
  <2>5. CASE position.part = 0 /\ Len(call[c].units) = call[c].want /\ Whole(c)
    <3>1. PICK f \in DOMAIN peer : call[c].units = FrameUnits(f, HeaderUnits + peer[f].body)
      BY <2>5, Zenon DEF Whole
    <3>2. f \in Nat /\ peer[f].body \in Nat
      <4>1. peer \in Seq(Frames)
        BY Zenon DEF IInv, TypeOK
      <4>2. f \in Nat /\ peer[f] \in Frames
        BY <4>1
      <4>. QED  BY <4>2, TransportAssumption, Zenon DEF Frames
    <3>3. Len(call[c].units) = HeaderUnits + peer[f].body
      <4>1. PICK size : size = HeaderUnits + peer[f].body
        BY Zenon
      <4>2. size \in Nat
        BY <1>0, <3>2, <4>1
      <4>. QED  BY <3>1, <3>2, <4>1, <4>2, FrameUnitsLen, Zenon
    <3>4. peer[f].body = 0
      BY <1>0, <2>1, <2>5, <3>2, <3>3
    <3>5. call[c].units = FrameUnits(f, HeaderUnits)
      BY <1>0, <3>1, <3>4
    <3>6. Parses(call[c].units) = {peer[f]}
      BY <3>2, <3>5, HeaderSays, Zenon
    <3>7. want = Len(call[c].units)
      BY <1>15, <3>3, <3>6, Zenon
    <3>8. Reading(c)'
      BY <1>0, <1>2, <1>3, <1>7, <1>15, <2>5, <3>7, SMTT(40) DEF Reading
    <3>. QED  BY <1>10, <1>15, <2>1, <3>8, Zenon
  <2>. QED  BY <1>15, <2>1, <2>3, <2>4, <2>5, ZenonT(40) DEF Reading
<1>16. CASE c \in Readers /\ call[c].at \in {"header", "body"} /\ at = "stop" /\ result # "nil"
  <2>1. ~Tore(c)'
    BY <1>4, <1>16, Zenon DEF NoTear
  <2>2. call[c].units = <<>>
    BY <1>2, <1>16, <2>1, Zenon DEF Tore
  <2>3. Reading(c)
    BY <1>6, <1>16, Zenon
  <2>4. ~(position.part > 0)
    <3>1. position.part > 0 => call[c].units = FrameUnits(position.frame, position.part)
      BY <1>11, <2>3 DEF Reading
    <3>2. position.part > 0 => Len(call[c].units) = position.part
      BY <1>u, <3>1, Zenon
    <3>. QED  BY <1>11, <2>2, <3>2
  <2>. QED  BY <1>10, <1>16, <2>4, Zenon
<1>17. CASE /\ c \in Readers /\ call[c].at = "body" /\ at = "stop" /\ result = "nil"
            /\ ~Transferring(c) /\ want = call[c].want
  <2>1. Reading(c)
    BY <1>6, <1>17, Zenon
  <2>2. ~(position.part > 0) /\ Whole(c)
    <3>1. SUFFICES ASSUME position.part > 0 PROVE FALSE
      BY <1>11, <1>17, <2>1, Zenon DEF Reading
    <3>2. /\ call[c].units = FrameUnits(position.frame, position.part)
          /\ call[c].want = HeaderUnits + peer[position.frame].body
      BY <1>11, <1>17, <2>1, <3>1, SMTT(40) DEF Reading
    <3>3. Len(call[c].units) = position.part
      BY <1>u, <3>2, Zenon
    <3>4. position.part < HeaderUnits + peer[position.frame].body
      BY <3>1, Zenon DEF ReaderInv
    <3>. QED  BY <1>12, <1>17, <3>2, <3>3, <3>4, Zenon DEF Transferring
  <2>. QED  BY <1>10, <1>17, <2>2, Zenon
<1>18. CASE c \in Readers /\ call[c].at \in Late /\ at \in Late /\ result = call[c].result
  BY <1>6, <1>10, <1>18, Zenon DEF Late
<1>. QED
  BY <1>9, <1>13, <1>14, <1>15, <1>16, <1>17, <1>18, Zenon DEF Quietly

(* A unit read.                                                            *)
LEMMA ReadReaders ==
  ASSUME IInv, PointInv, ReaderInv, NEW c \in Calls, ReadUnit(c)
  PROVE  ReaderInv'
<1>0. HeaderUnits \in Nat \ {0} /\ Readers \subseteq Calls /\ c \in Readers
  BY TransportAssumption, Zenon DEF Calls, ReadUnit
<1>1. PICK f, n : f = position.frame /\ n = position.part
  BY Zenon
<1>2. f \in Nat /\ n \in Nat /\ position = [frame |-> f, part |-> n] /\ position \in Units
  BY <1>1, Zenon DEF IInv, TypeOK, Units
<1>3. Becomes(c, call[c].at, call[c].want, Append(call[c].units, position), call[c].result)
  BY <1>2, UnitStep, Zenon DEF ReadUnit, IInv, TypeOK
<1>4. /\ peer' \in Seq(Frames)
      /\ DOMAIN peer \subseteq DOMAIN peer'
      /\ \A e \in DOMAIN peer : peer'[e] = peer[e]
      /\ f = Len(peer')
      /\ f \in DOMAIN peer'
      /\ n > 0 => f \in DOMAIN peer /\ peer'[f] = peer[f]
  <2>1. peer \in Seq(Frames)
    BY Zenon DEF IInv, TypeOK
  <2>2. CASE n > 0
    BY <1>1, <1>2, <2>1, <2>2, Zenon DEF ReadUnit, IInv, StreamInv
  <2>3. CASE n = 0
    <3>1. PICK frame \in Frames : peer' = Append(peer, frame)
      BY <1>1, <2>3, SMTT(40) DEF ReadUnit
    <3>2. f = Len(peer) + 1
      BY <1>1, <2>3, Zenon DEF IInv, StreamInv
    <3>. QED  BY <2>1, <2>3, <3>1, <3>2
  <2>. QED  BY <1>2, <2>2, <2>3
<1>5. peer'[f].body \in Nat
  <2>1. peer'[f] \in Frames
    BY <1>4
  <2>. QED  BY <2>1, TransportAssumption, Zenon DEF Frames
<1>6. PICK size : size = HeaderUnits + peer'[f].body
  BY Zenon
<1>7. size \in Nat /\ size >= HeaderUnits
  BY <1>0, <1>5, <1>6
<1>8. position' = IF n + 1 < size THEN [frame |-> f, part |-> n + 1]
                  ELSE [frame |-> f + 1, part |-> 0]
  BY <1>1, <1>2, <1>6 DEF ReadUnit
<1>9. n < size
  <2>1. CASE n > 0
    BY <1>1, <1>4, <1>6, <2>1, Zenon DEF ReaderInv
  <2>2. CASE n = 0
    BY <1>0, <1>7, <2>2
  <2>. QED  BY <1>2, <2>1, <2>2
<1>10. position'.part > 0 => position'.frame = f /\ position'.part = n + 1 /\ n + 1 < size
  BY <1>2, <1>8
<1>11. ~(position'.part > 0) => position'.part = 0 /\ n + 1 = size
  BY <1>2, <1>7, <1>8, <1>9
<1>12. position'.part > 0 => position'.part < HeaderUnits + peer'[position'.frame].body
  BY <1>6, <1>10, Zenon
<1>13. SUFFICES ASSUME NoTear'
                PROVE  /\ \E d \in Readers : call'[d].at \in {"header", "body"}
                       /\ \A d \in Readers : call'[d].at \in {"header", "body"} => Reading(d)'
                       /\ \A d \in Readers : call'[d].result = "nil" => Whole(d)'
  BY <1>12, Zenon DEF ReaderInv
<1>14. call[c].at \in {"header", "body"} /\ Len(call[c].units) < call[c].want
  BY Zenon DEF ReadUnit, Serves, Transferring
<1>15. NoTear
  <2>1. ASSUME NEW d \in Readers, Tore(d)
        PROVE  FALSE
    <3>1. d # c
      BY <1>14, <2>1, Zenon DEF Tore
    <3>2. call'[d] = call[d]
      BY <1>0, <1>3, <3>1, Zenon DEF Becomes
    <3>3. Tore(d)'
      BY <2>1, <3>2, Zenon DEF Tore
    <3>. QED  BY <1>13, <3>3, Zenon DEF NoTear
  <2>. QED  BY <2>1, Zenon DEF NoTear
<1>16. /\ call'[c].at = call[c].at /\ call'[c].want = call[c].want
       /\ call'[c].result = call[c].result
       /\ call'[c].units = Append(call[c].units, position)
  BY <1>3, Zenon DEF Becomes
<1>17. Reading(c)
  BY <1>0, <1>14, <1>15, Zenon DEF ReaderInv
<1>18. call[c].units = FrameUnits(f, n)
  <2>1. CASE call[c].units = <<>> /\ position.part = 0
    BY <1>1, <2>1 DEF FrameUnits
  <2>2. CASE position.part > 0 /\ call[c].units = FrameUnits(position.frame, position.part)
    BY <1>1, <2>2, Zenon
  <2>3. Len(call[c].units) # call[c].want
    <3>1. call[c] \in CallType
      BY Zenon DEF IInv, TypeOK
    <3>2. call[c].want \in Nat /\ Len(call[c].units) \in Nat
      BY <3>1 DEF CallType
    <3>. QED  BY <1>14, <3>2
  <2>. QED  BY <1>17, <2>1, <2>2, <2>3, Zenon DEF Reading
<1>19. call'[c].units = FrameUnits(f, n + 1) /\ Len(call'[c].units) = n + 1
  <2>1. call'[c].units = FrameUnits(f, n + 1)
    BY <1>2, <1>16, <1>18, FrameUnitsLen, Zenon
  <2>2. n + 1 \in Nat
    BY <1>2
  <2>. QED  BY <1>2, <2>1, <2>2, FrameUnitsLen, Zenon
<1>20. Len(call[c].units) = n
  BY <1>2, <1>18, FrameUnitsLen
<1>21. call[c].at = "header" => call[c].want = HeaderUnits
  BY <1>0, Zenon DEF IInv, StreamInv
<1>22. call[c].at = "body" => call[c].want = size
  <2>1. SUFFICES ASSUME call[c].at = "body" PROVE call[c].want = size
    BY Zenon
  <2>2. CASE position.part > 0
    BY <1>1, <1>4, <1>6, <1>17, <2>1, <2>2 DEF Reading
  <2>3. Len(call[c].units) # call[c].want
    <3>1. call[c] \in CallType
      BY Zenon DEF IInv, TypeOK
    <3>2. call[c].want \in Nat /\ Len(call[c].units) \in Nat
      BY <3>1 DEF CallType
    <3>. QED  BY <1>14, <3>2
  <2>. QED  BY <1>17, <2>1, <2>2, <2>3, Zenon DEF Reading
<1>23. Reading(c)'
  <2>1. CASE position'.part > 0
    <3>1. call'[c].units = FrameUnits(position'.frame, position'.part)
      BY <1>10, <1>19, <2>1, Zenon
    <3>2. call'[c].at = "header" => position'.part <= HeaderUnits
      BY <1>0, <1>2, <1>10, <1>14, <1>16, <1>20, <1>21, <2>1
    <3>3. call'[c].at # "header" => call'[c].want = HeaderUnits + peer'[position'.frame].body
      BY <1>6, <1>10, <1>14, <1>16, <1>22, <2>1, Zenon
    <3>. QED  BY <2>1, <3>1, <3>2, <3>3, Zenon DEF Reading
  <2>2. CASE ~(position'.part > 0)
    <3>1. position'.part = 0 /\ n + 1 = size
      BY <1>11, <2>2, Zenon
    <3>2. Whole(c)'
      BY <1>4, <1>6, <1>19, <3>1, Zenon DEF Whole
    <3>3. Len(call'[c].units) = call'[c].want
      <4>1. CASE call[c].at = "body"
        BY <1>16, <1>19, <1>22, <3>1, <4>1, Zenon
      <4>2. CASE call[c].at = "header"
        <5>1. n < HeaderUnits /\ n + 1 >= HeaderUnits
          BY <1>7, <1>14, <1>20, <1>21, <3>1, <4>2, Zenon
        <5>. QED  BY <1>0, <1>2, <1>16, <1>19, <1>21, <4>2, <5>1
      <4>. QED  BY <1>14, <4>1, <4>2, Zenon
    <3>. QED  BY <3>1, <3>2, <3>3, Zenon DEF Reading
  <2>. QED  BY <2>1, <2>2, Zenon
<1>24. ASSUME NEW d \in Readers, d # c
       PROVE  call'[d] = call[d] /\ call'[d].at \notin {"header", "body"}
  <2>1. call'[d] = call[d]
    BY <1>0, <1>3, <1>24, Zenon DEF Becomes
  <2>2. call[d].at \notin {"header", "body"}
    BY <1>0, <1>14, <1>24, OneReader, Zenon DEF IInv, Owning
  <2>. QED  BY <2>1, <2>2, Zenon
<1>25. ASSUME NEW d \in Readers, call'[d].result = "nil"
       PROVE  Whole(d)'
  <2>1. d # c
    BY <1>14, <1>16, <1>25, Zenon DEF PointInv, Late
  <2>2. call'[d] = call[d]
    BY <1>24, <2>1, Zenon
  <2>3. Whole(d)
    BY <1>15, <1>25, <2>2, Zenon DEF ReaderInv
  <2>. QED  BY <1>4, <2>2, <2>3, Zenon DEF Whole
<1>. QED  BY <1>0, <1>14, <1>16, <1>23, <1>24, <1>25, Zenon

(* A unit written.                                                         *)
LEMMA WriteWriters ==
  ASSUME IInv, PointInv, WriterInv, NEW c \in Calls, WriteUnit(c)
  PROVE  WriterInv'
<1>0. c \in Writers /\ c \notin Readers /\ Writers \subseteq Calls
  BY TransportAssumption, Zenon DEF Calls, WriteUnit
<1>1. PICK size, n : size = Len(call[c].units) /\ n = Len(outbound)
  BY Zenon
<1>2. PICK unit : unit = [frame |-> c, part |-> size]
  BY Zenon
<1>3. outbound \in Seq(Units) /\ call[c].units \in Seq(Units) /\ size \in Nat /\ n \in Nat
  <2>1. call[c] \in CallType /\ outbound \in Seq(Units)
    BY Zenon DEF IInv, TypeOK
  <2>2. call[c].units \in Seq(Units)
    BY <2>1, Zenon DEF CallType
  <2>. QED  BY <1>1, <2>1, <2>2
<1>4. unit \in Units
  BY <1>0, <1>2, <1>3, Zenon DEF Units
<1>5. /\ call' = [call EXCEPT ![c].units = Append(@, unit)]
      /\ outbound' = Append(outbound, unit)
  BY <1>1, <1>2, Zenon DEF WriteUnit
<1>6. Becomes(c, call[c].at, call[c].want, Append(call[c].units, unit), call[c].result)
  BY <1>4, <1>5, UnitStep, Zenon DEF IInv, TypeOK
<1>7. call[c].at = "body" /\ call[c].result # "nil"
  BY <1>0, Zenon DEF WriteUnit, Serves, Transferring, IInv, StreamInv, PointInv, Late
<1>8. /\ Len(outbound') = n + 1
      /\ DOMAIN outbound' = 1 .. n + 1 /\ DOMAIN outbound = 1 .. n
      /\ \A i \in 1 .. n : outbound'[i] = outbound[i]
      /\ outbound'[n + 1] = unit
  BY <1>1, <1>3, <1>4, <1>5
<1>9. Own(c)' = Own(c) \cup {n + 1} /\ Own(c) \subseteq 1 .. n
  <2>1. unit.frame = c
    BY <1>2, Zenon
  <2>2. Own(c) \subseteq 1 .. n
    BY <1>8, Zenon DEF Own
  <2>3. ASSUME NEW i \in Own(c)'
        PROVE  i \in Own(c) \cup {n + 1}
    <3>1. i \in 1 .. n + 1 /\ outbound'[i].frame = c
      BY <1>8, Zenon DEF Own
    <3>. QED  BY <1>3, <1>8, <3>1 DEF Own
  <2>4. ASSUME NEW i \in Own(c) \cup {n + 1}
        PROVE  i \in Own(c)'
    <3>1. i \in 1 .. n + 1
      BY <1>3, <2>2
    <3>2. outbound'[i].frame = c
      BY <1>8, <2>1, <2>2, Zenon DEF Own
    <3>. QED  BY <1>8, <3>1, <3>2, Zenon DEF Own
  <2>. QED  BY <2>2, <2>3, <2>4, Zenon
<1>10. ASSUME NEW d \in Writers, d # c
       PROVE  Own(d)' = Own(d) /\ Own(d) \subseteq 1 .. n
  <2>1. unit.frame # d
    BY <1>2, <1>10, Zenon
  <2>2. Own(d) \subseteq 1 .. n
    BY <1>8, Zenon DEF Own
  <2>3. ASSUME NEW i \in Own(d)'
        PROVE  i \in Own(d)
    <3>1. i \in 1 .. n + 1 /\ outbound'[i].frame = d
      BY <1>8, Zenon DEF Own
    <3>. QED  BY <1>3, <1>8, <2>1, <3>1 DEF Own
  <2>4. ASSUME NEW i \in Own(d)
        PROVE  i \in Own(d)'
    <3>1. i \in 1 .. n + 1
      BY <1>3, <2>2
    <3>. QED  BY <1>8, <2>2, <3>1, Zenon DEF Own
  <2>. QED  BY <2>2, <2>3, <2>4, Zenon
<1>11. ASSUME NEW d \in Writers, d # c
       PROVE  call[d].at # "body" /\ call'[d] = call[d]
  <2>1. d \in Calls /\ Lane(c) = "write" /\ Lane(d) = "write" /\ "write" \in Lanes
    BY <1>0, TransportAssumption, Zenon DEF Calls, Lane, Lanes
  <2>2. call'[d] = call[d]
    BY <1>6, <1>11, <2>1, Zenon DEF Becomes
  <2>3. SUFFICES ASSUME call[d].at = "body" PROVE FALSE
    BY <2>2, Zenon
  <2>4. c \in lane["write"] /\ d \in lane["write"]
    BY <1>7, <2>1, <2>3, Zenon DEF IInv, LaneInv, Owning
  <2>. QED  BY <1>11, <2>1, <2>4, Zenon DEF IInv, LaneInv
<1>12. ASSUME NEW d \in Writers
       PROVE  /\ call'[d].at \in Early => Own(d)' = {}
              /\ \A i, k \in Own(d)' : i .. k \subseteq Own(d)'
              /\ call'[d].at = "body" /\ Own(d)' # {} => Len(outbound') \in Own(d)'
              /\ \A p \in 0 .. Len(call'[d].units) - 1 :
                   \E i \in Own(d)' : outbound'[i].part = p
              /\ call'[d].result = "nil" => Len(call'[d].units) >= call'[d].want
  <2>1. /\ call[d].at \in Early => Own(d) = {}
        /\ \A i, k \in Own(d) : i .. k \subseteq Own(d)
        /\ call[d].at = "body" /\ Own(d) # {} => Len(outbound) \in Own(d)
        /\ \A p \in 0 .. Len(call[d].units) - 1 : \E i \in Own(d) : outbound[i].part = p
        /\ call[d].result = "nil" => Len(call[d].units) >= call[d].want
    BY Zenon DEF WriterInv
  <2>2. CASE d # c
    <3>1. \A i \in Own(d) : outbound'[i] = outbound[i]
      BY <1>8, <1>10, <2>2, Zenon
    <3>. QED  BY <1>10, <1>11, <2>1, <2>2, <3>1
  <2>3. CASE d = c
    <3>1. ASSUME NEW i \in Own(c)', NEW k \in Own(c)'
          PROVE  i .. k \subseteq Own(c)'
      <4>1. i \in Nat /\ k \in Nat
        BY <1>3, <1>9
      <4>2. CASE k = n + 1 /\ i \in Own(c)
        <5>1. n \in Own(c)
          BY <1>1, <1>7, <2>1, <2>3, <4>2, Zenon
        <5>2. i .. n \subseteq Own(c)
          BY <2>1, <2>3, <4>2, <5>1, Zenon
        <5>3. i .. k \subseteq (i .. n) \cup {n + 1}
          BY <1>3, <4>1, <4>2
        <5>. QED  BY <1>9, <5>2, <5>3, Zenon
      <4>3. CASE k = n + 1 /\ i = n + 1
        <5>1. i .. k \subseteq {n + 1}
          BY <1>3, <4>3
        <5>. QED  BY <1>9, <5>1, Zenon
      <4>4. CASE k \in Own(c) /\ i = n + 1
        <5>1. i .. k = {}
          BY <1>3, <1>9, <4>4
        <5>. QED  BY <5>1, Zenon
      <4>5. CASE k \in Own(c) /\ i \in Own(c)
        BY <1>9, <2>1, <2>3, <4>5, Zenon
      <4>. QED  BY <1>9, <4>2, <4>3, <4>4, <4>5, Zenon
    <3>2. /\ call'[c].at = call[c].at /\ call'[c].result = call[c].result
          /\ call'[c].units = Append(call[c].units, unit)
      BY <1>6, Zenon DEF Becomes
    <3>3. Len(call'[c].units) = size + 1
      BY <1>1, <1>3, <1>4, <3>2
    <3>4. ASSUME NEW p \in 0 .. Len(call'[c].units) - 1
          PROVE  \E i \in Own(c)' : outbound'[i].part = p
      <4>1. CASE p = size
        <5>1. outbound'[n + 1].part = size /\ n + 1 \in Own(c)'
          BY <1>2, <1>8, <1>9
        <5>. QED  BY <4>1, <5>1, Zenon
      <4>2. CASE p # size
        <5>1. p \in 0 .. size - 1
          BY <1>3, <3>3, <4>2, SMTT(40)
        <5>2. PICK i \in Own(c) : outbound[i].part = p
          BY <1>1, <2>1, <2>3, <5>1, Zenon
        <5>. QED  BY <1>8, <1>9, <5>2, Zenon
      <4>. QED  BY <4>1, <4>2, Zenon
    <3>5. Len(outbound') \in Own(c)'
      BY <1>8, <1>9, Zenon
    <3>. QED  BY <1>7, <2>3, <3>1, <3>2, <3>4, <3>5, Zenon DEF Early
  <2>. QED  BY <2>2, <2>3, Zenon
<1>. QED  BY <1>12, Zenon DEF WriterInv

(* Every step keeps the frames whole.                                      *)
LEMMA WholeStep ==
  ASSUME IInv, WholeInv, [Next]_vars
  PROVE  WholeInv'
<1>1. ASSUME NEW c \in Calls, NEW at \in Points, NEW want \in Nat, NEW result \in Results,
             Quietly(c, at, want, result)
      PROVE  WholeInv'
  BY <1>1, QuietPoints, QuietWriters, QuietReaders, Zenon DEF WholeInv, IInv
<1>2. ASSUME NEW c \in Calls, ReadUnit(c)
      PROVE  WholeInv'
  <2>1. position \in Units
    BY Zenon DEF IInv, TypeOK, Units
  <2>2. Becomes(c, call[c].at, call[c].want, Append(call[c].units, position), call[c].result)
    BY <1>2, <2>1, UnitStep, Zenon DEF ReadUnit, IInv, TypeOK
  <2>3. call[c].at \notin Early
    BY <1>2, Zenon DEF ReadUnit, Serves, Transferring, Early
  <2>4. PointInv'
    BY <2>2, <2>3, Zenon DEF WholeInv, PointInv, Becomes
  <2>5. \A d \in Writers : call'[d] = call[d]
    BY <1>2, <2>2, TransportAssumption DEF ReadUnit, Becomes, Calls
  <2>6. outbound' = outbound /\ \A d \in Writers : Own(d)' = Own(d)
    BY <1>2, Zenon DEF ReadUnit, Own
  <2>7. WriterInv'
    BY <2>5, <2>6 DEF WholeInv, WriterInv
  <2>. QED  BY <1>2, <2>4, <2>7, ReadReaders, Zenon DEF WholeInv
<1>3. ASSUME NEW c \in Calls, WriteUnit(c)
      PROVE  WholeInv'
  <2>1. PICK unit \in Units : call' = [call EXCEPT ![c].units = Append(@, unit)]
    <3>1. call[c] \in CallType
      BY Zenon DEF IInv, TypeOK
    <3>2. Len(call[c].units) \in Nat /\ c \in Writers
      BY <1>3, <3>1 DEF WriteUnit, CallType
    <3>3. [frame |-> c, part |-> Len(call[c].units)] \in Units
      BY <3>2, Zenon DEF Units
    <3>. QED  BY <1>3, <3>3, Zenon DEF WriteUnit
  <2>2. Becomes(c, call[c].at, call[c].want, Append(call[c].units, unit), call[c].result)
    BY <2>1, UnitStep, Zenon DEF IInv, TypeOK
  <2>3. call[c].at \notin Early
    BY <1>3, Zenon DEF WriteUnit, Serves, Transferring, Early
  <2>4. PointInv'
    BY <2>2, <2>3, Zenon DEF WholeInv, PointInv, Becomes
  <2>5. \A d \in Readers : call'[d] = call[d]
    BY <1>3, <2>2, TransportAssumption DEF WriteUnit, Becomes, Calls
  <2>6. peer' = peer /\ position' = position
    BY <1>3, Zenon DEF WriteUnit
  <2>7. \A d \in Readers : /\ Reading(d)' <=> Reading(d)
                           /\ Whole(d)' <=> Whole(d)
                           /\ Tore(d)' <=> Tore(d)
    BY <2>5, <2>6, Zenon DEF Reading, Whole, Tore
  <2>8. ReaderInv'
    BY <2>5, <2>6, <2>7, Zenon DEF WholeInv, ReaderInv, NoTear
  <2>. QED  BY <1>3, <2>4, <2>8, WriteWriters, Zenon DEF WholeInv
<1>4. ASSUME UNCHANGED <<call, peer, position, outbound>>
      PROVE  WholeInv'
  <2>1. PointInv'
    BY <1>4, Zenon DEF WholeInv, PointInv
  <2>2. WriterInv'
    BY <1>4, SMTT(40) DEF WholeInv, WriterInv, Own
  <2>3. ReaderInv'
    BY <1>4, ZenonT(40) DEF WholeInv, ReaderInv, NoTear, Tore, Reading, Whole
  <2>. QED  BY <2>1, <2>2, <2>3, Zenon DEF WholeInv
<1>. QED  BY <1>1, <1>2, <1>3, <1>4, StepKinds, Zenon

(* Frames stay whole on both streams, for any number of calls, any header  *)
(* and any body sizes: a successful WriteFrame has put all of its frame on *)
(* the stream in one piece, and a successful ReadFrame has one whole frame *)
(* unless an earlier one was stopped inside a frame.                       *)
THEOREM FramesStayWhole == Spec => []FramesWhole
<1>1. Init => IInv /\ WholeInv
  BY InitEstablishes, WholeInit, Zenon
<1>2. IInv /\ WholeInv /\ [Next]_vars => (IInv /\ WholeInv)'
  BY StepPreserves, WholeStep, Zenon
<1>3. ASSUME IInv, WholeInv
      PROVE  FramesWhole
  <2>1. ASSUME NEW c \in Writers
        PROVE  /\ \A i, k \in Own(c) : i .. k \subseteq Own(c)
               /\ call[c].result = "nil" => \A p \in 0 .. call[c].want - 1 :
                                              \E i \in Own(c) : outbound[i].part = p
    <3>1. call[c] \in CallType
      BY <1>3, Zenon DEF IInv, TypeOK, Calls
    <3>2. call[c].want \in Nat /\ Len(call[c].units) \in Nat
      BY <3>1 DEF CallType
    <3>. QED  BY <1>3, <3>2 DEF WholeInv, WriterInv
  <2>2. ASSUME \A c \in Readers : ~Tore(c), NEW c \in Readers, call[c].result = "nil"
        PROVE  Whole(c)
    BY <1>3, <2>2, Zenon DEF WholeInv, ReaderInv, NoTear
  <2>. QED  BY <2>1, <2>2, Zenon DEF FramesWhole, Own, Whole, FrameUnits
<1>. QED  BY <1>1, <1>2, <1>3, PTL DEF Spec
=============================================================================
