-------------------------- MODULE EstablishProofs --------------------------
(***************************************************************************)
(* Handshake.tla for any sets of Handshake objects, keys and pins, and     *)
(* Establish.tla for any casts, peers and numbers of foreign frames.       *)
(*                                                                         *)
(* Agreement is not inductive: it says nothing of exchanges under way.     *)
(* Shape adds what an object's transcript looks like at each of its steps  *)
(* and where every emitted flight comes from.  The core is its last part:  *)
(* a final flight exists only once its initiator has completed with the    *)
(* transcript that the flight is sealed under.                             *)
(*                                                                         *)
(* The composed system implements Handshake.tla: dials, workers, sockets   *)
(* and strangers only ever call the Handshake objects with flights that    *)
(* were emitted, or junk (Carried).  So the theorems about the objects     *)
(* hold of it, and DialOutcome follows with what each client holds at each *)
(* of its steps (DialShape).                                               *)
(***************************************************************************)
EXTENDS Establish, TLAPS

Steps == {"write1", "read1", "write2", "read2", "write3", "read3", "complete", "failed"}

Functional ==
  /\ step \in [Handshakes -> Steps]
  /\ transcript = [h \in Handshakes |-> transcript[h]]
  /\ result = [h \in Handshakes |-> result[h]]

(* Where objects of the two roles stand. *)
InitiatorShape(i) ==
  /\ step[i] \in {"write1", "read2", "write3", "complete", "failed"}
  /\ step[i] = "write1" => transcript[i] = <<>>
  /\ step[i] = "read2" => transcript[i] = <<i>>
  /\ step[i] = "write3" => \E e, s : transcript[i] = <<i, e, s>>
  /\ step[i] = "complete" => \E e, s : result[i] = Result(i, <<i, e, s, Static[i]>>)

ResponderShape(r) ==
  /\ step[r] \in {"read1", "write2", "read3", "complete", "failed"}
  /\ step[r] = "read1" => transcript[r] = <<>>
  /\ step[r] = "write2" => \E x : transcript[r] = <<x>>
  /\ step[r] = "read3" => \E x : transcript[r] = <<x, r, Static[r]>>
  /\ step[r] = "complete" =>
       \E x, y : /\ result[r] = Result(r, <<x, r, Static[r], y>>)
                 /\ Flight("finish", <<x, r, Static[r]>>, <<y>>) \in flights

FinishShape(f) ==
  \E i \in Initiators : \E e, s :
    /\ f = Flight("finish", <<i, e, s>>, <<Static[i]>>)
    /\ step[i] = "complete" /\ result[i] = Result(i, <<i, e, s, Static[i]>>)
    /\ Expected[i] \in {NoKey, s}

FlightShape(f) ==
  \/ \E i : f = Flight("init", <<>>, <<i>>)
  \/ \E x, e, s : f = Flight("response", <<x>>, <<e, s>>)
  \/ FinishShape(f)

Shape ==
  /\ \A i \in Initiators : InitiatorShape(i)
  /\ \A r \in Responders : ResponderShape(r)
  /\ \A f \in flights : FlightShape(f)

IInv == Functional /\ Shape

-----------------------------------------------------------------------------
LEMMA ConcatIs ==
  ASSUME NEW S, NEW s \in Seq(S), NEW t \in Seq(S), NEW u \in Seq(S),
         Len(u) = Len(s) + Len(t),
         \A i \in 1..Len(s) : u[i] = s[i],
         \A i \in 1..Len(t) : u[i + Len(s)] = t[i]
  PROVE  s \o t = u
<1>1. s \o t \in Seq(S)  OBVIOUS
<1>2. Len(s \o t) = Len(u)  OBVIOUS
<1>3. ASSUME NEW i \in 1..Len(u) PROVE (s \o t)[i] = u[i]
  <2>1. (s \o t)[i] = IF i <= Len(s) THEN s[i] ELSE t[i - Len(s)]  OBVIOUS
  <2>2. CASE i <= Len(s)  BY <2>1, <2>2
  <2>3. CASE i > Len(s)
    <3>1. i - Len(s) \in 1..Len(t) /\ i = (i - Len(s)) + Len(s)  BY <2>3
    <3> QED  BY <2>1, <2>3, <3>1
  <2> QED  BY <2>2, <2>3
<1> QED  BY <1>1, <1>2, <1>3

(* What the second and the third flight make of a transcript. *)
LEMMA ResponseMixed ==
  ASSUME NEW a, NEW b, NEW c PROVE <<a>> \o <<b, c>> = <<a, b, c>>
<1> DEFINE S == {a, b, c}  s == <<a>>  t == <<b, c>>  u == <<a, b, c>>
<1>1. s \in Seq(S) /\ t \in Seq(S) /\ u \in Seq(S)  OBVIOUS
<1>2. Len(s) = 1 /\ Len(t) = 2 /\ Len(u) = Len(s) + Len(t)  OBVIOUS
<1>3. \A i \in 1..Len(s) : u[i] = s[i]  OBVIOUS
<1>4. \A i \in 1..Len(t) : u[i + Len(s)] = t[i]  OBVIOUS
<1>5. s \o t = u
  <2> HIDE DEF S, s, t, u
  <2> QED  BY <1>1, <1>2, <1>3, <1>4, ConcatIs, Zenon
<1> QED  BY <1>5, Zenon

LEMMA FinishMixed ==
  ASSUME NEW a, NEW b, NEW c, NEW d PROVE <<a, b, c>> \o <<d>> = <<a, b, c, d>>
<1> DEFINE S == {a, b, c, d}  s == <<a, b, c>>  t == <<d>>  u == <<a, b, c, d>>
<1>1. s \in Seq(S) /\ t \in Seq(S) /\ u \in Seq(S)  OBVIOUS
<1>2. Len(s) = 3 /\ Len(t) = 1 /\ Len(u) = Len(s) + Len(t)  OBVIOUS
<1>3. \A i \in 1..Len(s) : u[i] = s[i]  OBVIOUS
<1>4. \A i \in 1..Len(t) : u[i + Len(s)] = t[i]  OBVIOUS
<1>5. s \o t = u
  <2> HIDE DEF S, s, t, u
  <2> QED  BY <1>1, <1>2, <1>3, <1>4, ConcatIs, Zenon
<1> QED  BY <1>5, Zenon

(* Tuples of different lengths, or of different components, differ. *)
LEMMA Tuples ==
  ASSUME NEW a, NEW b, NEW c, NEW x, NEW y, NEW z
  PROVE  /\ <<a>> # <<x, y, z>>
         /\ <<a, b, c>> = <<x, y, z>> => a = x /\ b = y /\ c = z
BY Zenon

-----------------------------------------------------------------------------
(* What the three outcomes of a step assign, object by object. *)
Others(h) == \A x \in Handshakes \ {h} :
  step'[x] = step[x] /\ transcript'[x] = transcript[x] /\ result'[x] = result[x]

LEMMA FailFields ==
  ASSUME Functional, NEW h \in Handshakes, Fail(h)
  PROVE  Functional' /\ Others(h) /\ step'[h] = "failed"
BY Zenon DEF Functional, Others, Fail, Steps

LEMMA CompleteFields ==
  ASSUME Functional, NEW h \in Handshakes, NEW binding, Complete(h, binding)
  PROVE  /\ Functional' /\ Others(h)
         /\ step'[h] = "complete" /\ result'[h] = Result(h, binding)
BY Zenon DEF Functional, Others, Complete, Steps

LEMMA AdvanceFields ==
  ASSUME Functional, NEW h \in Handshakes, NEW next \in Steps, NEW adds, Advance(h, next, adds)
  PROVE  /\ Functional' /\ Others(h)
         /\ step'[h] = next /\ transcript'[h] = transcript[h] \o adds
BY Zenon DEF Functional, Others, Advance

(* A step of an object that had not ended keeps what is known of the others
   and of the flights there were. *)
LEMMA Preserved ==
  ASSUME IInv, NEW h \in Handshakes, step[h] # "complete", Functional', Others(h),
         flights \subseteq flights',
         h \in Initiators => InitiatorShape(h)',
         h \in Responders => ResponderShape(h)',
         \A f \in flights' \ flights : FlightShape(f)'
  PROVE  IInv'
<1>1. ASSUME NEW i \in Initiators PROVE InitiatorShape(i)'
  <2>1. CASE i = h  BY <2>1, Zenon
  <2>2. CASE i # h
    <3>1. step'[i] = step[i] /\ transcript'[i] = transcript[i] /\ result'[i] = result[i]
      BY <2>2, Zenon DEF Others, Handshakes
    <3>2. InitiatorShape(i)  BY Zenon DEF IInv, Shape
    <3> QED  BY <3>1, <3>2, ZenonT(40) DEF InitiatorShape, Result, PeerStatic, First, Second
  <2> QED  BY <2>1, <2>2, Zenon
<1>2. ASSUME NEW r \in Responders PROVE ResponderShape(r)'
  <2>1. CASE r = h  BY <2>1, Zenon
  <2>2. CASE r # h
    <3>1. step'[r] = step[r] /\ transcript'[r] = transcript[r] /\ result'[r] = result[r]
      BY <2>2, Zenon DEF Others, Handshakes
    <3>2. ResponderShape(r)  BY Zenon DEF IInv, Shape
    <3> QED  BY <3>1, <3>2, ZenonT(40) DEF ResponderShape, Result, PeerStatic, First, Second, Flight
  <2> QED  BY <2>1, <2>2, Zenon
<1>3. ASSUME NEW f \in flights PROVE FlightShape(f)'
  <2>1. FlightShape(f)  BY Zenon DEF IInv, Shape
  <2>2. CASE FinishShape(f)
    <3>1. PICK i, e, s :
            /\ i \in Initiators
            /\ f = Flight("finish", <<i, e, s>>, <<Static[i]>>)
            /\ step[i] = "complete" /\ result[i] = Result(i, <<i, e, s, Static[i]>>)
            /\ Expected[i] \in {NoKey, s}
      BY <2>2, Zenon DEF FinishShape
    <3>2. step'[i] = step[i] /\ result'[i] = result[i]
      BY <3>1, Zenon DEF Others, Handshakes
    <3> QED  BY <3>1, <3>2, Zenon DEF FlightShape, FinishShape
  <2>3. CASE ~ FinishShape(f)  BY <2>1, <2>3, Zenon DEF FlightShape
  <2> QED  BY <2>2, <2>3, Zenon
<1> QED  BY <1>1, <1>2, <1>3, Zenon DEF IInv, Shape

-----------------------------------------------------------------------------
LEMMA FailKeeps ==
  ASSUME IInv, NEW h \in Handshakes, step[h] # "complete", Fail(h), UNCHANGED flights
  PROVE  IInv'
<1>1. Functional' /\ Others(h) /\ step'[h] = "failed"  BY FailFields, Zenon DEF IInv
<1>2. InitiatorShape(h)' /\ ResponderShape(h)'  BY <1>1, Zenon DEF InitiatorShape, ResponderShape
<1> QED  BY <1>1, <1>2, Preserved, Zenon

(* WriteFlight by step: the first flight, the response, the finish. *)
LEMMA WriteKeeps ==
  ASSUME IInv, NEW h \in Handshakes, Write(h)
  PROVE  IInv'
<1>f. PICK f : f = WriteMessage(h)  BY Zenon
<1>0. /\ h \in Initiators => InitiatorShape(h)
      /\ h \in Responders => ResponderShape(h)
      /\ Functional
  BY Zenon DEF IInv, Shape
<1>1. CASE step[h] = "write1"
  <2>1. f = Flight("init", <<>>, <<h>>)  BY <1>f, <1>1, Zenon DEF WriteMessage
  <2>2. Advance(h, "read2", <<h>>) /\ flights' = flights \cup {f}
    BY <1>f, <1>1, <2>1, SMTT(40) DEF Write, After, Flight
  <2>3. Functional' /\ Others(h) /\ step'[h] = "read2" /\ transcript'[h] = transcript[h] \o <<h>>
    BY <1>0, <2>2, AdvanceFields, Zenon DEF Steps
  <2>4. h \in Initiators /\ h \notin Responders /\ transcript[h] = <<>>
    BY <1>0, <1>1, RolesAssumption, Zenon DEF Handshakes, InitiatorShape, ResponderShape
  <2>5. InitiatorShape(h)'
    <3>1. transcript'[h] = <<h>>  BY <2>3, <2>4
    <3> QED  BY <2>3, <3>1, Zenon DEF InitiatorShape
  <2>6. FlightShape(f)'  BY <2>1, Zenon DEF FlightShape
  <2> QED  BY <1>1, <2>2, <2>3, <2>4, <2>5, <2>6, Preserved, Zenon
<1>2. CASE step[h] = "write2"
  <2>1. h \in Responders /\ h \notin Initiators
    BY <1>0, <1>2, RolesAssumption, Zenon DEF Handshakes, InitiatorShape
  <2>2. PICK x : transcript[h] = <<x>>  BY <1>0, <1>2, <2>1, Zenon DEF ResponderShape
  <2>3. f = Flight("response", <<x>>, <<h, Static[h]>>)  BY <1>f, <1>2, <2>2, Zenon DEF WriteMessage
  <2>4. Advance(h, "read3", <<h, Static[h]>>) /\ flights' = flights \cup {f}
    BY <1>f, <1>2, <2>3, SMTT(40) DEF Write, After, Flight
  <2>5. /\ Functional' /\ Others(h) /\ step'[h] = "read3"
        /\ transcript'[h] = transcript[h] \o <<h, Static[h]>>
    BY <1>0, <2>4, AdvanceFields, Zenon DEF Steps
  <2>6. transcript'[h] = <<x, h, Static[h]>>  BY <2>2, <2>5, ResponseMixed
  <2>7. ResponderShape(h)'  BY <2>5, <2>6, Zenon DEF ResponderShape
  <2>8. FlightShape(f)'  BY <2>3, Zenon DEF FlightShape
  <2> QED  BY <1>2, <2>1, <2>4, <2>5, <2>7, <2>8, Preserved, Zenon
<1>3. CASE step[h] = "write3"
  <2>1. h \in Initiators /\ h \notin Responders
    BY <1>0, <1>3, RolesAssumption, Zenon DEF Handshakes, ResponderShape
  <2>2. PICK e, s : transcript[h] = <<h, e, s>>  BY <1>0, <1>3, <2>1, Zenon DEF InitiatorShape
  <2> DEFINE binding == <<h, e, s, Static[h]>>
  <2>3. f = Flight("finish", <<h, e, s>>, <<Static[h]>>)  BY <1>f, <1>3, <2>2, Zenon DEF WriteMessage
  <2>4. transcript[h] \o f.adds = binding  BY <2>2, <2>3, FinishMixed, Zenon DEF Flight
  <2>5. CASE PeerExpected(h, transcript[h] \o f.adds)
    <3>1. Complete(h, binding) /\ flights' = flights \cup {f}  BY <1>f, <1>3, <2>4, <2>5, Zenon DEF Write
    <3>2. /\ Functional' /\ Others(h)
          /\ step'[h] = "complete" /\ result'[h] = Result(h, binding)
      BY <1>0, <3>1, CompleteFields, Zenon
    <3>3. InitiatorShape(h)'  BY <3>2, Zenon DEF InitiatorShape
    <3>4. PeerStatic(h, binding) = s  BY <2>1, Zenon DEF PeerStatic
    <3>5. Expected[h] \in {NoKey, s}  BY <2>4, <2>5, <3>4, Zenon DEF PeerExpected
    <3>6. FlightShape(f)'  BY <2>1, <2>3, <3>2, <3>5, Zenon DEF FlightShape, FinishShape
    <3> QED  BY <1>3, <2>1, <3>1, <3>2, <3>3, <3>6, Preserved, Zenon
  <2>6. CASE ~ PeerExpected(h, transcript[h] \o f.adds)
    <3>1. Fail(h) /\ UNCHANGED flights  BY <1>f, <1>3, <2>6, Zenon DEF Write
    <3> QED  BY <1>3, <3>1, FailKeeps, Zenon
  <2> QED  BY <2>5, <2>6, Zenon
<1> QED  BY <1>1, <1>2, <1>3, Zenon DEF Write

(* What the flights that may be read look like; junk passes for a flight only
   where nothing in it is encrypted, or under a transcript of one key. *)
LEMMA ReadableShape ==
  ASSUME IInv, NEW f \in flights \cup JunkFlights
  PROVE  /\ f.kind = "init" => \E x : f.adds = <<x>>
         /\ f.kind = "response" => \E e, s : f.adds = <<e, s>>
         /\ f.kind = "finish" => FinishShape(f) \/ f.under = <<Junk>>
<1>1. CASE f \in flights
  <2>1. FlightShape(f)  BY <1>1, Zenon DEF IInv, Shape
  <2>2. CASE FinishShape(f)
    <3>1. \E i, e, s : f = Flight("finish", <<i, e, s>>, <<Static[i]>>)  BY <2>2, Zenon DEF FinishShape
    <3>2. f.kind = "finish"  BY <3>1 DEF Flight
    <3> QED  BY <2>2, <3>2, Zenon
  <2>3. CASE ~ FinishShape(f)  BY <2>1, <2>3 DEF FlightShape, Flight
  <2> QED  BY <2>2, <2>3, Zenon
<1>2. CASE f \in JunkFlights  BY <1>2 DEF JunkFlights, Flight
<1> QED  BY <1>1, <1>2, Zenon

(* The responder's last read: the flight it opens is the one an initiator has
   sealed under the same transcript, never junk. *)
LEMMA FinishRead ==
  ASSUME IInv, NEW h \in Handshakes, NEW f \in flights \cup JunkFlights,
         step[h] = "read3", ReadMessage(h, f)
  PROVE  /\ h \in Responders /\ h \notin Initiators /\ f \notin JunkFlights
         /\ \E x, y : /\ f = Flight("finish", <<x, h, Static[h]>>, <<y>>)
                      /\ transcript[h] \o f.adds = <<x, h, Static[h], y>>
<1>1. h \in Responders /\ h \notin Initiators
  BY RolesAssumption, Zenon DEF Handshakes, IInv, Shape, InitiatorShape
<1>2. PICK x : transcript[h] = <<x, h, Static[h]>>  BY <1>1, Zenon DEF IInv, Shape, ResponderShape
<1>3. f.kind = "finish" /\ f.under = transcript[h]  BY Zenon DEF ReadMessage
<1>4. f.under # <<Junk>>  BY <1>2, <1>3, Tuples
<1>5. f \notin JunkFlights  BY <1>3, <1>4, SMTT(40) DEF JunkFlights, Flight
<1>6. FinishShape(f)  BY <1>3, <1>4, ReadableShape, Zenon
<1>7. PICK i, e, s : f = Flight("finish", <<i, e, s>>, <<Static[i]>>)  BY <1>6, Zenon DEF FinishShape
<1>8. f.under = <<i, e, s>> /\ f.adds = <<Static[i]>>  BY <1>7, Zenon DEF Flight
<1>9. f = Flight("finish", <<x, h, Static[h]>>, <<Static[i]>>)  BY <1>2, <1>3, <1>7, <1>8, Zenon
<1>10. transcript[h] \o f.adds = <<x, h, Static[h], Static[i]>>  BY <1>2, <1>8, FinishMixed
<1> QED  BY <1>1, <1>5, <1>9, <1>10, Zenon

(* ReadFlight by step: the first flight, the response, the finish. *)
LEMMA ReadKeeps ==
  ASSUME IInv, NEW h \in Handshakes, NEW f \in flights \cup JunkFlights, Read(h, f),
         UNCHANGED flights
  PROVE  IInv'
<1>0. /\ h \in Initiators => InitiatorShape(h)
      /\ h \in Responders => ResponderShape(h)
      /\ Functional
  BY Zenon DEF IInv, Shape
<1>1. CASE step[h] = "read1"
  <2>1. h \in Responders /\ h \notin Initiators /\ transcript[h] = <<>>
    BY <1>0, <1>1, RolesAssumption, Zenon DEF Handshakes, InitiatorShape, ResponderShape
  <2>2. f.kind = "init" /\ Advance(h, "write2", f.adds)
    BY <1>1 DEF Read, ReadMessage, After
  <2>3. PICK x : f.adds = <<x>>  BY <2>2, ReadableShape, Zenon
  <2>4. /\ Functional' /\ Others(h) /\ step'[h] = "write2"
        /\ transcript'[h] = transcript[h] \o <<x>>
    BY <1>0, <2>2, <2>3, AdvanceFields, ZenonT(40) DEF Steps
  <2>5. transcript'[h] = <<x>>  BY <2>1, <2>4
  <2>6. ResponderShape(h)'  BY <2>4, <2>5, Zenon DEF ResponderShape
  <2> QED  BY <1>1, <2>1, <2>4, <2>6, Preserved, Zenon
<1>2. CASE step[h] = "read2"
  <2>1. h \in Initiators /\ h \notin Responders /\ transcript[h] = <<h>>
    BY <1>0, <1>2, RolesAssumption, ZenonT(40) DEF Handshakes, InitiatorShape, ResponderShape
  <2>2. f.kind = "response" /\ Advance(h, "write3", f.adds)
    BY <1>2 DEF Read, ReadMessage, After
  <2>3. PICK e, s : f.adds = <<e, s>>  BY <2>2, ReadableShape, Zenon
  <2>4. /\ Functional' /\ Others(h) /\ step'[h] = "write3"
        /\ transcript'[h] = transcript[h] \o <<e, s>>
    BY <1>0, <2>2, <2>3, AdvanceFields, ZenonT(40) DEF Steps
  <2>5. transcript'[h] = <<h, e, s>>  BY <2>1, <2>4, ResponseMixed, Zenon
  <2>6. InitiatorShape(h)'  BY <2>4, <2>5, Zenon DEF InitiatorShape
  <2> QED  BY <1>2, <2>1, <2>4, <2>6, Preserved, Zenon
<1>3. CASE step[h] = "read3"
  <2>1. ReadMessage(h, f)  BY <1>3, Zenon DEF Read
  <2>2. h \in Responders /\ h \notin Initiators /\ f \in flights  BY <1>3, <2>1, FinishRead, Zenon
  <2>3. PICK x, y : /\ f = Flight("finish", <<x, h, Static[h]>>, <<y>>)
                    /\ transcript[h] \o f.adds = <<x, h, Static[h], y>>
    BY <1>3, <2>1, FinishRead, ZenonT(40)
  <2>4. CASE Complete(h, <<x, h, Static[h], y>>)
    <3>1. /\ Functional' /\ Others(h)
          /\ step'[h] = "complete" /\ result'[h] = Result(h, <<x, h, Static[h], y>>)
      BY <1>0, <2>4, CompleteFields, Zenon
    <3>2. Flight("finish", <<x, h, Static[h]>>, <<y>>) \in flights'  BY <2>2, <2>3, Zenon
    <3>3. ResponderShape(h)'  BY <3>1, <3>2, Zenon DEF ResponderShape
    <3> QED  BY <1>3, <2>2, <3>1, <3>3, Preserved, Zenon
  <2>5. CASE Fail(h)  BY <1>3, <2>5, FailKeeps, Zenon
  <2> QED  BY <1>3, <2>3, <2>4, <2>5, Zenon DEF Read
<1> QED  BY <1>1, <1>2, <1>3, Zenon DEF Read

-----------------------------------------------------------------------------
LEMMA InitEstablishes == HandshakeInit => IInv
BY RolesAssumption, Zenon DEF HandshakeInit, IInv, Functional, Shape, Handshakes, Steps,
                       InitiatorShape, ResponderShape

LEMMA StepKeeps == IInv /\ [HandshakeNext]_hvars => IInv'
<1> SUFFICES ASSUME IInv, [HandshakeNext]_hvars PROVE IInv'
  BY Zenon
<1>1. CASE UNCHANGED hvars
  <2>1. UNCHANGED <<step, transcript, result, flights>>  BY <1>1, Zenon DEF hvars
  <2>2. Functional'  BY <2>1, Zenon DEF IInv, Functional
  <2>3. \A i \in Initiators : InitiatorShape(i)'  BY <2>1, ZenonT(40) DEF IInv, Shape, InitiatorShape
  <2>4. \A r \in Responders : ResponderShape(r)'  BY <2>1, Zenon DEF IInv, Shape, ResponderShape
  <2>5. \A f \in flights : FlightShape(f)'
    BY <2>1, ZenonT(40) DEF IInv, Shape, FlightShape, FinishShape
  <2> QED  BY <2>1, <2>2, <2>3, <2>4, <2>5, Zenon DEF IInv, Shape
<1>2. ASSUME NEW h \in Handshakes, WriteFlight(h) PROVE IInv'
  <2>1. CASE Write(h)  BY <2>1, WriteKeeps, Zenon
  <2>2. CASE WriteFails(h)  BY <2>2, FailKeeps, Zenon DEF WriteFails
  <2>3. CASE WriteRefused(h)  BY <2>3, <1>1, Zenon DEF WriteRefused
  <2> QED  BY <1>2, <2>1, <2>2, <2>3, Zenon DEF WriteFlight
<1>3. ASSUME NEW h \in Handshakes, NEW f \in flights \cup JunkFlights, ReadFlight(h, f)
      PROVE  IInv'
  <2>1. UNCHANGED flights  BY <1>3, Zenon DEF ReadFlight
  <2>2. CASE Read(h, f)  BY <2>1, <2>2, ReadKeeps, Zenon
  <2>3. CASE ReadFails(h, f)  BY <2>1, <2>3, FailKeeps, Zenon DEF ReadFails
  <2>4. CASE ReadRefused(h)  BY <2>1, <2>4, <1>1, Zenon DEF ReadRefused, hvars
  <2> QED  BY <1>3, <2>2, <2>3, <2>4, Zenon DEF ReadFlight
<1> QED  BY <1>1, <1>2, <1>3, Zenon DEF HandshakeNext

LEMMA ShapeAgrees == IInv => Agreement
<1> SUFFICES ASSUME IInv PROVE Agreement
  BY Zenon
<1>1. ASSUME NEW r \in Responders, step[r] = "complete"
      PROVE  \E i \in Initiators :
               /\ step[i] = "complete"
               /\ result[i] = [ sessionID |-> result[r].sessionID, peer |-> Static[r],
                                send |-> result[r].receive, receive |-> result[r].send ]
               /\ result[r].peer = Static[i]
  <2>1. PICK x, y : /\ result[r] = Result(r, <<x, r, Static[r], y>>)
                    /\ Flight("finish", <<x, r, Static[r]>>, <<y>>) \in flights
    BY <1>1, Zenon DEF IInv, Shape, ResponderShape
  <2> DEFINE f == Flight("finish", <<x, r, Static[r]>>, <<y>>)
  <2>2. FinishShape(f)
    <3>1. FlightShape(f)  BY <2>1, Zenon DEF IInv, Shape
    <3> QED  BY <3>1, Zenon DEF FlightShape, Flight
  <2>3. PICK i, e, s :
          /\ i \in Initiators
          /\ f = Flight("finish", <<i, e, s>>, <<Static[i]>>)
          /\ step[i] = "complete" /\ result[i] = Result(i, <<i, e, s, Static[i]>>)
    BY <2>2, Zenon DEF FinishShape
  <2>4. <<x, r, Static[r]>> = <<i, e, s>> /\ <<y>> = <<Static[i]>>  BY <2>3, Zenon DEF Flight
  <2>5. x = i /\ e = r /\ s = Static[r] /\ y = Static[i]  BY <2>4, Zenon
  <2>6. result[i] = Result(i, <<i, r, Static[r], Static[i]>>)
        /\ result[r] = Result(r, <<i, r, Static[r], Static[i]>>)
    BY <2>1, <2>3, <2>5, Zenon
  <2>7. i \in Initiators /\ r \notin Initiators  BY <2>3, RolesAssumption, Zenon
  <2>8. /\ result[i] = [ sessionID |-> result[r].sessionID, peer |-> Static[r],
                         send |-> result[r].receive, receive |-> result[r].send ]
        /\ result[r].peer = Static[i]
    BY <2>6, <2>7, SMTT(40) DEF Result, PeerStatic
  <2> QED  BY <2>3, <2>8, Zenon
<1>2. ASSUME NEW g \in Initiators, NEW h \in Initiators,
             step[g] = "complete", step[h] = "complete",
             result[g].sessionID = result[h].sessionID
      PROVE  g = h
  <2>1. PICK e, s : result[g] = Result(g, <<g, e, s, Static[g]>>)
    BY <1>2, Zenon DEF IInv, Shape, InitiatorShape
  <2>2. PICK d, t : result[h] = Result(h, <<h, d, t, Static[h]>>)
    BY <1>2, Zenon DEF IInv, Shape, InitiatorShape
  <2>3. <<g, e, s, Static[g]>> = <<h, d, t, Static[h]>>  BY <1>2, <2>1, <2>2 DEF Result
  <2> QED  BY <2>3, Zenon
<1>3. ASSUME NEW g \in Responders, NEW h \in Responders,
             step[g] = "complete", step[h] = "complete",
             result[g].sessionID = result[h].sessionID
      PROVE  g = h
  <2>1. PICK x, y : result[g] = Result(g, <<x, g, Static[g], y>>)
    BY <1>3, ZenonT(40) DEF IInv, Shape, ResponderShape
  <2>2. PICK v, w : result[h] = Result(h, <<v, h, Static[h], w>>)
    BY <1>3, Zenon DEF IInv, Shape, ResponderShape
  <2>3. <<x, g, Static[g], y>> = <<v, h, Static[h], w>>  BY <1>3, <2>1, <2>2, SMTT(40) DEF Result
  <2> QED  BY <2>3, Zenon
<1> QED  BY <1>1, <1>2, <1>3, Zenon DEF Agreement

LEMMA ShapePins == IInv => PinBeforeFinish
<1> SUFFICES ASSUME IInv, NEW f \in flights, f.kind = "finish"
             PROVE  Expected[f.under[1]] \in {NoKey, f.under[3]}
  BY Zenon DEF PinBeforeFinish
<1>1. FinishShape(f)
  <2>1. FlightShape(f)  BY Zenon DEF IInv, Shape
  <2> QED  BY <2>1 DEF FlightShape, Flight
<1>2. PICK i, e, s :
        f = Flight("finish", <<i, e, s>>, <<Static[i]>>) /\ Expected[i] \in {NoKey, s}
  BY <1>1, Zenon DEF FinishShape
<1>3. f.under = <<i, e, s>>  BY <1>2, Zenon DEF Flight
<1> QED  BY <1>2, <1>3

-----------------------------------------------------------------------------
LEMMA Inductive == HandshakeSpec => []IInv
<1> QED  BY InitEstablishes, StepKeeps, PTL DEF HandshakeSpec

(* Whatever handshakes run at the same time and however their flights are
   repeated, reordered or misdirected, a responder that completed (complete,
   handshake.go:198) shares session ID, keys and identities with exactly one
   initiator, and no session ID is used twice in a role. *)
THEOREM HandshakesAgree == HandshakeSpec => []Agreement
<1> QED  BY Inductive, ShapeAgrees, PTL

(* No final flight exists whose initiator had not found the peer it expects:
   complete compares the keys (handshake.go:200) before WriteFlight returns. *)
THEOREM PinHolds == HandshakeSpec => []PinBeforeFinish
<1> QED  BY Inductive, ShapePins, PTL

(* A call touches its own object, and one that has ended not even that. *)
LEMMA OthersKept ==
  ASSUME Functional, NEW h \in Handshakes, NEW f, WriteFlight(h) \/ ReadFlight(h, f)
  PROVE  Others(h)
<1>1. CASE UNCHANGED <<step, transcript, result>>  BY <1>1, Zenon DEF Others
<1>2. CASE Fail(h)  BY <1>2, FailFields, Zenon
<1>3. CASE \E binding : Complete(h, binding)  BY <1>3, CompleteFields, Zenon
<1>4. CASE \E next, adds : Advance(h, next, adds)  BY <1>4, Zenon DEF Advance, Others, Functional
<1> QED
  BY <1>1, <1>2, <1>3, <1>4, ZenonT(40)
  DEF WriteFlight, Write, WriteFails, WriteRefused, ReadFlight, Read, ReadFails, ReadRefused, hvars

LEMMA EndedKept ==
  ASSUME NEW h \in Handshakes, NEW f, WriteFlight(h) \/ ReadFlight(h, f), step[h] \in Final
  PROVE  step'[h] = step[h] /\ result'[h] = result[h]
BY ZenonT(40) DEF Final, WriteFlight, Write, WriteFails, WriteRefused, ReadFlight, Read, ReadFails,
       ReadRefused, hvars

LEMMA StepEnds ==
  ASSUME IInv, [HandshakeNext]_hvars, NEW h \in Handshakes, step[h] \in Final
  PROVE  step'[h] = step[h] /\ result'[h] = result[h]
<1>1. CASE UNCHANGED hvars  BY <1>1, Zenon DEF hvars
<1>2. ASSUME NEW g \in Handshakes, NEW f, WriteFlight(g) \/ ReadFlight(g, f)
      PROVE  step'[h] = step[h] /\ result'[h] = result[h]
  <2>1. CASE g = h  BY <1>2, <2>1, EndedKept, Zenon
  <2>2. CASE g # h
    <3>1. Others(g)  BY <1>2, OthersKept, Zenon DEF IInv
    <3> QED  BY <2>2, <3>1, Zenon DEF Others
  <2> QED  BY <2>1, <2>2, Zenon
<1> QED  BY <1>1, <1>2, ZenonT(40) DEF HandshakeNext

(* A handshake that completed or failed stays as it ended: repeated flights
   and calls out of turn change neither its step nor its result (ErrHandshake
   at handshake.go:95 and :142). *)
THEOREM EndsStay == HandshakeSpec => EndIsFinal
<1>1. IInv /\ [HandshakeNext]_hvars =>
        [\A h \in Handshakes : step[h] \in Final =>
           step'[h] = step[h] /\ result'[h] = result[h]]_hvars
  BY StepEnds, Zenon
<1> QED  BY Inductive, <1>1, PTL DEF HandshakeSpec, EndIsFinal
-----------------------------------------------------------------------------
(* The routines around the objects.                                        *)

Frames == [type : {"init", "response", "data"}, zero : BOOLEAN, flight : wire \cup JunkFlights]

Carried ==
  /\ peer \in Casts
  /\ wire \subseteq flights
  /\ inbox \in [Routines -> Seq(Frames)]

LEMMA SeqMonotone ==
  ASSUME NEW S, NEW T, S \subseteq T, NEW s \in Seq(S)
  PROVE  s \in Seq(T)
OBVIOUS

LEMMA RoutinesAreHandshakes == Carried => Routines \subseteq Handshakes
BY CastsAssumption, Zenon DEF Carried, Routines

(* Frames on their way stay what they are while flights are added. *)
LEMMA CarriedKept ==
  ASSUME Carried, UNCHANGED <<peer, inbox, wire>>, flights \subseteq flights'
  PROVE  Carried'
<1>1. Routines' = Routines /\ Frames' = Frames  BY Zenon DEF Routines, Frames
<1> QED  BY <1>1, Zenon DEF Carried

LEMMA FlightsGrow ==
  ASSUME NEW h, Write(h) \/ WriteFails(h)
  PROVE  flights \subseteq flights'
BY Zenon DEF Write, WriteFails

(* WriteFlight and WriteFrame of a routine. *)
LEMMA WriteCarries ==
  ASSUME Carried, NEW x \in Routines, NEW p, WriteThen(x, p), UNCHANGED peer
  PROVE  HandshakeNext /\ Carried' /\ wire \subseteq wire'
<1>1. x \in Handshakes  BY RoutinesAreHandshakes, Zenon
<1>2. Write(x) \/ WriteFails(x)  BY Zenon DEF WriteThen
<1>3. HandshakeNext  BY <1>1, <1>2, Zenon DEF HandshakeNext, WriteFlight
<1>4. flights \subseteq flights'  BY <1>2, FlightsGrow, Zenon
<1>5. CASE UNCHANGED <<wire, inbox>>  BY <1>3, <1>4, <1>5, CarriedKept, Zenon
<1>6. ASSUME NEW f \in flights', Delivers(x, f) PROVE Carried' /\ wire \subseteq wire'
  <2>1. wire' \subseteq flights' /\ wire \subseteq wire' /\ f \in wire'
    BY <1>4, <1>6, Zenon DEF Delivers, Carried
  <2>2. Routines' = Routines  BY Zenon DEF Routines
  <2>3. Frames \subseteq Frames'  BY <2>1, Zenon DEF Frames
  <2>4. \A y \in Routines : inbox[y] \in Seq(Frames')  BY <2>3, SeqMonotone, Zenon DEF Carried
  <2>5. FrameOf(f) \in Frames'  BY <2>1, Zenon DEF Frames, FrameOf, Frame
  <2>6. \A y \in Routines : Append(inbox[y], FrameOf(f)) \in Seq(Frames')  BY <2>4, <2>5
  <2>7. inbox' \in [Routines -> Seq(Frames')]
    BY <1>6, <2>4, <2>6, Zenon DEF Delivers, Carried
  <2> QED  BY <2>1, <2>2, <2>7, Zenon DEF Carried
<1> QED  BY <1>3, <1>5, <1>6, Zenon DEF WriteThen

(* ReadFrame and ReadFlight of a routine: what it hands to the Handshake object
   was on a wire, or is junk. *)
LEMMA ReadCarries ==
  ASSUME Carried, NEW x \in Routines, NEW type, NEW p, ReadThen(x, type, p), UNCHANGED peer
  PROVE  /\ [HandshakeNext]_hvars /\ Carried' /\ UNCHANGED <<wire, flights>>
         /\ \/ UNCHANGED hvars /\ Fails(x)
            \/ \E f \in wire \cup JunkFlights :
                  /\ ReadFlight(x, f)
                  /\ IF step'[x] = "failed" THEN Fails(x) ELSE Goto(x, p)
<1>1. x \in Handshakes  BY RoutinesAreHandshakes, Zenon
<1>2. UNCHANGED wire  BY Zenon DEF ReadThen
<1>3. CASE Fails(x) /\ UNCHANGED <<hvars, inbox>>
  <2>1. flights' = flights  BY <1>3, Zenon DEF hvars
  <2> QED  BY <1>2, <1>3, <2>1, CarriedKept, Zenon
<1>4. CASE ~ (Fails(x) /\ UNCHANGED <<hvars, inbox>>)
  <2> DEFINE frame == Head(inbox[x])
  <2>1. /\ inbox[x] # <<>>
        /\ inbox' = [inbox EXCEPT ![x] = Tail(@)]
        /\ \/ ReadFlight(x, frame.flight) /\ IF step'[x] = "failed" THEN Fails(x) ELSE Goto(x, p)
           \/ Fails(x) /\ UNCHANGED hvars
    BY <1>4, Zenon DEF ReadThen
  <2>2. inbox[x] \in Seq(Frames)  BY Zenon DEF Carried
  <2>3. frame \in Frames /\ Tail(inbox[x]) \in Seq(Frames)  BY <2>1, <2>2
  <2>4. frame.flight \in wire \cup JunkFlights  BY <2>3, Zenon DEF Frames
  <2>5. [HandshakeNext]_hvars  BY <1>1, <2>1, <2>4, Zenon DEF HandshakeNext, Carried
  <2>6. UNCHANGED flights  BY <2>1, Zenon DEF ReadFlight, hvars
  <2>7. Routines' = Routines /\ Frames' = Frames  BY <1>2, Zenon DEF Routines, Frames
  <2>8. inbox' \in [Routines -> Seq(Frames)]  BY <2>1, <2>3, Zenon DEF Carried
  <2>9. Carried'  BY <1>2, <2>6, <2>7, <2>8, Zenon DEF Carried
  <2> QED  BY <1>2, <2>1, <2>4, <2>5, <2>6, <2>9, Zenon
<1> QED  BY <1>3, <1>4, Zenon

(* Every step of the composed system. *)
LEMMA NextCarries ==
  ASSUME Carried, [Next]_vars
  PROVE  [HandshakeNext]_hvars /\ Carried' /\ wire \subseteq wire'
<1>1. CASE UNCHANGED <<hvars, peer, inbox, wire>>
  <2>1. flights' = flights  BY <1>1, Zenon DEF hvars
  <2> QED  BY <1>1, <2>1, CarriedKept, Zenon
<1>2. ASSUME NEW c \in Clients, ClientStep(c)
      PROVE  [HandshakeNext]_hvars /\ Carried' /\ wire \subseteq wire'
  <2>1. c \in Routines /\ UNCHANGED peer  BY <1>2, Zenon DEF Clients, ClientStep
  <2>2. CASE Call(c) \/ DialSucceeds(c) \/ DialFails(c) \/ Check(c) \/ Start(c)
    BY <1>1, <2>1, <2>2, Zenon DEF Call, DialSucceeds, DialFails, Check, Start
  <2>3. CASE WriteThen(c, "read2")  BY <2>1, <2>3, WriteCarries, Zenon
  <2>4. CASE ReadThen(c, "response", "write3")  BY <2>1, <2>4, ReadCarries, Zenon
  <2>5. CASE WriteThen(c, "check")  BY <2>1, <2>5, WriteCarries, Zenon
  <2> QED  BY <1>2, <2>2, <2>3, <2>4, <2>5, Zenon DEF ClientStep
<1>3. ASSUME NEW w \in Workers, WorkerStep(w)
      PROVE  [HandshakeNext]_hvars /\ Carried' /\ wire \subseteq wire'
  <2>1. w \in Routines /\ UNCHANGED peer  BY <1>3, Zenon DEF Workers, WorkerStep
  <2>2. CASE Admit(w)  BY <1>1, <2>1, <2>2, Zenon DEF Admit
  <2>3. CASE ReadThen(w, "init", "write2")  BY <2>1, <2>3, ReadCarries, Zenon
  <2>4. CASE WriteThen(w, "read3")  BY <2>1, <2>4, WriteCarries, Zenon
  <2>5. CASE ReadThen(w, "response", "allow")  BY <2>1, <2>5, ReadCarries, Zenon
  <2> QED  BY <1>3, <2>2, <2>3, <2>4, <2>5, Zenon DEF WorkerStep
<1>4. ASSUME NEW x \in Routines, StrangerSends(x)
      PROVE  [HandshakeNext]_hvars /\ Carried' /\ wire \subseteq wire'
  <2>1. UNCHANGED <<hvars, peer, wire>>  BY <1>4, Zenon DEF StrangerSends
  <2>2. PICK frame \in ForeignFrames : inbox' = [inbox EXCEPT ![x] = <<frame>>]
    BY <1>4, Zenon DEF StrangerSends
  <2>3. frame \in Frames
    <3>1. \A f \in wire \cup JunkFlights : FrameOf(f) \in Frames  BY Zenon DEF FrameOf, Frame, Frames
    <3>2. \A f \in JunkFlights : Frame("data", TRUE, f) \in Frames  BY Zenon DEF Frame, Frames
    <3>3. \A g \in Frames : [g EXCEPT !.zero = FALSE] \in Frames  BY Zenon DEF Frames
    <3> QED  BY <3>1, <3>2, <3>3, Zenon DEF ForeignFrames
  <2>4. inbox' \in [Routines -> Seq(Frames)]  BY <2>2, <2>3 DEF Carried
  <2>5. Routines' = Routines /\ Frames' = Frames /\ flights' = flights
    BY <2>1, Zenon DEF Routines, Frames, hvars
  <2> QED  BY <2>1, <2>4, <2>5, Zenon DEF Carried
<1>5. ASSUME NEW h \in DOMAIN peer \ Routines, DirectCall(h)
      PROVE  [HandshakeNext]_hvars /\ Carried' /\ wire \subseteq wire'
  <2>1. h \in Handshakes  BY CastsAssumption, Zenon DEF Carried
  <2>2. HandshakeNext  BY <1>5, <2>1, Zenon DEF DirectCall, HandshakeNext
  <2>3. flights \subseteq flights'
    BY <1>5, FlightsGrow, Zenon DEF DirectCall, WriteFlight, WriteRefused, ReadFlight, hvars
  <2>4. UNCHANGED <<peer, inbox, wire>>  BY <1>5, Zenon DEF DirectCall, evars
  <2> QED  BY <2>2, <2>3, <2>4, CarriedKept, Zenon
<1>6. ASSUME NEW x \in Routines, EndContext(x) \/ EndRuntime(x) \/ Reset(x)
      PROVE  UNCHANGED <<hvars, peer, inbox, wire>>
  BY <1>6, Zenon DEF EndContext, EndRuntime, Reset
<1>7. CASE UNCHANGED vars  BY <1>1, <1>7, Zenon DEF vars, evars
<1> QED  BY <1>1, <1>2, <1>3, <1>4, <1>5, <1>6, <1>7, Zenon DEF Next, Terminated, Clients

LEMMA InitCarries == Init => HandshakeInit /\ Carried
BY DEF Init, Carried, Frames, HandshakeInit

(* DialContext and performHandshake, over any network and among any strangers,
   use their Handshake objects as Handshake.tla allows: every theorem about
   HandshakeSpec is one about established connections. *)
THEOREM EstablishImplementsHandshake == Spec => HandshakeSpec
<1>1. Spec => []Carried
  BY InitCarries, NextCarries, PTL DEF Spec
<1>2. Spec => HandshakeInit  BY InitCarries, PTL DEF Spec
<1>3. Carried /\ [Next]_vars => [HandshakeNext]_hvars  BY NextCarries, Zenon
<1> QED  BY <1>1, <1>2, <1>3, PTL DEF Spec, HandshakeSpec

-----------------------------------------------------------------------------
(* What a routine holds at each of its steps. *)
Finished(c) ==
  /\ step[c] = "complete" /\ result[c].peer = Expected[c]
  /\ \E f \in wire : f.kind = "finish" /\ f.under[1] = c

Paired(w) ==
  \E x, y : /\ Flight("finish", <<x, w, Static[w]>>, <<y>>) \in wire
            /\ result[w] = Result(w, <<x, w, Static[w], y>>)

DialShape(c) ==
  /\ pc[c] \in {"call", "dial", "write1", "read2", "write3", "check", "start", "returned"}
  /\ pc[c] \in {"call", "dial"} => socket[c] = "none" /\ step[c] = "write1"
  /\ pc[c] \in {"write1", "read2", "write3"} => socket[c] = "open" /\ step[c] = pc[c]
  /\ pc[c] \in {"check", "start"} => socket[c] = "open" /\ Finished(c)
  /\ pc[c] = "returned" =>
       /\ ret[c] = "conn" => socket[c] = "open" /\ Finished(c)
       /\ ret[c] # "conn" => socket[c] \in {"none", "closed"}
       /\ ret[c] = "context" => c \in ended \cup stopped
       /\ ret[c] = "error" => c \notin ended

SessionShape(w) ==
  /\ pc[w] \in {"read1", "write2", "read3", "allow", "returned"}
  /\ pc[w] \in {"read1", "write2", "read3"} => socket[w] = "open" /\ step[w] = pc[w]
  /\ pc[w] = "allow" => socket[w] = "open" /\ Paired(w)
  /\ pc[w] = "returned" =>
       IF ret[w] = "session"
       THEN socket[w] = "open" /\ Paired(w) /\ (Allowed # {} => result[w].peer \in Allowed)
       ELSE socket[w] = "closed"

Fields ==
  /\ pc = [x \in Routines |-> pc[x]]
  /\ ret = [x \in Routines |-> ret[x]]
  /\ socket = [x \in Routines |-> socket[x]]

EInv ==
  /\ IInv /\ Carried /\ Fields
  /\ \A c \in Clients : DialShape(c)
  /\ \A w \in Workers : SessionShape(w)

-----------------------------------------------------------------------------
(* What Goto and Returns assign, routine by routine. *)
Alone(x) == \A y \in Routines \ {x} :
  pc'[y] = pc[y] /\ ret'[y] = ret[y] /\ socket'[y] = socket[y]

LEMMA GotoFields ==
  ASSUME Fields, UNCHANGED peer, NEW x \in Routines, NEW p, Goto(x, p)
  PROVE  Fields' /\ Alone(x) /\ pc'[x] = p /\ ret'[x] = ret[x] /\ socket'[x] = socket[x]
<1>1. Routines' = Routines  BY Zenon DEF Routines
<1> QED  BY <1>1, Zenon DEF Fields, Alone, Goto

LEMMA ReturnsFields ==
  ASSUME Fields, UNCHANGED peer, NEW x \in Routines, NEW r, NEW sock, Returns(x, r, sock)
  PROVE  Fields' /\ Alone(x) /\ pc'[x] = "returned" /\ ret'[x] = r /\ socket'[x] = sock
<1>1. Routines' = Routines  BY Zenon DEF Routines
<1> QED  BY <1>1, Zenon DEF Fields, Alone, Returns

(* A routine that fails with its socket open closes it, and says why. *)
LEMMA FailsFields ==
  ASSUME Fields, UNCHANGED peer, NEW x \in Routines, Fails(x), socket[x] = "open"
  PROVE  /\ Fields' /\ Alone(x) /\ pc'[x] = "returned" /\ socket'[x] = "closed"
         /\ ret'[x] = IF x \in Initiators /\ x \in ended THEN "context" ELSE "error"
<1>1. Closed(x) = "closed"  BY Zenon DEF Closed
<1> QED  BY <1>1, ReturnsFields, Zenon DEF Fails

LEMMA FailsDial ==
  ASSUME Fields, UNCHANGED <<peer, ended, stopped>>, NEW c \in Clients, Fails(c),
         socket[c] = "open"
  PROVE  DialShape(c)'
<1>1. c \in Routines /\ c \in Initiators  BY Zenon DEF Clients
<1> QED  BY <1>1, FailsFields, Zenon DEF DialShape

LEMMA FailsSession ==
  ASSUME Fields, UNCHANGED peer, NEW w \in Workers, Fails(w), socket[w] = "open"
  PROVE  SessionShape(w)'
<1>1. w \in Routines /\ w \notin Initiators  BY RolesAssumption, Zenon DEF Workers
<1> QED  BY <1>1, FailsFields, Zenon DEF SessionShape

LEMMA DialKept ==
  ASSUME NEW c, DialShape(c),
         step'[c] = step[c], result'[c] = result[c],
         pc'[c] = pc[c], ret'[c] = ret[c], socket'[c] = socket[c],
         wire \subseteq wire', ended \subseteq ended', stopped \subseteq stopped',
         pc[c] = "returned" /\ c \in ended' => c \in ended
  PROVE  DialShape(c)'
<1>1. Finished(c) => Finished(c)'  BY Zenon DEF Finished
<1> QED  BY <1>1, ZenonT(40) DEF DialShape

LEMMA SessionKept ==
  ASSUME NEW w, SessionShape(w),
         step'[w] = step[w], result'[w] = result[w],
         pc'[w] = pc[w], ret'[w] = ret[w], socket'[w] = socket[w], wire \subseteq wire'
  PROVE  SessionShape(w)'
<1>1. Paired(w) => Paired(w)'  BY Zenon DEF Paired
<1> QED  BY <1>1, ZenonT(40) DEF SessionShape

(* A step of one routine leaves the others where they are. *)
LEMMA MoveKeeps ==
  ASSUME EInv, NEW x \in Routines, Others(x), Alone(x), Fields', IInv', Carried',
         UNCHANGED <<peer, ended, stopped>>, wire \subseteq wire',
         x \in Initiators => DialShape(x)', x \in Responders => SessionShape(x)'
  PROVE  EInv'
<1>1. Clients' = Clients /\ Workers' = Workers  BY Zenon DEF Clients, Workers, Routines
<1>2. ASSUME NEW c \in Clients PROVE DialShape(c)'
  <2>1. c \in Routines /\ c \in Initiators /\ c \in Handshakes /\ DialShape(c)
    BY Zenon DEF Clients, Handshakes, EInv
  <2>2. CASE c # x  BY <2>1, <2>2, DialKept, Zenon DEF Others, Alone
  <2> QED  BY <2>1, <2>2, Zenon
<1>3. ASSUME NEW w \in Workers PROVE SessionShape(w)'
  <2>1. w \in Routines /\ w \in Responders /\ w \in Handshakes /\ SessionShape(w)
    BY Zenon DEF Workers, Handshakes, EInv
  <2>2. CASE w # x  BY <2>1, <2>2, SessionKept, Zenon DEF Others, Alone
  <2> QED  BY <2>1, <2>2, Zenon
<1> QED  BY <1>1, <1>2, <1>3, Zenon DEF EInv

-----------------------------------------------------------------------------
LEMMA WriteMoves ==
  ASSUME EInv, NEW x \in Routines, NEW p, WriteThen(x, p)
  PROVE  /\ Others(x)
         /\ \/ Fails(x)
            \/ /\ Write(x) /\ step'[x] # "failed" /\ Goto(x, p)
               /\ \E f \in wire' : f = WriteMessage(x)
<1>1. x \in Handshakes  BY RoutinesAreHandshakes, Zenon DEF EInv
<1>2. Write(x) \/ WriteFails(x)  BY Zenon DEF WriteThen
<1>3. WriteFlight(x)  BY <1>2, Zenon DEF WriteFlight
<1>4. Others(x)  BY <1>1, <1>3, OthersKept, Zenon DEF EInv, IInv
<1> QED  BY <1>4, Zenon DEF WriteThen, Delivers

LEMMA ReadMoves ==
  ASSUME EInv, NEW x \in Routines, NEW type, NEW p, ReadThen(x, type, p), UNCHANGED peer
  PROVE  /\ Others(x)
         /\ \/ Fails(x)
            \/ \E f \in wire \cup JunkFlights :
                 ReadFlight(x, f) /\ step'[x] # "failed" /\ Goto(x, p)
<1>1. x \in Handshakes  BY RoutinesAreHandshakes, Zenon DEF EInv
<1>2. CASE UNCHANGED hvars /\ Fails(x)  BY <1>2, Zenon DEF hvars, Others
<1>3. ASSUME NEW f \in wire \cup JunkFlights, ReadFlight(x, f),
             IF step'[x] = "failed" THEN Fails(x) ELSE Goto(x, p)
      PROVE  /\ Others(x)
             /\ Fails(x) \/ (step'[x] # "failed" /\ Goto(x, p))
  <2>1. Others(x)  BY <1>1, <1>3, OthersKept, Zenon DEF EInv, IInv
  <2>2. CASE step'[x] = "failed"  BY <1>3, <2>1, <2>2, Zenon
  <2>3. CASE step'[x] # "failed"  BY <1>3, <2>1, <2>3, Zenon
  <2> QED  BY <2>2, <2>3, Zenon
<1> QED  BY <1>2, <1>3, ReadCarries, Zenon DEF EInv

(* The client between its transport calls. *)
LEMMA LocalDial ==
  ASSUME EInv, NEW c \in Clients, UNCHANGED <<peer, ended, stopped>>,
         Call(c) \/ DialSucceeds(c) \/ DialFails(c) \/ Check(c) \/ Start(c)
  PROVE  Others(c) /\ Alone(c) /\ Fields' /\ DialShape(c)'
<1>1. /\ c \in Routines /\ DialShape(c) /\ Fields
      /\ Routines' = Routines
  BY Zenon DEF EInv, Clients, Routines
<1>2. /\ UNCHANGED <<step, transcript, result, wire>>
      /\ Others(c) /\ (Finished(c) => Finished(c)')
  <2>1. UNCHANGED <<hvars, wire>>  BY Zenon DEF Call, DialSucceeds, DialFails, Check, Start
  <2>2. UNCHANGED <<step, transcript, result, wire>>  BY <2>1, Zenon DEF hvars
  <2>3. Others(c)  BY <2>2, Zenon DEF Others
  <2>4. Finished(c) => Finished(c)'  BY <2>2, Zenon DEF Finished
  <2> QED  BY <2>2, <2>3, <2>4, Zenon
<1>3. ASSUME NEW p, Goto(c, p), p \in {"dial", "start"},
             p = "dial" => socket[c] = "none" /\ step[c] = "write1",
             p = "start" => socket[c] = "open" /\ Finished(c)
      PROVE  Alone(c) /\ Fields' /\ DialShape(c)'
  <2>1. Fields' /\ Alone(c) /\ pc'[c] = p /\ ret'[c] = ret[c] /\ socket'[c] = socket[c]
    BY <1>1, <1>3, GotoFields, ZenonT(40)
  <2> QED  BY <1>2, <1>3, <2>1, ZenonT(40) DEF DialShape
<1>4. ASSUME NEW r \in {"context", "error"}, NEW sock \in {"none", "closed"}, Returns(c, r, sock),
             r = "context" => c \in ended \cup stopped, r = "error" => c \notin ended
      PROVE  Alone(c) /\ Fields' /\ DialShape(c)'
  <2>1. Fields' /\ Alone(c) /\ pc'[c] = "returned" /\ ret'[c] = r /\ socket'[c] = sock
    BY <1>1, <1>4, ReturnsFields, ZenonT(30)
  <2> QED  BY <1>4, <2>1, Zenon DEF DialShape
<1>5. ASSUME Returns(c, "conn", socket[c]), socket[c] = "open", Finished(c)
      PROVE  Alone(c) /\ Fields' /\ DialShape(c)'
  <2>1. Fields' /\ Alone(c) /\ pc'[c] = "returned" /\ ret'[c] = "conn" /\ socket'[c] = "open"
    BY <1>1, <1>5, ReturnsFields, ZenonT(40)
  <2> QED  BY <1>2, <1>5, <2>1, ZenonT(40) DEF DialShape
<1>6. CASE Call(c)  BY <1>1, <1>2, <1>3, <1>4, <1>6, ZenonT(40) DEF Call, DialShape
<1>7. CASE DialSucceeds(c)
  <2>1. pc'[c] = "write1" /\ socket'[c] = "open" /\ step'[c] = "write1" /\ Fields' /\ Alone(c)
    BY <1>1, <1>2, <1>7, Zenon DEF DialSucceeds, DialShape, Fields, Alone
  <2> QED  BY <1>2, <2>1, Zenon DEF DialShape
<1>8. CASE DialFails(c)  BY <1>1, <1>2, <1>4, <1>8, ZenonT(40) DEF DialFails, DialShape
<1>9. CASE Check(c)
  <2>1. socket[c] = "open" /\ Finished(c) /\ Closed(c) = "closed"
    BY <1>1, <1>9, ZenonT(40) DEF Check, DialShape, Closed
  <2> QED  BY <1>2, <1>3, <1>4, <1>5, <1>9, <2>1, Zenon DEF Check
<1>10. CASE Start(c)
  <2>1. socket[c] = "open" /\ Finished(c) /\ Closed(c) = "closed"
    BY <1>1, <1>10, Zenon DEF Start, DialShape, Closed
  <2> QED  BY <1>2, <1>4, <1>5, <1>10, <2>1, Zenon DEF Start
<1> QED  BY <1>6, <1>7, <1>8, <1>9, <1>10, Zenon

(* What complete (handshake.go:198) reports of a binding. *)
LEMMA ResultFields ==
  \A h, b : Result(h, b).sessionID = b /\ Result(h, b).peer = PeerStatic(h, b)
BY Zenon DEF Result

(* The pin of a client is set, so the last flight only leaves for that peer. *)
LEMMA FinishWritten ==
  ASSUME EInv, NEW c \in Clients, step[c] = "write3", Write(c), step'[c] # "failed",
         \E f \in wire' : f = WriteMessage(c)
  PROVE  Finished(c)'
<1>1. c \in Initiators /\ c \in Handshakes /\ Expected[c] # NoKey
  BY CastsAssumption, Zenon DEF Clients, Routines, Handshakes, EInv, Carried
<1>2. PICK e, s : transcript[c] = <<c, e, s>>
  BY <1>1, Zenon DEF EInv, IInv, Shape, InitiatorShape
<1>3. PICK f \in wire' : f = WriteMessage(c)  BY Zenon
<1>4. f = Flight("finish", <<c, e, s>>, <<Static[c]>>)  BY <1>2, <1>3, Zenon DEF WriteMessage
<1>5. transcript[c] \o f.adds = <<c, e, s, Static[c]>>  BY <1>2, <1>4, FinishMixed, Zenon DEF Flight
<1>6. ~ Fail(c)  BY <1>1, FailFields, Zenon DEF EInv, IInv
<1>7. Complete(c, <<c, e, s, Static[c]>>) /\ PeerExpected(c, <<c, e, s, Static[c]>>)
  BY <1>3, <1>5, <1>6, Zenon DEF Write
<1>8. step'[c] = "complete" /\ result'[c] = Result(c, <<c, e, s, Static[c]>>)
  BY <1>1, <1>7, CompleteFields, Zenon DEF EInv, IInv
<1>9. PeerStatic(c, <<c, e, s, Static[c]>>) = s  BY <1>1, Zenon DEF PeerStatic
<1>10. result'[c].peer = s  BY <1>8, <1>9, ResultFields, Zenon
<1>11. Expected[c] = s  BY <1>1, <1>7, <1>9, Zenon DEF PeerExpected
<1>12. f.kind = "finish" /\ f.under[1] = c  BY <1>4, Zenon DEF Flight
<1> QED  BY <1>8, <1>10, <1>11, <1>12, Zenon DEF Finished

LEMMA ClientMoves ==
  ASSUME EInv, NEW c \in Clients, ClientStep(c)
  PROVE  Others(c) /\ Alone(c) /\ Fields' /\ DialShape(c)'
<1>1. /\ c \in Routines /\ c \in Initiators /\ c \in Handshakes /\ DialShape(c) /\ Fields
      /\ UNCHANGED <<peer, ended, stopped>>
  BY Zenon DEF EInv, Clients, Handshakes, ClientStep
<1>2. CASE Call(c) \/ DialSucceeds(c) \/ DialFails(c) \/ Check(c) \/ Start(c)
  BY <1>1, <1>2, LocalDial, Zenon
<1>3. ASSUME Fails(c), socket[c] = "open" PROVE Alone(c) /\ Fields' /\ DialShape(c)'
  BY <1>1, <1>3, FailsFields, FailsDial, Zenon
<1>4. CASE pc[c] = "write1" /\ WriteThen(c, "read2")
  <2>1. socket[c] = "open" /\ step[c] = "write1"  BY <1>1, <1>4, Zenon DEF DialShape
  <2>2. Others(c)  BY <1>1, <1>4, WriteMoves, Zenon
  <2>3. CASE Fails(c)  BY <1>3, <2>1, <2>2, <2>3, Zenon
  <2>4. CASE Write(c) /\ Goto(c, "read2")
    <3>1. step'[c] = "read2"
      BY <1>1, <2>1, <2>4, SMTT(40) DEF Write, Advance, After, EInv, IInv, Functional
    <3>2. /\ Fields' /\ Alone(c) /\ pc'[c] = "read2" /\ socket'[c] = "open"
      BY <1>1, <2>1, <2>4, GotoFields, ZenonT(40)
    <3> QED  BY <2>2, <3>1, <3>2, Zenon DEF DialShape
  <2> QED  BY <1>1, <1>4, <2>3, <2>4, WriteMoves, Zenon
<1>5. CASE pc[c] = "read2" /\ ReadThen(c, "response", "write3")
  <2>1. socket[c] = "open" /\ step[c] = "read2"  BY <1>1, <1>5, Zenon DEF DialShape
  <2>2. Others(c)  BY <1>1, <1>5, ReadMoves, ZenonT(40)
  <2>3. CASE Fails(c)  BY <1>3, <2>1, <2>2, <2>3, Zenon
  <2>4. ASSUME NEW f, ReadFlight(c, f), step'[c] # "failed", Goto(c, "write3")
        PROVE  Alone(c) /\ Fields' /\ DialShape(c)'
    <3>1. ~ Fail(c)  BY <1>1, <2>4, FailFields, Zenon DEF EInv, IInv
    <3>2. Advance(c, "write3", f.adds)
      <4>1. step[c] # "read3" /\ step[c] \in {"read1", "read2", "read3"} /\ After[step[c]] = "write3"
        BY <2>1, SMTT(40) DEF After
      <4>2. Read(c, f)  BY <2>4, <3>1, <4>1, Zenon DEF ReadFlight, ReadFails, ReadRefused
      <4> QED  BY <4>1, <4>2, Zenon DEF Read
    <3>3. step'[c] = "write3"  BY <1>1, <3>2, Zenon DEF Advance, EInv, IInv, Functional
    <3>4. /\ Fields' /\ Alone(c) /\ pc'[c] = "write3" /\ socket'[c] = "open"
      BY <1>1, <2>1, <2>4, GotoFields, ZenonT(30)
    <3> QED  BY <3>3, <3>4, Zenon DEF DialShape
  <2> QED  BY <1>1, <1>5, <2>2, <2>3, <2>4, ReadMoves, Zenon
<1>6. CASE pc[c] = "write3" /\ WriteThen(c, "check")
  <2>1. socket[c] = "open" /\ step[c] = "write3"  BY <1>1, <1>6, Zenon DEF DialShape
  <2>2. Others(c)  BY <1>1, <1>6, WriteMoves, SMTT(40)
  <2>3. CASE Fails(c)  BY <1>3, <2>1, <2>2, <2>3, ZenonT(40)
  <2>4. CASE /\ Write(c) /\ step'[c] # "failed" /\ Goto(c, "check")
             /\ \E f \in wire' : f = WriteMessage(c)
    <3>1. Finished(c)'  BY <2>1, <2>4, FinishWritten, Zenon
    <3>2. /\ Fields' /\ Alone(c) /\ pc'[c] = "check" /\ socket'[c] = "open"
      BY <1>1, <2>1, <2>4, GotoFields, Zenon
    <3> QED  BY <2>2, <3>1, <3>2, Zenon DEF DialShape
  <2> QED  BY <1>1, <1>6, <2>3, <2>4, WriteMoves, Zenon
<1> QED  BY <1>2, <1>4, <1>5, <1>6, Zenon DEF ClientStep

LEMMA WorkerMoves ==
  ASSUME EInv, NEW w \in Workers, WorkerStep(w)
  PROVE  Others(w) /\ Alone(w) /\ Fields' /\ SessionShape(w)'
<1>1. /\ w \in Routines /\ w \in Responders /\ w \in Handshakes /\ SessionShape(w) /\ Fields
      /\ UNCHANGED <<peer, ended, stopped>>
  BY Zenon DEF EInv, Workers, Handshakes, WorkerStep
<1>2. ASSUME Fails(w), socket[w] = "open" PROVE Alone(w) /\ Fields' /\ SessionShape(w)'
  BY <1>1, <1>2, FailsFields, FailsSession, ZenonT(40)
<1>3. CASE pc[w] = "read1" /\ ReadThen(w, "init", "write2")
  <2>1. socket[w] = "open" /\ step[w] = "read1"  BY <1>1, <1>3, Zenon DEF SessionShape
  <2>2. Others(w)  BY <1>1, <1>3, ReadMoves
  <2>3. CASE Fails(w)  BY <1>2, <2>1, <2>2, <2>3, Zenon
  <2>4. ASSUME NEW f, ReadFlight(w, f), step'[w] # "failed", Goto(w, "write2")
        PROVE  Alone(w) /\ Fields' /\ SessionShape(w)'
    <3>1. ~ Fail(w)  BY <1>1, <2>4, FailFields, Zenon DEF EInv, IInv
    <3>2. Advance(w, "write2", f.adds)
      <4>1. After[step[w]] = "write2"  BY <2>1, SMTT(40) DEF After
      <4>2. Read(w, f)  BY <2>1, <2>4, <3>1, Zenon DEF ReadFlight, ReadFails, ReadRefused
      <4> QED  BY <2>1, <4>1, <4>2, ZenonT(40) DEF Read
    <3>3. step'[w] = "write2"  BY <1>1, <3>2, Zenon DEF Advance, EInv, IInv, Functional
    <3>4. /\ Fields' /\ Alone(w) /\ pc'[w] = "write2" /\ socket'[w] = "open"
      BY <1>1, <2>1, <2>4, GotoFields, Zenon
    <3> QED  BY <3>3, <3>4, Zenon DEF SessionShape
  <2> QED  BY <1>1, <1>3, <2>2, <2>3, <2>4, ReadMoves, Zenon
<1>4. CASE pc[w] = "write2" /\ WriteThen(w, "read3")
  <2>1. socket[w] = "open" /\ step[w] = "write2"  BY <1>1, <1>4, Zenon DEF SessionShape
  <2>2. Others(w)  BY <1>1, <1>4, WriteMoves, Zenon
  <2>3. CASE Fails(w)  BY <1>2, <2>1, <2>2, <2>3, Zenon
  <2>4. CASE Write(w) /\ Goto(w, "read3")
    <3>1. step'[w] = "read3"
      BY <1>1, <2>1, <2>4, SMTT(40) DEF Write, Advance, After, EInv, IInv, Functional
    <3>2. /\ Fields' /\ Alone(w) /\ pc'[w] = "read3" /\ socket'[w] = "open"
      BY <1>1, <2>1, <2>4, GotoFields, ZenonT(40)
    <3> QED  BY <2>2, <3>1, <3>2, Zenon DEF SessionShape
  <2> QED  BY <1>1, <1>4, <2>3, <2>4, WriteMoves, Zenon
<1>5. CASE pc[w] = "read3" /\ ReadThen(w, "response", "allow")
  <2>1. socket[w] = "open" /\ step[w] = "read3"  BY <1>1, <1>5, Zenon DEF SessionShape
  <2>2. Others(w) /\ UNCHANGED wire  BY <1>1, <1>5, ReadMoves, Zenon DEF ReadThen
  <2>3. CASE Fails(w)  BY <1>2, <2>1, <2>2, <2>3, Zenon
  <2>4. ASSUME NEW f \in wire \cup JunkFlights, ReadFlight(w, f), step'[w] # "failed",
               Goto(w, "allow")
        PROVE  Alone(w) /\ Fields' /\ SessionShape(w)'
    <3>1. ~ Fail(w)  BY <1>1, <2>4, FailFields, Zenon DEF EInv, IInv
    <3>2. ReadMessage(w, f) /\ Complete(w, transcript[w] \o f.adds)
      BY <2>1, <2>4, <3>1, Zenon DEF ReadFlight, Read, ReadFails, ReadRefused
    <3>3. f \in flights \cup JunkFlights  BY Zenon DEF EInv, Carried
    <3>4. f \in wire  BY <1>1, <2>1, <3>2, <3>3, FinishRead, ZenonT(40) DEF EInv
    <3>5. PICK x, y : /\ f = Flight("finish", <<x, w, Static[w]>>, <<y>>)
                      /\ transcript[w] \o f.adds = <<x, w, Static[w], y>>
      BY <1>1, <2>1, <3>2, <3>3, FinishRead, Zenon DEF EInv
    <3>6. result'[w] = Result(w, <<x, w, Static[w], y>>)
      BY <1>1, <3>2, <3>5, CompleteFields, Zenon DEF EInv, IInv
    <3>7. Paired(w)'  BY <2>2, <3>4, <3>5, <3>6, ZenonT(40) DEF Paired
    <3>8. /\ Fields' /\ Alone(w) /\ pc'[w] = "allow" /\ socket'[w] = "open"
      BY <1>1, <2>1, <2>4, GotoFields, Zenon
    <3> QED  BY <3>7, <3>8, Zenon DEF SessionShape
  <2> QED  BY <1>1, <1>5, <2>2, <2>3, <2>4, ReadMoves, ZenonT(40)
<1>6. CASE Admit(w)
  <2>1. socket[w] = "open" /\ Paired(w)  BY <1>1, <1>6, Zenon DEF Admit, SessionShape
  <2>2. UNCHANGED <<step, transcript, result, wire>>  BY <1>6, Zenon DEF Admit, hvars
  <2>3. Others(w) /\ Paired(w)'  BY <2>1, <2>2, ZenonT(40) DEF Others, Paired
  <2>4. CASE Fails(w)  BY <1>2, <2>1, <2>3, <2>4, Zenon
  <2>5. CASE isClientAllowed(w) /\ Returns(w, "session", socket[w])
    <3>1. Fields' /\ Alone(w) /\ pc'[w] = "returned" /\ ret'[w] = "session" /\ socket'[w] = "open"
      BY <1>1, <2>1, <2>5, ReturnsFields, ZenonT(40)
    <3>2. Allowed # {} => result'[w].peer \in Allowed  BY <2>2, <2>5, Zenon DEF isClientAllowed
    <3> QED  BY <2>3, <3>1, <3>2, Zenon DEF SessionShape
  <2> QED  BY <1>6, <2>4, <2>5, ZenonT(40) DEF Admit
<1> QED  BY <1>3, <1>4, <1>5, <1>6, Zenon DEF WorkerStep

-----------------------------------------------------------------------------
(* The environment ends contexts and breaks sockets, nothing else. *)
LEMMA EnvironmentKeeps ==
  ASSUME EInv, IInv', Carried',
         UNCHANGED <<step, result, peer, pc, ret, socket, wire>>,
         ended \subseteq ended', stopped \subseteq stopped',
         \A x \in Routines : pc[x] = "returned" /\ x \in ended' => x \in ended
  PROVE  EInv'
<1>1. Clients' = Clients /\ Workers' = Workers /\ Routines' = Routines
  BY Zenon DEF Clients, Workers, Routines
<1>2. \A c \in Clients : DialShape(c)'  BY DialKept, ZenonT(30) DEF EInv, Clients
<1>3. \A w \in Workers : SessionShape(w)'  BY SessionKept, Zenon DEF EInv
<1>4. Fields'  BY <1>1, Zenon DEF EInv, Fields
<1> QED  BY <1>1, <1>2, <1>3, <1>4, Zenon DEF EInv

(* Objects that no routine owns. *)
LEMMA DirectKeeps ==
  ASSUME EInv, IInv', Carried', NEW h \in DOMAIN peer \ Routines, DirectCall(h)
  PROVE  EInv'
<1>1. UNCHANGED <<peer, pc, ret, socket, wire, ended, stopped>>  BY Zenon DEF DirectCall, evars
<1>2. h \in Handshakes  BY CastsAssumption, Zenon DEF EInv, Carried
<1>3. Others(h)  BY <1>2, OthersKept, Zenon DEF DirectCall, EInv, IInv
<1>4. Clients' = Clients /\ Workers' = Workers /\ Routines' = Routines
  BY <1>1, Zenon DEF Clients, Workers, Routines
<1>5. ASSUME NEW c \in Clients PROVE DialShape(c)'
  <2>1. c \in Handshakes /\ c # h /\ DialShape(c)  BY Zenon DEF Clients, Handshakes, EInv
  <2> QED  BY <1>1, <1>3, <2>1, DialKept, Zenon DEF Others
<1>6. ASSUME NEW w \in Workers PROVE SessionShape(w)'
  <2>1. w \in Handshakes /\ w # h /\ SessionShape(w)  BY Zenon DEF Workers, Handshakes, EInv
  <2> QED  BY <1>1, <1>3, <2>1, SessionKept, Zenon DEF Others
<1>7. Fields'  BY <1>1, <1>4, Zenon DEF EInv, Fields
<1> QED  BY <1>4, <1>5, <1>6, <1>7, Zenon DEF EInv

LEMMA InitShapes == Init => EInv
<1> SUFFICES ASSUME Init PROVE EInv
  BY Zenon
<1>1. IInv /\ Carried  BY InitCarries, InitEstablishes, Zenon
<1>2. Fields  BY Zenon DEF Init, Fields
<1>3. \A c \in Clients : DialShape(c)
  BY Zenon DEF Init, HandshakeInit, Handshakes, Clients, DialShape
<1>4. \A w \in Workers : SessionShape(w)
  BY RolesAssumption, Zenon DEF Init, HandshakeInit, Handshakes, Workers, SessionShape
<1> QED  BY <1>1, <1>2, <1>3, <1>4, Zenon DEF EInv

LEMMA NextShapes == EInv /\ [Next]_vars => EInv'
<1> SUFFICES ASSUME EInv, [Next]_vars PROVE EInv'
  BY Zenon
<1>1. [HandshakeNext]_hvars /\ Carried' /\ wire \subseteq wire'  BY NextCarries, Zenon DEF EInv
<1>2. IInv'  BY <1>1, StepKeeps, Zenon DEF EInv
<1>3. ASSUME NEW c \in Clients, ClientStep(c) PROVE EInv'
  <2>1. c \in Routines /\ c \notin Responders  BY RolesAssumption, Zenon DEF Clients
  <2>2. UNCHANGED <<peer, ended, stopped>>  BY <1>3, Zenon DEF ClientStep
  <2> QED  BY <1>1, <1>2, <1>3, <2>1, <2>2, ClientMoves, MoveKeeps, Zenon
<1>4. ASSUME NEW w \in Workers, WorkerStep(w) PROVE EInv'
  <2>1. w \in Routines /\ w \notin Initiators  BY RolesAssumption, Zenon DEF Workers
  <2>2. UNCHANGED <<peer, ended, stopped>>  BY <1>4, Zenon DEF WorkerStep
  <2> QED  BY <1>1, <1>2, <1>4, <2>1, <2>2, WorkerMoves, MoveKeeps, Zenon
<1>5. ASSUME NEW x, EndContext(x) \/ EndRuntime(x) \/ Reset(x) \/ StrangerSends(x)
      PROVE  EInv'
  <2>1. UNCHANGED <<hvars, peer, pc, ret, socket, wire>>
    BY <1>5, Zenon DEF EndContext, EndRuntime, Reset, StrangerSends
  <2>2. UNCHANGED <<step, result>>  BY <2>1, Zenon DEF hvars
  <2>3. /\ ended \subseteq ended' /\ stopped \subseteq stopped'
        /\ \A y \in Routines : pc[y] = "returned" /\ y \in ended' => y \in ended
    BY <1>5, Zenon DEF EndContext, EndRuntime, Reset, StrangerSends
  <2> QED  BY <1>1, <1>2, <2>1, <2>2, <2>3, EnvironmentKeeps, Zenon
<1>6. ASSUME NEW h \in DOMAIN peer \ Routines, DirectCall(h) PROVE EInv'
  BY <1>1, <1>2, <1>6, DirectKeeps, Zenon
<1>7. CASE UNCHANGED vars
  <2>1. UNCHANGED <<step, result, peer, pc, ret, socket, wire, ended, stopped>>
    BY <1>7, Zenon DEF vars, hvars, evars
  <2> QED  BY <1>1, <1>2, <2>1, EnvironmentKeeps, Zenon
<1> QED  BY <1>3, <1>4, <1>5, <1>6, <1>7, Zenon DEF Next, Terminated

LEMMA ShapeDials == EInv => DialOutcome
BY Zenon DEF EInv, DialOutcome, DialShape, Finished

LEMMA ShapeSessions == EInv => SessionOutcome
<1> SUFFICES ASSUME EInv, NEW w \in Workers, pc[w] = "returned", ret[w] = "session"
             PROVE  /\ socket[w] = "open"
                    /\ Allowed # {} => result[w].peer \in Allowed
                    /\ \E f \in wire :
                         /\ f.kind = "finish" /\ f.under \o f.adds = result[w].sessionID
                         /\ result[f.under[1]].peer = Static[w]
  BY ZenonT(40) DEF EInv, SessionOutcome, SessionShape
<1>1. /\ socket[w] = "open" /\ Paired(w)
      /\ Allowed # {} => result[w].peer \in Allowed
  BY Zenon DEF EInv, SessionShape
<1>2. PICK x, y : /\ Flight("finish", <<x, w, Static[w]>>, <<y>>) \in wire
                  /\ result[w] = Result(w, <<x, w, Static[w], y>>)
  BY <1>1, Zenon DEF Paired
<1> DEFINE f == Flight("finish", <<x, w, Static[w]>>, <<y>>)
<1>3. f.kind = "finish" /\ f.under = <<x, w, Static[w]>> /\ f.adds = <<y>>  BY DEF Flight
<1>4. FinishShape(f)
  <2>1. FlightShape(f)  BY <1>2 DEF EInv, Carried, IInv, Shape
  <2> QED  BY <2>1, ZenonT(40) DEF FlightShape, Flight
<1>5. PICK i, e, s :
        /\ i \in Initiators
        /\ f = Flight("finish", <<i, e, s>>, <<Static[i]>>)
        /\ result[i] = Result(i, <<i, e, s, Static[i]>>)
  BY <1>4, Zenon DEF FinishShape
<1>6. f.under = <<i, e, s>>  BY <1>5, SMTT(40) DEF Flight
<1>7. i = x /\ s = Static[w]
  <2>1. PICK u, t : u = f.under /\ t = Static[w]  BY Zenon
  <2>2. u = <<i, e, s>> /\ u = <<x, w, t>>  BY <1>3, <1>6, <2>1, Zenon
  <2>3. u[1] = i /\ u[1] = x /\ u[3] = s /\ u[3] = t  BY <2>2, SMTT(40)
  <2> QED  BY <2>1, <2>3, Zenon
<1>8. result[i].peer = s
  <2>1. PeerStatic(i, <<i, e, s, Static[i]>>) = s  BY <1>5, Zenon DEF PeerStatic
  <2> QED  BY <1>5, <2>1, ResultFields, Zenon
<1>9. result[f.under[1]].peer = Static[w]
  <2>1. f.under[1] = x  BY <1>3
  <2> QED  BY <1>7, <1>8, <2>1, Zenon
<1>10. f.under \o f.adds = result[w].sessionID
  <2>1. result[w].sessionID = <<x, w, Static[w], y>>  BY <1>2, ResultFields, SMTT(40)
  <2>2. f.under \o f.adds = <<x, w, Static[w]>> \o <<y>>  BY <1>3, Zenon
  <2> QED  BY <2>1, <2>2, FinishMixed, ZenonT(40)
<1> QED  BY <1>1, <1>2, <1>3, <1>9, <1>10, ZenonT(40)

LEMMA Established == Spec => []EInv
<1> QED  BY InitShapes, NextShapes, PTL DEF Spec

(* A dial returns an open socket with the pinned peer after its whole final
   flight, or no connection and no open socket (client.go:19-20). *)
THEOREM DialsHonest == Spec => []DialOutcome
<1> QED  BY Established, ShapeDials, PTL

(* A session of the server has one allowed client, which has authenticated the
   server; a worker without one has closed its socket (server_handshake.go). *)
THEOREM SessionsHonest == Spec => []SessionOutcome
<1> QED  BY Established, ShapeSessions, PTL
=============================================================================
