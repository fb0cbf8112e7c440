--------------------------- MODULE DeliveryProofs ---------------------------
(***************************************************************************)
(* What becomes of messages and close requests in Connection, for the same *)
(* constants as ConnectionProofs and on top of its layers.                 *)
(*                                                                         *)
(* AwaitedOnce and ResultsHonest follow from PlaceInv, which says of each  *)
(* message where it is and what its sender was told.  WrittenInOrder is    *)
(* not inductive: OrderInv adds that what was accepted is what was sent,   *)
(* the writer's item and the queue, in this order, until the cancellation. *)
(* CloseHonest follows from CloseInv: one goroutine at most asks for a     *)
(* SessionClose, and it is answered with success once that is written.     *)
(***************************************************************************)
EXTENDS ConnectionProofs

(* Adding an item that is not in a sequence of distinct items.             *)
LEMMA AppendOf ==
  ASSUME NEW S, NEW s \in Seq(S), NEW e \in S
  PROVE  /\ \A x : Contains(Append(s, e), x) <=> x = e \/ Contains(s, x)
         /\ Distinct(s) /\ ~Contains(s, e) => Distinct(Append(s, e))
<1>1. Len(s) \in Nat /\ DOMAIN s = 1 .. Len(s)
  OBVIOUS
<1>2. PICK t : t = Append(s, e)
  BY Zenon
<1>3. /\ DOMAIN t = 1 .. Len(s) + 1 /\ t[Len(s) + 1] = e
      /\ \A i \in 1 .. Len(s) : t[i] = s[i]
  BY <1>1, <1>2
<1>4. Len(t) = Len(s) + 1
  BY <1>1, <1>2
<1>5. \A x : Contains(t, x) <=> x = e \/ Contains(s, x)
  BY <1>1, <1>3, <1>4 DEF Contains
<1>6. ASSUME Distinct(s), ~Contains(s, e) PROVE Distinct(t)
  BY <1>1, <1>3, <1>6 DEF Distinct, Contains
<1>q. QED
  BY <1>2, <1>5, <1>6, Zenon

Untouched ==
  /\ queue'.outbound = queue.outbound /\ writing' = writing /\ history' = history
  /\ \A p \in Producers : completion'[p] = completion[p] /\ pc'[p] = pc[p] /\ result'[p] = result[p]

(* Steps of the other goroutines touch no message.                         *)
LEMMA UntouchedIs ==
  ASSUME ControlInv, DataType,
         \/ StillNext \/ Start \/ Join \/ OtherNext \/ ReaderNext \/ HandlerNext
         \/ \E p \in Procs : CloseDone(p)
         \/ \E p \in Graceful : closeGracefully(p)
  PROVE  Untouched
<1>0. queue \in QueueType /\ "reader" \in Procs /\ Producers \subseteq Procs
  BY Names, Zenon DEF DataType
<1>r. ASSUME NEW p, p \notin Producers, NEW r, Return(p, r)
      PROVE  \A q \in Producers : result'[q] = result[q]
  BY <1>r, Zenon DEF Return, DataType
<1>p. ASSUME NEW p \in Procs, p \notin Producers, Only(p)
      PROVE  \A q \in Producers : pc'[q] = pc[q]
  BY <1>0, <1>p, Zenon DEF Only
<1>1. CASE StillNext
  <2>1. UNCHANGED <<pc, writing, completion, result, history>> /\ queue'.outbound = queue.outbound
    BY <1>0, <1>1, Zenon DEF StillNext, StartCancel, Ping, Finished, vars, CallerCancel, QueueType
  <2>q. QED
    BY <2>1, Zenon DEF Untouched
<1>2. CASE Start
  <2>1. UNCHANGED <<queue, writing, completion, result, history>>
    BY <1>2, Zenon DEF Start
  <2>2. pc = [q \in Procs |-> pc[q]]
    BY Zenon DEF ControlInv, PcInv
  <2>3. ASSUME NEW q \in Producers PROVE pc'[q] = pc[q]
    <3>1. q \in Procs /\ q \notin {"starter", "reader", "writer", "handler", "maintenance", "watcher", "waiter"}
      BY Names, Zenon
    <3>q. QED
      BY <1>2, <2>2, <3>1, Zenon DEF Start, CallShutdown, Goto
  <2>q. QED
    BY <2>1, <2>3, Zenon DEF Untouched
<1>3. CASE Join
  <2>1. UNCHANGED <<queue, writing, completion, result, history>>
    BY <1>3, Zenon DEF Join
  <2>2. Only("waiter") /\ "waiter" \in Procs /\ "waiter" \notin Producers
    BY <1>3, OnlyMoves, Names, Zenon
  <2>q. QED
    BY <1>p, <2>1, <2>2, Zenon DEF Untouched
<1>4. CASE OtherNext
  <2>1. UNCHANGED <<queue, writing, completion, result, history>>
    BY <1>4, Zenon DEF OtherNext, MaintenanceExit, IdleTimeout, KeepaliveTimeout, Watch, Abort, CloseCall
  <2>2. PICK p \in Graceful \cup {"aborter"} : Only(p)
    BY <1>4, OnlyMoves, Zenon
  <2>3. p \in Procs /\ p \notin Producers
    BY GracefulAre, Names, Zenon
  <2>q. QED
    BY <1>p, <2>1, <2>2, <2>3, Zenon DEF Untouched
<1>5. CASE ReaderNext
  <2>0. Only("reader") /\ "reader" \notin Producers
    BY <1>5, OnlyMoves, Names, Zenon
  <2>1. UNCHANGED <<writing, completion, result, history>>
    BY <1>5, Zenon DEF ReaderNext, ReaderStep, ReadInterrupted, PongEnter, PongCapacity, Dispatch,
                ReadFails, Read
  <2>2. CASE PongCapacity
    <3>1. PICK u : u = Unlease("reader")
      BY Zenon
    <3>2. u \in QueueType /\ u.outbound = queue.outbound
      BY <1>0, <3>1, QueueParts, Zenon
    <3>3. queue' = u \/ queue' = [u EXCEPT !.control = @ + 1]
      BY <2>2, <3>1, Zenon DEF PongCapacity
    <3>4. queue'.outbound = queue.outbound
      BY <3>2, <3>3, Zenon DEF QueueType
    <3>q. QED
      BY <1>0, <1>p, <2>0, <2>1, <3>4, Zenon DEF Untouched
  <2>3. CASE ~PongCapacity
    <3>1. queue'.outbound = queue.outbound
      BY <1>0, <1>5, <2>3, Zenon DEF ReaderNext, ReaderStep, ReadInterrupted, PongEnter, Dispatch,
                              ReadFails, Read, Lease, QueueType
    <3>q. QED
      BY <1>0, <1>p, <2>0, <2>1, <3>1, Zenon DEF Untouched
  <2>q. QED
    BY <2>2, <2>3, Zenon
<1>6. CASE HandlerNext
  <2>1. UNCHANGED <<writing, completion, result, history>>
    BY <1>6, Zenon DEF HandlerNext, HandlerStep, HandlerTake, HandlerLoop, HandlerResult, CallbackBegin,
                CallbackReturn
  <2>2. queue'.outbound = queue.outbound
    BY <1>0, <1>6, Zenon DEF HandlerNext, HandlerStep, HandlerTake, HandlerLoop, HandlerResult,
                      CallbackBegin, CallbackReturn, QueueType
  <2>3. ASSUME NEW q \in Producers PROVE pc'[q] = pc[q]
    <3>1. q \in Procs \ {"handler", "callback"}
      BY Names, Zenon
    <3>q. QED
      BY <1>6, <3>1, OnlyMoves, Zenon
  <2>q. QED
    BY <2>1, <2>2, <2>3, Zenon DEF Untouched
<1>7. ASSUME NEW p \in Procs, CloseDone(p) PROVE Untouched
  <2>1. p \notin Producers
    BY <1>7, PointsAre DEF CloseDone, ControlInv, PcInv
  <2>2. Only(p)
    BY <1>7, OnlyMoves, Zenon
  <2>3. UNCHANGED <<queue, writing, completion, history>> /\ Return(p, None)
    BY <1>7, Zenon DEF CloseDone
  <2>q. QED
    BY <1>p, <1>r, <2>1, <2>2, <2>3, Zenon DEF Untouched
<1>8. ASSUME NEW p \in Graceful, closeGracefully(p) PROVE Untouched
  <2>1. p \in Procs /\ p \notin Producers
    BY GracefulAre, Zenon
  <2>2. Only(p)
    BY <1>8, OnlyMoves, Zenon
  <2>3. UNCHANGED <<writing, completion, history>>
    BY <1>8, ZenonT(30) DEF closeGracefully, CloseEnter, CloseClaim, CloseLease, CloseRequest, CloseWait,
                CloseReturn
  <2>4. UNCHANGED result \/ \E r : Return(p, r)
    BY <1>8, Zenon DEF closeGracefully, CloseEnter, CloseClaim, CloseLease, CloseRequest, CloseWait,
                CloseReturn, CloseCancelled, CloseTimer
  <2>5. queue'.outbound = queue.outbound
    <3>1. PICK u : u = Unlease(p)
      BY Zenon
    <3>2. u \in QueueType /\ u.outbound = queue.outbound
      BY <1>0, <2>1, <3>1, QueueParts, Zenon
    <3>3. \/ UNCHANGED queue \/ queue' = u \/ queue' = [u EXCEPT !.close = <<p>>]
          \/ queue' = [queue EXCEPT !.leases = @ \cup {p}]
      BY <1>8, <3>1, Zenon DEF closeGracefully, CloseEnter, CloseClaim, CloseLease, CloseRequest, CloseWait,
                        CloseReturn, Lease
    <3>q. QED
      BY <1>0, <3>2, <3>3, Zenon DEF QueueType
  <2>q. QED
    BY <1>p, <1>r, <2>1, <2>2, <2>3, <2>4, <2>5, Zenon DEF Untouched
<1>q. QED
  BY <1>1, <1>2, <1>3, <1>4, <1>5, <1>6, <1>7, <1>8, Zenon

(* At first there are no messages.                                         *)
LEMMA InitPlace == ASSUME Init PROVE PlaceInv
<1>1. /\ queue.outbound = <<>> /\ writing = "nothing" /\ history.accepted = <<>>
      /\ history.written = <<>>
      /\ \A p \in Producers : completion[p] = "empty" /\ result[p] = "none"
  BY Zenon DEF Init
<1>2. ASSUME NEW p \in Producers PROVE Placed(p)
  <2>1. p # "nothing" /\ p \in Procs
    BY Names, Zenon
  <2>2. ~Queued(p) /\ ~Accepted(p)
    BY <1>1 DEF Queued, Accepted, Contains
  <2>3. pc[p] # "await"
    <3>1. PICK s \in Scenarios :
            pc = [q \in Procs |-> IF q \in s.callers \cup {"starter", "aborter"} THEN "idle"
                                  ELSE IF q \in Producers \cup Closers THEN "exited" ELSE "new"]
      BY Zenon DEF Init
    <3>q. QED
      BY <2>1, <3>1, Zenon
  <2>q. QED
    BY <1>1, <2>1, <2>2, <2>3, Zenon DEF Placed, None
<1>q. QED
  BY <1>1, <1>2 DEF PlaceInv, Distinct

(* Every step keeps each message in its place.                             *)
LEMMA NextPlace ==
  ControlInv /\ DataInv /\ PlaceInv /\ [Next]_vars => PlaceInv'
(* Taking the first of a sequence of distinct items.                       *)
<1>TailOf. ASSUME NEW S, NEW s \in Seq(S), s # <<>>, Distinct(s)
           PROVE  /\ Distinct(Tail(s)) /\ Head(s) \in S
                  /\ Contains(s, Head(s))
                  /\ \A x : Contains(Tail(s), x) <=> (x # Head(s) /\ Contains(s, x))
  <2> USE <1>TailOf
  <2>1. /\ Len(s) \in Nat /\ Len(s) > 0 /\ DOMAIN s = 1 .. Len(s) /\ Head(s) = s[1]
        /\ \A i \in 1 .. Len(s) : s[i] \in S
    OBVIOUS
  <2>2. /\ Tail(s) \in Seq(S) /\ Len(Tail(s)) = Len(s) - 1 /\ DOMAIN Tail(s) = 1 .. Len(s) - 1
        /\ \A i \in 1 .. Len(s) - 1 : Tail(s)[i] = s[i + 1]
    BY <2>1
  <2>3. ASSUME NEW i \in DOMAIN Tail(s), NEW k \in DOMAIN Tail(s), Tail(s)[i] = Tail(s)[k]
        PROVE  i = k
    <3>1. i + 1 \in DOMAIN s /\ k + 1 \in DOMAIN s /\ s[i + 1] = s[k + 1]
      BY <2>1, <2>2, <2>3
    <3>2. i + 1 = k + 1
      BY <3>1, Zenon DEF Distinct
    <3>q. QED
      BY <2>1, <2>2, <3>2
  <2>4. ASSUME NEW i \in DOMAIN Tail(s)
        PROVE  Tail(s)[i] # Head(s) /\ \E k \in DOMAIN s : s[k] = Tail(s)[i]
    <3>1. i + 1 \in DOMAIN s /\ s[i + 1] = Tail(s)[i] /\ 1 \in DOMAIN s /\ i + 1 # 1
      BY <2>1, <2>2
    <3>q. QED
      BY <2>1, <3>1, Zenon DEF Distinct
  <2>5. ASSUME NEW k \in DOMAIN s, s[k] # Head(s) PROVE \E i \in DOMAIN Tail(s) : Tail(s)[i] = s[k]
    <3>1. k - 1 \in DOMAIN Tail(s) /\ Tail(s)[k - 1] = s[k]
      BY <2>1, <2>2, <2>5
    <3>q. QED
      BY <3>1, Zenon
  <2>6. Distinct(Tail(s))
    BY <2>3, Zenon DEF Distinct
  <2>7. Head(s) \in S /\ Contains(s, Head(s))
    BY <2>1 DEF Contains
  <2>8. PICK t, h : t = Tail(s) /\ h = Head(s)
    BY Zenon
  <2>9. Len(t) = Len(s) - 1 /\ DOMAIN t = 1 .. Len(t)
    BY <2>2, <2>8, Zenon
  <2>10. ASSUME NEW x PROVE Contains(t, x) <=> (x # h /\ Contains(s, x))
    <3>1. ASSUME NEW i \in 1 .. Len(t), t[i] = x PROVE x # h /\ Contains(s, x)
      BY <2>1, <2>4, <2>8, <2>9, <3>1, Zenon DEF Contains
    <3>2. ASSUME NEW k \in 1 .. Len(s), s[k] = x, x # h PROVE Contains(t, x)
      BY <2>1, <2>5, <2>8, <2>9, <3>2, Zenon DEF Contains
    <3>q. QED
      BY <3>1, <3>2, Zenon DEF Contains
  <2>q. QED
    BY <2>6, <2>7, <2>8, <2>10, Zenon
(* A message that a step does not touch stays where it is.                 *)
<1>PlacedFrame. ASSUME NEW p, Placed(p), Queued(p)' <=> Queued(p), writing' = p <=> writing = p,
                       completion'[p] = completion[p], pc'[p] = pc[p], result'[p] = result[p],
                       Accepted(p)' <=> Accepted(p), Written(p) => Written(p)'
                PROVE  Placed(p)'
  BY <1>PlacedFrame, Zenon DEF Placed
(* A step that touches no message.                                         *)
<1>UntouchedPlace. ASSUME PlaceInv, Untouched PROVE PlaceInv'
  <2> USE <1>UntouchedPlace
  <2>1. Distinct(queue.outbound)'
    BY Zenon DEF PlaceInv, Untouched
  <2>2. ASSUME NEW p \in Producers PROVE Placed(p)'
    <3>1. Placed(p)
      BY Zenon DEF PlaceInv
    <3>2. (Queued(p)' <=> Queued(p)) /\ (Accepted(p)' <=> Accepted(p)) /\ (Written(p)' <=> Written(p))
      BY Zenon DEF Untouched, Queued, Accepted, Written
    <3>q. QED
      BY <3>1, <3>2, <1>PlacedFrame, Zenon DEF Untouched
  <2>q. QED
    BY <2>1, <2>2, Zenon DEF PlaceInv
(* The queue without its first message.                                    *)
<1>QueuedTail. ASSUME DataType, Distinct(queue.outbound), queue.outbound # <<>>,
                      queue'.outbound = Tail(queue.outbound)
               PROVE  /\ Distinct(Tail(queue.outbound)) /\ Head(queue.outbound) \in Producers
                      /\ Queued(Head(queue.outbound))
                      /\ \A x : Queued(x)' <=> (x # Head(queue.outbound) /\ Queued(x))
  <2> USE <1>QueuedTail
  <2>1. PICK s : s = queue.outbound
    BY Zenon
  <2>2. s \in Seq(Producers) /\ Distinct(s) /\ s # <<>>
    BY <2>1, Zenon DEF DataType, QueueType
  <2>3. /\ Distinct(Tail(s)) /\ Head(s) \in Producers /\ Contains(s, Head(s))
        /\ \A x : Contains(Tail(s), x) <=> (x # Head(s) /\ Contains(s, x))
    BY <2>2, <1>TailOf, Zenon
  <2>q. QED
    BY <2>1, <2>3, Zenon DEF Queued
(* failPending takes a message from the queue and answers its sender.      *)
<1>FailPlace. ASSUME ControlInv, DataType, PlaceInv, Cancelled, failPending,
                     UNCHANGED <<pc, writing, result, history>>
              PROVE  PlaceInv'
  <2> USE <1>FailPlace
  <2>0. /\ queue \in QueueType /\ queue.outbound \in Seq(Producers) /\ life.cancelled \in Causes
    BY Zenon DEF DataType, QueueType, ControlInv, LifeType, Cancelled
  <2>1. CASE UNCHANGED completion /\ queue'.outbound = queue.outbound
    <3>1. Untouched
      BY <2>1, Zenon DEF Untouched
    <3>q. QED
      BY <3>1, <1>UntouchedPlace, Zenon
  <2>2. CASE completion' = Completed("close", life.cancelled) /\ queue'.outbound = queue.outbound
    <3>1. ASSUME NEW p \in Producers PROVE completion'[p] = completion[p]
      <4>1. p # "close"
        BY Names, Zenon
      <4>q. QED
        BY <2>2, <4>1, Zenon DEF Completed, DataType
    <3>2. Untouched
      BY <2>2, <3>1, Zenon DEF Untouched
    <3>q. QED
      BY <3>2, <1>UntouchedPlace, Zenon
  <2>3. CASE /\ queue.outbound # <<>> /\ queue'.outbound = Tail(queue.outbound)
             /\ completion' = Completed(Head(queue.outbound), life.cancelled)
    <3>1. PICK h : h = Head(queue.outbound)
      BY Zenon
    <3>2. /\ Distinct(Tail(queue.outbound)) /\ h \in Producers /\ Queued(h)
          /\ \A x : Queued(x)' <=> (x # h /\ Queued(x))
      BY <2>3, <3>1, <1>QueuedTail, Zenon DEF PlaceInv, DataInv
    <3>3. /\ \A q \in Producers : q # h => completion'[q] = completion[q]
          /\ Mode[h] = "SendAndWait" => completion'[h] = life.cancelled
          /\ Mode[h] # "SendAndWait" => completion'[h] = completion[h]
      BY <2>0, <2>3, <3>1, <3>2, CompletedIs
    <3>4. ASSUME NEW q \in Producers PROVE Placed(q)'
      <4>0. Placed(q) /\ (Accepted(q)' <=> Accepted(q)) /\ (Written(q)' <=> Written(q))
        BY Zenon DEF PlaceInv, Accepted, Written
      <4>1. CASE q # h
        BY <3>2, <3>3, <4>0, <4>1, <1>PlacedFrame, Zenon
      <4>2. CASE q = h
        <5>1. life.cancelled # None /\ life.cancelled # "empty"
          BY <2>0, Zenon DEF Causes, None
        <5>q. QED
          BY <3>2, <3>3, <4>0, <4>2, <5>1, Zenon DEF Placed
      <4>q. QED
        BY <4>1, <4>2, Zenon
    <3>q. QED
      BY <2>3, <3>2, <3>4, Zenon DEF PlaceInv
  <2>q. QED
    BY <2>1, <2>2, <2>3, FailPendingIs, Zenon
(* The writer takes a message from the queue.                              *)
<1>TakePlace. ASSUME ControlInv, DataInv, PlaceInv, Takes, pc["writer"] \in {"poll", "select"},
                     \A p \in Producers : pc'[p] = pc[p], UNCHANGED <<completion, result, history>>
              PROVE  PlaceInv'
  <2> USE <1>TakePlace
  <2>0. /\ queue.outbound \in Seq(Producers) /\ writing = "nothing" /\ writing \notin Producers
    BY Names, Zenon DEF DataInv, DataType, QueueType, Writing
  <2>1. CASE queue'.outbound = queue.outbound /\ writing' \notin Producers
    <3>1. ASSUME NEW q \in Producers PROVE Placed(q)'
      <4>0. Placed(q) /\ (Queued(q)' <=> Queued(q)) /\ (Accepted(q)' <=> Accepted(q))
            /\ (Written(q)' <=> Written(q)) /\ writing # q /\ writing' # q
        BY <2>0, <2>1, Zenon DEF PlaceInv, Queued, Accepted, Written
      <4>q. QED
        BY <4>0, <1>PlacedFrame, Zenon
    <3>q. QED
      BY <2>1, <3>1, Zenon DEF PlaceInv
  <2>2. CASE /\ queue.outbound # <<>> /\ writing' = Head(queue.outbound)
             /\ queue'.outbound = Tail(queue.outbound)
    <3>1. PICK h : h = Head(queue.outbound)
      BY Zenon
    <3>2. /\ Distinct(Tail(queue.outbound)) /\ h \in Producers /\ Queued(h)
          /\ \A x : Queued(x)' <=> (x # h /\ Queued(x))
      BY <2>2, <3>1, <1>QueuedTail, Zenon DEF PlaceInv, DataInv
    <3>4. ASSUME NEW q \in Producers PROVE Placed(q)'
      <4>0. Placed(q) /\ (Accepted(q)' <=> Accepted(q)) /\ (Written(q)' <=> Written(q)) /\ writing # q
        BY <2>0, Zenon DEF PlaceInv, Accepted, Written
      <4>1. CASE q # h
        BY <2>2, <3>1, <3>2, <4>0, <4>1, <1>PlacedFrame, Zenon
      <4>2. CASE q = h
        BY <2>2, <3>1, <3>2, <4>0, <4>2, Zenon DEF Placed
      <4>q. QED
        BY <4>1, <4>2, Zenon
    <3>q. QED
      BY <2>2, <3>2, <3>4, Zenon DEF PlaceInv
  <2>3. \A g \in Graceful : g \notin Producers
    BY GracefulAre, Zenon
  <2>4. "control" \notin Producers
    BY Names, Zenon
  <2>q. QED
    BY <2>1, <2>2, <2>3, <2>4, TakesAre, Zenon DEF DataInv
(* The writer tells a sender what became of its message; nil, only with    *)
(* the frame written.                                                      *)
<1>ResultPlace.
    ASSUME ControlInv, DataInv, PlaceInv, NEW e \in {None, "context", "io"}, WriteResult(e),
           queue' = queue, result' = result,
           \/ e # None /\ history' = history
           \/ history' = Recorded,
           pc["writer"] \in Writing
    PROVE  PlaceInv'
  <2> USE <1>ResultPlace
  <2>0. /\ history \in HistoryType
        /\ writing \in Items /\ "writer" \in Procs /\ Producers \subseteq Procs
        /\ "nothing" \notin Producers /\ "writer" \notin Producers
    BY Names, Zenon DEF DataInv, DataType
  <2>w. PICK w : w = writing
    BY Zenon
  <2>1. /\ writing' = "nothing"
        /\ \A p \in Producers : pc'[p] = pc[p]
        /\ \A p \in Producers : p # writing => completion'[p] = completion[p]
        /\ writing \in Producers =>
             completion'[writing] = IF Mode[writing] = "SendAndWait" THEN e ELSE completion[writing]
    BY <2>0, WriteResultIs, Zenon DEF Moved, DataInv
  <2>2. /\ history'.accepted = history.accepted
        /\ \A p : Written(p) => Written(p)'
        /\ e = None => Written(w)'
    <3>1. CASE e # None /\ history' = history
      BY <3>1, Zenon DEF Written
    <3>2. CASE history' = Recorded
      <4>1. PICK t, s : t = Append(history.written, w) /\ s = history.written
        BY Zenon
      <4>2. s \in Seq(Items) /\ w \in Items
        BY <2>0, <2>w, <4>1, Zenon DEF HistoryType
      <4>3. history'.accepted = history.accepted /\ history'.written = t
        BY <2>0, <2>w, <3>2, <4>1, RecordedIs, Zenon DEF DataInv
      <4>4. \A x : Contains(t, x) <=> x = w \/ Contains(s, x)
        BY <4>1, <4>2, AppendOf
      <4>5. \A x : Written(x)' <=> x = w \/ Written(x)
        BY <4>1, <4>3, <4>4, Zenon DEF Written
      <4>q. QED
        BY <4>3, <4>5, Zenon
    <3>q. QED
      BY <3>1, <3>2, Zenon
  <2>3. ASSUME NEW q \in Producers PROVE Placed(q)'
    <3>0. Placed(q) /\ (Accepted(q)' <=> Accepted(q)) /\ (Queued(q)' <=> Queued(q)) /\ writing' # q
      BY <2>0, <2>1, <2>2, Zenon DEF PlaceInv, Accepted, Queued
    <3>1. CASE writing # q
      BY <2>1, <2>2, <3>0, <3>1, <1>PlacedFrame, Zenon
    <3>2. CASE writing = q
      <4>1. completion[q] = "empty" /\ Accepted(q) /\ ~Queued(q)
        BY <3>0, <3>2, Zenon DEF Placed
      <4>2. e # "empty" /\ completion'[q] = IF Mode[q] = "SendAndWait" THEN e ELSE "empty"
        BY <2>1, <3>2, <4>1, Zenon DEF None
      <4>3. pc'[q] = pc[q] /\ result'[q] = result[q] /\ (Written(q) => Written(q)')
            /\ (e = None => Written(q)')
        BY <2>1, <2>2, <2>w, <3>2, Zenon
      <4>4. "empty" # None
        BY Zenon DEF None
      <4>q. QED
        BY <3>0, <3>2, <4>1, <4>2, <4>3, <4>4, Zenon DEF Placed
    <3>q. QED
      BY <3>1, <3>2, Zenon
  <2>q. QED
    BY <2>3, Zenon DEF PlaceInv
(* A writer's step.                                                        *)
<1>WriterPlace. ASSUME ControlInv, DataInv, PlaceInv, WriterNext PROVE PlaceInv'
  <2> USE <1>WriterPlace
  <2>0. Only("writer") /\ \A p \in Producers : pc'[p] = pc[p]
    BY OnlyMoves, Names, Zenon DEF Only
  <2>1. CASE Takes /\ pc["writer"] \in {"poll", "select"} /\ UNCHANGED <<completion, result, history>>
    BY <2>0, <2>1, <1>TakePlace, Zenon
  <2>2. CASE UNCHANGED <<queue, writing, completion, result, history>>
    <3>1. Untouched
      BY <2>0, <2>2, Zenon DEF Untouched
    <3>q. QED
      BY <3>1, <1>UntouchedPlace, Zenon
  <2>3. CASE /\ pc["writer"] = "write" /\ WriteResult(None)
             /\ history' = Recorded
             /\ UNCHANGED <<queue, result>>
    <3>1. pc["writer"] \in Writing
      BY <2>3, Zenon DEF Writing
    <3>q. QED
      BY <2>3, <3>1, <1>ResultPlace, Zenon
  <2>4. ASSUME pc["writer"] \in Writing, UNCHANGED <<queue, result, history>>,
               NEW e \in {"context", "io"}, WriteResult(e)
        PROVE  PlaceInv'
    <3>1. e # None
      BY Zenon DEF None
    <3>q. QED
      BY <2>4, <3>1, <1>ResultPlace
  <2>5. CASE /\ pc["writer"] = "fail_pending" /\ failPending
             /\ UNCHANGED <<pc, writing, result, history>>
    <3>1. Cancelled
      BY <2>5, Zenon DEF ControlInv, ShutdownInv
    <3>q. QED
      BY <2>5, <3>1, <1>FailPlace, Zenon DEF DataInv
  <2>q. QED
    BY <2>1, <2>2, <2>3, <2>4, <2>5, WriterSteps, Zenon
(* A step of shutdown.                                                     *)
<1>ShutdownPlace. ASSUME ControlInv, DataInv, PlaceInv, NEW p \in Procs, Shutdown(p)
                  PROVE  PlaceInv'
  <2> USE <1>ShutdownPlace
  <2>0. queue \in QueueType /\ Producers \subseteq Procs
    BY Names, Zenon DEF DataInv, DataType
  <2>1. UNCHANGED <<writing, result, history>>
    BY Zenon DEF Shutdown, ShutdownEnter, ShutdownLock, ShutdownDispose, ShutdownRelease
  <2>2. CASE pc[p] = "dispose" /\ failPending /\ UNCHANGED pc
    <3>1. Cancelled
      BY <2>2, Zenon DEF ControlInv, ShutdownInv, Exclusive, Cancelled
    <3>q. QED
      BY <2>1, <2>2, <3>1, <1>FailPlace, Zenon DEF DataInv
  <2>3. CASE ~(pc[p] = "dispose" /\ failPending /\ UNCHANGED pc)
    <3>1. UNCHANGED completion /\ queue'.outbound = queue.outbound
      BY <2>0, <2>3, Zenon DEF Shutdown, ShutdownEnter, ShutdownLock, ShutdownDispose, ShutdownRelease,
                        QueueType
    <3>2. Only(p) /\ pc[p] \in Shut
      BY OnlyMoves, Zenon DEF Shut, Shutdown, ShutdownEnter, ShutdownLock, ShutdownDispose, ShutdownRelease
    <3>3. p \notin Producers
      BY <3>2, PointsAre DEF ControlInv, PcInv, Shut
    <3>4. Untouched
      BY <2>0, <2>1, <3>1, <3>2, <3>3, Zenon DEF Untouched, Only
    <3>q. QED
      BY <3>4, <1>UntouchedPlace, Zenon
  <2>q. QED
    BY <2>2, <2>3, Zenon
(* A message is accepted.                                                  *)
<1>AcceptPlace. ASSUME ControlInv, DataType, PlaceInv, NEW p \in Producers, Accept(p),
                       pc[p] \in {"idle", "capacity"}, UNCHANGED <<writing, completion>>
                PROVE  PlaceInv'
  <2> USE <1>AcceptPlace
  <2>0. /\ queue.outbound \in Seq(Producers) /\ history.accepted \in Seq(Producers)
        /\ pc = [q \in Procs |-> pc[q]] /\ p \in Procs /\ Producers \subseteq Procs
    BY Names, Zenon DEF DataType, QueueType, HistoryType, ControlInv, PcInv
  <2>1. PICK o, a : o = queue.outbound /\ a = history.accepted
    BY Zenon
  <2>2. /\ queue'.outbound = Append(o, p) /\ history'.accepted = Append(a, p)
        /\ history'.written = history.written
    BY <2>1, AcceptIs, Zenon
  <2>3. /\ ~Accepted(p) /\ ~Queued(p) /\ writing # p /\ completion[p] = "empty"
        /\ result[p] = "none"
    BY Zenon DEF PlaceInv, Placed
  <2>4. \A x : Queued(x)' <=> x = p \/ Queued(x)
    BY <2>0, <2>1, <2>2, AppendOf DEF Queued
  <2>5. \A x : Accepted(x)' <=> x = p \/ Accepted(x)
    BY <2>0, <2>1, <2>2, AppendOf DEF Accepted
  <2>6. \A x : Written(x)' <=> Written(x)
    BY <2>2, Zenon DEF Written
  <2>7. Distinct(queue.outbound)'
    BY <2>0, <2>1, <2>2, <2>3, AppendOf DEF PlaceInv, Queued
  <2>8. /\ \A q \in Producers : q # p => pc'[q] = pc[q] /\ result'[q] = result[q]
        /\ IF Mode[p] = "SendAndWait" THEN pc'[p] = "await" /\ result'[p] = "none"
                                      ELSE pc'[p] = "exited" /\ result'[p] = None
    <3>1. CASE Mode[p] = "SendAndWait"
      BY <2>0, <2>3, <3>1, Zenon DEF Accept, Goto
    <3>2. CASE Mode[p] # "SendAndWait"
      <4>1. Return(p, None) /\ Goto(p, "exited")
        BY <3>2, Zenon DEF Accept
      <4>2. (\A q \in Producers : q # p => result'[q] = result[q]) /\ result'[p] = None
        BY <4>1, ReturnIs, Zenon
      <4>q. QED
        BY <2>0, <3>2, <4>1, <4>2, Zenon DEF Goto
    <3>q. QED
      BY <3>1, <3>2, Zenon
  <2>9. ASSUME NEW q \in Producers PROVE Placed(q)'
    <3>1. CASE q # p
      <4>1. Placed(q)
        BY Zenon DEF PlaceInv
      <4>q. QED
        BY <2>4, <2>5, <2>6, <2>8, <3>1, <4>1, <1>PlacedFrame, Zenon
    <3>2. CASE q = p
      <4>1. "none" # "full" /\ None # "full" /\ "empty" # None /\ "none" # None
        BY Zenon DEF None
      <4>q. QED
        BY <2>3, <2>4, <2>5, <2>6, <2>8, <3>2, <4>1, Zenon DEF Placed
    <3>q. QED
      BY <3>1, <3>2, Zenon
  <2>q. QED
    BY <2>7, <2>9, Zenon DEF PlaceInv
(* A send returns without an acceptance in this step.                      *)
<1>ReturnPlace. ASSUME ControlInv, DataType, PlaceInv, NEW p \in Producers, pc[p] # "exited",
                       NEW r \in Causes \cup {None, "full"}, Return(p, r), Goto(p, "exited"),
                       queue'.outbound = queue.outbound, UNCHANGED <<writing, completion, history>>,
                       pc[p] = "await" => (r = None => Written(p)) /\ r # "full",
                       pc[p] # "await" => r # None
                PROVE  PlaceInv'
  <2> USE <1>ReturnPlace
  <2>0. pc = [q \in Procs |-> pc[q]] /\ p \in Procs /\ Producers \subseteq Procs
        /\ pc[p] \in {"idle", "capacity", "await"}
    BY Names, PointsAre DEF ControlInv, PcInv
  <2>1. /\ \A q \in Producers : q # p => pc'[q] = pc[q] /\ result'[q] = result[q]
        /\ pc'[p] = "exited" /\ result'[p] = r
    BY <2>0, ReturnIs DEF Goto
  <2>2. \A x : (Queued(x)' <=> Queued(x)) /\ (Accepted(x)' <=> Accepted(x)) /\ (Written(x)' <=> Written(x))
    BY Zenon DEF Queued, Accepted, Written
  <2>3. ASSUME NEW q \in Producers PROVE Placed(q)'
    <3>0. Placed(q)
      BY Zenon DEF PlaceInv
    <3>1. CASE q # p
      BY <2>1, <2>2, <3>0, <3>1, <1>PlacedFrame, Zenon
    <3>2. CASE q = p
      BY <2>0, <2>1, <2>2, <3>0, <3>2, Zenon DEF Placed
    <3>q. QED
      BY <3>1, <3>2, Zenon
  <2>q. QED
    BY <2>3, Zenon DEF PlaceInv
(* A producer's step.                                                      *)
<1>SendPlace. ASSUME ControlInv, DataInv, PlaceInv, NEW p \in Producers,
                     SendEnter(p) \/ SendCapacity(p) \/ SendAwait(p)
              PROVE  PlaceInv'
  <2> USE <1>SendPlace
  <2>0. DataType /\ queue \in QueueType /\ p \in Procs
        /\ life.cancelled \in Causes \cup {None} /\ completion[p] \in Causes \cup {None, "empty"}
    BY Names, Zenon DEF DataInv, DataType, ControlInv, LifeType
  <2>1. UNCHANGED <<writing, completion>>
    BY Zenon DEF SendEnter, SendCapacity, SendAwait
  <2>2. ASSUME Accept(p), pc[p] \in {"idle", "capacity"} PROVE PlaceInv'
    BY <2>0, <2>1, <2>2, <1>AcceptPlace, Zenon
  <2>3. ASSUME NEW r \in {"context", "closed", "full"}, Refuse(p, r), pc[p] \in {"idle", "capacity"}
        PROVE  PlaceInv'
    <3>1. queue'.outbound = queue.outbound
      BY <2>0, <2>3, QueueParts, Zenon DEF Refuse
    <3>2. Return(p, r) /\ Goto(p, "exited") /\ UNCHANGED history
      BY <2>3, Zenon DEF Refuse
    <3>3. r \in Causes \cup {None, "full"} /\ r # None
      BY Zenon DEF Causes, None
    <3>q. QED
      BY <2>0, <2>1, <2>3, <3>1, <3>2, <3>3, <1>ReturnPlace, Zenon
  <2>4. ASSUME Lease(p), Goto(p, "capacity"), pc[p] = "idle", UNCHANGED <<result, history>>
        PROVE  PlaceInv'
    <3>1. queue'.outbound = queue.outbound
      BY <2>0, <2>4, Zenon DEF Lease, QueueType
    <3>2. pc = [q \in Procs |-> pc[q]] /\ Producers \subseteq Procs
      BY Names, Zenon DEF ControlInv, PcInv
    <3>3. \A x : (Queued(x)' <=> Queued(x)) /\ (Accepted(x)' <=> Accepted(x)) /\ (Written(x)' <=> Written(x))
      BY <2>4, <3>1, Zenon DEF Queued, Accepted, Written
    <3>4. ASSUME NEW q \in Producers PROVE Placed(q)'
      <4>1. Placed(q) /\ pc'[q] = IF q = p THEN "capacity" ELSE pc[q]
        BY <2>4, <3>2, Zenon DEF PlaceInv, Goto
      <4>q. QED
        BY <2>1, <2>4, <3>3, <4>1, Zenon DEF Placed
    <3>q. QED
      BY <3>1, <3>4, Zenon DEF PlaceInv
  <2>5. CASE SendEnter(p)
    BY <2>2, <2>3, <2>4, <2>5, Zenon DEF SendEnter
  <2>6. CASE SendCapacity(p)
    BY <2>2, <2>3, <2>6, Zenon DEF SendCapacity
  <2>7. CASE SendAwait(p)
    <3>1. pc[p] = "await" /\ Goto(p, "exited") /\ UNCHANGED <<queue, history>> /\ pc[p] # "exited"
      BY <2>7, Zenon DEF SendAwait
    <3>2. ASSUME NEW r \in Causes \cup {None}, Return(p, r), r = None => Written(p) PROVE PlaceInv'
      <4>1. r # "full" /\ r \in Causes \cup {None, "full"}
        BY Zenon DEF Causes, None
      <4>q. QED
        BY <2>0, <2>1, <3>1, <3>2, <4>1, <1>ReturnPlace, Zenon
    <3>3. CASE completion[p] # "empty" /\ Return(p, completion[p])
      <4>1. completion[p] = None => Written(p)
        BY Zenon DEF PlaceInv, Placed
      <4>q. QED
        BY <2>0, <3>2, <3>3, <4>1, Zenon
    <3>4. CASE Return(p, "context")
      BY <3>2, <3>4, Zenon DEF Causes, None
    <3>5. CASE Cancelled /\ Return(p, life.cancelled)
      BY <2>0, <3>2, <3>5, Zenon DEF Cancelled
    <3>q. QED
      BY <2>7, <3>3, <3>4, <3>5, Zenon DEF SendAwait
  <2>q. QED
    BY <2>5, <2>6, <2>7, Zenon
(* The step as a whole.                                                   *)
<1>step. ASSUME ControlInv, DataInv, PlaceInv, [Next]_vars PROVE PlaceInv'
  <2> USE <1>step
  <2>1. ASSUME Untouched PROVE PlaceInv'
    BY <2>1, <1>UntouchedPlace, Zenon
  <2>q. QED
    BY <2>1, StepsAre, UntouchedIs, <1>WriterPlace, <1>ShutdownPlace, <1>SendPlace, Zenon DEF DataInv
<1>q. QED
  BY <1>step, Zenon

(* In every reachable state a message is in at most one place, and what    *)
(* its sender was told is so.                                              *)
THEOREM PlaceInductive == Spec => []PlaceInv
<1>1. Init => PlaceInv
  BY InitPlace, Zenon
<1>2. ControlInv /\ DataInv /\ PlaceInv /\ [Next]_vars => PlaceInv'
  BY NextPlace, Zenon
<1>q. QED
  BY <1>1, <1>2, ControlInductive, DataInductive, PTL DEF Spec

(* A message in at most one place, and waited for, is in exactly one.      *)
LEMMA PlacesAwaited == ASSUME DataInv, LeaseInv, PlaceInv PROVE AwaitedOnce
<1>1. ASSUME NEW p \in Producers, pc[p] = "await"
      PROVE  \E place \in Places(p) : Places(p) = {place}
  <2>1. /\ Queued(p) \/ writing = p \/ completion[p] # "empty"
        /\ Queued(p) => writing # p /\ completion[p] = "empty"
        /\ writing = p => completion[p] = "empty"
    BY <1>1, Zenon DEF PlaceInv, Placed
  <2>2. Places(p) = {"queued"} \/ Places(p) = {"writing"} \/ Places(p) = {"answered"}
    BY <2>1, Zenon DEF Places, Queued
  <2>q. QED
    BY <2>2, Zenon
<1>2. (life.released \/ \E p \in Procs : pc[p] = "release") => ~Pending /\ queue.handler = 0
  BY Zenon DEF LeaseInv, Emptied
<1>q. QED
  BY <1>1, <1>2, Zenon DEF AwaitedOnce

(* AwaitedOnce: a message SendAndWait waits for is queued, with the writer *)
(* or answered, never two of them and never none, and nothing is queued    *)
(* after the terminal disposal.                                            *)
THEOREM AwaitedOnlyOnce == Spec => []AwaitedOnce
<1>1. DataInv /\ LeaseInv /\ PlaceInv => AwaitedOnce
  BY PlacesAwaited, Zenon
<1>q. QED
  BY <1>1, DataInductive, LeaseInductive, PlaceInductive, PTL

(* What senders are told follows from where the messages are.              *)
LEMMA PlacesHonest == ASSUME PlaceInv PROVE ResultsHonest
BY Zenon DEF PlaceInv, Placed, ResultsHonest, Written, Accepted, None

(* ResultsHonest: SendAndWait returns nil only for a message whose frame   *)
(* was written, and a refused message was never accepted.                  *)
THEOREM ResultsAreHonest == Spec => []ResultsHonest
<1>1. PlaceInv => ResultsHonest
  BY PlacesHonest, Zenon
<1>q. QED
  BY <1>1, PlaceInductive, PTL

-----------------------------------------------------------------------------
(* Close requests.                                                         *)

Onward ==
  /\ life'.closeOnce = "free" => life.closeOnce = "free"
  /\ life'.startOnce = "free" => life.startOnce = "free"
  /\ life'.started => life.started \/ life.startOnce = "free"
  /\ life.started => life'.started

(* No sync.Once becomes free again, and only its winner starts the loops.  *)
LEMMA OnwardIs == ASSUME ControlInv, [Next]_vars PROVE Onward
<1>0. life \in LifeType
  BY Zenon DEF ControlInv
<1>s. ASSUME UNCHANGED life PROVE Onward
  BY <1>s, Zenon DEF Onward
<1>t. ASSUME NEW c, life' = recordTerminal(life, c) PROVE Onward
  BY <1>0, <1>t, Zenon DEF recordTerminal, Onward, LifeType
<1>b. ASSUME NEW c, life' = recordTerminal([life EXCEPT !.startOnce = "busy"], c) PROVE Onward
  <2>1. PICK l : l = [life EXCEPT !.startOnce = "busy"]
    BY Zenon
  <2>2. l \in LifeType /\ l.startOnce = "busy" /\ l.closeOnce = life.closeOnce
        /\ l.started = life.started
    BY <1>0, <2>1, Zenon DEF LifeType
  <2>3. life' = recordTerminal(l, c)
    BY <1>b, <2>1, Zenon
  <2>q. QED
    BY <2>2, <2>3, Zenon DEF recordTerminal, Onward, LifeType
<1>1. CASE StillNext
  BY <1>1, <1>s, Zenon DEF StillNext, StartCancel, Ping, Finished, vars, CallerCancel
<1>2. CASE Start
  <2>1. CASE life.startOnce = "free" /\ life' = [life EXCEPT !.startOnce = "done", !.started = TRUE]
    BY <1>0, <2>1, Zenon DEF Onward, LifeType
  <2>q. QED
    BY <1>2, <1>b, <1>s, <2>1, Zenon DEF Start, CallShutdown
<1>3. CASE Join \/ OtherNext
  BY <1>3, <1>s, <1>t, Zenon DEF Join, OtherNext, MaintenanceExit, IdleTimeout, KeepaliveTimeout,
                          Watch, Abort, CloseCall, CallShutdown
<1>4. CASE WriterNext
  <2>1. ASSUME NEW e, WriteResult(e) PROVE Onward
    BY <2>1, <1>s, <1>t, Zenon DEF WriteResult, CallShutdown
  <2>q. QED
    BY <1>4, <1>s, <2>1, WriterSteps, Zenon
<1>5. CASE ReaderNext
  <2>1. ASSUME NEW kind \in Inbound, Read(kind) PROVE Onward
    <3>1. kind \in {"data", "ping", "other", "close", "bad"}
      BY ConnectionAssumption, Zenon
    <3>q. QED
      BY <1>s, <1>t, <2>1, <3>1, Zenon DEF Read, CallShutdown
  <2>2. CASE ReaderStep \/ ReadFails
    BY <1>s, <1>t, <2>2, Zenon DEF ReaderStep, ReadInterrupted, PongEnter, PongCapacity, Dispatch,
                            ReadFails, CallShutdown
  <2>q. QED
    BY <1>5, <2>1, <2>2, Zenon DEF ReaderNext
<1>6. CASE HandlerNext
  BY <1>6, <1>s, <1>t, Zenon DEF HandlerNext, HandlerStep, HandlerTake, HandlerLoop, HandlerResult,
                          CallbackBegin, CallbackReturn, CallShutdown
<1>7. ASSUME NEW p \in Procs, Shutdown(p) \/ CloseDone(p) PROVE Onward
  <2>1. CASE \/ life' = [life EXCEPT !.shutdownOnce = "busy", !.closing = TRUE,
                                     !.cancelled = call[p].cause]
             \/ life' = [life EXCEPT !.released = TRUE, !.shutdownOnce = "done"]
             \/ life' = [life EXCEPT !.done = @ + 1, !.startOnce = "done"]
    BY <1>0, <2>1, Zenon DEF Onward, LifeType
  <2>q. QED
    BY <1>7, <1>s, <2>1, Zenon DEF Shutdown, ShutdownEnter, ShutdownLock, ShutdownDispose,
                            ShutdownRelease, CloseDone
<1>8. ASSUME NEW p \in Graceful, closeGracefully(p) PROVE Onward
  <2>1. CASE life' = [life EXCEPT !.closeOnce = "done"]
    BY <1>0, <2>1, Zenon DEF Onward, LifeType
  <2>2. CASE CloseEnter(p)
    <3>1. CASE life' = [recordTerminal(life, CloseCause(p)) EXCEPT
                          !.closeOnce = "busy", !.closing = TRUE]
      <4>1. PICK l : l = recordTerminal(life, CloseCause(p))
        BY Zenon
      <4>2. l \in LifeType /\ l.startOnce = life.startOnce /\ l.started = life.started
        BY <1>0, <4>1, CloseCauseIs, Zenon DEF recordTerminal, LifeType
      <4>3. life' = [l EXCEPT !.closeOnce = "busy", !.closing = TRUE]
        BY <3>1, <4>1, Zenon
      <4>q. QED
        BY <4>2, <4>3, Zenon DEF Onward, LifeType
    <3>q. QED
      BY <1>s, <2>2, <3>1, Zenon DEF CloseEnter
  <2>q. QED
    BY <1>8, <1>s, <1>t, <1>b, <2>1, <2>2, Zenon
       DEF closeGracefully, CloseClaim, CloseLease, CloseRequest, CloseWait, CloseReturn,
           CloseCancelled, CloseTimer, CallShutdown
<1>9. ASSUME NEW p \in Producers, SendEnter(p) \/ SendCapacity(p) \/ SendAwait(p) PROVE Onward
  BY <1>9, <1>s, Zenon DEF SendEnter, SendCapacity, SendAwait
<1>q. QED
  BY <1>1, <1>2, <1>3, <1>4, <1>5, <1>6, <1>7, <1>8, <1>9, StepsAre, Zenon

(* A Close that returned nil was told the truth, after every step.         *)
LEMMA NextTold ==
  ControlInv /\ ControlInv' /\ DataInv /\ AskInv /\ ToldInv /\ [Next]_vars => ToldInv'
(* What is written stays written.                                          *)
<1>WrittenGrows. ASSUME ControlInv, DataInv, [Next]_vars, NEW x, Written(x)
                 PROVE  Written(x)'
  <2> USE <1>WrittenGrows
  <2>0. history \in HistoryType
    BY Zenon DEF DataInv, DataType
  <2>1. ASSUME history' = history \/ history'.written = history.written PROVE Written(x)'
    BY <2>1, Zenon DEF Written
  <2>2. CASE WriterNext
    <3>1. CASE /\ pc["writer"] = "write"
               /\ history' = Recorded
      <4>1. PICK t, s, w : t = Append(s, w) /\ s = history.written /\ w = writing
        BY Zenon
      <4>2. s \in Seq(Items) /\ w \in Items
        BY <2>0, <3>1, <4>1, Zenon DEF DataInv, DataType, Writing, HistoryType
      <4>3. history'.written = t
        BY <3>1, <4>1, <4>2, RecordedIs, Zenon DEF DataInv
      <4>4. Contains(t, x)
        BY <4>1, <4>2, AppendOf, Zenon DEF Written
      <4>q. QED
        BY <4>3, <4>4, Zenon DEF Written
    <3>q. QED
      BY <2>1, <2>2, <3>1, WriterSteps, Zenon
  <2>3. ASSUME NEW p \in Procs, Shutdown(p) PROVE Written(x)'
    BY <2>1, <2>3, Zenon DEF Shutdown, ShutdownEnter, ShutdownLock, ShutdownDispose, ShutdownRelease
  <2>4. ASSUME NEW p \in Producers, SendEnter(p) \/ SendCapacity(p) \/ SendAwait(p)
        PROVE  Written(x)'
    <3>1. CASE Accept(p)
      BY <2>1, <3>1, AcceptIs, Zenon DEF DataInv
    <3>q. QED
      BY <2>1, <2>4, <3>1, Zenon DEF SendEnter, SendCapacity, SendAwait, Refuse
  <2>5. ASSUME Untouched PROVE Written(x)'
    BY <2>1, <2>5, Zenon DEF Untouched
  <2>q. QED
    BY <2>2, <2>3, <2>4, <2>5, StepsAre, UntouchedIs, Zenon DEF DataInv
(* What Close returned stays, unless it returns in this step.              *)
<1>CloserResults. ASSUME ControlInv, DataType, [Next]_vars, NEW c \in Closers
                  PROVE  result'[c] = result[c] \/ CloseDone(c) \/ closeGracefully(c)
  <2> USE <1>CloserResults
  <2>1. ASSUME UNCHANGED result PROVE result'[c] = result[c]
    BY <2>1, Zenon
  <2>2. ASSUME NEW p, p # c, NEW r, Return(p, r) PROVE result'[c] = result[c]
    BY <2>2, Zenon DEF Return, DataType
  <2>3. CASE StillNext \/ Start \/ Join \/ OtherNext
    BY <2>3, Zenon DEF StillNext, StartCancel, Ping, Finished, vars, CallerCancel, Start, Join, OtherNext,
                MaintenanceExit, IdleTimeout, KeepaliveTimeout, Watch, Abort, CloseCall
  <2>4. CASE WriterNext
    BY <2>4, WriterSteps, Zenon
  <2>5. CASE ReaderNext
    BY <2>5, Zenon DEF ReaderNext, ReaderStep, ReadInterrupted, PongEnter, PongCapacity, Dispatch,
                ReadFails, Read
  <2>6. CASE HandlerNext
    BY <2>6, Zenon DEF HandlerNext, HandlerStep, HandlerTake, HandlerLoop, HandlerResult, CallbackBegin,
                CallbackReturn
  <2>7. ASSUME NEW p \in Procs, Shutdown(p) \/ CloseDone(p)
        PROVE  result'[c] = result[c] \/ CloseDone(c)
    <3>1. CASE Shutdown(p)
      BY <3>1, Zenon DEF Shutdown, ShutdownEnter, ShutdownLock, ShutdownDispose, ShutdownRelease
    <3>2. CASE CloseDone(p) /\ p # c
      <4>1. Return(p, None)
        BY <3>2, Zenon DEF CloseDone
      <4>q. QED
        BY <2>2, <3>2, <4>1, Zenon
    <3>q. QED
      BY <2>7, <3>1, <3>2, Zenon
  <2>8. ASSUME NEW p \in Graceful, closeGracefully(p)
        PROVE  result'[c] = result[c] \/ closeGracefully(c)
    <3>1. UNCHANGED result \/ \E r : Return(p, r)
      BY <2>8, Zenon DEF closeGracefully, CloseEnter, CloseClaim, CloseLease, CloseRequest, CloseWait,
                  CloseReturn, CloseCancelled, CloseTimer
    <3>q. QED
      BY <2>2, <2>8, <3>1, Zenon
  <2>9. ASSUME NEW p \in Producers, SendEnter(p) \/ SendCapacity(p) \/ SendAwait(p)
        PROVE  result'[c] = result[c]
    <3>1. UNCHANGED result \/ \E r : Return(p, r)
      BY <2>9, Zenon DEF SendEnter, SendCapacity, SendAwait, Accept, Refuse
    <3>2. p # c
      BY Names, Zenon
    <3>q. QED
      BY <2>2, <3>1, <3>2, Zenon
  <2>q. QED
    BY <2>3, <2>4, <2>5, <2>6, <2>7, <2>8, <2>9, StepsAre, Zenon
(* A Close that returns nil found the runtime unstarted for good, or its   *)
(* SessionClose was written.                                               *)
<1>CloseTold. ASSUME ControlInv, ControlInv', DataInv, AskInv, NEW c \in Closers,
                     CloseDone(c) \/ closeGracefully(c), result'[c] = None, result[c] # None
              PROVE  life'.startOnce # "free" /\ (life'.started => Written(c))
  <2> USE <1>CloseTold
  <2>0. /\ DataType /\ life \in LifeType /\ c \in Procs /\ c \in Graceful /\ c # "waiter"
        /\ life.cancelled \in Causes \cup {None}
    BY Names, Zenon DEF ControlInv, DataInv, LifeType, Graceful
  <2>1. CASE CloseDone(c)
    <3>1. Ending(c)
      BY <2>1, Zenon DEF CloseDone, Ending
    <3>2. ~life.started
      BY <2>0, <3>1, Zenon DEF ControlInv, StartInv
    <3>3. life'.startOnce = "done" /\ life'.started = life.started
      BY <2>0, <2>1, Zenon DEF CloseDone, LifeType
    <3>q. QED
      BY <3>2, <3>3, Zenon
  <2>r. ASSUME NEW r \in Causes \cup {None, "none", "repeated", "deadline", "full"}, Return(c, r)
        PROVE  r = None
    BY <2>0, <2>r, ReturnIs, Zenon
  <2>2. CASE CloseEnter(c)
    BY <2>2, <2>r, Zenon DEF CloseEnter, None
  <2>3. CASE CloseClaim(c)
    BY <2>3, Zenon DEF CloseClaim
  <2>4. CASE CloseLease(c)
    BY <2>0, <2>4, <2>r, Zenon DEF CloseLease, Cancelled
  <2>5. ASSUME CloseCancelled(c) PROVE FALSE
    BY <2>0, <2>5, <2>r, Zenon DEF CloseCancelled, Cancelled
  <2>6. ASSUME CloseTimer(c) PROVE FALSE
    BY <2>6, <2>r DEF CloseTimer, None
  <2>7. CASE CloseRequest(c)
    BY <2>5, <2>6, <2>7, Zenon DEF CloseRequest
  <2>8. CASE CloseWait(c)
    <3>1. completion["close"] # "empty" /\ Return(c, completion["close"]) /\ pc[c] = "close_wait"
          /\ CallShutdown(life, c, CloseCause(c), "close_return")
      BY <2>5, <2>6, <2>8, Zenon DEF CloseWait
    <3>2. completion["close"] \in Causes \cup {None, "empty"}
      BY <2>0, Zenon DEF DataType
    <3>3. completion["close"] = None
      BY <2>r, <3>1, <3>2, Zenon
    <3>4. Written(c)
      BY <2>0, <3>1, <3>3, Zenon DEF AskInv, RequestOf
    <3>5. life.started
      BY <2>0, <3>1, Zenon DEF AskInv, Requesting
    <3>6. life'.startOnce = life.startOnce
      BY <2>0, <3>1, CallMoves, CloseCauseIs, Zenon DEF ControlInv
    <3>q. QED
      BY <3>4, <3>5, <3>6, Zenon DEF ControlInv, StartInv
  <2>9. CASE CloseReturn(c)
    BY <2>9, Zenon DEF CloseReturn
  <2>q. QED
    BY <2>1, <2>2, <2>3, <2>4, <2>7, <2>8, <2>9, Zenon DEF closeGracefully
(* The step as a whole.                                                   *)
<1>step. ASSUME ControlInv, ControlInv', DataInv, AskInv, ToldInv, [Next]_vars
         PROVE  ToldInv'
  <2> USE <1>step
  <2>1. Onward
    BY OnwardIs, Zenon
  <2>2. ASSUME NEW c \in Closers, result'[c] = None
        PROVE  life'.startOnce # "free" /\ (life'.started => Written(c)')
    <3>1. Written(c) => Written(c)'
      BY <1>WrittenGrows, Zenon
    <3>2. CASE result[c] = None
      BY <2>1, <3>1, <3>2, Zenon DEF ToldInv, Onward
    <3>3. CASE result[c] # None
      <4>1. CloseDone(c) \/ closeGracefully(c)
        BY <2>2, <3>3, <1>CloserResults, Zenon DEF DataInv
      <4>q. QED
        BY <2>2, <3>1, <3>3, <4>1, <1>CloseTold, Zenon
    <3>q. QED
      BY <3>2, <3>3, Zenon
  <2>q. QED
    BY <2>2, Zenon DEF ToldInv
<1>q. QED
  BY <1>step, Zenon

Aloof ==
  /\ queue'.close = queue.close /\ completion'["close"] = completion["close"]
  /\ writing' = writing \/ (writing \notin Graceful /\ writing' \notin Graceful)
  /\ \A q \in Graceful : Written(q)' <=> Written(q)

Stays == \A q \in Procs : pc'[q] \in Requesting => pc'[q] = pc[q]

(* Every step.                                                             *)
LEMMA NextAsk ==
  ControlInv /\ ControlInv' /\ DataInv /\ AskInv /\ [Next]_vars => AskInv'
(* A step that has nothing to do with a close request.                     *)
<1>AloofAsk. ASSUME AskInv, Onward, Aloof, \A q \in Procs : pc'[q] \in Requesting => pc'[q] = pc[q]
             PROVE  AskInv'
  <2> USE <1>AloofAsk
  <2>1. NoRequest => NoRequest'
    BY Zenon DEF Aloof, NoRequest
  <2>2. ASSUME NEW p, RequestOf(p) PROVE RequestOf(p)'
    BY <2>2, Zenon DEF Aloof, RequestOf
  <2>3. life'.closeOnce = "free" => NoRequest' /\ \A p \in Procs : pc'[p] \notin Requesting
    BY <2>1, Zenon DEF AskInv, Onward
  <2>4. \A p, q \in Procs : pc'[p] \in Requesting /\ pc'[q] \in Requesting => p = q
    BY Zenon DEF AskInv
  <2>5. \A p \in Procs : pc'[p] \in Requesting \ {"close_wait"} => NoRequest'
    BY <2>1, Zenon DEF AskInv
  <2>6. ASSUME NEW p \in Procs, pc'[p] = "close_wait" PROVE RequestOf(p)'
    BY <2>2, <2>6, Zenon DEF AskInv, Requesting
  <2>7. \A p \in Procs : pc'[p] \in Requesting \ {"close_claim"} => life'.started
    BY Zenon DEF AskInv, Onward
  <2>8. completion'["close"] = None => \E p \in Graceful : Written(p)'
    BY Zenon DEF AskInv, Aloof
  <2>q. QED
    BY <2>3, <2>4, <2>5, <2>6, <2>7, <2>8, Zenon DEF AskInv
(* Only closeGracefully moves a goroutine within it.                       *)
<1>RequestersStay.
    ASSUME ControlInv, ControlInv', [Next]_vars, NEW q \in Procs, pc'[q] \in Requesting
    PROVE  q \in Graceful /\ (pc'[q] = pc[q] \/ closeGracefully(q))
  <2> USE <1>RequestersStay
  <2>0. q \in Graceful
    <3>1. pc'[q] \in Points(q)
      BY Zenon DEF ControlInv, PcInv
    <3>2. Points(q) \cap Requesting # {}
      BY <3>1, Zenon
    <3>3. q \in Closers \/ q = "watcher" \/ q = "maintenance"
      <4>1. q \in Producers \/ q \in Closers
            \/ q \in {"reader", "writer", "maintenance", "handler", "starter", "aborter", "watcher",
                      "waiter", "callback"}
        BY Zenon DEF Procs, Loops
      <4>q. QED
        BY <3>2, <4>1, PointsAre DEF Requesting, Shut
    <3>q. QED
      BY <3>3, Zenon DEF Graceful
  <2>1. q \notin Producers \cup {"reader", "writer", "handler", "starter", "aborter", "waiter", "callback"}
    BY <2>0, GracefulAre, Zenon
  <2>2. CASE StillNext
    BY <2>0, <2>2, OnlyMoves, Zenon
  <2>3. CASE WriterNext \/ ReaderNext \/ Join
    BY <2>0, <2>1, <2>3, OnlyMoves, Zenon DEF Only
  <2>4. CASE HandlerNext
    BY <2>0, <2>1, <2>4, OnlyMoves, Zenon
  <2>5. CASE OtherNext
    <3>1. PICK p \in Graceful \cup {"aborter"} : Only(p) /\ pc'[p] \in {"close", "shutdown", "exited"}
      BY <2>5, OnlyMoves, Zenon
    <3>2. p # q
      BY <3>1, Zenon DEF Requesting
    <3>q. QED
      BY <2>0, <3>1, <3>2, Zenon DEF Only
  <2>6. CASE Start
    <3>1. pc = [p \in Procs |-> pc[p]]
      BY Zenon DEF ControlInv, PcInv
    <3>2. CASE pc' = [pc EXCEPT !["starter"] = "exited", !["reader"] = "read",
                              !["writer"] = "poll", !["handler"] = "poll",
                              !["maintenance"] = "select",
                              !["watcher"] = "watch", !["waiter"] = "wait"]
      BY <2>0, <2>1, <3>1, <3>2, Zenon DEF Requesting
    <3>3. CASE \E b : Goto("starter", b)
      BY <2>0, <2>1, <3>1, <3>3, Zenon DEF Goto
    <3>q. QED
      BY <2>6, <3>2, <3>3, Zenon DEF Start, CallShutdown
  <2>7. ASSUME NEW p \in Procs, Shutdown(p) \/ CloseDone(p) PROVE pc'[q] = pc[q]
    <3>1. CASE p # q
      BY <2>7, <3>1, OnlyMoves, Zenon DEF Only
    <3>2. CASE p = q
      <4>0. pc = [r \in Procs |-> pc[r]]
        BY Zenon DEF ControlInv, PcInv
      <4>1. CASE CloseDone(p)
        BY <3>2, <4>0, <4>1, Zenon DEF CloseDone, Goto, Requesting
      <4>2. CASE Shutdown(p)
        <5>1. pc[p] \in Shut
          BY <4>2, Zenon DEF Shut, Shutdown, ShutdownEnter, ShutdownLock, ShutdownDispose, ShutdownRelease
        <5>2. call[p].then \in {"close_done", "close_return", "exited"}
          <6>1. call[p].then \in Thens(p)
            BY <5>1, Zenon DEF ControlInv, PcInv
          <6>2. p \in Closers \/ p = "watcher" \/ p = "maintenance"
            BY <2>0, <3>2, GracefulAre, Zenon
          <6>q. QED
            BY <6>1, <6>2, ThensAre
        <5>3. UNCHANGED pc \/ \E b \in Shut \cup {"close_done", "close_return", "exited"} : Goto(p, b)
          BY <4>2, <5>2, Zenon DEF Shut, Shutdown, ShutdownEnter, ShutdownLock, ShutdownDispose,
                            ShutdownRelease, ReturnShutdown
        <5>q. QED
          BY <3>2, <4>0, <5>3, Zenon DEF Goto, Requesting, Shut
      <4>q. QED
        BY <2>7, <4>1, <4>2, Zenon
    <3>q. QED
      BY <3>1, <3>2, Zenon
  <2>8. ASSUME NEW p \in Graceful, closeGracefully(p) PROVE pc'[q] = pc[q] \/ closeGracefully(q)
    BY <2>8, OnlyMoves, Zenon DEF Only
  <2>9. ASSUME NEW p \in Producers, SendEnter(p) \/ SendCapacity(p) \/ SendAwait(p)
        PROVE  pc'[q] = pc[q]
    BY <2>1, <2>9, OnlyMoves, Zenon DEF Only
  <2>q. QED
    BY <2>0, <2>2, <2>3, <2>4, <2>5, <2>6, <2>7, <2>8, <2>9, StepsAre, Zenon
(* The goroutine that closes goes on within closeGracefully.               *)
<1>AskHop. ASSUME AskInv, NEW p \in Procs, Only(p), pc[p] \in Requesting \/ life.closeOnce = "free",
                  life'.closeOnce # "free", pc'[p] \in Requesting, p \in Graceful,
                  pc'[p] # "close_wait" => NoRequest', pc'[p] = "close_wait" => RequestOf(p)',
                  pc'[p] # "close_claim" => life'.started,
                  UNCHANGED <<writing, completion, history>>
           PROVE  AskInv'
  <2> USE <1>AskHop
  <2>1. ASSUME NEW q \in Procs, pc'[q] \in Requesting PROVE q = p
    BY <2>1, Zenon DEF AskInv, Only
  <2>2. completion'["close"] = None => \E q \in Graceful : Written(q)'
    BY Zenon DEF AskInv, Written
  <2>3. \A q \in Procs : pc'[q] \in Requesting \ {"close_wait"} => NoRequest'
    BY <2>1, Zenon
  <2>4. ASSUME NEW q \in Procs, pc'[q] = "close_wait" PROVE RequestOf(q)'
    BY <2>1, <2>4, Zenon DEF Requesting
  <2>5. \A q \in Procs : pc'[q] \in Requesting \ {"close_claim"} => life'.started
    BY <2>1, Zenon
  <2>6. \A q, r \in Procs : pc'[q] \in Requesting /\ pc'[r] \in Requesting => q = r
    BY <2>1, Zenon
  <2>q. QED
    BY <2>2, <2>3, <2>4, <2>5, <2>6, Zenon DEF AskInv
(* A step of closeGracefully.                                              *)
<1>AskClose. ASSUME ControlInv, DataInv, AskInv, [Next]_vars, NEW p \in Graceful, closeGracefully(p)
             PROVE  AskInv'
  <2> USE <1>AskClose
  <2>0. /\ p \in Procs /\ Only(p) /\ Onward /\ queue \in QueueType /\ life \in LifeType
        /\ pc = [q \in Procs |-> pc[q]]
    BY GracefulAre, OnlyMoves, OnwardIs, Zenon DEF DataInv, DataType, ControlInv, PcInv
  <2>1. UNCHANGED <<writing, completion, history>>
    BY Zenon DEF closeGracefully, CloseEnter, CloseClaim, CloseLease, CloseRequest, CloseWait, CloseReturn
  <2>a. ASSUME queue'.close = queue.close, pc'[p] \notin Requesting PROVE AskInv'
    <3>1. Aloof
      BY <2>1, <2>a, Zenon DEF Aloof, Written
    <3>2. \A q \in Procs : pc'[q] \in Requesting => pc'[q] = pc[q]
      BY <2>0, <2>a, Zenon DEF Only
    <3>q. QED
      BY <2>0, <3>1, <3>2, <1>AloofAsk, Zenon
  <2>n. ASSUME NoRequest, queue'.close = queue.close PROVE NoRequest'
    BY <2>1, <2>n, Zenon DEF NoRequest, Written
  <2>g. ASSUME NEW b, Goto(p, b) PROVE pc'[p] = b
    BY <2>0, <2>g, Zenon DEF Goto
  <2>f. pc[p] \in Requesting => life.closeOnce # "free"
    BY <2>0, Zenon DEF AskInv
  <2>c. ASSUME NEW d, CallShutdown(life, p, CloseCause(p), d), queue'.close = queue.close
        PROVE  AskInv'
    BY <2>a, <2>c, <2>g, Zenon DEF CallShutdown, Requesting
  <2>u. Unlease(p) \in QueueType /\ Unlease(p).close = queue.close
    BY <2>0, QueueParts, Zenon
  <2>2. CASE CloseEnter(p)
    <3>1. CASE life.closeOnce = "free" /\ Goto(p, "close_claim")
               /\ life' = [recordTerminal(life, CloseCause(p)) EXCEPT
                            !.closeOnce = "busy", !.closing = TRUE]
      <4>1. pc'[p] = "close_claim"
        BY <2>g, <3>1, Zenon
      <4>2. PICK l : l = recordTerminal(life, CloseCause(p))
        BY Zenon
      <4>3. l \in LifeType
        BY <2>0, <4>2, CloseCauseIs, Zenon DEF recordTerminal, LifeType
      <4>4. life'.closeOnce = "busy"
        BY <3>1, <4>2, <4>3, Zenon DEF LifeType
      <4>5. queue' = queue
        BY <2>2, Zenon DEF CloseEnter
      <4>6. NoRequest'
        BY <2>n, <3>1, <4>5, Zenon DEF AskInv
      <4>q. QED
        BY <2>0, <2>1, <3>1, <4>1, <4>4, <4>6, <1>AskHop, Zenon DEF Requesting
    <3>2. CASE Goto(p, "exited")
      BY <2>2, <2>a, <2>g, <3>2, Zenon DEF CloseEnter, Requesting
    <3>q. QED
      BY <2>2, <3>1, <3>2, Zenon DEF CloseEnter
  <2>3. CASE CloseClaim(p)
    <3>0. queue' = queue /\ pc[p] = "close_claim"
      BY <2>3, Zenon DEF CloseClaim
    <3>1. CASE life.started /\ Goto(p, "close_lease") /\ UNCHANGED life
      <4>1. pc'[p] = "close_lease" /\ pc[p] \in Requesting
        BY <2>g, <3>0, <3>1, Zenon DEF Requesting
      <4>2. NoRequest
        BY <2>0, <3>0, Zenon DEF AskInv, Requesting
      <4>q. QED
        BY <2>0, <2>1, <2>f, <2>n, <3>0, <3>1, <4>1, <4>2, <1>AskHop, Zenon DEF Requesting
    <3>2. CASE \E l, e, d : CallShutdown(l, p, e, d)
      BY <2>a, <2>g, <3>0, <3>2, Zenon DEF CallShutdown, Requesting
    <3>3. CASE Goto(p, "close_return")
      BY <2>a, <2>g, <3>0, <3>3, Zenon DEF Requesting
    <3>q. QED
      BY <2>3, <3>1, <3>2, <3>3, Zenon DEF CloseClaim
  <2>4. CASE CloseLease(p)
    <3>1. CASE Lease(p) /\ Goto(p, "close_request")
      <4>0. UNCHANGED life /\ pc[p] = "close_lease"
        BY <2>4, Zenon DEF CloseLease
      <4>1. pc'[p] = "close_request" /\ pc[p] \in Requesting /\ queue'.close = queue.close
        BY <2>0, <2>g, <3>1, <4>0, Zenon DEF Requesting, Lease, QueueType
      <4>2. NoRequest /\ life.started
        BY <2>0, <4>0, Zenon DEF AskInv, Requesting
      <4>q. QED
        BY <2>0, <2>1, <2>f, <2>n, <4>0, <4>1, <4>2, <1>AskHop, Zenon DEF Requesting
    <3>2. CASE Goto(p, "close_return") /\ UNCHANGED queue
      BY <2>a, <2>g, <3>2, Zenon DEF Requesting
    <3>q. QED
      BY <2>4, <3>1, <3>2, Zenon DEF CloseLease
  <2>5. CASE CloseRequest(p)
    <3>1. CASE Goto(p, "close_wait") /\ queue' = [Unlease(p) EXCEPT !.close = <<p>>] /\ UNCHANGED life
      <4>0. pc[p] = "close_request"
        BY <2>5, Zenon DEF CloseRequest
      <4>1. pc'[p] = "close_wait" /\ pc[p] \in Requesting
        BY <2>g, <3>1, <4>0, Zenon DEF Requesting
      <4>2. PICK u : u = Unlease(p)
        BY Zenon
      <4>3. queue'.close = <<p>>
        BY <2>u, <3>1, <4>2, Zenon DEF QueueType
      <4>4. NoRequest /\ life.started
        BY <2>0, <4>0, Zenon DEF AskInv, Requesting
      <4>5. RequestOf(p)'
        BY <2>1, <4>3, <4>4, Zenon DEF RequestOf, NoRequest, Written
      <4>q. QED
        BY <2>0, <2>1, <2>f, <3>1, <4>1, <4>4, <4>5, <1>AskHop, Zenon DEF Requesting
    <3>2. CASE (CloseCancelled(p) \/ CloseTimer(p)) /\ queue' = Unlease(p)
      BY <2>c, <2>u, <3>2, Zenon DEF CloseCancelled, CloseTimer
    <3>q. QED
      BY <2>5, <3>1, <3>2, Zenon DEF CloseRequest
  <2>6. CASE CloseWait(p)
    BY <2>6, <2>c, Zenon DEF CloseWait, CloseCancelled, CloseTimer
  <2>7. CASE CloseReturn(p)
    BY <2>7, <2>a, <2>g, Zenon DEF CloseReturn, Requesting
  <2>q. QED
    BY <2>2, <2>3, <2>4, <2>5, <2>6, <2>7, Zenon DEF closeGracefully
(* A request that was made is moved or answered.                           *)
<1>AskBusy.
    ASSUME AskInv, Onward, Stays, ~NoRequest, \A p \in Procs : RequestOf(p) => RequestOf(p)',
           completion'["close"] = None => \E p \in Graceful : Written(p)'
    PROVE  AskInv'
  <2> USE <1>AskBusy
  <2>1. life'.closeOnce # "free"
    BY Zenon DEF AskInv, Onward
  <2>2. \A p \in Procs : pc'[p] \notin Requesting \ {"close_wait"}
    BY Zenon DEF AskInv, Stays
  <2>3. ASSUME NEW p \in Procs, pc'[p] = "close_wait" PROVE RequestOf(p)'
    BY <2>3, Zenon DEF AskInv, Stays, Requesting
  <2>4. \A p \in Procs : pc'[p] \in Requesting \ {"close_claim"} => life'.started
    BY Zenon DEF AskInv, Onward, Stays
  <2>5. \A p, q \in Procs : pc'[p] \in Requesting /\ pc'[q] \in Requesting => p = q
    BY Zenon DEF AskInv, Stays
  <2>q. QED
    BY <2>1, <2>2, <2>3, <2>4, <2>5 DEF AskInv
(* A step that has nothing to do with a close request, with Aloof.         *)
<1>AloofStays. ASSUME AskInv, Onward, Aloof, Stays PROVE AskInv'
  BY <1>AloofStays, <1>AloofAsk, Zenon DEF Stays
(* failPending.                                                            *)
<1>AskFail. ASSUME ControlInv, DataType, AskInv, Onward, Stays, Cancelled, failPending,
                   UNCHANGED <<writing, history>>
            PROVE  AskInv'
  <2> USE <1>AskFail
  <2>0. \A x : Written(x)' <=> Written(x)
    BY Zenon DEF Written
  <2>1. CASE completion' = completion /\ queue'.close = queue.close
    <3>1. Aloof
      BY <2>0, <2>1, Zenon DEF Aloof
    <3>q. QED
      BY <3>1, <1>AloofStays, Zenon
  <2>2. CASE /\ queue.outbound # <<>> /\ queue'.close = queue.close
             /\ completion' = Completed(Head(queue.outbound), life.cancelled)
    <3>1. PICK h : h = Head(queue.outbound)
      BY Zenon
    <3>2. h \in Producers
      BY <2>2, <3>1 DEF DataType, QueueType
    <3>3. h # "close"
      BY <3>2, Names, Zenon
    <3>4. completion'["close"] = completion["close"]
      BY <2>2, <3>1, <3>2, <3>3, Zenon DEF Completed, DataType
    <3>5. Aloof
      BY <2>0, <2>2, <3>4, Zenon DEF Aloof
    <3>q. QED
      BY <3>5, <1>AloofStays, Zenon
  <2>3. CASE /\ queue.close # <<>> /\ queue'.close = <<>>
             /\ completion' = Completed("close", life.cancelled)
    <3>1. ~NoRequest
      BY <2>3, Zenon DEF NoRequest
    <3>2. ASSUME NEW p \in Procs, RequestOf(p) PROVE RequestOf(p)'
      BY <2>0, <2>3, <3>2, Zenon DEF RequestOf
    <3>3. completion'["close"] # None
      BY <2>3, Zenon DEF Completed, DataType, Cancelled
    <3>q. QED
      BY <3>1, <3>2, <3>3, <1>AskBusy, Zenon
  <2>q. QED
    BY <2>1, <2>2, <2>3, FailPendingIs, Zenon
(* The writer takes a request.                                             *)
<1>AskTake. ASSUME DataType, AskInv, Onward, Stays, Takes, writing = "nothing",
                   UNCHANGED <<completion, history>>
            PROVE  AskInv'
  <2> USE <1>AskTake
  <2>0. \A x : Written(x)' <=> Written(x)
    BY Zenon DEF Written
  <2>1. writing \notin Graceful /\ "control" \notin Graceful
    BY GracefulAre, Zenon
  <2>2. CASE queue'.close = queue.close /\ writing' \notin Graceful
    <3>1. Aloof
      BY <2>0, <2>1, <2>2, Zenon DEF Aloof
    <3>q. QED
      BY <3>1, <1>AloofStays, Zenon
  <2>3. CASE /\ queue.close # <<>> /\ writing' \in Graceful /\ queue.close = <<writing'>>
             /\ queue'.close = <<>>
    <3>1. ~NoRequest
      BY <2>3, Zenon DEF NoRequest
    <3>2. ASSUME NEW p \in Procs, RequestOf(p) PROVE RequestOf(p)'
      <4>1. PICK w : w = writing'
        BY Zenon
      <4>2. <<w>> = <<p>>
        BY <2>3, <3>2, <4>1, Zenon DEF RequestOf
      <4>3. w = p
        BY <4>2, Zenon
      <4>q. QED
        BY <2>0, <2>3, <3>2, <4>1, <4>3, Zenon DEF RequestOf
    <3>3. completion'["close"] = None => \E p \in Graceful : Written(p)'
      BY <2>0, Zenon DEF AskInv
    <3>q. QED
      BY <3>1, <3>2, <3>3, <1>AskBusy, Zenon
  <2>4. \A p \in Producers : p \notin Graceful
    BY Names, Zenon
  <2>q. QED
    BY <2>1, <2>2, <2>3, <2>4, TakesAre, Zenon
(* The writer answers a request.                                           *)
<1>AskResult. ASSUME ControlInv, DataInv, AskInv, Onward, Stays, NEW e \in {None, "context", "io"},
                     WriteResult(e), queue' = queue, pc["writer"] \in Writing,
                     \/ e # None /\ history' = history
                     \/ history' = Recorded
              PROVE  AskInv'
  <2> USE <1>AskResult
  <2>0. /\ history \in HistoryType
        /\ writing \in Items
    BY Zenon DEF DataInv, DataType
  <2>w. PICK w : w = writing
    BY Zenon
  <2>1. /\ \A x : Written(x)' => Written(x) \/ x = w
        /\ \A x : Written(x) => Written(x)'
        /\ e = None => Written(w)'
    <3>1. CASE e # None /\ history' = history
      BY <3>1, Zenon DEF Written
    <3>2. CASE history' = Recorded
      <4>1. PICK t, s : t = Append(s, w) /\ s = history.written
        BY Zenon
      <4>2. s \in Seq(Items) /\ w \in Items
        BY <2>0, <2>w, <4>1, Zenon DEF HistoryType
      <4>3. history'.written = t
        BY <2>0, <2>w, <3>2, <4>1, RecordedIs, Zenon DEF DataInv
      <4>4. \A x : Contains(t, x) <=> x = w \/ Contains(s, x)
        BY <4>1, <4>2, AppendOf
      <4>5. \A x : Written(x)' <=> x = w \/ Written(x)
        BY <4>1, <4>3, <4>4, Zenon DEF Written
      <4>q. QED
        BY <4>5, Zenon
    <3>q. QED
      BY <3>1, <3>2, Zenon
  <2>2. writing' = "nothing" /\ writing' \notin Graceful
    BY WriteResultIs, GracefulAre, Zenon DEF DataInv
  <2>3. CASE w \notin Graceful
    <3>1. completion'["close"] = completion["close"]
      BY <2>w, <2>3, WriteResultIs, Zenon DEF DataInv
    <3>2. Aloof
      BY <2>1, <2>2, <2>3, <2>w, <3>1, Zenon DEF Aloof
    <3>q. QED
      BY <3>2, <1>AloofStays, Zenon
  <2>4. CASE w \in Graceful
    <3>1. ~NoRequest
      BY <2>4, <2>w, Zenon DEF NoRequest
    <3>2. completion'["close"] = e
      BY <2>w, <2>4, WriteResultIs, Zenon DEF DataInv
    <3>3. ASSUME NEW p \in Procs, RequestOf(p) PROVE RequestOf(p)'
      BY <2>1, <2>2, <2>4, <2>w, <3>3, Zenon DEF RequestOf
    <3>4. completion'["close"] = None => \E p \in Graceful : Written(p)'
      BY <2>1, <2>4, <3>2, Zenon
    <3>q. QED
      BY <3>1, <3>3, <3>4, <1>AskBusy, Zenon
  <2>q. QED
    BY <2>3, <2>4, Zenon
(* A writer's step.                                                        *)
<1>AskWriter. ASSUME ControlInv, DataInv, AskInv, Onward, Stays, WriterNext
              PROVE  AskInv'
  <2> USE <1>AskWriter
  <2>0. DataType
    BY Zenon DEF DataInv
  <2>1. CASE Takes /\ pc["writer"] \in {"poll", "select"} /\ UNCHANGED <<completion, history>>
    <3>1. writing = "nothing"
      BY <2>1, Zenon DEF DataInv, Writing
    <3>q. QED
      BY <2>0, <2>1, <3>1, <1>AskTake, Zenon
  <2>2. CASE UNCHANGED <<queue, writing, completion, history>>
    <3>1. Aloof
      BY <2>2, Zenon DEF Aloof, Written
    <3>q. QED
      BY <3>1, <1>AloofStays, Zenon
  <2>3. CASE /\ pc["writer"] = "write" /\ WriteResult(None) /\ UNCHANGED queue
             /\ history' = Recorded
    <3>1. pc["writer"] \in Writing
      BY <2>3, Zenon DEF Writing
    <3>q. QED
      BY <2>3, <3>1, <1>AskResult, Zenon
  <2>4. ASSUME pc["writer"] \in Writing, UNCHANGED <<queue, history>>,
               NEW e \in {"context", "io"}, WriteResult(e)
        PROVE  AskInv'
    <3>1. e # None
      BY Zenon DEF None
    <3>q. QED
      BY <2>4, <3>1, <1>AskResult
  <2>5. CASE /\ pc["writer"] = "fail_pending" /\ failPending /\ UNCHANGED <<writing, history>>
    <3>1. Cancelled
      BY <2>5, Zenon DEF ControlInv, ShutdownInv
    <3>q. QED
      BY <2>0, <2>5, <3>1, <1>AskFail, Zenon
  <2>q. QED
    BY <2>1, <2>2, <2>3, <2>4, <2>5, WriterSteps, Zenon
(* A step of shutdown.                                                     *)
<1>AskShutdown. ASSUME ControlInv, DataType, AskInv, Onward, Stays, NEW p \in Procs, Shutdown(p)
                PROVE  AskInv'
  <2> USE <1>AskShutdown
  <2>1. UNCHANGED <<writing, history>> /\ queue \in QueueType
    BY Zenon DEF Shutdown, ShutdownEnter, ShutdownLock, ShutdownDispose, ShutdownRelease, DataType
  <2>2. CASE pc[p] = "dispose" /\ failPending
    <3>1. Cancelled
      BY <2>2, Zenon DEF ControlInv, ShutdownInv, Exclusive, Cancelled
    <3>q. QED
      BY <2>1, <2>2, <3>1, <1>AskFail, Zenon
  <2>3. CASE ~(pc[p] = "dispose" /\ failPending)
    <3>1. UNCHANGED completion /\ queue'.close = queue.close
      BY <2>1, <2>3, Zenon DEF Shutdown, ShutdownEnter, ShutdownLock, ShutdownDispose, ShutdownRelease,
                        QueueType
    <3>2. Aloof
      BY <2>1, <3>1, Zenon DEF Aloof, Written
    <3>q. QED
      BY <3>2, <1>AloofStays, Zenon
  <2>q. QED
    BY <2>2, <2>3, Zenon
(* The other steps have nothing to do with a close request.                *)
<1>AloofIs. ASSUME ControlInv, DataType,
                   \/ StillNext \/ Start \/ Join \/ OtherNext \/ ReaderNext \/ HandlerNext
                   \/ \E p \in Procs : CloseDone(p)
                   \/ \E p \in Producers : SendEnter(p) \/ SendCapacity(p) \/ SendAwait(p)
            PROVE  Aloof
  <2> USE <1>AloofIs
  <2>0. queue \in QueueType /\ "reader" \in Procs
    BY Names, Zenon DEF DataType
  <2>a. ASSUME queue'.close = queue.close, UNCHANGED <<writing, completion>>,
               history'.written = history.written
        PROVE  Aloof
    BY <2>a, Zenon DEF Aloof, Written
  <2>1. CASE StillNext
    <3>1. queue'.close = queue.close /\ UNCHANGED <<writing, completion, history>>
      BY <2>0, <2>1, Zenon DEF StillNext, StartCancel, Ping, Finished, vars, CallerCancel, QueueType
    <3>q. QED
      BY <2>a, <3>1, Zenon
  <2>2. CASE Start \/ Join \/ OtherNext
    BY <2>2, <2>a, Zenon DEF Start, Join, OtherNext, MaintenanceExit, IdleTimeout, KeepaliveTimeout,
                      Watch, Abort, CloseCall
  <2>3. CASE ReaderNext
    <3>1. UNCHANGED <<writing, completion, history>>
      BY <2>3, Zenon DEF ReaderNext, ReaderStep, ReadInterrupted, PongEnter, PongCapacity, Dispatch,
                  ReadFails, Read
    <3>2. CASE PongCapacity
      <4>1. PICK u : u = Unlease("reader")
        BY Zenon
      <4>2. u \in QueueType /\ u.close = queue.close
        BY <2>0, <4>1, QueueParts, Zenon
      <4>3. queue' = u \/ queue' = [u EXCEPT !.control = @ + 1]
        BY <3>2, <4>1, Zenon DEF PongCapacity
      <4>4. queue'.close = queue.close
        BY <4>2, <4>3, Zenon DEF QueueType
      <4>q. QED
        BY <2>a, <3>1, <4>4, Zenon
    <3>3. CASE ~PongCapacity
      <4>1. queue'.close = queue.close
        BY <2>0, <2>3, <3>3, Zenon DEF ReaderNext, ReaderStep, ReadInterrupted, PongEnter, Dispatch,
                                ReadFails, Read, Lease, QueueType
      <4>q. QED
        BY <2>a, <3>1, <4>1, Zenon
    <3>q. QED
      BY <3>2, <3>3, Zenon
  <2>4. CASE HandlerNext
    <3>1. queue'.close = queue.close /\ UNCHANGED <<writing, completion, history>>
      BY <2>0, <2>4, Zenon DEF HandlerNext, HandlerStep, HandlerTake, HandlerLoop, HandlerResult,
                        CallbackBegin, CallbackReturn, QueueType
    <3>q. QED
      BY <2>a, <3>1, Zenon
  <2>5. ASSUME NEW p \in Procs, CloseDone(p) PROVE Aloof
    BY <2>5, <2>a, Zenon DEF CloseDone
  <2>6. ASSUME NEW p \in Producers, SendEnter(p) \/ SendCapacity(p) \/ SendAwait(p) PROVE Aloof
    <3>0. p \in Procs /\ UNCHANGED <<writing, completion>>
      BY <2>6, Names, Zenon DEF SendEnter, SendCapacity, SendAwait
    <3>1. CASE Accept(p)
      BY <2>a, <3>0, <3>1, AcceptIs, Zenon
    <3>2. CASE \E r : Refuse(p, r)
      BY <2>0, <2>a, <3>0, <3>2, QueueParts, Zenon DEF Refuse
    <3>3. CASE Lease(p) /\ UNCHANGED history
      BY <2>0, <2>a, <3>0, <3>3, Zenon DEF Lease, QueueType
    <3>q. QED
      BY <2>6, <2>a, <3>1, <3>2, <3>3, Zenon DEF SendEnter, SendCapacity, SendAwait
  <2>q. QED
    BY <2>1, <2>2, <2>3, <2>4, <2>5, <2>6, Zenon
(* The step as a whole.                                                   *)
<1>step. ASSUME ControlInv, ControlInv', DataInv, AskInv, [Next]_vars
         PROVE  AskInv'
  <2> USE <1>step
  <2>0. Onward /\ DataType
    BY OnwardIs, Zenon DEF DataInv
  <2>1. ASSUME NEW p \in Graceful, closeGracefully(p) PROVE AskInv'
    BY <2>1, <1>AskClose, Zenon
  <2>2. CASE \A p \in Graceful : ~closeGracefully(p)
    <3>1. Stays
      BY <2>2, <1>RequestersStay, Zenon DEF Stays
    <3>2. CASE Aloof
      BY <2>0, <3>1, <3>2, <1>AloofStays, Zenon
    <3>q. QED
      BY <2>0, <2>2, <3>1, <3>2, StepsAre, <1>AloofIs, <1>AskWriter, <1>AskShutdown, Zenon
  <2>q. QED
    BY <2>1, <2>2, Zenon
<1>q. QED
  BY <1>step, Zenon

(* At first nobody has called Close.                                       *)
LEMMA InitClose == ASSUME Init PROVE CloseInv
<1>1. /\ life.closeOnce = "free" /\ queue.close = <<>> /\ writing = "nothing"
      /\ completion["close"] = "empty" /\ history.written = <<>>
      /\ \A c \in Closers : result[c] = "none"
  BY Zenon DEF Init
<1>2. writing \notin Graceful /\ \A q : ~Written(q)
  BY <1>1, GracefulAre DEF Written, Contains
<1>3. \A p \in Procs : pc[p] \notin Requesting
  <2>1. PICK s \in Scenarios :
          pc = [q \in Procs |-> IF q \in s.callers \cup {"starter", "aborter"} THEN "idle"
                                ELSE IF q \in Producers \cup Closers THEN "exited" ELSE "new"]
    BY DEF Init
  <2>q. QED
    BY <2>1, Zenon DEF Requesting
<1>4. AskInv
  BY <1>1, <1>2, <1>3, Zenon DEF AskInv, NoRequest, Requesting, None
<1>5. ToldInv
  BY <1>1, Zenon DEF ToldInv, None
<1>q. QED
  BY <1>4, <1>5, Zenon DEF CloseInv

(* In every reachable state a close request is one goroutine's, and what   *)
(* Close returned is so.                                                   *)
THEOREM CloseInductive == Spec => []CloseInv
<1>1. Init => CloseInv
  BY InitClose, Zenon
<1>2. ControlInv /\ ControlInv' /\ DataInv /\ CloseInv /\ [Next]_vars => CloseInv'
  BY NextAsk, NextTold, Zenon DEF CloseInv
<1>q. QED
  BY <1>1, <1>2, ControlInductive, DataInductive, PTL DEF Spec

(* CloseHonest: a Close that did the closing of a started connection       *)
(* returns nil only when its SessionClose was written.                     *)
THEOREM ClosesHonestly == Spec => []CloseHonest
<1>1. CloseInv => CloseHonest
  BY Zenon DEF CloseInv, ToldInv, CloseHonest, Written
<1>q. QED
  BY <1>1, CloseInductive, PTL

-----------------------------------------------------------------------------
(* The order of the messages.                                              *)

(* Every step keeps the messages in order.                                 *)
LEMMA NextOrder ==
  ControlInv /\ DataInv /\ OrderInv /\ [Next]_vars => OrderInv'
(* The messages sent can be counted.                                       *)
<1>CountIs. ASSUME DataType PROVE Count \in Nat /\ DOMAIN history.sent = 1 .. Count
  BY <1>CountIs DEF DataType, HistoryType, Count
(* A step that writes nothing and accepts nothing.                         *)
<1>OrderKept. ASSUME OrderInv, history' = history, pc'["writer"] \in Live => pc["writer"] \in Live,
                     pc'["writer"] \in Writing /\ (pc'["writer"] = "encrypt" => ~Cancelled')
                       /\ writing' \in Producers => Due',
                     pc'["writer"] \in Live /\ ~Cancelled' => InLine'
              PROVE  OrderInv'
  <2> USE <1>OrderKept
  <2>1. WrittenInOrder'
    BY Zenon DEF OrderInv, WrittenInOrder
  <2>2. pc'["writer"] \in Live =>
          \A i \in DOMAIN history'.written : history'.written[i] \notin Graceful
    BY Zenon DEF OrderInv
  <2>q. QED
    BY <2>1, <2>2, Zenon DEF OrderInv
(* A step apart from the messages.                                         *)
<1>OrderAside. ASSUME OrderInv, Aside, writing' = writing, history' = history,
                      Cancelled => Cancelled', ~Cancelled' => queue'.outbound = queue.outbound
               PROVE  OrderInv'
  <2> USE <1>OrderAside
  <2>1. Count' = Count /\ Held' = Held
    BY Zenon DEF Count, Held
  <2>2. /\ pc'["writer"] \in Live => pc["writer"] \in Live
        /\ pc'["writer"] \in Writing => pc'["writer"] = pc["writer"]
    BY Zenon DEF Aside, Live, Writing, Shut
  <2>3. Due => Due'
    BY <2>1, Zenon DEF Due
  <2>4. ~Cancelled' /\ InLine => InLine'
    BY <2>1, Zenon DEF InLine
  <2>q. QED
    BY <2>2, <2>3, <2>4, <1>OrderKept DEF OrderInv
(* A message is accepted: it joins the end of the line.                    *)
<1>OrderAccept. ASSUME DataType, OrderInv, NEW p \in Producers, Accept(p),
                       writing' = writing, pc'["writer"] = pc["writer"], life' = life
                PROVE  OrderInv'
  <2> USE <1>OrderAccept
  <2>1. PICK a, o, b, u : /\ a = history.accepted /\ o = queue.outbound
                          /\ b = Append(a, p) /\ u = Append(o, p)
    BY Zenon
  <2>2. a \in Seq(Producers) /\ o \in Seq(Producers)
    BY <2>1, Zenon DEF DataType, QueueType, HistoryType
  <2>3. /\ history'.accepted = b /\ queue'.outbound = u /\ history'.written = history.written
        /\ history'.sent = history.sent
    BY <2>1, AcceptIs, Zenon
  <2>4. /\ Len(a) \in Nat /\ DOMAIN a = 1 .. Len(a) /\ DOMAIN b = 1 .. Len(a) + 1
        /\ Len(b) = Len(a) + 1 /\ b[Len(a) + 1] = p /\ \A k \in 1 .. Len(a) : b[k] = a[k]
    BY <2>1, <2>2
  <2>5. /\ Len(o) \in Nat /\ DOMAIN o = 1 .. Len(o) /\ DOMAIN u = 1 .. Len(o) + 1
        /\ Len(u) = Len(o) + 1 /\ u[Len(o) + 1] = p /\ \A k \in 1 .. Len(o) : u[k] = o[k]
    BY <2>1, <2>2
  <2>6. Count' = Count /\ Held' = Held
    BY <2>3, Zenon DEF Count, Held
  <2>7. PICK c, h : c = Count /\ h = Held
    BY Zenon
  <2>8. c \in Nat /\ h \in {0, 1}
    BY <2>7, <1>CountIs, Zenon DEF Held
  <2>9. WrittenInOrder'
    <3>1. PICK m : m = history.sent
      BY Zenon
    <3>2. DOMAIN m = 1 .. c /\ Len(m) = c
      BY <2>7, <3>1, <1>CountIs, Zenon DEF Count
    <3>3. c <= Len(a) /\ \A k \in 1 .. c : m[k] = a[k]
      BY <2>1, <3>1, <3>2, Zenon DEF OrderInv, WrittenInOrder
    <3>4. c <= Len(b) /\ \A k \in 1 .. c : m[k] = b[k]
      BY <2>4, <2>8, <3>3
    <3>5. \A i \in DOMAIN history'.written :
            history'.written[i] \in Graceful => i = Len(history'.written)
      BY <2>3, Zenon DEF OrderInv, WrittenInOrder
    <3>6. history'.sent = m /\ history'.accepted = b
      BY <2>3, <3>1, Zenon
    <3>q. QED
      BY <3>2, <3>4, <3>5, <3>6, Zenon DEF WrittenInOrder
  <2>10. Due => Due'
    <3>1. ASSUME c + 1 \in DOMAIN a, a[c + 1] = writing PROVE c + 1 \in DOMAIN b /\ b[c + 1] = writing
      BY <2>4, <2>8, <3>1
    <3>q. QED
      BY <2>1, <2>3, <2>6, <2>7, <3>1, Zenon DEF Due
  <2>11. InLine => InLine'
    <3>1. ASSUME Len(a) = c + h + Len(o), \A k \in DOMAIN o : o[k] = a[c + h + k]
          PROVE  Len(b) = c + h + Len(u) /\ \A k \in DOMAIN u : u[k] = b[c + h + k]
      <4>1. Len(b) = c + h + Len(u)
        <5>1. Len(b) = Len(a) + 1 /\ Len(u) = Len(o) + 1 /\ Len(o) \in Nat /\ Len(a) = c + h + Len(o)
          BY <2>4, <2>5, <3>1, Zenon
        <5>2. h \in Nat /\ c \in Nat
          BY <2>8
        <5>q. QED
          BY <5>1, <5>2
      <4>2. ASSUME NEW k \in 1 .. Len(o) PROVE u[k] = b[c + h + k]
        <5>1. PICK j : j = c + h + k
          BY Zenon
        <5>2. j \in 1 .. Len(a)
          BY <2>5, <2>8, <3>1, <5>1
        <5>3. o[k] = a[j] /\ u[k] = o[k]
          BY <2>5, <3>1, <5>1, Zenon
        <5>q. QED
          BY <2>4, <5>1, <5>2, <5>3, Zenon
      <4>3. u[Len(o) + 1] = b[c + h + (Len(o) + 1)]
        <5>1. c + h + (Len(o) + 1) = Len(a) + 1
          BY <2>5, <2>8, <3>1
        <5>q. QED
          BY <2>4, <2>5, <5>1, Zenon
      <4>4. ASSUME NEW k \in DOMAIN u PROVE k \in 1 .. Len(o) \/ k = Len(o) + 1
        BY <2>5
      <4>q. QED
        BY <4>1, <4>2, <4>3, <4>4, Zenon
    <3>q. QED
      BY <2>1, <2>3, <2>6, <2>7, <3>1, Zenon DEF InLine
  <2>12. Cancelled' <=> Cancelled
    BY Zenon DEF Cancelled
  <2>q. QED
    BY <2>3, <2>9, <2>10, <2>11, <2>12, Zenon DEF OrderInv
(* The writer takes the first in line.                                     *)
<1>OrderTake.
    ASSUME DataType, OrderInv, Takes, writing = "nothing", pc["writer"] \in {"poll", "select"},
           pc'["writer"] = "encrypt", life' = life, history' = history
    PROVE  OrderInv'
  <2> USE <1>OrderTake
  <2>1. PICK a, o, c : a = history.accepted /\ o = queue.outbound /\ c = Count
    BY Zenon
  <2>2. a \in Seq(Producers) /\ o \in Seq(Producers) /\ c \in Nat /\ Count' = c
    BY <2>1, <1>CountIs, Zenon DEF DataType, QueueType, HistoryType, Count
  <2>3. Held = 0 /\ (Cancelled' <=> Cancelled) /\ pc["writer"] \in Live
    BY Names, Zenon DEF Held, Cancelled, Live
  <2>4. ~Cancelled => Len(a) = c + Len(o) /\ \A k \in DOMAIN o : o[k] = a[c + k]
    <3>1. ~Cancelled => Len(a) = c + 0 + Len(o) /\ \A k \in DOMAIN o : o[k] = a[c + 0 + k]
      BY <2>1, <2>3, Zenon DEF OrderInv, InLine
    <3>2. c + 0 = c
      BY <2>2
    <3>q. QED
      BY <3>1, <3>2, Zenon
  <2>5. CASE queue'.outbound = queue.outbound /\ writing' \notin Producers
    <3>1. Held' = 0 /\ c + 0 = c
      BY <2>2, <2>5 DEF Held
    <3>2. ~Cancelled => InLine'
      BY <2>1, <2>2, <2>4, <2>5, <3>1, Zenon DEF InLine
    <3>q. QED
      BY <2>3, <2>5, <3>2, <1>OrderKept, Zenon
  <2>6. CASE /\ queue.outbound # <<>> /\ writing' = Head(queue.outbound) /\ writing' \in Producers
             /\ queue'.outbound = Tail(queue.outbound)
    <3>1. PICK t, w : t = Tail(o) /\ w = Head(o)
      BY Zenon
    <3>2. /\ Len(o) \in Nat /\ Len(o) > 0 /\ DOMAIN o = 1 .. Len(o) /\ w = o[1]
          /\ Len(t) = Len(o) - 1 /\ DOMAIN t = 1 .. Len(o) - 1
          /\ \A k \in 1 .. Len(o) - 1 : t[k] = o[k + 1]
      BY <2>1, <2>2, <2>6, <3>1
    <3>3. Held' = 1 /\ queue'.outbound = t /\ writing' = w /\ history'.accepted = a
      BY <2>1, <2>6, <3>1, Zenon DEF Held
    <3>4. Len(a) \in Nat /\ DOMAIN a = 1 .. Len(a)
      BY <2>2
    <3>5. ASSUME ~Cancelled PROVE Due'
      <4>1. c + 1 \in DOMAIN a /\ a[c + 1] = w
        BY <2>2, <2>4, <3>2, <3>4, <3>5
      <4>q. QED
        BY <2>2, <3>3, <4>1, Zenon DEF Due
    <3>6. ASSUME ~Cancelled PROVE InLine'
      <4>1. Len(a) = c + 1 + Len(t)
        BY <2>2, <2>4, <3>2, <3>6
      <4>2. ASSUME NEW k \in DOMAIN t PROVE t[k] = a[c + 1 + k]
        <5>1. k + 1 \in DOMAIN o /\ t[k] = o[k + 1] /\ c + (k + 1) = c + 1 + k
          BY <2>2, <3>2
        <5>2. o[k + 1] = a[c + (k + 1)]
          BY <2>4, <3>6, <5>1, Zenon
        <5>q. QED
          BY <5>1, <5>2, Zenon
      <4>q. QED
        BY <2>2, <3>3, <4>1, <4>2, Zenon DEF InLine
    <3>q. QED
      BY <2>3, <3>5, <3>6, <1>OrderKept, Zenon
  <2>7. "control" \notin Producers /\ \A g \in Graceful : g \notin Producers
    BY Names, GracefulAre, Zenon
  <2>q. QED
    BY <2>5, <2>6, <2>7, TakesAre, Zenon
(* The writer writes a frame: a message was the next in line.              *)
<1>OrderDone. ASSUME ControlInv, DataInv, OrderInv, pc["writer"] = "write", WriteResult(None),
                     queue' = queue, history' = Recorded
              PROVE  OrderInv'
  <2> USE <1>OrderDone
  <2>0. /\ DataType /\ pc["writer"] \in Writing /\ pc["writer"] \in Live /\ writing \in Items
    BY Zenon DEF DataInv, DataType, Writing, Live
  <2>1. PICK w, a, s, t, n, c, m : /\ w = writing /\ a = history.accepted /\ s = history.written
                                   /\ t = Append(s, w) /\ n = Len(s) /\ c = Count
                                   /\ m = history.sent
    BY Zenon
  <2>2. /\ w \in Items /\ a \in Seq(Producers) /\ s \in Seq(Items) /\ c \in Nat
        /\ m \in Seq(Producers) /\ Len(m) = c
    BY <2>0, <2>1, <1>CountIs, Zenon DEF DataType, HistoryType, Count
  <2>4. /\ history'.written = t /\ history'.accepted = a
        /\ history'.sent = IF w \in Producers THEN Append(m, w) ELSE m
    BY <2>0, <2>1, RecordedIs
  <2>5. /\ n \in Nat /\ DOMAIN s = 1 .. n /\ Len(t) = n + 1 /\ DOMAIN t = 1 .. n + 1
        /\ t[n + 1] = w /\ \A i \in 1 .. n : t[i] = s[i]
    BY <2>1, <2>2
  <2>6. Count' = c + (IF w \in Producers THEN 1 ELSE 0)
    BY <2>2, <2>4 DEF Count
  <2>8. w \in Producers => c + 1 \in DOMAIN a /\ a[c + 1] = w
    BY <2>0, <2>1, Zenon DEF OrderInv, Due
  <2>9. \A i \in 1 .. n : s[i] \notin Graceful
    BY <2>0, <2>1, <2>5, Zenon DEF OrderInv
  <2>10. WrittenInOrder'
    <3>1. c <= Len(a) /\ \A k \in 1 .. c : m[k] = a[k]
      BY <2>1, <2>2 DEF OrderInv, WrittenInOrder
    <3>2. PICK u : u = history'.sent
      BY Zenon
    <3>3. ASSUME w \in Producers PROVE Len(u) <= Len(a) /\ \A k \in DOMAIN u : u[k] = a[k]
      <4>1. /\ Len(u) = c + 1 /\ DOMAIN u = 1 .. c + 1 /\ u[c + 1] = w
            /\ \A k \in 1 .. c : u[k] = m[k]
        BY <2>2, <2>4, <3>2, <3>3
      <4>2. c + 1 <= Len(a) /\ a[c + 1] = w
        BY <2>2, <2>8, <3>3
      <4>3. ASSUME NEW k \in 1 .. c + 1 PROVE u[k] = a[k]
        <5>1. k \in 1 .. c \/ k = c + 1
          BY <2>2
        <5>q. QED
          BY <3>1, <4>1, <4>2, <5>1, Zenon
      <4>q. QED
        BY <4>1, <4>2, <4>3, Zenon
    <3>4. ASSUME w \notin Producers PROVE Len(u) <= Len(a) /\ \A k \in DOMAIN u : u[k] = a[k]
      BY <2>2, <2>4, <3>1, <3>2, <3>4
    <3>5. Len(u) <= Len(a) /\ \A k \in DOMAIN u : u[k] = a[k]
      BY <3>3, <3>4, Zenon
    <3>6. ASSUME NEW i \in 1 .. n + 1 PROVE t[i] \in Graceful => i = n + 1
      <4>1. i \in 1 .. n \/ i = n + 1
        BY <2>5
      <4>q. QED
        BY <2>5, <2>9, <4>1, Zenon
    <3>7. DOMAIN history'.written = 1 .. n + 1 /\ Len(history'.written) = n + 1
      BY <2>4, <2>5, Zenon
    <3>q. QED
      BY <2>4, <3>2, <3>5, <3>6, <3>7, Zenon DEF WrittenInOrder
  <2>11. /\ writing' = "nothing" /\ "nothing" \notin Producers /\ life'.cancelled = life.cancelled
         /\ pc'["writer"] = IF w \in Graceful THEN "shutdown" ELSE "poll"
    BY <2>0, <2>1, WriteResultIs, Names, Zenon DEF Moved
  <2>12. CASE w \in Graceful
    <3>1. pc'["writer"] \notin Live /\ pc'["writer"] \notin Writing
      BY <2>11, <2>12, Zenon DEF Live, Writing
    <3>q. QED
      BY <2>10, <3>1, Zenon DEF OrderInv
  <2>13. CASE w \notin Graceful
    <3>1. \A i \in DOMAIN history'.written : history'.written[i] \notin Graceful
      <4>1. ASSUME NEW i \in 1 .. n + 1 PROVE t[i] \notin Graceful
        <5>1. i \in 1 .. n \/ i = n + 1
          BY <2>5
        <5>q. QED
          BY <2>5, <2>9, <2>13, <5>1, Zenon
      <4>q. QED
        BY <2>4, <2>5, <4>1, Zenon
    <3>2. Held' = 0 /\ Held = IF w \in Producers THEN 1 ELSE 0
      BY <2>1, <2>11, Zenon DEF Held
    <3>3. Count' + Held' = Count + Held
      BY <2>1, <2>2, <2>6, <3>2
    <3>4. InLine => InLine'
      <4>1. queue'.outbound = queue.outbound /\ history'.accepted = history.accepted
        BY <2>1, <2>4, Zenon
      <4>q. QED
        BY <3>3, <4>1, Zenon DEF InLine
    <3>5. (Cancelled' <=> Cancelled) /\ pc'["writer"] \notin Writing
      BY <2>11, <2>13, Zenon DEF Cancelled, Writing
    <3>q. QED
      BY <2>0, <2>10, <3>1, <3>4, <3>5, Zenon DEF OrderInv
  <2>q. QED
    BY <2>12, <2>13, Zenon
(* A write fails: nothing more is written.                                 *)
<1>OrderError. ASSUME ControlInv, DataInv, OrderInv, NEW e \in {"context", "io"}, WriteResult(e),
                      history' = history
               PROVE  OrderInv'
  <2> USE <1>OrderError
  <2>1. e # None /\ e \in {None, "context", "io"}
    BY Zenon DEF None
  <2>2. pc'["writer"] = "shutdown"
    BY <2>1, WriteResultIs, Zenon DEF Moved, DataInv
  <2>q. QED
    BY <2>2, <1>OrderKept, Zenon DEF Live, Writing
(* A writer's step.                                                        *)
<1>OrderWriter. ASSUME ControlInv, DataInv, OrderInv, WriterNext
                PROVE  OrderInv'
  <2> USE <1>OrderWriter
  <2>0. DataType /\ "writer" \in Procs /\ pc = [q \in Procs |-> pc[q]]
    BY Names, Zenon DEF DataInv, ControlInv, PcInv
  <2>g. ASSUME NEW b, Goto("writer", b) PROVE pc'["writer"] = b
    BY <2>0, <2>g, Zenon DEF Goto
  <2>s. ASSUME UNCHANGED <<life, queue, writing, history>>
        PROVE  /\ Cancelled' <=> Cancelled
               /\ Due => Due'
               /\ InLine => InLine'
    <3>1. Count' = Count /\ Held' = Held
      BY <2>s, Zenon DEF Count, Held
    <3>q. QED
      BY <2>s, <3>1, Zenon DEF Cancelled, Due, InLine
  <2>1. CASE /\ Takes /\ pc["writer"] \in {"poll", "select"} /\ Goto("writer", "encrypt")
             /\ UNCHANGED <<life, history>>
    <3>1. writing = "nothing"
      BY <2>1, Zenon DEF DataInv, Writing
    <3>q. QED
      BY <2>0, <2>1, <2>g, <3>1, <1>OrderTake, Zenon
  <2>2. CASE /\ pc["writer"] = "poll" /\ Goto("writer", "select")
             /\ UNCHANGED <<life, queue, writing, history>>
    <3>1. pc'["writer"] = "select" /\ pc["writer"] \in Live /\ "select" \notin Writing
      BY <2>2, <2>g, Zenon DEF Live, Writing
    <3>q. QED
      BY <2>2, <2>s, <3>1, <1>OrderKept, Zenon DEF OrderInv
  <2>3. CASE /\ \/ pc["writer"] = "encrypt" /\ ~Cancelled /\ Goto("writer", "write_rekey")
                \/ pc["writer"] = "encrypt" /\ ~Cancelled /\ Goto("writer", "write")
                \/ pc["writer"] = "write_rekey" /\ Goto("writer", "encrypt")
             /\ UNCHANGED <<life, queue, writing, history>>
    <3>1. pc["writer"] \in Live /\ pc["writer"] \in Writing /\ (pc["writer"] = "encrypt" => ~Cancelled)
      BY <2>3, Zenon DEF Live, Writing
    <3>q. QED
      BY <2>3, <2>s, <3>1, <1>OrderKept, Zenon DEF OrderInv
  <2>4. CASE /\ \/ Goto("writer", "fail_pending") \/ Goto("writer", "exited")
                \/ pc["writer"] = "fail_pending" /\ UNCHANGED pc
             /\ UNCHANGED history
    <3>1. pc'["writer"] \in {"fail_pending", "exited"}
      BY <2>4, <2>g, Zenon
    <3>q. QED
      BY <2>4, <3>1, <1>OrderKept, Zenon DEF Live, Writing
  <2>5. CASE /\ pc["writer"] = "write" /\ WriteResult(None) /\ UNCHANGED queue
             /\ history' = Recorded
    BY <2>5, <1>OrderDone, Zenon
  <2>6. ASSUME NEW e \in {"context", "io"}, WriteResult(e), UNCHANGED history PROVE OrderInv'
    BY <2>6, <1>OrderError, Zenon
  <2>q. QED
    BY <2>1, <2>2, <2>3, <2>4, <2>5, <2>6, WriterSteps, Zenon
(* The step as a whole.                                                   *)
<1>step. ASSUME ControlInv, DataInv, OrderInv, [Next]_vars
         PROVE  OrderInv'
  <2> USE <1>step
  <2>0. DataType /\ queue \in QueueType /\ (Cancelled => Cancelled')
    BY CancelledStays, Zenon DEF DataInv, DataType
  <2>a. ASSUME ~WriterNext, writing' = writing, history' = history,
               ~Cancelled' => queue'.outbound = queue.outbound
        PROVE  OrderInv'
    <3>1. Aside
      BY <2>a, WriterElsewhere, Zenon
    <3>q. QED
      BY <2>0, <2>a, <3>1, <1>OrderAside, Zenon
  <2>1. CASE WriterNext
    BY <2>1, <1>OrderWriter, Zenon
  <2>2. CASE ~WriterNext /\ Untouched
    BY <2>2, <2>a, Zenon DEF Untouched
  <2>3. ASSUME ~WriterNext, NEW p \in Procs, Shutdown(p) PROVE OrderInv'
    <3>1. UNCHANGED <<writing, history>>
      BY <2>3, Zenon DEF Shutdown, ShutdownEnter, ShutdownLock, ShutdownDispose, ShutdownRelease
    <3>2. CASE pc[p] = "dispose" /\ failPending
      <4>1. Cancelled
        BY <3>2, Zenon DEF ControlInv, ShutdownInv, Exclusive, Cancelled
      <4>q. QED
        BY <2>0, <2>3, <2>a, <3>1, <4>1, Zenon
    <3>3. CASE ~(pc[p] = "dispose" /\ failPending)
      <4>1. queue'.outbound = queue.outbound
        BY <2>0, <2>3, <3>3, Zenon DEF Shutdown, ShutdownEnter, ShutdownLock, ShutdownDispose,
                                ShutdownRelease, QueueType
      <4>q. QED
        BY <2>3, <2>a, <3>1, <4>1, Zenon
    <3>q. QED
      BY <3>2, <3>3, Zenon
  <2>4. ASSUME ~WriterNext, NEW p \in Producers, SendEnter(p) \/ SendCapacity(p) \/ SendAwait(p)
        PROVE  OrderInv'
    <3>0. p \in Procs /\ UNCHANGED <<writing, life>>
      BY <2>4, Names, Zenon DEF SendEnter, SendCapacity, SendAwait
    <3>1. CASE Accept(p)
      <4>1. pc'["writer"] = pc["writer"]
        BY <2>4, OnlyMoves, Names, Zenon DEF Only
      <4>q. QED
        BY <2>0, <3>0, <3>1, <4>1, <1>OrderAccept, Zenon
    <3>2. CASE \E r : Refuse(p, r)
      <4>1. queue'.outbound = queue.outbound /\ UNCHANGED history
        BY <2>0, <3>0, <3>2, QueueParts, ZenonT(30) DEF Refuse
      <4>q. QED
        BY <2>4, <2>a, <3>0, <4>1, Zenon
    <3>3. CASE Lease(p) /\ UNCHANGED history
      <4>1. queue'.outbound = queue.outbound
        BY <2>0, <3>3, Zenon DEF Lease, QueueType
      <4>q. QED
        BY <2>4, <2>a, <3>0, <3>3, <4>1, Zenon
    <3>4. CASE SendAwait(p)
      BY <2>4, <2>a, <3>0, <3>4, Zenon DEF SendAwait
    <3>q. QED
      BY <2>4, <3>1, <3>2, <3>3, <3>4, Zenon DEF SendEnter, SendCapacity
  <2>q. QED
    BY <2>0, <2>1, <2>2, <2>3, <2>4, StepsAre, UntouchedIs, Zenon
<1>q. QED
  BY <1>step, Zenon

(* At first nothing is accepted or written.                                *)
LEMMA InitOrder == ASSUME Init PROVE OrderInv
<1>1. /\ queue.outbound = <<>> /\ writing = "nothing" /\ history.accepted = <<>>
      /\ history.written = <<>> /\ history.sent = <<>>
  BY DEF Init
<1>2. DOMAIN history.written = {} /\ DOMAIN queue.outbound = {} /\ Len(history.sent) = 0
      /\ Len(history.accepted) = 0 /\ Len(queue.outbound) = 0 /\ DOMAIN history.sent = {}
  BY <1>1
<1>4. Count = 0 /\ Held = 0 /\ writing \notin Producers
  BY <1>1, <1>2, Names, Zenon DEF Count, Held
<1>5. InLine
  BY <1>2, <1>4 DEF InLine
<1>q. QED
  BY <1>2, <1>4, <1>5 DEF OrderInv, WrittenInOrder

(* In every reachable state the messages are in order.                     *)
THEOREM OrderInductive == Spec => []OrderInv
<1>1. Init => OrderInv
  BY InitOrder, Zenon
<1>2. ControlInv /\ DataInv /\ OrderInv /\ [Next]_vars => OrderInv'
  BY NextOrder, Zenon
<1>q. QED
  BY <1>1, <1>2, ControlInductive, DataInductive, PTL DEF Spec

(* WrittenInOrder: the k-th message written is the k-th accepted, and      *)
(* SessionClose is the last frame, in every reachable state.               *)
THEOREM WritesInOrder == Spec => []WrittenInOrder
<1>1. OrderInv => WrittenInOrder
  BY Zenon DEF OrderInv
<1>q. QED
  BY <1>1, OrderInductive, PTL

(* The whole invariant of the runtime.                                     *)
THEOREM ConnectionInductive == Spec => []ConnInv
<1>1. ControlInv /\ DataInv /\ LeaseInv /\ HandlerInv /\ PlaceInv /\ OrderInv /\ CloseInv => ConnInv
  BY Zenon DEF ConnInv
<1>q. QED
  BY <1>1, ControlInductive, DataInductive, LeaseInductive, HandlerInductive, PlaceInductive,
     OrderInductive, CloseInductive, PTL
=============================================================================
